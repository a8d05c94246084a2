--------------------------- MODULE PromisesProofs ---------------------------
(***************************************************************************)
(* What the jobs that write to the world promise: SocialOutbox, for any    *)
(* number of articles, networks and overlapping ticks, and any number of   *)
(* retries, deaths and lost answers; ReaderDigests, for any number of      *)
(* followers, any chain of categories, and any number of deliveries that   *)
(* overlap, are cut off or cannot write a row.                             *)
(***************************************************************************)
EXTENDS SocialOutbox, ReaderDigests, FiniteSetTheorems, WellFoundedInduction,
        SequenceTheorems, TLAPS

(* SocialOutbox. *)

LEMMA InitInv == Init => TypeOK /\ OneCaller
  BY OutboxAssumption
     DEF Init, TypeOK, OneCaller, PostRow, NoPost, PostStatus, Job, JobIdle,
         InFlight

-----------------------------------------------------------------------------
(* Types, one action at a time.                                            *)

LEMMA FindDueTypes ==
  ASSUME TypeOK, NEW t \in Tick, FindDue(t)
  PROVE  TypeOK'
  <1>1. job' \in [Tick -> Job]
    BY DEF TypeOK, FindDue, Job, JobIdle
  <1>2. \A u \in Tick : job'[u].pc \in {"call", "sent", "failed"} =>
          \E q \in job'[u].batch : job'[u].at = {q}
    BY DEF TypeOK, FindDue, JobIdle
  <1>. QED  BY <1>1, <1>2 DEF TypeOK, FindDue

LEMMA ClaimArticleTypes ==
  ASSUME TypeOK, NEW t \in Tick, NEW a \in Article, ClaimArticle(t, a)
  PROVE  TypeOK'
  <1>1. job' \in [Tick -> Job]
    <2>1. job[t] \in Job
      BY DEF TypeOK
    <2>2. WithoutArticle(job[t], a) \in Job
      BY <2>1 DEF WithoutArticle, Job, JobIdle
    <2>3. [job[t] EXCEPT !.pc = "rows", !.article = {a}] \in Job
      BY <2>1 DEF Job
    <2>. QED  BY <2>2, <2>3 DEF TypeOK, ClaimArticle
  <1>2. \A u \in Tick : job'[u].pc \in {"call", "sent", "failed"} =>
          \E q \in job'[u].batch : job'[u].at = {q}
    <2>1. job'[t].pc \in {"idle", "enqueue", "rows"}
      BY DEF TypeOK, ClaimArticle, WithoutArticle, JobIdle, Job
    <2>. QED  BY <2>1 DEF TypeOK, ClaimArticle
  <1>. QED  BY <1>1, <1>2 DEF TypeOK, ClaimArticle

LEMMA CreateRowsTypes ==
  ASSUME TypeOK, NEW t \in Tick, CreateRows(t)
  PROVE  TypeOK'
  <1>1. PICK a \in job[t].article :
          /\ post' = RowsAdded(a)
          /\ job' = [job EXCEPT ![t] = WithoutArticle(job[t], a)]
          /\ UNCHANGED <<live, claimed, ripe, meta, lost, deaths>>
    BY DEF CreateRows
  <1>2. post' \in [Post -> PostRow]
    <2>1. Queued \in PostRow
      BY OutboxAssumption DEF Queued, NoPost, PostRow, PostStatus
    <2>. QED  BY <1>1, <2>1 DEF RowsAdded, TypeOK
  <1>3. job' \in [Tick -> Job]
    <2>1. job[t] \in Job
      BY DEF TypeOK
    <2>2. WithoutArticle(job[t], a) \in Job
      BY <2>1 DEF WithoutArticle, Job, JobIdle
    <2>. QED  BY <1>1, <2>2 DEF TypeOK
  <1>4. \A u \in Tick : job'[u].pc \in {"call", "sent", "failed"} =>
          \E q \in job'[u].batch : job'[u].at = {q}
    <2>1. job'[t].pc \in {"idle", "enqueue"}
      BY <1>1 DEF TypeOK, WithoutArticle, JobIdle, Job
    <2>. QED  BY <1>1, <2>1 DEF TypeOK
  <1>. QED  BY <1>1, <1>2, <1>3, <1>4 DEF TypeOK

LEMMA FindRipeTypes ==
  ASSUME TypeOK, NEW t \in Tick, FindRipe(t)
  PROVE  TypeOK'
  <1>. DEFINE batch == {Snapshot(p) : p \in {x \in Post : Due(x)}}
  <1>1. batch \subseteq BatchEntry
    <2>1. ASSUME NEW p \in Post, Due(p)
          PROVE  Snapshot(p) \in BatchEntry
      <3>1. /\ post[p].attempts \in 0..MaxAttempts
            /\ post[p].attempts < MaxAttempts
            /\ post[p].text \in 0..MaxEdits
        BY <2>1 DEF TypeOK, PostRow, Due
      <3>2. post[p].attempts \in 0..(MaxAttempts - 1)
        BY <3>1, OutboxAssumption
      <3>. QED  BY <3>1, <3>2 DEF Snapshot, BatchEntry
    <2>. QED  BY <2>1
  <1>2. job' = [job EXCEPT ![t] = [JobIdle EXCEPT !.pc = "deliver",
                                                  !.batch = batch]]
    BY DEF FindRipe
  <1>3. job' \in [Tick -> Job]
    <2>. HIDE DEF batch
    <2>. QED  BY <1>1, <1>2 DEF TypeOK, Job, JobIdle
  <1>4. \A u \in Tick : job'[u].pc \in {"call", "sent", "failed"} =>
          \E q \in job'[u].batch : job'[u].at = {q}
    <2>. HIDE DEF batch
    <2>. QED  BY <1>2 DEF TypeOK, JobIdle
  <1>. QED  BY <1>3, <1>4 DEF TypeOK, FindRipe

(* A tick that is done with a post is at none.                             *)
LEMMA WithoutPostTypes ==
  ASSUME NEW j \in Job, NEW q
  PROVE  /\ WithoutPost(j, q) \in Job
         /\ WithoutPost(j, q).pc \in {"idle", "deliver"}
  BY DEF WithoutPost, Job, JobIdle

LEMMA ClaimPostTypes ==
  ASSUME TypeOK, NEW t \in Tick, NEW q \in job[t].batch, ClaimPost(t, q)
  PROVE  TypeOK'
  <1>0. /\ job[t] \in Job
        /\ q \in BatchEntry
        /\ q.post \in Post
    BY DEF TypeOK, Job, BatchEntry
  <1>1. CASE Claimable(q.post)
    <2>1. /\ post' = [post EXCEPT ![q.post].status = "A_ENVIAR"]
          /\ job' = [job EXCEPT ![t] =
                       [job[t] EXCEPT !.pc = "call", !.at = {q}]]
      BY <1>1 DEF ClaimPost
    <2>2. post' \in [Post -> PostRow]
      BY <2>1, <1>0 DEF TypeOK, PostRow, PostStatus
    <2>3. [job[t] EXCEPT !.pc = "call", !.at = {q}] \in Job
      BY <1>0 DEF Job
    <2>4. job' \in [Tick -> Job]
      BY <2>1, <2>3 DEF TypeOK
    <2>5. \A u \in Tick : job'[u].pc \in {"call", "sent", "failed"} =>
            \E x \in job'[u].batch : job'[u].at = {x}
      <3>1. job'[t].batch = job[t].batch /\ job'[t].at = {q}
        BY <2>1, <1>0 DEF TypeOK, Job
      <3>. QED  BY <3>1, <2>1 DEF TypeOK
    <2>. QED  BY <2>2, <2>4, <2>5 DEF TypeOK, ClaimPost
  <1>2. CASE ~Claimable(q.post)
    <2>1. /\ job' = [job EXCEPT ![t] = WithoutPost(job[t], q)]
          /\ post' = post
      BY <1>2 DEF ClaimPost
    <2>2. job' \in [Tick -> Job]
      BY <2>1, <1>0, WithoutPostTypes DEF TypeOK
    <2>3. \A u \in Tick : job'[u].pc \in {"call", "sent", "failed"} =>
            \E x \in job'[u].batch : job'[u].at = {x}
      BY <2>1, <1>0, WithoutPostTypes DEF TypeOK
    <2>. QED  BY <2>1, <2>2, <2>3 DEF TypeOK, ClaimPost
  <1>. QED  BY <1>1, <1>2

LEMMA CallMetaTypes ==
  ASSUME TypeOK, NEW t \in Tick, CallMeta(t)
  PROVE  TypeOK'
  <1>1. PICK q \in job[t].at, outcome \in {"posted", "refused", "unanswered"} :
          /\ job[t].pc = "call"
          /\ outcome = "unanswered" => lost < MaxLost
          /\ lost' = IF outcome = "unanswered" THEN lost + 1 ELSE lost
          /\ meta' = [meta EXCEPT ![q.post] =
                        AtMeta(meta[q.post], outcome, q.text)]
          /\ job' = [job EXCEPT ![t].pc = AfterCall(outcome)]
          /\ UNCHANGED <<live, claimed, post, ripe, deaths>>
    BY DEF CallMeta
  <1>2. /\ q.post \in Post
        /\ q.text \in 0..MaxEdits
    BY DEF TypeOK, Job, BatchEntry
  <1>3. meta' \in [Post -> [copies : Nat, text : 0..MaxEdits]]
    <2>1. AtMeta(meta[q.post], outcome, q.text)
            \in [copies : Nat, text : 0..MaxEdits]
      BY <1>2 DEF TypeOK, AtMeta
    <2>. QED  BY <1>1, <2>1 DEF TypeOK
  <1>4. AfterCall(outcome) \in {"sent", "failed"}
    BY DEF AfterCall
  <1>5. job' \in [Tick -> Job]
    BY <1>1, <1>4 DEF TypeOK, Job
  <1>6. \A u \in Tick : job'[u].pc \in {"call", "sent", "failed"} =>
          \E x \in job'[u].batch : job'[u].at = {x}
    <2>1. /\ job'[t].batch = job[t].batch
          /\ job'[t].at = job[t].at
      BY <1>1 DEF TypeOK, Job
    <2>. QED  BY <1>1, <2>1 DEF TypeOK
  <1>7. lost' \in 0..MaxLost
    BY <1>1, OutboxAssumption DEF TypeOK
  <1>. QED  BY <1>1, <1>3, <1>5, <1>6, <1>7 DEF TypeOK

LEMMA WriteSentTypes ==
  ASSUME TypeOK, NEW t \in Tick, WriteSent(t)
  PROVE  TypeOK'
  <1>1. PICK q \in job[t].at :
          /\ post' = [post EXCEPT ![q.post].status = "ENVIADO"]
          /\ job' = [job EXCEPT ![t] = WithoutPost(job[t], q)]
          /\ UNCHANGED <<live, claimed, ripe, meta, lost, deaths>>
    BY DEF WriteSent
  <1>2. q.post \in Post /\ job[t] \in Job
    BY DEF TypeOK, Job, BatchEntry
  <1>3. post' \in [Post -> PostRow]
    BY <1>1, <1>2 DEF TypeOK, PostRow, PostStatus
  <1>4. job' \in [Tick -> Job]
    BY <1>1, <1>2, WithoutPostTypes DEF TypeOK
  <1>5. \A u \in Tick : job'[u].pc \in {"call", "sent", "failed"} =>
          \E x \in job'[u].batch : job'[u].at = {x}
    BY <1>1, <1>2, WithoutPostTypes DEF TypeOK
  <1>. QED  BY <1>1, <1>3, <1>4, <1>5 DEF TypeOK

LEMMA WriteSentFailsTypes ==
  ASSUME TypeOK, NEW t \in Tick, WriteSentFails(t)
  PROVE  TypeOK'
  <1>1. job' \in [Tick -> Job]
    BY DEF TypeOK, WriteSentFails, Job
  <1>2. \A u \in Tick : job'[u].pc \in {"call", "sent", "failed"} =>
          \E x \in job'[u].batch : job'[u].at = {x}
    <2>1. /\ job[t].pc = "sent"
          /\ job'[t].batch = job[t].batch
          /\ job'[t].at = job[t].at
      BY DEF TypeOK, WriteSentFails, Job
    <2>. QED  BY <2>1 DEF TypeOK, WriteSentFails
  <1>3. lost' \in 0..MaxLost
    BY OutboxAssumption DEF TypeOK, WriteSentFails
  <1>. QED  BY <1>1, <1>2, <1>3 DEF TypeOK, WriteSentFails

LEMMA WriteFailedTypes ==
  ASSUME TypeOK, NEW t \in Tick, WriteFailed(t)
  PROVE  TypeOK'
  <1>1. PICK q \in job[t].at :
          /\ post' = [post EXCEPT ![q.post] =
                        Requeued(post[q.post], q.attempts + 1)]
          /\ job' = [job EXCEPT ![t] = WithoutPost(job[t], q)]
          /\ UNCHANGED <<live, claimed, ripe, meta, lost, deaths>>
    BY DEF WriteFailed
  <1>2. /\ q.post \in Post /\ job[t] \in Job
        /\ q.attempts \in 0..(MaxAttempts - 1)
    BY DEF TypeOK, Job, BatchEntry
  <1>3. q.attempts + 1 \in 0..MaxAttempts
    BY <1>2, OutboxAssumption
  <1>4. Requeued(post[q.post], q.attempts + 1) \in PostRow
    <2>1. post[q.post] \in PostRow
      BY <1>2 DEF TypeOK
    <2>2. \A status \in {"FALHOU", "AGENDADO"} :
            [post[q.post] EXCEPT !.status = status,
                                 !.attempts = q.attempts + 1] \in PostRow
      BY <2>1, <1>3 DEF PostRow, PostStatus
    <2>. QED  BY <2>2 DEF Requeued
  <1>5. post' \in [Post -> PostRow]
    BY <1>1, <1>4 DEF TypeOK
  <1>6. job' \in [Tick -> Job]
    BY <1>1, <1>2, WithoutPostTypes DEF TypeOK
  <1>7. \A u \in Tick : job'[u].pc \in {"call", "sent", "failed"} =>
          \E x \in job'[u].batch : job'[u].at = {x}
    BY <1>1, <1>2, WithoutPostTypes DEF TypeOK
  <1>. QED  BY <1>1, <1>5, <1>6, <1>7 DEF TypeOK

LEMMA DieTypes ==
  ASSUME TypeOK, NEW t \in Tick, Die(t)
  PROVE  TypeOK'
  <1>1. job' \in [Tick -> Job]
    BY DEF TypeOK, Die, Job, JobIdle
  <1>2. \A u \in Tick : job'[u].pc \in {"call", "sent", "failed"} =>
          \E x \in job'[u].batch : job'[u].at = {x}
    BY DEF TypeOK, Die, JobIdle
  <1>3. deaths' \in 0..MaxDeaths
    BY OutboxAssumption DEF TypeOK, Die
  <1>. QED  BY <1>1, <1>2, <1>3 DEF TypeOK, Die

LEMMA WorldTypes ==
  ASSUME TypeOK, WorldNext
  PROVE  TypeOK'
  <1>1. ASSUME NEW a \in Article, GoLive(a) \/ LeaveLive(a)
        PROVE  TypeOK'
    BY <1>1 DEF GoLive, LeaveLive, TypeOK
  <1>2. ASSUME NEW p \in Post, UpdateMessage(p)
        PROVE  TypeOK'
    <2>1. post[p].text + 1 \in 0..MaxEdits
      BY <1>2, OutboxAssumption DEF UpdateMessage, TypeOK, PostRow
    <2>2. post' \in [Post -> PostRow]
      BY <1>2, <2>1 DEF UpdateMessage, TypeOK, PostRow
    <2>. QED  BY <1>2, <2>2 DEF UpdateMessage, TypeOK
  <1>3. ASSUME NEW p \in Post, Cancel(p)
        PROVE  TypeOK'
    <2>1. post' \in [Post -> PostRow]
      BY <1>3 DEF Cancel, TypeOK, PostRow, PostStatus
    <2>. QED  BY <1>3, <2>1 DEF Cancel, TypeOK
  <1>4. ASSUME NEW p \in Post, Ripen(p)
        PROVE  TypeOK'
    BY <1>4 DEF Ripen, TypeOK
  <1>. QED  BY <1>1, <1>2, <1>3, <1>4 DEF WorldNext

LEMMA NextTypes ==
  ASSUME TypeOK, [Next]_vars
  PROVE  TypeOK'
  <1>1. CASE TickNext
    <2>. PICK t \in Tick : FindDue(t) \/ FindRipe(t) \/ JobStep(t)
                             \/ WriteSentFails(t) \/ Die(t)
      BY <1>1 DEF TickNext
    <2>1. ASSUME JobStep(t)
          PROVE  TypeOK'
      BY <2>1, ClaimArticleTypes, CreateRowsTypes, ClaimPostTypes,
         CallMetaTypes, WriteSentTypes, WriteFailedTypes
         DEF JobStep
    <2>. QED  BY <2>1, FindDueTypes, FindRipeTypes, WriteSentFailsTypes,
                 DieTypes
  <1>2. CASE WorldNext
    BY <1>2, WorldTypes
  <1>3. CASE UNCHANGED vars
    BY <1>3 DEF vars, TypeOK
  <1>. QED  BY <1>1, <1>2, <1>3 DEF Next

-----------------------------------------------------------------------------
(* One caller.  A step either leaves every row in flight as it is and puts *)
(* no tick in flight that was not, or claims a row that was AGENDADO.      *)

(* The rows in flight after a step, when nothing new is claimed, are rows  *)
(* that were in flight before it, and none of those still in flight was    *)
(* written.                                                                *)
LEMMA FlightShrinks ==
  ASSUME OneCaller,
         \A t \in Tick : InFlight(t)' \subseteq InFlight(t),
         \A t \in Tick : \A p \in InFlight(t)' :
           post'[p].status = post[p].status
  PROVE  OneCaller'
  BY DEF OneCaller

(* What a tick at a post has in flight is that post.                       *)
LEMMA AtOne ==
  ASSUME TypeOK, NEW t \in Tick, job[t].pc \in {"call", "sent", "failed"},
         NEW q \in job[t].at
  PROVE  InFlight(t) = {q.post} /\ q.post \in Post
  <1>1. job[t].at = {q} /\ q \in BatchEntry
    BY DEF TypeOK, Job
  <1>. QED  BY <1>1 DEF InFlight, BatchEntry

(* The outcome is written by the tick that has the post in flight, and     *)
(* then has nothing in flight.                                             *)
LEMMA OutcomeKeepsOneCaller ==
  ASSUME TypeOK, OneCaller, NEW t \in Tick, NEW q \in job[t].at,
         job[t].pc \in {"sent", "failed"}, NEW row,
         post' = [post EXCEPT ![q.post] = row],
         job' = [job EXCEPT ![t] = WithoutPost(job[t], q)]
  PROVE  OneCaller'
  <1>1. InFlight(t) = {q.post}
    BY AtOne
  <1>2. InFlight(t)' = {}
    <2>1. job[t] \in Job
      BY DEF TypeOK
    <2>2. job'[t] = WithoutPost(job[t], q)
      BY DEF TypeOK
    <2>. QED  BY <2>1, <2>2, WithoutPostTypes DEF InFlight
  <1>3. ASSUME NEW u \in Tick, u # t
        PROVE  /\ InFlight(u)' = InFlight(u)
               /\ q.post \notin InFlight(u)
    BY <1>1, <1>3 DEF InFlight, OneCaller, TypeOK
  <1>4. ASSUME NEW u \in Tick, NEW p \in InFlight(u)'
        PROVE  p \in InFlight(u) /\ post'[p] = post[p]
    BY <1>2, <1>3, <1>4 DEF TypeOK
  <1>. QED  BY <1>4, FlightShrinks

LEMMA ClaimKeepsOneCaller ==
  ASSUME TypeOK, OneCaller, NEW t \in Tick, NEW q \in job[t].batch,
         ClaimPost(t, q)
  PROVE  OneCaller'
  <1>0. /\ job[t] \in Job /\ q.post \in Post
        /\ job[t].pc = "deliver"
        /\ InFlight(t) = {}
    BY DEF TypeOK, Job, BatchEntry, ClaimPost, InFlight
  <1>1. CASE Claimable(q.post)
    <2>1. /\ post' = [post EXCEPT ![q.post].status = "A_ENVIAR"]
          /\ job' = [job EXCEPT ![t] =
                       [job[t] EXCEPT !.pc = "call", !.at = {q}]]
          /\ post[q.post].status = "AGENDADO"
      BY <1>1 DEF ClaimPost, Claimable
    <2>2. job'[t].pc = "call" /\ job'[t].at = {q}
      BY <2>1, <1>0 DEF TypeOK, Job
    <2>3. InFlight(t)' = {q.post}
      BY <2>2 DEF InFlight
    <2>4. ASSUME NEW u \in Tick, u # t
          PROVE  InFlight(u)' = InFlight(u) /\ q.post \notin InFlight(u)
      BY <2>1, <2>4 DEF InFlight, OneCaller, TypeOK
    <2>5. post'[q.post].status = "A_ENVIAR"
      BY <2>1, <1>0 DEF TypeOK, PostRow
    <2>6. \A p \in Post : p # q.post => post'[p] = post[p]
      BY <2>1 DEF TypeOK
    <2>7. ASSUME NEW u \in Tick, NEW p \in InFlight(u)'
          PROVE  post'[p].status = "A_ENVIAR"
      <3>1. CASE u = t
        BY <3>1, <2>3, <2>5, <2>7
      <3>2. CASE u # t
        <4>1. p \in InFlight(u) /\ p # q.post
          BY <3>2, <2>4, <2>7
        <4>2. p \in Post
          BY <4>1 DEF InFlight, TypeOK, Job, BatchEntry
        <4>. QED  BY <4>1, <4>2, <2>6 DEF OneCaller
      <3>. QED  BY <3>1, <3>2
    <2>8. ASSUME NEW u \in Tick, NEW v \in Tick, u # v
          PROVE  InFlight(u)' \cap InFlight(v)' = {}
      BY <2>3, <2>4, <2>8 DEF OneCaller
    <2>. QED  BY <2>7, <2>8 DEF OneCaller
  <1>2. CASE ~Claimable(q.post)
    <2>1. /\ job' = [job EXCEPT ![t] = WithoutPost(job[t], q)]
          /\ post' = post
      BY <1>2 DEF ClaimPost
    <2>2. job'[t] = WithoutPost(job[t], q)
      BY <2>1 DEF TypeOK
    <2>3. InFlight(t)' = {}
      BY <2>2, <1>0, WithoutPostTypes DEF InFlight
    <2>4. \A u \in Tick : u # t => InFlight(u)' = InFlight(u)
      BY <2>1 DEF InFlight, TypeOK
    <2>. QED  BY <2>1, <2>3, <2>4, FlightShrinks
  <1>. QED  BY <1>1, <1>2

LEMMA TickKeepsOneCaller ==
  ASSUME TypeOK, OneCaller, TickNext
  PROVE  OneCaller'
  <1>. PICK t \in Tick : FindDue(t) \/ FindRipe(t) \/ JobStep(t)
                           \/ WriteSentFails(t) \/ Die(t)
    BY DEF TickNext
  <1>1. CASE FindDue(t) \/ FindRipe(t) \/ Die(t)
    <2>1. /\ post' = post
          /\ \A u \in Tick : u # t => job'[u] = job[u]
          /\ job'[t].pc \in {"enqueue", "deliver", "idle"}
      <3>1. CASE FindDue(t)
        BY <3>1 DEF FindDue, TypeOK, JobIdle
      <3>2. CASE FindRipe(t)
        BY <3>2 DEF FindRipe, TypeOK, JobIdle
      <3>3. CASE Die(t)
        BY <3>3 DEF Die, TypeOK, JobIdle
      <3>. QED  BY <1>1, <3>1, <3>2, <3>3
    <2>2. \A u \in Tick : InFlight(u)' \subseteq InFlight(u)
      BY <2>1 DEF InFlight
    <2>. QED  BY <2>1, <2>2, FlightShrinks
  <1>2. ASSUME NEW a \in Article, ClaimArticle(t, a)
        PROVE  OneCaller'
    <2>1. /\ post' = post
          /\ \A u \in Tick : u # t => job'[u] = job[u]
          /\ job'[t].pc \in {"idle", "enqueue", "rows"}
      BY <1>2 DEF ClaimArticle, WithoutArticle, TypeOK, JobIdle, Job
    <2>2. \A u \in Tick : InFlight(u)' \subseteq InFlight(u)
      BY <2>1 DEF InFlight
    <2>. QED  BY <2>1, <2>2, FlightShrinks
  <1>3. CASE CreateRows(t)
    <2>1. PICK a \in job[t].article :
            /\ post' = RowsAdded(a)
            /\ job' = [job EXCEPT ![t] = WithoutArticle(job[t], a)]
      BY <1>3 DEF CreateRows
    <2>2. /\ \A u \in Tick : u # t => job'[u] = job[u]
          /\ job'[t].pc \in {"idle", "enqueue"}
      BY <2>1 DEF WithoutArticle, TypeOK, JobIdle, Job
    <2>3. \A u \in Tick : InFlight(u)' \subseteq InFlight(u)
      BY <2>2 DEF InFlight
    <2>4. ASSUME NEW u \in Tick, NEW p \in InFlight(u)'
          PROVE  post'[p].status = post[p].status
      <3>1. p \in InFlight(u)
        BY <2>3, <2>4
      <3>2. p \in Post /\ post[p].status = "A_ENVIAR"
        BY <3>1 DEF InFlight, TypeOK, Job, BatchEntry, OneCaller
      <3>. QED  BY <3>2, <2>1 DEF RowsAdded
    <2>. QED  BY <2>3, <2>4, FlightShrinks
  <1>4. CASE CallMeta(t) \/ WriteSentFails(t)
    <2>1. /\ post' = post
          /\ job[t].pc \in {"call", "sent"}
          /\ \A u \in Tick : job'[u].at = job[u].at
          /\ \A u \in Tick : u # t => job'[u] = job[u]
      <3>1. CASE CallMeta(t)
        BY <3>1 DEF CallMeta, TypeOK, Job
      <3>2. CASE WriteSentFails(t)
        BY <3>2 DEF WriteSentFails, TypeOK, Job
      <3>. QED  BY <1>4, <3>1, <3>2
    <2>2. \A u \in Tick : InFlight(u)' \subseteq InFlight(u)
      BY <2>1 DEF InFlight
    <2>. QED  BY <2>1, <2>2, FlightShrinks
  <1>5. CASE WriteSent(t)
    <2>1. PICK q \in job[t].at :
            /\ job[t].pc = "sent"
            /\ post' = [post EXCEPT ![q.post].status = "ENVIADO"]
            /\ job' = [job EXCEPT ![t] = WithoutPost(job[t], q)]
      BY <1>5 DEF WriteSent
    <2>2. post' = [post EXCEPT ![q.post] =
                     [post[q.post] EXCEPT !.status = "ENVIADO"]]
      BY <2>1
    <2>. QED  BY <2>1, <2>2, OutcomeKeepsOneCaller
  <1>6. CASE WriteFailed(t)
    <2>1. PICK q \in job[t].at :
            /\ job[t].pc = "failed"
            /\ post' = [post EXCEPT ![q.post] =
                          Requeued(post[q.post], q.attempts + 1)]
            /\ job' = [job EXCEPT ![t] = WithoutPost(job[t], q)]
      BY <1>6 DEF WriteFailed
    <2>. QED  BY <2>1, OutcomeKeepsOneCaller
  <1>. QED  BY <1>1, <1>2, <1>3, <1>4, <1>5, <1>6, ClaimKeepsOneCaller
            DEF JobStep

(* The newsroom touches only rows that are AGENDADO, and so not in flight. *)
LEMMA WorldKeepsOneCaller ==
  ASSUME TypeOK, OneCaller, WorldNext
  PROVE  OneCaller'
  <1>1. job' = job
    BY DEF WorldNext, GoLive, LeaveLive, UpdateMessage, Cancel, Ripen
  <1>2. \A p \in Post : post[p].status = "A_ENVIAR" =>
          post'[p].status = post[p].status
    BY DEF WorldNext, GoLive, LeaveLive, UpdateMessage, Cancel, Ripen, TypeOK,
           PostRow
  <1>3. \A u \in Tick : InFlight(u)' = InFlight(u)
    BY <1>1 DEF InFlight
  <1>4. \A u \in Tick : InFlight(u) \subseteq Post
    BY DEF InFlight, TypeOK, Job, BatchEntry
  <1>5. \A u \in Tick : \A p \in InFlight(u) : post[p].status = "A_ENVIAR"
    BY DEF OneCaller
  <1>. QED  BY <1>2, <1>3, <1>4, <1>5, FlightShrinks

LEMMA Invariant == Spec => [](TypeOK /\ OneCaller)
  <1>1. TypeOK /\ OneCaller /\ [Next]_vars => OneCaller'
    <2>1. ASSUME OneCaller, UNCHANGED vars
          PROVE  OneCaller'
      BY <2>1 DEF vars, OneCaller, InFlight
    <2>. QED  BY <2>1, TickKeepsOneCaller, WorldKeepsOneCaller DEF Next
  <1>. QED  BY InitInv, NextTypes, <1>1, PTL DEF Spec

-----------------------------------------------------------------------------
(* Every variable of the outbox keeps its type; in particular a row never  *)
(* counts more than MAX_ATTEMPTS attempts.                                 *)
THEOREM TypeCorrect == Spec => []TypeOK
  BY Invariant, PTL

(* The conditional update is a lock: whatever number of processes run the  *)
(* job, and however stale their batches are, two ticks are never at Meta   *)
(* about the same post.                                                    *)
THEOREM OneCallerSafe == Spec => []OneCaller
  BY Invariant, PTL

(* What is finished is left alone.  Rows are written by a claim, which     *)
(* wants AGENDADO, by the newsroom, which wants AGENDADO, and by a tick    *)
(* that has the row in flight, so A_ENVIAR.                                *)
LEMMA FinishedIsLeft ==
  ASSUME TypeOK, OneCaller, Next, NEW p \in Post, post[p].status \in Final
  PROVE  post'[p].status = post[p].status /\ meta'[p] = meta[p]
  <1>1. ASSUME NEW t \in Tick, NEW q \in job[t].at,
               job[t].pc \in {"call", "sent", "failed"}
        PROVE  q.post # p
    BY <1>1, AtOne DEF OneCaller, Final
  <1>2. ASSUME TickNext
        PROVE  post'[p].status = post[p].status /\ meta'[p] = meta[p]
    <2>. PICK t \in Tick : FindDue(t) \/ FindRipe(t) \/ JobStep(t)
                             \/ WriteSentFails(t) \/ Die(t)
      BY <1>2 DEF TickNext
    <2>1. CASE FindDue(t) \/ FindRipe(t) \/ WriteSentFails(t) \/ Die(t)
                 \/ \E a \in Article : ClaimArticle(t, a)
      BY <2>1 DEF FindDue, FindRipe, WriteSentFails, Die, ClaimArticle
    <2>2. CASE CreateRows(t)
      BY <2>2 DEF CreateRows, RowsAdded, Final
    <2>3. ASSUME NEW q \in job[t].batch, ClaimPost(t, q)
          PROVE  post'[p].status = post[p].status /\ meta'[p] = meta[p]
      BY <2>3 DEF ClaimPost, Claimable, TypeOK, Final
    <2>4. CASE CallMeta(t)
      BY <2>4, <1>1 DEF CallMeta, TypeOK
    <2>5. CASE WriteSent(t)
      BY <2>5, <1>1 DEF WriteSent, TypeOK
    <2>6. CASE WriteFailed(t)
      BY <2>6, <1>1 DEF WriteFailed, TypeOK
    <2>. QED  BY <2>1, <2>2, <2>3, <2>4, <2>5, <2>6 DEF JobStep
  <1>3. ASSUME WorldNext
        PROVE  post'[p].status = post[p].status /\ meta'[p] = meta[p]
    BY <1>3 DEF WorldNext, GoLive, LeaveLive, UpdateMessage, Cancel, Ripen,
                TypeOK, PostRow, Final
  <1>. QED  BY <1>2, <1>3 DEF Next

(* A cancellation that was accepted is obeyed by every tick, those that    *)
(* had already read the post included.                                     *)
THEOREM CancellationHolds == Spec => CancelledStaysOut
  <1>1. TypeOK /\ OneCaller /\ [Next]_vars =>
          [\A p \in Post : post[p].status = "CANCELADO" =>
             post'[p].status = "CANCELADO" /\ meta'[p] = meta[p]]_vars
    <2>1. ASSUME TypeOK, OneCaller, Next, NEW p \in Post,
                 post[p].status = "CANCELADO"
          PROVE  post'[p].status = "CANCELADO" /\ meta'[p] = meta[p]
      BY <2>1, FinishedIsLeft DEF Final
    <2>. QED  BY <2>1
  <1>. QED  BY Invariant, <1>1, PTL DEF Spec, CancelledStaysOut

(* A post that is out, has failed for good or was cancelled stays so.      *)
THEOREM FinalStays == Spec => FinalIsFinal
  <1>1. TypeOK /\ OneCaller /\ [Next]_vars =>
          [\A p \in Post : post[p].status \in Final =>
             post'[p].status = post[p].status]_vars
    BY FinishedIsLeft
  <1>. QED  BY Invariant, <1>1, PTL DEF Spec, FinalIsFinal

-----------------------------------------------------------------------------
(* Where the copies come from.  Beyond those that losses explain there is  *)
(* at most one, and only of a post that is out, on its way back from Meta, *)
(* or was left A_ENVIAR by a tick that died: nothing claims these again.   *)

Flying == {"call", "sent", "failed"}
At(t, p, pc) == job[t].pc = pc /\ \E q \in job[t].at : q.post = p
Unsent(p) == post[p].status \in {"NENHUM", "AGENDADO"}
Owed(p) == meta[p].copies <= lost

CopiesInv ==
  \A p \in Post :
    /\ meta[p].copies <= 1 + lost
    /\ Unsent(p) => Owed(p)
    /\ post[p].status = "ENVIADO" => meta[p].copies > 0
    /\ \A t \in Tick : At(t, p, "call") \/ At(t, p, "failed") => Owed(p)
    /\ \A t \in Tick : At(t, p, "sent") => meta[p].copies > 0

LEMMA CopiesBegin == Init => CopiesInv
  BY DEF Init, CopiesInv, Unsent, Owed, At, JobIdle, NoPost

(* A step that neither calls nor loses.                                    *)
LEMMA NoCall ==
  ASSUME CopiesInv, meta' = meta, lost' = lost,
         \A p \in Post : Unsent(p)' => Unsent(p) \/ Owed(p),
         \A p \in Post : post'[p].status = "ENVIADO" =>
            post[p].status = "ENVIADO" \/ meta[p].copies > 0,
         \A t \in Tick, p \in Post :
            /\ At(t, p, "call")' \/ At(t, p, "failed")' =>
                 At(t, p, "call") \/ At(t, p, "failed") \/ Owed(p)
            /\ At(t, p, "sent")' => At(t, p, "sent")
  PROVE  CopiesInv'
  <1>1. \A p \in Post : Owed(p) => Owed(p)'
    BY DEF Owed
  <1>. QED  BY <1>1 DEF CopiesInv

(* A tick that has nothing in flight any more, and others as they were.    *)
LEMMA Lands ==
  ASSUME NEW t \in Tick, job'[t].pc \notin Flying,
         \A u \in Tick \ {t} : job'[u] = job[u]
  PROVE  \A u \in Tick, p \in Post :
            /\ At(u, p, "call")' \/ At(u, p, "failed")' =>
                 At(u, p, "call") \/ At(u, p, "failed") \/ Owed(p)
            /\ At(u, p, "sent")' => At(u, p, "sent")
  BY DEF At, Flying

LEMMA LandsKeepsCopies ==
  ASSUME CopiesInv, NEW t \in Tick, job'[t].pc \notin Flying,
         \A u \in Tick \ {t} : job'[u] = job[u], meta' = meta, lost' = lost,
         \A p \in Post : Unsent(p)' => Unsent(p) \/ Owed(p),
         \A p \in Post : post'[p].status = "ENVIADO" =>
            post[p].status = "ENVIADO" \/ meta[p].copies > 0
  PROVE  CopiesInv'
  BY Lands, NoCall

LEMMA SearchKeepsCopies ==
  ASSUME TypeOK, CopiesInv, NEW t \in Tick,
         FindDue(t) \/ FindRipe(t) \/ Die(t) \/ \E a \in Article : ClaimArticle(t, a)
  PROVE  CopiesInv'
  <1>1. /\ post' = post /\ meta' = meta /\ lost' = lost
        /\ job'[t].pc \notin Flying /\ \A u \in Tick \ {t} : job'[u] = job[u]
    <2>1. CASE FindDue(t)
      BY <2>1 DEF FindDue, TypeOK, JobIdle, Flying
    <2>2. CASE FindRipe(t)
      BY <2>2 DEF FindRipe, TypeOK, JobIdle, Flying
    <2>3. CASE Die(t)
      BY <2>3 DEF Die, TypeOK, JobIdle, Flying
    <2>4. ASSUME NEW a \in Article, ClaimArticle(t, a)
          PROVE  /\ post' = post /\ meta' = meta /\ lost' = lost
                 /\ job'[t].pc \notin Flying /\ \A u \in Tick \ {t} : job'[u] = job[u]
      BY <2>4 DEF ClaimArticle, WithoutArticle, TypeOK, JobIdle, Job, Flying
    <2>. QED  BY <2>1, <2>2, <2>3, <2>4
  <1>2. \A p \in Post : Unsent(p)' => Unsent(p)
    BY <1>1 DEF Unsent
  <1>. QED  BY <1>1, <1>2, LandsKeepsCopies

LEMMA RowsKeepCopies ==
  ASSUME TypeOK, CopiesInv, NEW t \in Tick, CreateRows(t)
  PROVE  CopiesInv'
  <1>1. PICK a \in job[t].article :
          /\ post' = RowsAdded(a) /\ meta' = meta /\ lost' = lost
          /\ job' = [job EXCEPT ![t] = WithoutArticle(job[t], a)]
    BY DEF CreateRows
  <1>2. job'[t].pc \notin Flying /\ \A u \in Tick \ {t} : job'[u] = job[u]
    BY <1>1 DEF WithoutArticle, TypeOK, JobIdle, Job, Flying
  <1>3. ASSUME NEW p \in Post
        PROVE  /\ Unsent(p)' => Unsent(p)
               /\ post'[p].status = "ENVIADO" => post[p].status = "ENVIADO"
    BY <1>1 DEF RowsAdded, Queued, NoPost, Unsent
  <1>. QED  BY <1>1, <1>2, <1>3, LandsKeepsCopies

LEMMA ClaimKeepsCopies ==
  ASSUME TypeOK, CopiesInv, NEW t \in Tick, NEW q \in job[t].batch, ClaimPost(t, q)
  PROVE  CopiesInv'
  <1>1. job[t] \in Job /\ q.post \in Post /\ meta' = meta /\ lost' = lost
    BY DEF TypeOK, Job, BatchEntry, ClaimPost
  <1>2. CASE Claimable(q.post)
    <2>1. /\ post' = [post EXCEPT ![q.post].status = "A_ENVIAR"]
          /\ job' = [job EXCEPT ![t] = [job[t] EXCEPT !.pc = "call", !.at = {q}]]
          /\ post[q.post].status = "AGENDADO"
      BY <1>2 DEF ClaimPost, Claimable
    <2>2. /\ job'[t].pc = "call" /\ job'[t].at = {q}
          /\ \A u \in Tick \ {t} : job'[u] = job[u]
      BY <1>1, <2>1 DEF TypeOK, Job
    <2>3. \A p \in Post : post'[p].status \in {post[p].status, "A_ENVIAR"}
      BY <2>1 DEF TypeOK, PostRow
    <2>4. Owed(q.post)
      BY <1>1, <2>1 DEF CopiesInv, Unsent
    <2>5. \A u \in Tick, p \in Post :
            /\ At(u, p, "call")' \/ At(u, p, "failed")' =>
                 At(u, p, "call") \/ At(u, p, "failed") \/ Owed(p)
            /\ At(u, p, "sent")' => At(u, p, "sent")
      BY <2>2, <2>4 DEF At
    <2>6. \A p \in Post : Unsent(p)' => Unsent(p)
      BY <2>3 DEF Unsent
    <2>7. \A p \in Post : post'[p].status = "ENVIADO" => post[p].status = "ENVIADO"
      BY <2>3
    <2>. QED  BY <1>1, <2>5, <2>6, <2>7, NoCall
  <1>3. CASE ~Claimable(q.post)
    <2>1. /\ job'[t] = WithoutPost(job[t], q) /\ post' = post
          /\ \A u \in Tick \ {t} : job'[u] = job[u]
      BY <1>3 DEF ClaimPost, TypeOK
    <2>2. job'[t].pc \notin Flying
      BY <1>1, <2>1, WithoutPostTypes DEF Flying
    <2>3. \A p \in Post : Unsent(p)' => Unsent(p)
      BY <2>1 DEF Unsent
    <2>. QED  BY <1>1, <2>1, <2>2, <2>3, LandsKeepsCopies
  <1>. QED  BY <1>2, <1>3

(* What a tick writes of the post it has in flight, and lands.             *)
LEMMA OutcomeKeepsCopies ==
  ASSUME TypeOK, CopiesInv, NEW t \in Tick, WriteSent(t) \/ WriteFailed(t)
  PROVE  CopiesInv'
  <1>1. PICK q \in job[t].at :
          /\ job[t].pc \in {"sent", "failed"} /\ meta' = meta /\ lost' = lost
          /\ job' = [job EXCEPT ![t] = WithoutPost(job[t], q)]
          /\ \A p \in Post : p # q.post => post'[p] = post[p]
          /\ post'[q.post].status = "ENVIADO" => job[t].pc = "sent"
          /\ Unsent(q.post)' => job[t].pc = "failed"
    <2>1. CASE WriteSent(t)
      <3>1. PICK q \in job[t].at :
              /\ job[t].pc = "sent" /\ meta' = meta /\ lost' = lost
              /\ post' = [post EXCEPT ![q.post].status = "ENVIADO"]
              /\ job' = [job EXCEPT ![t] = WithoutPost(job[t], q)]
        BY <2>1 DEF WriteSent
      <3>2. q.post \in Post
        BY <3>1, AtOne
      <3>3. /\ post'[q.post].status = "ENVIADO"
            /\ \A p \in Post : p # q.post => post'[p] = post[p]
        BY <3>1, <3>2 DEF TypeOK, PostRow
      <3>. QED  BY <3>1, <3>3 DEF Unsent
    <2>2. CASE WriteFailed(t)
      <3>1. PICK q \in job[t].at :
              /\ job[t].pc = "failed" /\ meta' = meta /\ lost' = lost
              /\ post' = [post EXCEPT ![q.post] = Requeued(post[q.post], q.attempts + 1)]
              /\ job' = [job EXCEPT ![t] = WithoutPost(job[t], q)]
        BY <2>2 DEF WriteFailed
      <3>2. q.post \in Post
        BY <3>1, AtOne
      <3>3. Requeued(post[q.post], q.attempts + 1).status # "ENVIADO"
        BY <3>2 DEF Requeued, TypeOK, PostRow
      <3>4. \A p \in Post : p # q.post => post'[p] = post[p]
        BY <3>1 DEF TypeOK
      <3>. QED  BY <3>1, <3>2, <3>3, <3>4 DEF TypeOK
    <2>. QED  BY <2>1, <2>2
  <1>2. q.post \in Post /\ At(t, q.post, job[t].pc)
    BY <1>1, AtOne DEF At
  <1>3. job'[t].pc \notin Flying /\ \A u \in Tick \ {t} : job'[u] = job[u]
    BY <1>1, WithoutPostTypes DEF TypeOK, Flying
  <1>4. /\ job[t].pc = "sent" => meta[q.post].copies > 0
        /\ job[t].pc = "failed" => Owed(q.post)
    BY <1>2 DEF CopiesInv
  <1>5. ASSUME NEW p \in Post
        PROVE  /\ Unsent(p)' => Unsent(p) \/ Owed(p)
               /\ post'[p].status = "ENVIADO" =>
                    post[p].status = "ENVIADO" \/ meta[p].copies > 0
    BY <1>1, <1>4 DEF Unsent
  <1>. QED  BY <1>1, <1>3, <1>5, LandsKeepsCopies

LEMMA NumbersOf ==
  ASSUME TypeOK
  PROVE  /\ lost \in Nat
         /\ \A p \in Post : meta[p] \in [copies : Nat, text : 0..MaxEdits]
                            /\ meta[p].copies \in Nat
  <1>1. MaxLost \in Nat
    BY OutboxAssumption
  <1>2. lost \in Nat
    BY <1>1 DEF TypeOK
  <1>. QED  BY <1>2 DEF TypeOK

(* A step at Meta, or the loss of the update: of one post and one tick.    *)
LEMMA CallKeepsCopies ==
  ASSUME TypeOK, OneCaller, CopiesInv, NEW t \in Tick, NEW q \in job[t].at,
         job[t].pc \in {"call", "sent"}, NEW pc \in {"sent", "failed"},
         post' = post, lost' \in Nat, lost' \in {lost, lost + 1},
         job' = [job EXCEPT ![t].pc = pc],
         \A p \in Post : p # q.post => meta'[p] = meta[p],
         meta'[q.post].copies \in Nat,
         meta'[q.post].copies <= 1 + lost',
         pc = "sent" => meta'[q.post].copies > 0,
         pc = "failed" => meta'[q.post].copies <= lost'
  PROVE  CopiesInv'
  <1>1. /\ q.post \in Post /\ job[t].at = {q}
        /\ post[q.post].status = "A_ENVIAR" /\ InFlight(t) = {q.post}
    BY AtOne DEF TypeOK, OneCaller
  <1>2. /\ job'[t].pc = pc /\ job'[t].at = {q}
        /\ \A u \in Tick \ {t} : job'[u] = job[u]
    <2>. DEFINE to == [job[t] EXCEPT !.pc = pc]
    <2>1. job[t] \in Job
      BY DEF TypeOK
    <2>2. to.pc = pc /\ to.at = {q}
      BY <1>1, <2>1 DEF Job
    <2>3. job' = [job EXCEPT ![t] = to]
      OBVIOUS
    <2>. HIDE DEF to
    <2>. QED  BY <2>2, <2>3 DEF TypeOK
  <1>3. \A p \in Post : Owed(p) /\ p # q.post => Owed(p)'
    BY NumbersOf DEF Owed
  <1>4. \A p \in Post : p # q.post => meta'[p].copies <= 1 + lost'
    <2>1. ASSUME NEW p \in Post, p # q.post
          PROVE  meta'[p].copies <= 1 + lost'
      <3>1. meta'[p].copies = meta[p].copies /\ meta[p].copies <= 1 + lost
        BY <2>1 DEF CopiesInv
      <3>. QED  BY <3>1, NumbersOf
    <2>. QED  BY <2>1
  <1>5. ASSUME NEW u \in Tick \ {t}, NEW p \in Post
        PROVE  /\ \A x \in Flying : At(u, p, x)' => At(u, p, x) /\ p # q.post
    BY <1>1, <1>2 DEF At, OneCaller, InFlight, Flying
  <1>6. ASSUME NEW p \in Post, NEW x \in Flying, At(t, p, x)'
        PROVE  p = q.post /\ x = pc
    BY <1>2, <1>6 DEF At
  <1>7. ASSUME NEW p \in Post
        PROVE  /\ meta'[p].copies <= 1 + lost'
               /\ Unsent(p)' => Owed(p)'
               /\ post'[p].status = "ENVIADO" => meta'[p].copies > 0
    <2>1. CASE p = q.post
      BY <1>1, <2>1 DEF Unsent
    <2>2. CASE p # q.post
      BY <1>3, <1>4, <2>2 DEF Unsent, CopiesInv
    <2>. QED  BY <2>1, <2>2
  <1>8. ASSUME NEW u \in Tick, NEW p \in Post
        PROVE  /\ At(u, p, "call")' \/ At(u, p, "failed")' => Owed(p)'
               /\ At(u, p, "sent")' => meta'[p].copies > 0
    <2>1. CASE u = t
      BY <1>6, <2>1 DEF Flying, Owed
    <2>2. CASE u # t
      BY <1>3, <1>5, <2>2 DEF Flying, CopiesInv
    <2>. QED  BY <2>1, <2>2
  <1>. QED  BY <1>7, <1>8 DEF CopiesInv

LEMMA MetaKeepsCopies ==
  ASSUME TypeOK, OneCaller, CopiesInv, NEW t \in Tick, CallMeta(t)
  PROVE  CopiesInv'
  <1>1. PICK q \in job[t].at, outcome \in {"posted", "refused", "unanswered"} :
          /\ job[t].pc = "call" /\ post' = post
          /\ lost' = IF outcome = "unanswered" THEN lost + 1 ELSE lost
          /\ meta' = [meta EXCEPT ![q.post] = AtMeta(meta[q.post], outcome, q.text)]
          /\ job' = [job EXCEPT ![t].pc = AfterCall(outcome)]
    BY DEF CallMeta
  <1>2. q.post \in Post /\ At(t, q.post, "call")
    BY <1>1, AtOne DEF At
  <1>3. meta[q.post].copies <= lost
    BY <1>2 DEF CopiesInv, Owed
  <1>4. meta'[q.post] = AtMeta(meta[q.post], outcome, q.text)
    BY <1>1, <1>2 DEF TypeOK
  <1>5. /\ outcome = "refused" => meta'[q.post].copies = meta[q.post].copies
        /\ outcome # "refused" => meta'[q.post].copies = meta[q.post].copies + 1
    BY <1>4 DEF AtMeta
  <1>6. /\ lost \in Nat /\ meta[q.post].copies \in Nat
        /\ \A p \in Post : p # q.post => meta'[p] = meta[p]
    BY <1>1, <1>2, NumbersOf DEF TypeOK
  <1>7. /\ AfterCall(outcome) \in {"sent", "failed"}
        /\ AfterCall(outcome) = "sent" => outcome = "posted"
        /\ AfterCall(outcome) = "failed" => outcome # "posted"
    BY DEF AfterCall
  <1>8. /\ lost' \in Nat /\ lost' \in {lost, lost + 1}
        /\ meta'[q.post].copies \in Nat
        /\ meta'[q.post].copies <= 1 + lost'
        /\ AfterCall(outcome) = "sent" => meta'[q.post].copies > 0
        /\ AfterCall(outcome) = "failed" => meta'[q.post].copies <= lost'
    BY <1>1, <1>3, <1>5, <1>6, <1>7
  <1>. QED  BY <1>1, <1>6, <1>7, <1>8, CallKeepsCopies

LEMMA LossKeepsCopies ==
  ASSUME TypeOK, OneCaller, CopiesInv, NEW t \in Tick, WriteSentFails(t)
  PROVE  CopiesInv'
  <1>1. /\ job[t].pc = "sent" /\ post' = post /\ meta' = meta /\ lost' = lost + 1
        /\ job' = [job EXCEPT ![t].pc = "failed"]
    BY DEF WriteSentFails
  <1>2. PICK q \in job[t].batch : job[t].at = {q}
    BY <1>1 DEF TypeOK
  <1>3. q \in job[t].at /\ q.post \in Post
    BY <1>1, <1>2, AtOne
  <1>4. meta[q.post].copies <= 1 + lost /\ lost \in Nat /\ meta[q.post].copies \in Nat
    BY <1>3, NumbersOf DEF CopiesInv
  <1>5. /\ lost' \in Nat /\ lost' \in {lost, lost + 1}
        /\ meta'[q.post].copies \in Nat /\ meta'[q.post].copies <= lost'
        /\ meta'[q.post].copies <= 1 + lost'
    BY <1>1, <1>4
  <1>. QED  BY <1>1, <1>3, <1>5, CallKeepsCopies

LEMMA WorldKeepsCopies ==
  ASSUME TypeOK, CopiesInv, WorldNext \/ UNCHANGED vars
  PROVE  CopiesInv'
  <1>1. job' = job /\ meta' = meta /\ lost' = lost
    BY DEF WorldNext, GoLive, LeaveLive, UpdateMessage, Cancel, Ripen, vars
  <1>2. \A p \in Post : post'[p].status \in {post[p].status, "CANCELADO"}
    BY DEF WorldNext, GoLive, LeaveLive, UpdateMessage, Cancel, Ripen, vars, TypeOK, PostRow
  <1>3. \A p \in Post : Unsent(p)' => Unsent(p)
    BY <1>2 DEF Unsent
  <1>4. \A p \in Post : post'[p].status = "ENVIADO" => post[p].status = "ENVIADO"
    BY <1>2
  <1>5. \A t \in Tick, p \in Post, pc \in Flying : At(t, p, pc)' => At(t, p, pc)
    BY <1>1 DEF At
  <1>. QED  BY <1>1, <1>3, <1>4, <1>5, NoCall DEF Flying

LEMMA CopiesKept == TypeOK /\ OneCaller /\ CopiesInv /\ [Next]_vars => CopiesInv'
  <1>. SUFFICES ASSUME TypeOK, OneCaller, CopiesInv, [Next]_vars
                PROVE  CopiesInv'
    OBVIOUS
  <1>1. ASSUME NEW t \in Tick, FindDue(t) \/ FindRipe(t) \/ JobStep(t)
                                 \/ WriteSentFails(t) \/ Die(t)
        PROVE  CopiesInv'
    BY <1>1, SearchKeepsCopies, RowsKeepCopies, ClaimKeepsCopies, OutcomeKeepsCopies,
       MetaKeepsCopies, LossKeepsCopies DEF JobStep
  <1>2. CASE WorldNext \/ UNCHANGED vars
    BY <1>2, WorldKeepsCopies
  <1>. QED  BY <1>1, <1>2 DEF Next, TickNext

(* Ticks that overlap never make a second copy: every copy beyond the      *)
(* first of a post goes back to an answer or an update that got lost.      *)
THEOREM EveryCopyHasACause == Spec => []CopiesAreExplained
  <1>1. CopiesInv => CopiesAreExplained
    BY DEF CopiesInv, CopiesAreExplained
  <1>. QED  BY <1>1, CopiesBegin, CopiesKept, Invariant, PTL DEF Spec

(* A row never says ENVIADO of a post Meta does not have.                  *)
THEOREM SentRowsAreOut == Spec => []SentIsPosted
  <1>1. CopiesInv => SentIsPosted
    BY DEF CopiesInv, SentIsPosted
  <1>. QED  BY <1>1, CopiesBegin, CopiesKept, Invariant, PTL DEF Spec

-----------------------------------------------------------------------------
(* ReaderDigests. *)

-----------------------------------------------------------------------------
(* Pages of followers.                                                     *)

LEMMA LeastOne ==
  ASSUME NEW S \in SUBSET Nat, S # {}
  PROVE  \E x \in S : \A y \in S : x <= y
  <1>1. PICK x \in S : \A y \in S : ~ (<<y, x>> \in OpToRel(<, Nat))
    BY NatLessThanWellFounded, WFMin
  <1>2. \A y \in S : ~ (y < x)
    BY <1>1 DEF OpToRel
  <1>. QED  BY <1>2

LEMMA FollowerSets ==
  ASSUME NEW S \in SUBSET Follower
  PROVE  S \in SUBSET Nat /\ IsFiniteSet(S) /\ Cardinality(S) \in Nat
  <1>1. IsFiniteSet(Follower) /\ Follower \subseteq Nat
    BY DigestAssumption
  <1>2. IsFiniteSet(S)
    BY <1>1, FS_Subset
  <1>. QED  BY <1>1, <1>2, FS_CardinalityType

(* Of the numbers above each member, one has none: it is the greatest.     *)
LEMMA GreatestIs ==
  ASSUME NEW S \in SUBSET Follower, S # {}
  PROVE  Max(S) \in S /\ \A y \in S : Max(S) >= y
  <1>. DEFINE Above(k) == {y \in S : y > k}
              sizes == {Cardinality(Above(k)) : k \in S}
  <1>1. \A k \in S : Above(k) \in SUBSET Follower
    OBVIOUS
  <1>2. \A k \in S : IsFiniteSet(Above(k)) /\ Cardinality(Above(k)) \in Nat
    BY <1>1, FollowerSets
  <1>3. PICK k \in S : \A j \in S : Cardinality(Above(k)) <= Cardinality(Above(j))
    <2>. HIDE DEF Above
    <2>1. sizes \in SUBSET Nat /\ sizes # {}
      BY <1>2
    <2>2. PICK n \in sizes : \A m \in sizes : n <= m
      BY <2>1, LeastOne
    <2>. QED  BY <2>2
  <1>4. \A y \in S : k >= y
    <2>. SUFFICES ASSUME NEW y \in S, ~ (k >= y) PROVE FALSE
      OBVIOUS
    <2>1. k \in Nat /\ y \in Nat /\ y > k /\ \A z \in S : z \in Nat
      BY FollowerSets
    <2>2. Above(y) \subseteq Above(k) /\ y \in Above(k) /\ y \notin Above(y)
      <3>1. \A z \in S : z > y => z > k
        BY <2>1
      <3>2. ~(y > y)
        BY <2>1
      <3>. QED  BY <2>1, <3>1, <3>2, Zenon
    <2>3. Cardinality(Above(y)) <= Cardinality(Above(k))
          /\ Cardinality(Above(y)) # Cardinality(Above(k))
      <3>. HIDE DEF Above
      <3>. QED  BY <1>2, <2>2, FS_Subset
    <2>. HIDE DEF Above
    <2>. QED  BY <1>2, <1>3, <2>3
  <1>. QED  BY <1>4 DEF Max

(* The first FANOUT_BATCH of the readers left.                             *)
FirstOf(left) ==
  {r \in left : Cardinality({q \in left : q < r}) < FANOUT_BATCH}

LEMMA FirstOfIs ==
  ASSUME NEW left \in SUBSET Follower
  PROVE  LET page == FirstOf(left)
         IN  /\ page \in SUBSET left /\ Cardinality(page) \in Nat
             /\ \A q \in page, r \in left \ page : q < r
             /\ Cardinality(page) < FANOUT_BATCH => page = left
             /\ ~(Cardinality(page) < FANOUT_BATCH) => page # {}
  <1>. DEFINE page == FirstOf(left)
              Below(r) == {q \in left : q < r}
  <1>1. page = {r \in left : Cardinality(Below(r)) < FANOUT_BATCH}
    BY DEF FirstOf
  <1>2. page \in SUBSET left /\ page \in SUBSET Follower
    BY <1>1
  <1>3. /\ FANOUT_BATCH \in Nat /\ FANOUT_BATCH > 0
        /\ \A r \in left : r \in Nat
    BY DigestAssumption, FollowerSets
  <1>4. \A r \in left : IsFiniteSet(Below(r)) /\ Cardinality(Below(r)) \in Nat
    <2>1. \A r \in left : Below(r) \in SUBSET Follower
      OBVIOUS
    <2>. QED  BY <2>1, FollowerSets
  <1>5. IsFiniteSet(page) /\ Cardinality(page) \in Nat
    BY <1>2, FollowerSets
  <1>6. ASSUME NEW q \in page, NEW r \in left \ page PROVE q < r
    <2>. SUFFICES ASSUME ~ (q < r) PROVE FALSE
      OBVIOUS
    <2>1. Below(r) \in SUBSET Below(q)
      BY <1>2, <1>3
    <2>. HIDE DEF Below, page
    <2>2. Cardinality(Below(r)) <= Cardinality(Below(q))
      BY <1>2, <1>4, <2>1, FS_Subset
    <2>. QED  BY <1>1, <1>2, <1>3, <1>4, <2>2
  <1>7. ASSUME Cardinality(page) < FANOUT_BATCH, page # left PROVE FALSE
    <2>1. left \ page # {} /\ left \ page \in SUBSET Nat
      BY <1>2, <1>3, <1>7
    <2>2. PICK r \in left \ page : \A s \in left \ page : r <= s
      <3>. HIDE DEF page
      <3>. QED  BY <2>1, LeastOne
    <2>3. Below(r) \in SUBSET page
      BY <1>2, <1>3, <2>2
    <2>. HIDE DEF Below, page
    <2>4. Cardinality(Below(r)) <= Cardinality(page)
      BY <1>5, <2>3, FS_Subset
    <2>. QED  BY <1>1, <1>3, <1>4, <1>5, <1>7, <2>2, <2>4
  <1>8. ~(Cardinality(page) < FANOUT_BATCH) => page # {}
    BY <1>3, FS_EmptySet
  <1>. QED  BY <1>2, <1>5, <1>6, <1>7, <1>8

-----------------------------------------------------------------------------
(* The counts of e-mails, and the rows of the ledger.                      *)

Counts == [Follower -> [Story -> 0..MaxCount]]
Ledger == [Follower -> [Story -> NoteType]]

LEMMA CountFacts == MaxCount \in Nat /\ MaxCount > 0 /\ 0 \in 0..MaxCount
  BY DigestAssumption

LEMMA CappedIs ==
  ASSUME NEW n \in 0..MaxCount
  PROVE  /\ Capped(n) \in 0..MaxCount /\ Capped(n) >= n /\ Capped(n) > 0
         /\ Capped(n) <= n + 1 /\ (n # MaxCount => Capped(n) = n + 1)
  BY CountFacts DEF Capped

LEMMA BumpIs ==
  ASSUME NEW count \in Counts, NEW pairs
  PROVE  /\ Bump(count, pairs) \in Counts
         /\ \A r \in Follower, a \in Story :
              Bump(count, pairs)[r][a] =
                IF <<r, a>> \in pairs THEN Capped(count[r][a]) ELSE count[r][a]
  <1>1. \A r \in Follower, a \in Story : Capped(count[r][a]) \in 0..MaxCount
    BY CappedIs DEF Counts
  <1>. QED  BY <1>1 DEF Bump, Counts

LEMMA RowsAre ==
  /\ NoNote \in NoteType /\ NoNote.status = "none"
  /\ \A row \in NoteType :
       /\ AsSent(row) \in NoteType /\ (row.status = "none" <=> AsSent(row).status = "none")
       /\ AsSent(row).status \in {"none", "ENVIADO"}
       /\ AsFailed(row) \in NoteType /\ AsFailed(row).status = row.status
       /\ GivenUp(row) \in NoteType
       /\ GivenUp(row).status \in {row.status, "FALHOU"}
       /\ row.status = "none" <=> GivenUp(row).status = "none"
  BY DEF NoNote, NoteType, AsSent, AsFailed, GivenUp

LEMMA NotedSent ==
  ASSUME notes \in Ledger, NEW pairs, notes' = Noted(pairs, AsSent)
  PROVE  /\ notes' \in Ledger
         /\ \A r \in Follower, a \in Story :
              notes'[r][a] = IF <<r, a>> \in pairs THEN AsSent(notes[r][a]) ELSE notes[r][a]
  <1>1. \A r \in Follower, a \in Story :
          notes[r][a] \in NoteType /\ AsSent(notes[r][a]) \in NoteType
    BY RowsAre DEF Ledger
  <1>2. notes' = [r \in Follower |-> [a \in Story |->
                   IF <<r, a>> \in pairs THEN AsSent(notes[r][a]) ELSE notes[r][a]]]
    BY DEF Noted
  <1>. QED  BY <1>1, <1>2 DEF Ledger

LEMMA NotedFailed ==
  ASSUME notes \in Ledger, NEW pairs, notes' = Noted(pairs, AsFailed)
  PROVE  /\ notes' \in Ledger
         /\ \A r \in Follower, a \in Story :
              notes'[r][a] = IF <<r, a>> \in pairs THEN AsFailed(notes[r][a]) ELSE notes[r][a]
  <1>1. \A r \in Follower, a \in Story :
          notes[r][a] \in NoteType /\ AsFailed(notes[r][a]) \in NoteType
    BY RowsAre DEF Ledger
  <1>2. notes' = [r \in Follower |-> [a \in Story |->
                   IF <<r, a>> \in pairs THEN AsFailed(notes[r][a]) ELSE notes[r][a]]]
    BY DEF Noted
  <1>. QED  BY <1>1, <1>2 DEF Ledger

LEMMA NotedGivenUp ==
  ASSUME notes \in Ledger, NEW pairs, notes' = Noted(pairs, GivenUp)
  PROVE  /\ notes' \in Ledger
         /\ \A r \in Follower, a \in Story :
              notes'[r][a] = IF <<r, a>> \in pairs THEN GivenUp(notes[r][a]) ELSE notes[r][a]
  <1>1. \A r \in Follower, a \in Story :
          notes[r][a] \in NoteType /\ GivenUp(notes[r][a]) \in NoteType
    BY RowsAre DEF Ledger
  <1>2. notes' = [r \in Follower |-> [a \in Story |->
                   IF <<r, a>> \in pairs THEN GivenUp(notes[r][a]) ELSE notes[r][a]]]
    BY DEF Noted
  <1>. QED  BY <1>1, <1>2 DEF Ledger

-----------------------------------------------------------------------------
(* Who holds a row: the deliveries still to send it, and those that have   *)
(* sent it and not recorded so.                                            *)

DeliveryType == [pc : {"idle", "send", "sent", "failed"},
                 todo : SUBSET Pair, to : SUBSET Follower]

Waiting(r, a) ==
  {d \in Delivery : <<r, a>> \in delivery[d].todo /\ r \notin delivery[d].to}
Mailing(r, a) ==
  {d \in Delivery : /\ <<r, a>> \in delivery[d].todo /\ r \in delivery[d].to
                    /\ delivery[d].pc = "sent"}

LEMMA HandledIs ==
  ASSUME NEW d
  PROVE  /\ Handled(d) = {x \in delivery[d].todo : x[1] \in delivery[d].to}
         /\ \A r, a : <<r, a>> \in Handled(d) <=>
                        <<r, a>> \in delivery[d].todo /\ r \in delivery[d].to
         /\ \A r, q, a : <<q, a>> \in To(d, r) <=> <<q, a>> \in delivery[d].todo /\ q = r
  BY DEF Handled, To

One(b) == IF b THEN 1 ELSE 0
WaitsIn(x, r, a) == <<r, a>> \in x.todo /\ r \notin x.to
MailsIn(x, r, a) == <<r, a>> \in x.todo /\ r \in x.to /\ x.pc = "sent"

LEMMA DeliverySets ==
  ASSUME NEW S \in SUBSET Delivery, NEW d
  PROVE  /\ IsFiniteSet(S) /\ Cardinality(S) \in Nat
         /\ Cardinality(S \cup {d}) =
              IF d \in S THEN Cardinality(S) ELSE Cardinality(S) + 1
         /\ Cardinality(S \ {d}) =
              IF d \in S THEN Cardinality(S) - 1 ELSE Cardinality(S)
         /\ S = {} => Cardinality(S) = 0
  <1>1. IsFiniteSet(S)
    BY DigestAssumption, FS_Subset
  <1>. QED  BY <1>1, FS_CardinalityType, FS_AddElement, FS_RemoveElement, FS_EmptySet

LEMMA HoldersAre ==
  ASSUME NEW r, NEW a
  PROVE  /\ Waiting(r, a) \in SUBSET Delivery /\ Mailing(r, a) \in SUBSET Delivery
         /\ Cardinality(Waiting(r, a)) \in Nat /\ Cardinality(Mailing(r, a)) \in Nat
  <1>1. Waiting(r, a) \in SUBSET Delivery /\ Mailing(r, a) \in SUBSET Delivery
    BY DEF Waiting, Mailing
  <1>. QED  BY <1>1, DeliverySets

-----------------------------------------------------------------------------
(* Types, one action at a time.                                            *)

WishType == [cadence : Cadence \cup {"NUNCA"}, cats : [Category -> {"none", "muted", "on"}]]
FanType == [cats : Seq(Category), after : Follower \cup {0}]

LEMMA FiledIs ==
  /\ Filed \in Seq(Category) /\ Len(Filed) \in Nat \ {0} /\ Root \in Category
  /\ SubSeq(Filed, 1, 1) \in Seq(Category) /\ <<>> \in Seq(Category)
  <1>1. Filed \in Seq(Category) /\ Filed # <<>>
    BY DigestAssumption
  <1>2. Len(Filed) \in Nat \ {0} /\ <<>> \in Seq(Category)
    BY <1>1, EmptySeq
  <1>3. \A i \in 1..Len(Filed) : Filed[i] \in Category
    BY <1>1, ElementOfSeq
  <1>4. SubSeq(Filed, 1, 1) \in Seq(Category)
    BY <1>2, <1>3, SubSeqProperties
  <1>. QED  BY <1>1, <1>2, <1>3, <1>4 DEF Root

LEMMA DigestStarts == DigestInit => DigestTypeOK
  <1>. SUFFICES ASSUME DigestInit PROVE DigestTypeOK
    OBVIOUS
  <1>1. fan \in [Story -> FanType]
    BY FiledIs DEF DigestInit, FanIdle, FanType
  <1>2. wishes \in [Follower -> WishType]
    BY DEF DigestInit, WishType
  <1>3. delivery \in [Delivery -> DeliveryType]
    BY DEF DigestInit, DeliveryIdle, DeliveryType
  <1>4. notes \in [Follower -> [Story -> NoteType]]
    BY RowsAre DEF DigestInit
  <1>5. changes \in 0..MaxChanges
    BY DigestAssumption DEF DigestInit
  <1>. QED  BY <1>1, <1>2, <1>3, <1>4, <1>5, CountFacts
            DEF DigestInit, DigestTypeOK, FanType, WishType, DeliveryType

LEMMA WishTypes ==
  ASSUME DigestTypeOK, NEW r \in Follower, NEW w \in WishType, Wish(r, w)
  PROVE  DigestTypeOK'
  <1>1. wishes' \in [Follower -> WishType]
    BY DEF DigestTypeOK, Wish, WishType
  <1>2. changes' \in 0..MaxChanges
    BY DigestAssumption DEF DigestTypeOK, Wish
  <1>3. owed' \in [Story -> SUBSET (Follower \X Category)]
    BY DEF DigestTypeOK, Wish
  <1>. QED  BY <1>1, <1>2, <1>3 DEF DigestTypeOK, Wish, WishType, NoteType, Pair

WishStep(r) ==
  \/ SetCadence(r) \/ UnsubscribeAll(r) \/ Follow(r) \/ Unfollow(r)
  \/ \E c \in Category : Mute(r, c)

LEMMA ReadersWish ==
  ASSUME DigestTypeOK, NEW r \in Follower, WishStep(r)
  PROVE  \E w \in WishType : Wish(r, w)
  <1>1. wishes[r] \in WishType
    BY DEF DigestTypeOK, WishType
  <1>2. \A c \in Cadence \cup {"NUNCA"} : [wishes[r] EXCEPT !.cadence = c] \in WishType
    BY <1>1 DEF WishType
  <1>3. \A c \in Category, s \in {"none", "muted", "on"} :
          [wishes[r] EXCEPT !.cats[c] = s] \in WishType
    BY <1>1 DEF WishType
  <1>. QED  BY <1>2, <1>3, FiledIs
            DEF WishStep, SetCadence, UnsubscribeAll, Follow, Unfollow, Mute

LEMMA NewsTypes ==
  ASSUME DigestTypeOK, NEW a \in Story, Release(a) \/ Passes(a) \/ Look
  PROVE  DigestTypeOK'
  <1>1. piece' \in [Story -> {"draft", "due", "old"}] /\ seen' \subseteq Story
    BY DEF DigestTypeOK, Release, Passes, Look
  <1>. QED  BY <1>1 DEF DigestTypeOK, Release, Passes, Look, NoteType, Pair

LEMMA ClaimTypes ==
  ASSUME DigestTypeOK, NEW a \in Story, Claim(a)
  PROVE  DigestTypeOK'
  <1>1. seen' \subseteq Story
    BY DEF DigestTypeOK, Claim
  <1>2. CASE queuedAt[a]
    BY <1>1, <1>2 DEF DigestTypeOK, Claim, NoteType, Pair
  <1>3. CASE ~queuedAt[a]
    <2>1. PICK cats \in Targets :
            /\ fan' = [fan EXCEPT ![a] = [cats |-> cats, after |-> 0]]
            /\ owed' = [owed EXCEPT ![a] =
                 {x \in Follower \X Category :
                    (\E i \in DOMAIN cats : cats[i] = x[2]) /\ Wants(wishes[x[1]], x[2])}]
      BY <1>3 DEF Claim
    <2>2. cats \in Seq(Category)
      BY FiledIs DEF Targets
    <2>3. fan' \in [Story -> FanType]
      BY <2>1, <2>2 DEF DigestTypeOK, FanType
    <2>4. owed' \in [Story -> SUBSET (Follower \X Category)]
      BY <2>1 DEF DigestTypeOK
    <2>5. queuedAt' \in [Story -> BOOLEAN]
      BY <1>3 DEF DigestTypeOK, Claim
    <2>. QED  BY <1>1, <2>3, <2>4, <2>5 DEF DigestTypeOK, Claim, FanType, NoteType, Pair
  <1>. QED  BY <1>2, <1>3

(* A page of the fan-out is the first of the readers left to it.           *)
Left(c, after) == {r \in Follower : r > after /\ Wants(wishes[r], c)}

LEMMA PageIs ==
  ASSUME NEW c, NEW after
  PROVE  /\ Left(c, after) \in SUBSET Follower
         /\ FollowersAfter(c, after) = FirstOf(Left(c, after))
  BY DEF FollowersAfter, FirstOf, Left

LEMMA FanPageTypes ==
  ASSUME DigestTypeOK, NEW a \in Story, FanPage(a)
  PROVE  DigestTypeOK'
  <1>. DEFINE c == Head(fan[a].cats)
              noCursor == CursorLost(c, fan[a].after)
              page == IF noCursor THEN {} ELSE FollowersAfter(c, fan[a].after)
  <1>1. fan[a] \in FanType /\ fan[a].cats # <<>> /\ fan[a].cats \in Seq(Category)
    BY DEF DigestTypeOK, FanPage, FanType
  <1>2. Tail(fan[a].cats) \in Seq(Category)
    BY <1>1, HeadTailProperties
  <1>3. page \in SUBSET Follower
    BY PageIs DEF FirstOf
  <1>4. ~(Cardinality(page) < FANOUT_BATCH) => Max(page) \in Follower
    <2>. HIDE DEF page
    <2>1. 0 < FANOUT_BATCH
      BY DigestAssumption
    <2>. QED  BY <1>3, <2>1, GreatestIs, FS_EmptySet
  <1>5. /\ notes' = [r \in Follower |->
              IF r \in page /\ notes[r][a].status = "none"
              THEN [notes[r] EXCEPT ![a] = [status |-> "PENDENTE", attempts |-> 0]]
              ELSE notes[r]]
        /\ fan' = IF Cardinality(page) < FANOUT_BATCH
                  THEN [fan EXCEPT ![a] = [cats |-> Tail(fan[a].cats), after |-> 0]]
                  ELSE [fan EXCEPT ![a].after = Max(page)]
        /\ cuts' = IF noCursor THEN [cuts EXCEPT ![a] = @ \cup {<<c, fan[a].after>>}] ELSE cuts
    BY DEF FanPage, NextCategory, NextPage
  <1>6. UNCHANGED <<piece, queuedAt, wishes, seen, delivery, changes, mailed, excuse, owed>>
    BY DEF FanPage
  <1>7. c \in Category /\ fan[a].after \in Follower \cup {0}
    BY <1>1, HeadTailProperties DEF FanType
  <1>. HIDE DEF c, noCursor, page
  <1>8. notes' \in [Follower -> [Story -> NoteType]]
    BY <1>5 DEF DigestTypeOK, NoteType
  <1>9. cuts' \in [Story -> SUBSET (Category \X (Follower \cup {0}))]
    BY <1>5, <1>7 DEF DigestTypeOK
  <1>10. fan' \in [Story -> FanType]
    <2>1. CASE Cardinality(page) < FANOUT_BATCH
      <3>1. [cats |-> Tail(fan[a].cats), after |-> 0] \in FanType
        BY <1>2 DEF FanType
      <3>. QED  BY <1>5, <2>1, <3>1 DEF DigestTypeOK, FanType
    <2>2. CASE ~(Cardinality(page) < FANOUT_BATCH)
      <3>1. fan' = [fan EXCEPT ![a].after = Max(page)] /\ Max(page) \in Follower
        BY <1>4, <1>5, <2>2
      <3>. DEFINE top == Max(page)
      <3>. HIDE DEF top
      <3>2. [fan[a] EXCEPT !.after = top] \in FanType
        BY <1>1, <3>1 DEF FanType, top
      <3>. QED  BY <3>1, <3>2 DEF DigestTypeOK, FanType, top
    <2>. QED  BY <2>1, <2>2
  <1>. QED  BY <1>6, <1>8, <1>9, <1>10 DEF DigestTypeOK, FanType, NoteType, Pair

(* The categories left to a fan-out, each with the id it was served to.    *)
LEMMA UnservedIs ==
  ASSUME NEW f \in FanType
  PROVE  /\ Unserved(f) \in SUBSET (Category \X (Follower \cup {0}))
         /\ \A i \in 1..Len(f.cats) :
              <<f.cats[i], IF i = 1 THEN f.after ELSE 0>> \in Unserved(f)
  <1>1. f.cats \in Seq(Category) /\ f.after \in Follower \cup {0}
    BY DEF FanType
  <1>2. DOMAIN f.cats = 1..Len(f.cats) /\ \A i \in 1..Len(f.cats) : f.cats[i] \in Category
    BY <1>1, LenProperties, ElementOfSeq
  <1>. QED  BY <1>1, <1>2 DEF Unserved

LEMMA FanCutTypes ==
  ASSUME DigestTypeOK, NEW a \in Story, FanCut(a)
  PROVE  DigestTypeOK'
  <1>1. fan' \in [Story -> FanType]
    BY FiledIs DEF DigestTypeOK, FanCut, FanIdle, FanType
  <1>2. cuts' \in [Story -> SUBSET (Category \X (Follower \cup {0}))]
    <2>1. Unserved(fan[a]) \in SUBSET (Category \X (Follower \cup {0}))
      BY UnservedIs DEF DigestTypeOK, FanType
    <2>. QED  BY <2>1 DEF DigestTypeOK, FanCut
  <1>. QED  BY <1>1, <1>2 DEF DigestTypeOK, FanCut, FanType, NoteType, Pair

LEMMA PruneTypes ==
  ASSUME DigestTypeOK, NEW r \in Follower, NEW a \in Story, Prune(r, a)
  PROVE  DigestTypeOK'
  <1>1. notes' \in [Follower -> [Story -> NoteType]]
    BY RowsAre DEF DigestTypeOK, Prune
  <1>2. owed' \in [Story -> SUBSET (Follower \X Category)]
    BY DEF DigestTypeOK, Prune
  <1>. QED  BY <1>1, <1>2 DEF DigestTypeOK, Prune, NoteType, Pair

(* A delivery's step is of its own record, the counts and the ledger.      *)
LEMMA DeliveryMoves ==
  ASSUME DigestTypeOK, NEW d \in Delivery, NEW rec \in DeliveryType,
         delivery' = [delivery EXCEPT ![d] = rec],
         mailed' \in Counts, excuse' \in Counts, notes' \in Ledger,
         UNCHANGED <<piece, queuedAt, wishes, seen, fan, changes, owed, cuts>>
  PROVE  DigestTypeOK'
  <1>1. delivery' \in [Delivery -> DeliveryType]
    BY DEF DigestTypeOK, DeliveryType
  <1>. QED  BY <1>1 DEF DigestTypeOK, DeliveryType, Counts, Ledger, NoteType, Pair

LEMMA DigestSorts ==
  ASSUME DigestTypeOK
  PROVE  /\ delivery \in [Delivery -> DeliveryType]
         /\ mailed \in Counts /\ excuse \in Counts /\ notes \in Ledger
  BY DEF DigestTypeOK, DeliveryType, Counts, Ledger

-----------------------------------------------------------------------------
(* The invariant.                                                          *)

(* A delivery that is not at a reader has none, and an idle one no rows.   *)
DeliveriesOK ==
  \A d \in Delivery :
    /\ delivery[d].pc = "idle" => delivery[d].todo = {}
    /\ delivery[d].pc \in {"idle", "send"} => delivery[d].to = {}

(* An article was sent to a reader no oftener than there were reasons and  *)
(* deliveries that may yet send it; while its row is due to be sent again, *)
(* no oftener than there were reasons and sendings still unrecorded.       *)
Balanced(pending, m, e, waiting, mailing) ==
  \/ e = MaxCount
  \/ m + waiting <= 1 + e /\ (pending => m <= e + mailing)

InBalance(r, a) ==
  Balanced(notes[r][a].status = "PENDENTE", mailed[r][a], excuse[r][a],
           Cardinality(Waiting(r, a)), Cardinality(Mailing(r, a)))

(* Nobody holds a row that is not there; one that was never there was      *)
(* never sent, one that was pruned is not written again, and only the      *)
(* fan-out of a claimed article writes any.                                *)
PairOK(r, a) ==
  /\ notes[r][a].status = "none" =>
       /\ mailed[r][a] = 0 \/ (queuedAt[a] /\ fan[a].cats = <<>>)
       /\ \A d \in Delivery : <<r, a>> \notin delivery[d].todo
  /\ notes[r][a].status # "none" => queuedAt[a]
  /\ notes[r][a].status = "ENVIADO" \/ Mailing(r, a) # {} => mailed[r][a] > 0
  /\ InBalance(r, a)

LedgerOK ==
  /\ \A a \in Story : fan[a].cats # <<>> => queuedAt[a]
  /\ \A r \in Follower, a \in Story : PairOK(r, a)

(* Whoever is owed a row wants it still, and has it, or is ahead of the    *)
(* fan-out's cursor, or comes after where it was cut short.                *)
Ahead(cats, after, r, c) == \E i \in 1..Len(cats) : cats[i] = c /\ (i = 1 => r > after)
OwedOK ==
  \A a \in Story : \A r \in Follower, c \in Category : <<r, c>> \in owed[a] =>
    /\ Wants(wishes[r], c)
    /\ \/ notes[r][a].status # "none"
       \/ Ahead(fan[a].cats, fan[a].after, r, c)
       \/ CutOff(a, r, c)

DigestOK == DigestTypeOK /\ DeliveriesOK /\ LedgerOK /\ OwedOK

-----------------------------------------------------------------------------
(* The counts, one delivery's step at a time.                              *)

HoldersMoved(d, rec, r, a) ==
  /\ Cardinality(Waiting(r, a)') =
       Cardinality(Waiting(r, a)) + One(WaitsIn(rec, r, a)) - One(WaitsIn(delivery[d], r, a))
  /\ Cardinality(Mailing(r, a)') =
       Cardinality(Mailing(r, a)) + One(MailsIn(rec, r, a)) - One(MailsIn(delivery[d], r, a))
  /\ Mailing(r, a)' # {} => Mailing(r, a) # {} \/ MailsIn(rec, r, a)

LEMMA HoldersMove ==
  ASSUME delivery \in [Delivery -> DeliveryType], NEW d \in Delivery, NEW rec,
         delivery' = [delivery EXCEPT ![d] = rec], NEW r, NEW a
  PROVE  HoldersMoved(d, rec, r, a)
  <1>1. /\ d \in Waiting(r, a) <=> WaitsIn(delivery[d], r, a)
        /\ d \in Mailing(r, a) <=> MailsIn(delivery[d], r, a)
    BY DEF Waiting, Mailing, WaitsIn, MailsIn
  <1>2. /\ Waiting(r, a)' = IF WaitsIn(rec, r, a)
                            THEN Waiting(r, a) \cup {d} ELSE Waiting(r, a) \ {d}
        /\ Mailing(r, a)' = IF MailsIn(rec, r, a)
                            THEN Mailing(r, a) \cup {d} ELSE Mailing(r, a) \ {d}
    BY DEF Waiting, Mailing, WaitsIn, MailsIn
  <1>. DEFINE W == Waiting(r, a)
              M == Mailing(r, a)
  <1>3. /\ W \in SUBSET Delivery /\ M \in SUBSET Delivery
        /\ Cardinality(W) \in Nat /\ Cardinality(M) \in Nat
    BY HoldersAre
  <1>. HIDE DEF W, M
  <1>4. /\ Cardinality(W \cup {d}) = IF d \in W THEN Cardinality(W) ELSE Cardinality(W) + 1
        /\ Cardinality(W \ {d}) = IF d \in W THEN Cardinality(W) - 1 ELSE Cardinality(W)
        /\ Cardinality(M \cup {d}) = IF d \in M THEN Cardinality(M) ELSE Cardinality(M) + 1
        /\ Cardinality(M \ {d}) = IF d \in M THEN Cardinality(M) - 1 ELSE Cardinality(M)
    BY <1>3, DeliverySets
  <1>5. Cardinality(Waiting(r, a)') =
          Cardinality(W) + One(WaitsIn(rec, r, a)) - One(WaitsIn(delivery[d], r, a))
    BY <1>1, <1>2, <1>3, <1>4 DEF W, One
  <1>6. Cardinality(Mailing(r, a)') =
          Cardinality(M) + One(MailsIn(rec, r, a)) - One(MailsIn(delivery[d], r, a))
    BY <1>1, <1>2, <1>3, <1>4 DEF M, One
  <1>7. Mailing(r, a)' # {} => M # {} \/ MailsIn(rec, r, a)
    BY <1>2 DEF M
  <1>. QED  BY <1>5, <1>6, <1>7 DEF W, M, HoldersMoved

LEMMA PairSorts ==
  ASSUME DigestTypeOK, NEW r \in Follower, NEW a \in Story
  PROVE  /\ notes[r][a] \in NoteType
         /\ mailed[r][a] \in 0..MaxCount /\ excuse[r][a] \in 0..MaxCount
         /\ mailed[r][a] \in Nat /\ excuse[r][a] \in Nat
  BY CountFacts DEF DigestTypeOK

(* A step of one delivery leaves a pair's margins as they are or smaller.  *)
Narrower(d, rec, r, a) ==
  LET m == mailed[r][a]    m2 == mailed'[r][a]
      e == excuse[r][a]    e2 == excuse'[r][a]
  IN  /\ e <= e2
      /\ e # MaxCount /\ e2 # MaxCount =>
           /\ m2 - e2 + One(WaitsIn(rec, r, a)) <= m - e + One(WaitsIn(delivery[d], r, a))
           /\ notes'[r][a].status = "PENDENTE" =>
                /\ notes[r][a].status = "PENDENTE"
                /\ m2 - e2 + One(MailsIn(delivery[d], r, a))
                     <= m - e + One(MailsIn(rec, r, a))

LEMMA BalanceMoves ==
  ASSUME DigestOK, DigestTypeOK', NEW d \in Delivery, NEW rec,
         delivery' = [delivery EXCEPT ![d] = rec],
         NEW r \in Follower, NEW a \in Story, Narrower(d, rec, r, a)
  PROVE  InBalance(r, a)'
  <1>0. HoldersMoved(d, rec, r, a)
    <2>1. delivery \in [Delivery -> DeliveryType]
      BY DigestSorts DEF DigestOK
    <2>. QED  BY <2>1, HoldersMove
  <1>. DEFINE m == mailed[r][a]
              e == excuse[r][a]
              m2 == mailed'[r][a]
              e2 == excuse'[r][a]
              w == Cardinality(Waiting(r, a))
              s == Cardinality(Mailing(r, a))
              w2 == Cardinality(Waiting(r, a)')
              s2 == Cardinality(Mailing(r, a)')
              p == notes[r][a].status = "PENDENTE"
              p2 == notes'[r][a].status = "PENDENTE"
              ww == One(WaitsIn(delivery[d], r, a))
              ww2 == One(WaitsIn(rec, r, a))
              ss == One(MailsIn(delivery[d], r, a))
              ss2 == One(MailsIn(rec, r, a))
  <1>1. /\ m \in Nat /\ e \in 0..MaxCount /\ m2 \in Nat /\ e2 \in 0..MaxCount
    BY CountFacts DEF DigestOK, DigestTypeOK
  <1>2. w \in Nat /\ s \in Nat /\ w2 \in Nat /\ s2 \in Nat
    <2>1. Waiting(r, a)' \in SUBSET Delivery /\ Mailing(r, a)' \in SUBSET Delivery
      BY DEF Waiting, Mailing
    <2>. QED  BY <2>1, HoldersAre, DeliverySets
  <1>3. w2 = w + ww2 - ww /\ s2 = s + ss2 - ss
    BY <1>0 DEF HoldersMoved
  <1>4. ww \in 0..1 /\ ww2 \in 0..1 /\ ss \in 0..1 /\ ss2 \in 0..1
    BY DEF One
  <1>5. Balanced(p, m, e, w, s)
    BY DEF DigestOK, LedgerOK, PairOK, InBalance
  <1>6. /\ e <= e2
        /\ e # MaxCount /\ e2 # MaxCount =>
             /\ m2 - e2 + ww2 <= m - e + ww
             /\ p2 => p /\ m2 - e2 + ss <= m - e + ss2
    BY DEF Narrower
  <1>. HIDE DEF m, e, m2, e2, w, s, w2, s2, p, p2, ww, ww2, ss, ss2
  <1>7. e # MaxCount /\ e2 # MaxCount =>
          /\ m2 + w2 - e2 <= m + w - e
          /\ p2 => p /\ m2 - e2 - s2 <= m - e - s
    BY <1>1, <1>2, <1>3, <1>4, <1>6, CountFacts
  <1>8. Balanced(p2, m2, e2, w2, s2)
    BY <1>1, <1>2, <1>5, <1>6, <1>7, CountFacts DEF Balanced
  <1>. QED  BY <1>8 DEF InBalance, p2, m2, e2, w2, s2, Balanced

(* And what else PairOK says stays.                                        *)
Proper(d, rec, r, a) ==
  /\ notes'[r][a].status = "none" <=> notes[r][a].status = "none"
  /\ <<r, a>> \in rec.todo => <<r, a>> \in delivery[d].todo \/ notes[r][a].status # "none"
  /\ mailed'[r][a] = mailed[r][a] \/ (mailed'[r][a] > 0 /\ notes[r][a].status # "none")
  /\ notes'[r][a].status = "ENVIADO" => notes[r][a].status = "ENVIADO" \/ mailed'[r][a] > 0
  /\ MailsIn(rec, r, a) => mailed'[r][a] > 0

LEMMA PairMoves ==
  ASSUME DigestOK, DigestTypeOK', NEW d \in Delivery, NEW rec,
         delivery' = [delivery EXCEPT ![d] = rec], UNCHANGED <<queuedAt, fan>>,
         NEW r \in Follower, NEW a \in Story,
         InBalance(r, a)', Proper(d, rec, r, a)
  PROVE  PairOK(r, a)'
  <1>1. PairOK(r, a) /\ delivery \in [Delivery -> DeliveryType]
    BY DigestSorts DEF DigestOK, LedgerOK
  <1>2. ASSUME notes'[r][a].status = "none"
        PROVE  /\ mailed'[r][a] = 0 \/ (queuedAt'[a] /\ fan'[a].cats = <<>>)
               /\ \A q \in Delivery : <<r, a>> \notin delivery'[q].todo
    <2>1. mailed'[r][a] = mailed[r][a]
      BY <1>2 DEF Proper
    <2>2. \A q \in Delivery : <<r, a>> \notin delivery[q].todo
      BY <1>1, <1>2 DEF PairOK, Proper
    <2>3. <<r, a>> \notin rec.todo
      BY <1>2, <2>2 DEF Proper
    <2>4. \A q \in Delivery : <<r, a>> \notin delivery'[q].todo
      BY <1>1, <2>2, <2>3
    <2>. QED  BY <1>1, <1>2, <2>1, <2>4 DEF PairOK, Proper
  <1>3. Mailing(r, a)' # {} => Mailing(r, a) # {} \/ MailsIn(rec, r, a)
    <2>1. HoldersMoved(d, rec, r, a)
      BY <1>1, HoldersMove
    <2>. QED  BY <2>1 DEF HoldersMoved
  <1>4. mailed[r][a] > 0 => mailed'[r][a] > 0
    BY DEF Proper
  <1>5. notes'[r][a].status = "ENVIADO" \/ Mailing(r, a)' # {} => mailed'[r][a] > 0
    BY <1>1, <1>3, <1>4 DEF PairOK, Proper
  <1>6. notes'[r][a].status # "none" => queuedAt'[a]
    BY <1>1 DEF PairOK, Proper
  <1>. QED  BY <1>2, <1>5, <1>6 DEF PairOK

LEMMA DeliveryKeeps ==
  ASSUME DigestOK, DigestTypeOK', NEW d \in Delivery, NEW rec,
         delivery' = [delivery EXCEPT ![d] = rec],
         rec.pc = "idle" => rec.todo = {},
         rec.pc \in {"idle", "send"} => rec.to = {},
         UNCHANGED <<piece, queuedAt, wishes, seen, fan, changes, owed, cuts>>,
         \A r \in Follower, a \in Story : InBalance(r, a)' /\ Proper(d, rec, r, a)
  PROVE  DigestOK'
  <1>1. DeliveriesOK'
    BY DigestSorts DEF DigestOK, DeliveriesOK
  <1>2. LedgerOK'
    <2>1. ASSUME NEW r \in Follower, NEW a \in Story PROVE PairOK(r, a)'
      BY PairMoves
    <2>2. \A a \in Story : fan'[a].cats # <<>> => queuedAt'[a]
      BY DEF DigestOK, LedgerOK
    <2>. QED  BY <2>1, <2>2 DEF LedgerOK, PairOK, InBalance, Balanced, Waiting, Mailing
  <1>3. OwedOK'
    <2>1. ASSUME NEW a \in Story, NEW r \in Follower, NEW c \in Category,
                 <<r, c>> \in owed'[a]
          PROVE  /\ Wants(wishes'[r], c)
                 /\ notes'[r][a].status # "none"
                      \/ Ahead(fan'[a].cats, fan'[a].after, r, c)
                      \/ CutOff(a, r, c)'
      <3>1. <<r, c>> \in owed[a] /\ wishes' = wishes /\ fan' = fan
        BY <2>1
      <3>2. notes'[r][a].status = "none" => notes[r][a].status = "none"
        BY DEF Proper
      <3>. QED  BY <3>1, <3>2 DEF DigestOK, OwedOK, CutOff
    <2>. QED  BY <2>1 DEF OwedOK, Ahead, Wants, CutOff
  <1>. QED  BY <1>1, <1>2, <1>3 DEF DigestOK

(* A delivery's records, as its steps leave them.                          *)
Drains(c) == [pc |-> "send", todo |-> Draining(c), to |-> {}]
HasReader(rec, pc, r) == [rec EXCEPT !.pc = pc, !.to = {r}]
Fails(rec) == [rec EXCEPT !.pc = "failed"]
Leaves(rec, done) == [rec EXCEPT !.pc = "send", !.to = {}, !.todo = @ \ done]

LEMMA DrainsIs ==
  ASSUME NEW c
  PROVE  /\ Drains(c) \in DeliveryType /\ Drains(c).pc = "send"
         /\ Drains(c).todo = Draining(c) /\ Drains(c).to = {}
  BY DEF Drains, Draining, DeliveryType

LEMMA AtIs ==
  ASSUME NEW rec \in DeliveryType, NEW pc \in {"sent", "failed"}, NEW r \in Follower
  PROVE  /\ HasReader(rec, pc, r) \in DeliveryType /\ HasReader(rec, pc, r).pc = pc
         /\ HasReader(rec, pc, r).todo = rec.todo /\ HasReader(rec, pc, r).to = {r}
  BY DEF HasReader, DeliveryType

LEMMA FailsIs ==
  ASSUME NEW rec \in DeliveryType
  PROVE  /\ Fails(rec) \in DeliveryType /\ Fails(rec).pc = "failed"
         /\ Fails(rec).todo = rec.todo /\ Fails(rec).to = rec.to
  BY DEF Fails, DeliveryType

LEMMA LeavesIs ==
  ASSUME NEW rec \in DeliveryType, NEW done
  PROVE  /\ Leaves(rec, done) \in DeliveryType /\ Leaves(rec, done).pc = "send"
         /\ Leaves(rec, done).todo = rec.todo \ done /\ Leaves(rec, done).to = {}
  BY DEF Leaves, DeliveryType

LEMMA DeliveryIdleIs ==
  /\ DeliveryIdle \in DeliveryType /\ DeliveryIdle.pc = "idle"
  /\ DeliveryIdle.todo = {} /\ DeliveryIdle.to = {}
  BY DEF DeliveryIdle, DeliveryType

LEMMA PairIs ==
  ASSUME NEW r \in Follower, NEW a \in Story
  PROVE  /\ \A c : <<r, a>> \in Draining(c) => notes[r][a].status = "PENDENTE"
         /\ <<r, a>> \in Held <=> \E d \in Delivery : <<r, a>> \in delivery[d].todo
  <1>1. NoteRow(<<r, a>>) = notes[r][a]
    BY DEF NoteRow
  <1>. QED  BY <1>1 DEF Draining, Pending, Held

LEMMA BeginKeeps ==
  ASSUME DigestOK, NEW d \in Delivery, NEW c \in Cadence, BeginDelivery(d, c)
  PROVE  DigestOK'
  <1>. DEFINE rec == Drains(c)
              again == Draining(c) \cap Held
  <1>1. /\ delivery[d].pc = "idle" /\ delivery' = [delivery EXCEPT ![d] = rec]
        /\ excuse' = Bump(excuse, again)
        /\ UNCHANGED <<piece, queuedAt, wishes, notes, seen, fan, changes, mailed, owed, cuts>>
    BY DEF BeginDelivery, Drains
  <1>2. DigestTypeOK /\ delivery \in [Delivery -> DeliveryType] /\ mailed \in Counts
        /\ excuse \in Counts /\ notes \in Ledger
    BY DigestSorts DEF DigestOK
  <1>3. /\ rec \in DeliveryType /\ rec.pc = "send" /\ rec.todo = Draining(c) /\ rec.to = {}
    BY DrainsIs
  <1>4. /\ excuse' \in Counts
        /\ \A r \in Follower, a \in Story :
             excuse'[r][a] = IF <<r, a>> \in again THEN Capped(excuse[r][a]) ELSE excuse[r][a]
    <2>. HIDE DEF again
    <2>. QED  BY <1>1, <1>2, BumpIs
  <1>. HIDE DEF rec
  <1>5. DigestTypeOK'
    <2>1. mailed' \in Counts /\ notes' \in Ledger
      BY <1>1, <1>2
    <2>. QED  BY <1>1, <1>2, <1>3, <1>4, <2>1, DeliveryMoves
  <1>6. delivery[d].todo = {}
    BY <1>1 DEF DigestOK, DeliveriesOK
  <1>7. ASSUME NEW r \in Follower, NEW a \in Story
        PROVE  InBalance(r, a)' /\ Proper(d, rec, r, a)
    <2>1. /\ <<r, a>> \in Draining(c) => notes[r][a].status = "PENDENTE"
          /\ <<r, a>> \in Held <=> \E q \in Delivery : <<r, a>> \in delivery[q].todo
      BY PairIs
    <2>2. ~MailsIn(rec, r, a) /\ notes'[r][a] = notes[r][a] /\ mailed'[r][a] = mailed[r][a]
      BY <1>1, <1>3 DEF MailsIn
    <2>3. Proper(d, rec, r, a)
      BY <1>3, <2>1, <2>2 DEF Proper
    <2>4. /\ ~WaitsIn(delivery[d], r, a) /\ ~MailsIn(delivery[d], r, a)
          /\ WaitsIn(rec, r, a) <=> <<r, a>> \in Draining(c)
      BY <1>3, <1>6 DEF WaitsIn, MailsIn
    <2>5. /\ mailed[r][a] \in Nat /\ excuse[r][a] \in 0..MaxCount
          /\ Capped(excuse[r][a]) >= excuse[r][a]
          /\ excuse[r][a] # MaxCount => Capped(excuse[r][a]) = excuse[r][a] + 1
      BY <1>2, PairSorts, CappedIs
    <2>6. One(TRUE) = 1 /\ One(FALSE) = 0
      BY DEF One
    <2>7. CASE <<r, a>> \notin Draining(c) \/ <<r, a>> \in Held
      <3>1. Narrower(d, rec, r, a)
        BY <1>4, <2>2, <2>4, <2>5, <2>6, <2>7, CountFacts DEF Narrower, One
      <3>. QED  BY <1>1, <1>5, <2>3, <3>1, BalanceMoves
    <2>8. CASE <<r, a>> \in Draining(c) /\ <<r, a>> \notin Held
      <3>1. Waiting(r, a) = {} /\ Mailing(r, a) = {}
        BY <2>1, <2>8 DEF Waiting, Mailing
      <3>2. Cardinality(Waiting(r, a)) = 0 /\ Cardinality(Mailing(r, a)) = 0
        BY <3>1, FS_EmptySet
      <3>3. HoldersMoved(d, rec, r, a)
        BY <1>1, <1>2, HoldersMove
      <3>4. Cardinality(Waiting(r, a)') = 1 /\ Cardinality(Mailing(r, a)') = 0
        BY <2>2, <2>4, <2>8, <3>2, <3>3 DEF HoldersMoved, One
      <3>5. notes[r][a].status = "PENDENTE" /\ excuse'[r][a] = excuse[r][a]
        BY <1>4, <2>1, <2>8
      <3>6. excuse[r][a] = MaxCount \/ mailed[r][a] <= excuse[r][a]
        <4>1. InBalance(r, a)
          BY DEF DigestOK, LedgerOK, PairOK
        <4>. DEFINE m == mailed[r][a]
                    e == excuse[r][a]
        <4>2. e = MaxCount \/ m <= e + 0
          BY <3>2, <3>5, <4>1 DEF InBalance, Balanced
        <4>3. m \in Nat /\ e \in Nat
          BY <2>5, CountFacts
        <4>. HIDE DEF m, e
        <4>4. e = MaxCount \/ m <= e
          BY <4>2, <4>3
        <4>. QED  BY <4>4 DEF m, e
      <3>7. excuse[r][a] = MaxCount
              \/ (mailed[r][a] + 1 <= 1 + excuse[r][a] /\ mailed[r][a] <= excuse[r][a] + 0)
        BY <2>5, <3>6, CountFacts
      <3>8. InBalance(r, a)'
        BY <2>2, <3>4, <3>5, <3>7 DEF InBalance, Balanced
      <3>. QED  BY <2>3, <3>8
    <2>. QED  BY <2>7, <2>8
  <1>. QED  BY <1>1, <1>3, <1>5, <1>7, DeliveryKeeps

(* One e-mail for all that a reader is owed goes out, or is refused.       *)
LEMMA SendKeeps ==
  ASSUME DigestOK, NEW d \in Delivery, NEW r \in Follower, Send(d, r) \/ SendFails(d, r)
  PROVE  DigestOK'
  <1>. DEFINE mine == To(d, r)
              pc == IF Send(d, r) THEN "sent" ELSE "failed"
              rec == HasReader(delivery[d], pc, r)
  <1>1. DigestTypeOK /\ delivery \in [Delivery -> DeliveryType] /\ mailed \in Counts
        /\ excuse \in Counts /\ notes \in Ledger /\ delivery[d] \in DeliveryType
    BY DigestSorts DEF DigestOK
  <1>2. pc \in {"sent", "failed"}
    OBVIOUS
  <1>3. delivery[d].pc = "send" /\ delivery[d].to = {}
    BY DEF Send, SendFails, DigestOK, DeliveriesOK
  <1>4. delivery' = [delivery EXCEPT ![d] = rec]
    <2>1. delivery' = [delivery EXCEPT ![d].pc = pc, ![d].to = {r}]
      BY DEF Send, SendFails
    <2>. HIDE DEF pc
    <2>. QED  BY <1>1, <2>1 DEF HasReader
  <1>5. /\ \/ pc = "sent" /\ mailed' = Bump(mailed, mine) /\ excuse' = excuse
           \/ pc = "failed" /\ mailed' = mailed /\ excuse' = excuse
           \/ pc = "failed" /\ mailed' = Bump(mailed, mine) /\ excuse' = Bump(excuse, mine)
        /\ UNCHANGED <<piece, queuedAt, wishes, notes, seen, fan, changes, owed, cuts>>
    BY DEF Send, SendFails
  <1>. HIDE DEF pc
  <1>6. /\ rec \in DeliveryType /\ rec.pc = pc /\ rec.todo = delivery[d].todo
        /\ rec.to = {r}
    BY <1>1, <1>2, AtIs
  <1>7. \A q \in Follower, a \in Story : <<q, a>> \in mine <=>
          <<q, a>> \in delivery[d].todo /\ q = r
    BY HandledIs
  <1>. HIDE DEF rec, mine
  <1>8. mailed' \in Counts /\ excuse' \in Counts /\ notes' \in Ledger
    BY <1>1, <1>5, BumpIs
  <1>9. DigestTypeOK'
    BY <1>1, <1>4, <1>5, <1>6, <1>8, DeliveryMoves
  <1>10. ASSUME NEW q \in Follower, NEW a \in Story
         PROVE  InBalance(q, a)' /\ Proper(d, rec, q, a)
    <2>. DEFINE m == mailed[q][a]
                e == excuse[q][a]
                m2 == mailed'[q][a]
                e2 == excuse'[q][a]
    <2>1. m \in Nat /\ e \in Nat /\ m \in 0..MaxCount /\ e \in 0..MaxCount
      BY <1>1, PairSorts
    <2>2. CASE <<q, a>> \notin mine
      <3>1. m2 = m /\ e2 = e /\ notes' = notes
        BY <1>1, <1>5, <2>2, BumpIs
      <3>2. /\ ~MailsIn(rec, q, a) /\ ~MailsIn(delivery[d], q, a)
            /\ WaitsIn(rec, q, a) <=> WaitsIn(delivery[d], q, a)
        BY <1>3, <1>6, <1>7, <2>2 DEF MailsIn, WaitsIn
      <3>3. Proper(d, rec, q, a)
        BY <1>6, <3>1, <3>2 DEF Proper
      <3>4. One(WaitsIn(rec, q, a)) = One(WaitsIn(delivery[d], q, a))
            /\ One(MailsIn(rec, q, a)) = One(MailsIn(delivery[d], q, a))
            /\ One(WaitsIn(rec, q, a)) \in Int /\ One(MailsIn(rec, q, a)) \in Int
        BY <3>2 DEF One
      <3>5. Narrower(d, rec, q, a)
        BY <2>1, <3>1, <3>4 DEF Narrower
      <3>. QED  BY <1>4, <1>9, <3>3, <3>5, BalanceMoves
    <2>3. CASE <<q, a>> \in mine
      <3>1. <<q, a>> \in delivery[d].todo /\ q = r
        BY <1>7, <2>3
      <3>2. /\ WaitsIn(delivery[d], q, a) /\ ~MailsIn(delivery[d], q, a)
            /\ ~WaitsIn(rec, q, a) /\ (MailsIn(rec, q, a) <=> pc = "sent")
        BY <1>3, <1>6, <3>1 DEF MailsIn, WaitsIn
      <3>3. /\ Capped(m) \in Nat /\ Capped(m) > 0 /\ Capped(m) <= m + 1 /\ Capped(m) >= m
            /\ Capped(e) \in Nat /\ Capped(e) >= e /\ (e # MaxCount => Capped(e) = e + 1)
        BY <2>1, CappedIs, CountFacts
      <3>4. /\ notes' = notes
            /\ \/ m2 = Capped(m) /\ e2 = e /\ pc = "sent"
               \/ pc = "failed" /\ m2 = m /\ e2 = e
               \/ pc = "failed" /\ m2 = Capped(m) /\ e2 = Capped(e)
        BY <1>1, <1>2, <1>5, <2>3, BumpIs
      <3>5. notes[q][a].status # "none"
        BY <3>1 DEF DigestOK, LedgerOK, PairOK
      <3>6. Proper(d, rec, q, a)
        BY <1>6, <3>2, <3>3, <3>4, <3>5 DEF Proper
      <3>7. /\ One(WaitsIn(delivery[d], q, a)) = 1 /\ One(MailsIn(delivery[d], q, a)) = 0
            /\ One(WaitsIn(rec, q, a)) = 0
            /\ One(MailsIn(rec, q, a)) = IF pc = "sent" THEN 1 ELSE 0
        BY <3>2 DEF One
      <3>8. Narrower(d, rec, q, a)
        BY <2>1, <3>3, <3>4, <3>7 DEF Narrower
      <3>. QED  BY <1>4, <1>9, <3>6, <3>8, BalanceMoves
    <2>. QED  BY <2>2, <2>3
  <1>. QED  BY <1>2, <1>4, <1>5, <1>6, <1>9, <1>10, DeliveryKeeps

(* A step that sends nothing: what is recorded, given a reason, or dropped. *)
Recorded(d, rec, r, a) ==
  /\ <<r, a>> \in rec.todo => <<r, a>> \in delivery[d].todo
  /\ WaitsIn(rec, r, a) => WaitsIn(delivery[d], r, a)
  /\ MailsIn(rec, r, a) => MailsIn(delivery[d], r, a)
  /\ excuse'[r][a] = excuse[r][a] \/ excuse'[r][a] = Capped(excuse[r][a])
  /\ notes'[r][a].status = "none" <=> notes[r][a].status = "none"
  /\ notes'[r][a].status = "ENVIADO" =>
       notes[r][a].status = "ENVIADO" \/ MailsIn(delivery[d], r, a)
  /\ notes'[r][a].status = "PENDENTE" =>
       /\ notes[r][a].status = "PENDENTE"
       /\ MailsIn(delivery[d], r, a) =>
            MailsIn(rec, r, a) \/ excuse'[r][a] = Capped(excuse[r][a])

LEMMA RecordedKeeps ==
  ASSUME DigestOK, DigestTypeOK', NEW d \in Delivery, NEW rec,
         delivery' = [delivery EXCEPT ![d] = rec], UNCHANGED mailed,
         NEW r \in Follower, NEW a \in Story, Recorded(d, rec, r, a)
  PROVE  InBalance(r, a)' /\ Proper(d, rec, r, a)
  <1>. DEFINE m == mailed[r][a]
              e == excuse[r][a]
              e2 == excuse'[r][a]
              ww == One(WaitsIn(delivery[d], r, a))
              ww2 == One(WaitsIn(rec, r, a))
              ss == One(MailsIn(delivery[d], r, a))
              ss2 == One(MailsIn(rec, r, a))
  <1>1. m \in Nat /\ e \in 0..MaxCount /\ mailed'[r][a] = m
    BY PairSorts DEF DigestOK
  <1>2. Capped(e) >= e /\ (e # MaxCount => Capped(e) = e + 1)
    BY <1>1, CappedIs
  <1>3. MailsIn(delivery[d], r, a) => m > 0
    <2>1. MailsIn(delivery[d], r, a) => Mailing(r, a) # {}
      BY DEF Mailing, MailsIn
    <2>. QED  BY <2>1 DEF DigestOK, LedgerOK, PairOK
  <1>4. Proper(d, rec, r, a)
    BY <1>1, <1>3 DEF Proper, Recorded
  <1>5. ww2 <= ww /\ ww \in 0..1 /\ ww2 \in 0..1 /\ ss \in 0..1 /\ ss2 \in 0..1
    BY DEF Recorded, One
  <1>6. notes'[r][a].status = "PENDENTE" =>
          notes[r][a].status = "PENDENTE" /\ (ss <= ss2 \/ e2 = Capped(e))
    BY DEF Recorded, One
  <1>7. e2 = e \/ e2 = Capped(e)
    BY DEF Recorded
  <1>. HIDE DEF m, e, e2, ww, ww2, ss, ss2
  <1>8. /\ e <= e2
        /\ e # MaxCount /\ e2 # MaxCount =>
             /\ m - e2 + ww2 <= m - e + ww
             /\ notes'[r][a].status = "PENDENTE" =>
                  notes[r][a].status = "PENDENTE" /\ m - e2 + ss <= m - e + ss2
    BY <1>1, <1>2, <1>5, <1>6, <1>7, CountFacts
  <1>9. Narrower(d, rec, r, a)
    BY <1>1, <1>8 DEF Narrower, m, e, e2, ww, ww2, ss, ss2
  <1>. QED  BY <1>4, <1>9, BalanceMoves

LEMMA RecordSentKeeps ==
  ASSUME DigestOK, NEW d \in Delivery, RecordSent(d)
  PROVE  DigestOK'
  <1>. DEFINE done == Handled(d)
              rec == Leaves(delivery[d], done)
  <1>1. DigestTypeOK /\ delivery \in [Delivery -> DeliveryType] /\ mailed \in Counts
        /\ excuse \in Counts /\ notes \in Ledger /\ delivery[d] \in DeliveryType
    BY DigestSorts DEF DigestOK
  <1>2. /\ delivery[d].pc = "sent" /\ delivery' = [delivery EXCEPT ![d] = rec]
        /\ notes' = Noted(done, AsSent)
        /\ UNCHANGED <<piece, queuedAt, wishes, seen, fan, changes, mailed, excuse, owed, cuts>>
    BY <1>1 DEF RecordSent, Onward, Leaves
  <1>3. \A r \in Follower, a \in Story : <<r, a>> \in done <=>
          <<r, a>> \in delivery[d].todo /\ r \in delivery[d].to
    BY HandledIs
  <1>. HIDE DEF done
  <1>4. /\ rec \in DeliveryType /\ rec.pc = "send" /\ rec.todo = delivery[d].todo \ done
        /\ rec.to = {}
    BY <1>1, LeavesIs
  <1>. HIDE DEF rec
  <1>5. /\ notes' \in Ledger
        /\ \A r \in Follower, a \in Story :
             notes'[r][a] = IF <<r, a>> \in done THEN AsSent(notes[r][a]) ELSE notes[r][a]
    BY <1>1, <1>2, NotedSent
  <1>6. DigestTypeOK'
    BY <1>1, <1>2, <1>4, <1>5, DeliveryMoves
  <1>7. ASSUME NEW r \in Follower, NEW a \in Story
        PROVE  Recorded(d, rec, r, a)
    <2>1. /\ AsSent(notes[r][a]).status \in {"none", "ENVIADO"}
          /\ notes[r][a].status = "none" <=> AsSent(notes[r][a]).status = "none"
      BY <1>1, PairSorts, RowsAre
    <2>. QED  BY <1>2, <1>3, <1>4, <1>5, <2>1 DEF Recorded, WaitsIn, MailsIn
  <1>. QED  BY <1>2, <1>4, <1>6, <1>7, RecordedKeeps, DeliveryKeeps

LEMMA RecordSentFailsKeeps ==
  ASSUME DigestOK, NEW d \in Delivery, RecordSentFails(d)
  PROVE  DigestOK'
  <1>. DEFINE done == Handled(d)
              rec == Fails(delivery[d])
  <1>1. DigestTypeOK /\ delivery \in [Delivery -> DeliveryType] /\ mailed \in Counts
        /\ excuse \in Counts /\ notes \in Ledger /\ delivery[d] \in DeliveryType
    BY DigestSorts DEF DigestOK
  <1>2. /\ delivery[d].pc = "sent" /\ delivery' = [delivery EXCEPT ![d] = rec]
        /\ excuse' = Bump(excuse, done)
        /\ UNCHANGED <<piece, queuedAt, wishes, notes, seen, fan, changes, mailed, owed, cuts>>
    BY <1>1 DEF RecordSentFails, Fails
  <1>3. \A r \in Follower, a \in Story : <<r, a>> \in done <=>
          <<r, a>> \in delivery[d].todo /\ r \in delivery[d].to
    BY HandledIs
  <1>. HIDE DEF done
  <1>4. /\ rec \in DeliveryType /\ rec.pc = "failed" /\ rec.todo = delivery[d].todo
        /\ rec.to = delivery[d].to
    BY <1>1, FailsIs
  <1>. HIDE DEF rec
  <1>5. /\ excuse' \in Counts
        /\ \A r \in Follower, a \in Story :
             excuse'[r][a] = IF <<r, a>> \in done THEN Capped(excuse[r][a]) ELSE excuse[r][a]
    BY <1>1, <1>2, BumpIs
  <1>6. DigestTypeOK'
    BY <1>1, <1>2, <1>4, <1>5, DeliveryMoves
  <1>7. ASSUME NEW r \in Follower, NEW a \in Story
        PROVE  Recorded(d, rec, r, a)
    BY <1>2, <1>3, <1>4, <1>5 DEF Recorded, WaitsIn, MailsIn
  <1>. QED  BY <1>2, <1>4, <1>6, <1>7, RecordedKeeps, DeliveryKeeps

LEMMA RecordFailedKeeps ==
  ASSUME DigestOK, NEW d \in Delivery, RecordFailed(d)
  PROVE  DigestOK'
  <1>. DEFINE done == Handled(d)
              rec == Leaves(delivery[d], done)
  <1>1. DigestTypeOK /\ delivery \in [Delivery -> DeliveryType] /\ mailed \in Counts
        /\ excuse \in Counts /\ notes \in Ledger /\ delivery[d] \in DeliveryType
    BY DigestSorts DEF DigestOK
  <1>2. /\ delivery[d].pc = "failed" /\ delivery' = [delivery EXCEPT ![d] = rec]
        /\ notes' = Noted(done, AsFailed)
        /\ UNCHANGED <<piece, queuedAt, wishes, seen, fan, changes, mailed, excuse, owed, cuts>>
    BY <1>1 DEF RecordFailed, Onward, Leaves
  <1>3. \A r \in Follower, a \in Story : <<r, a>> \in done <=>
          <<r, a>> \in delivery[d].todo /\ r \in delivery[d].to
    BY HandledIs
  <1>. HIDE DEF done
  <1>4. /\ rec \in DeliveryType /\ rec.pc = "send" /\ rec.todo = delivery[d].todo \ done
        /\ rec.to = {}
    BY <1>1, LeavesIs
  <1>. HIDE DEF rec
  <1>5. /\ notes' \in Ledger
        /\ \A r \in Follower, a \in Story :
             notes'[r][a] = IF <<r, a>> \in done THEN AsFailed(notes[r][a]) ELSE notes[r][a]
    BY <1>1, <1>2, NotedFailed
  <1>6. DigestTypeOK'
    BY <1>1, <1>2, <1>4, <1>5, DeliveryMoves
  <1>7. ASSUME NEW r \in Follower, NEW a \in Story
        PROVE  Recorded(d, rec, r, a)
    <2>1. AsFailed(notes[r][a]).status = notes[r][a].status
      BY <1>1, PairSorts, RowsAre
    <2>. QED  BY <1>2, <1>3, <1>4, <1>5, <2>1 DEF Recorded, WaitsIn, MailsIn
  <1>. QED  BY <1>2, <1>4, <1>6, <1>7, RecordedKeeps, DeliveryKeeps

LEMMA EndDeliveryKeeps ==
  ASSUME DigestOK, NEW d \in Delivery, EndDelivery(d)
  PROVE  DigestOK'
  <1>. DEFINE rec == DeliveryIdle
              all == Pair
  <1>1. DigestTypeOK /\ delivery \in [Delivery -> DeliveryType] /\ mailed \in Counts
        /\ excuse \in Counts /\ notes \in Ledger /\ delivery[d] \in DeliveryType
    BY DigestSorts DEF DigestOK
  <1>2. /\ delivery[d].todo = {} /\ delivery' = [delivery EXCEPT ![d] = rec]
        /\ notes' = Noted(all, GivenUp)
        /\ UNCHANGED <<piece, queuedAt, wishes, seen, fan, changes, mailed, excuse, owed, cuts>>
    BY DEF EndDelivery
  <1>3. rec \in DeliveryType /\ rec.pc = "idle" /\ rec.todo = {} /\ rec.to = {}
    BY DeliveryIdleIs
  <1>. HIDE DEF rec, all
  <1>4. /\ notes' \in Ledger
        /\ \A r \in Follower, a \in Story :
             notes'[r][a] = IF <<r, a>> \in all THEN GivenUp(notes[r][a]) ELSE notes[r][a]
    BY <1>1, <1>2, NotedGivenUp
  <1>5. DigestTypeOK'
    BY <1>1, <1>2, <1>3, <1>4, DeliveryMoves
  <1>6. ASSUME NEW r \in Follower, NEW a \in Story
        PROVE  Recorded(d, rec, r, a)
    <2>1. /\ GivenUp(notes[r][a]).status \in {notes[r][a].status, "FALHOU"}
          /\ notes[r][a].status = "none" <=> GivenUp(notes[r][a]).status = "none"
      BY <1>1, PairSorts, RowsAre
    <2>. QED  BY <1>2, <1>3, <1>4, <2>1 DEF Recorded, WaitsIn, MailsIn
  <1>. QED  BY <1>2, <1>3, <1>5, <1>6, RecordedKeeps, DeliveryKeeps

LEMMA CrashDeliveryKeeps ==
  ASSUME DigestOK, NEW d \in Delivery, CrashDelivery(d)
  PROVE  DigestOK'
  <1>. DEFINE rec == DeliveryIdle
              done == Handled(d)
  <1>1. DigestTypeOK /\ delivery \in [Delivery -> DeliveryType] /\ mailed \in Counts
        /\ excuse \in Counts /\ notes \in Ledger /\ delivery[d] \in DeliveryType
    BY DigestSorts DEF DigestOK
  <1>2. /\ delivery' = [delivery EXCEPT ![d] = rec]
        /\ \/ delivery[d].pc = "sent" /\ excuse' = Bump(excuse, done)
           \/ delivery[d].pc # "sent" /\ UNCHANGED excuse
        /\ UNCHANGED <<piece, queuedAt, wishes, notes, seen, fan, changes, mailed, owed, cuts>>
    BY DEF CrashDelivery
  <1>3. \A r \in Follower, a \in Story : <<r, a>> \in done <=>
          <<r, a>> \in delivery[d].todo /\ r \in delivery[d].to
    BY HandledIs
  <1>4. rec \in DeliveryType /\ rec.pc = "idle" /\ rec.todo = {} /\ rec.to = {}
    BY DeliveryIdleIs
  <1>. HIDE DEF rec, done
  <1>5. /\ excuse' \in Counts
        /\ \A r \in Follower, a \in Story :
             excuse'[r][a] = IF delivery[d].pc = "sent" /\ <<r, a>> \in done
                             THEN Capped(excuse[r][a]) ELSE excuse[r][a]
    BY <1>1, <1>2, BumpIs
  <1>6. DigestTypeOK'
    BY <1>1, <1>2, <1>4, <1>5, DeliveryMoves
  <1>7. ASSUME NEW r \in Follower, NEW a \in Story
        PROVE  Recorded(d, rec, r, a)
    BY <1>2, <1>3, <1>4, <1>5 DEF Recorded, WaitsIn, MailsIn
  <1>. QED  BY <1>2, <1>4, <1>6, <1>7, RecordedKeeps, DeliveryKeeps

-----------------------------------------------------------------------------
(* The newsroom, the readers and the fan-out.                              *)

LEMMA QuietKeeps ==
  ASSUME DigestOK, DigestTypeOK', UNCHANGED <<queuedAt, notes, fan, delivery, mailed, excuse>>
  PROVE  DeliveriesOK' /\ LedgerOK'
  <1>1. DeliveriesOK'
    BY DEF DigestOK, DeliveriesOK
  <1>2. ASSUME NEW r \in Follower, NEW a \in Story PROVE PairOK(r, a)'
    <2>1. PairOK(r, a)
      BY DEF DigestOK, LedgerOK
    <2>2. Waiting(r, a)' = Waiting(r, a) /\ Mailing(r, a)' = Mailing(r, a)
      BY DEF Waiting, Mailing
    <2>. QED  BY <2>1, <2>2 DEF PairOK, InBalance, Balanced
  <1>3. LedgerOK'
    BY <1>2 DEF DigestOK, LedgerOK, PairOK, InBalance, Balanced, Waiting, Mailing
  <1>. QED  BY <1>1, <1>3

LEMMA NewsKeeps ==
  ASSUME DigestOK, NEW a \in Story, Release(a) \/ Passes(a) \/ Look
  PROVE  DigestOK'
  <1>1. UNCHANGED <<queuedAt, wishes, notes, fan, delivery, mailed, excuse, owed, cuts>>
    BY DEF Release, Passes, Look
  <1>2. DigestTypeOK'
    BY NewsTypes DEF DigestOK
  <1>3. OwedOK'
    BY <1>1 DEF DigestOK, OwedOK, Ahead, Wants, CutOff
  <1>. QED  BY <1>1, <1>2, <1>3, QuietKeeps DEF DigestOK

LEMMA WishKeeps ==
  ASSUME DigestOK, NEW r \in Follower, WishStep(r)
  PROVE  DigestOK'
  <1>1. PICK w \in WishType : Wish(r, w)
    BY ReadersWish DEF DigestOK
  <1>2. /\ wishes' = [wishes EXCEPT ![r] = w]
        /\ owed' = [a \in Story |-> {x \in owed[a] : x[1] = r => Wants(w, x[2])}]
        /\ UNCHANGED <<queuedAt, notes, fan, delivery, mailed, excuse, cuts>>
    BY <1>1 DEF Wish
  <1>3. DigestTypeOK'
    BY <1>1, WishTypes DEF DigestOK
  <1>4. ASSUME NEW a \in Story, NEW q \in Follower, NEW c \in Category,
               <<q, c>> \in owed'[a]
        PROVE  /\ Wants(wishes'[q], c)
               /\ notes'[q][a].status # "none"
                    \/ Ahead(fan'[a].cats, fan'[a].after, q, c)
                    \/ CutOff(a, q, c)'
    <2>1. <<q, c>> \in owed[a] /\ (q = r => Wants(w, c))
      BY <1>2, <1>4
    <2>2. wishes'[q] = IF q = r THEN w ELSE wishes[q]
      BY <1>2 DEF DigestOK, DigestTypeOK
    <2>. QED  BY <1>2, <2>1, <2>2 DEF DigestOK, OwedOK, CutOff
  <1>5. OwedOK'
    BY <1>4 DEF OwedOK, Ahead, Wants, CutOff
  <1>. QED  BY <1>2, <1>3, <1>5, QuietKeeps DEF DigestOK

(* The fan-out, which leaves the deliveries and the counts alone.          *)
LEMMA FanKeeps ==
  ASSUME DigestOK, DigestTypeOK', UNCHANGED <<delivery, mailed, excuse>>,
         \A a \in Story : fan'[a].cats # <<>> => queuedAt'[a],
         \A r \in Follower, a \in Story :
           /\ notes'[r][a].status = "none" =>
                \/ mailed[r][a] = 0
                \/ queuedAt'[a] /\ fan'[a].cats = <<>>
           /\ notes'[r][a].status # "none" => queuedAt'[a]
           /\ \/ notes'[r][a] = notes[r][a]
              \/ /\ notes[r][a].status = "none" /\ notes'[r][a].status = "PENDENTE"
                 /\ mailed[r][a] = 0
              \/ /\ notes'[r][a].status = "none"
                 /\ \A d \in Delivery : <<r, a>> \notin delivery[d].todo
  PROVE  DeliveriesOK' /\ LedgerOK'
  <1>1. DeliveriesOK'
    BY DEF DigestOK, DeliveriesOK
  <1>2. ASSUME NEW r \in Follower, NEW a \in Story PROVE PairOK(r, a)'
    <2>1. PairOK(r, a)
      BY DEF DigestOK, LedgerOK
    <2>2. Waiting(r, a)' = Waiting(r, a) /\ Mailing(r, a)' = Mailing(r, a)
      BY DEF Waiting, Mailing
    <2>3. CASE notes'[r][a] = notes[r][a]
      BY <2>1, <2>2, <2>3 DEF PairOK, InBalance, Balanced
    <2>4. CASE /\ notes[r][a].status = "none" /\ notes'[r][a].status = "PENDENTE"
               /\ mailed[r][a] = 0
      <3>1. Waiting(r, a) = {} /\ Mailing(r, a) = {}
        BY <2>1, <2>4 DEF PairOK, Waiting, Mailing
      <3>2. Cardinality(Waiting(r, a)') = 0 /\ Cardinality(Mailing(r, a)') = 0
        BY <2>2, <3>1, FS_EmptySet
      <3>3. excuse[r][a] \in Nat
        BY PairSorts DEF DigestOK
      <3>4. 0 + 0 <= 1 + excuse[r][a] /\ 0 <= excuse[r][a] + 0
        BY <3>3
      <3>5. InBalance(r, a)'
        BY <2>4, <3>2, <3>4 DEF InBalance, Balanced
      <3>. QED  BY <2>2, <2>4, <3>1, <3>5 DEF PairOK
    <2>5. CASE /\ notes'[r][a].status = "none"
               /\ \A d \in Delivery : <<r, a>> \notin delivery[d].todo
      <3>1. Mailing(r, a) = {}
        BY <2>5 DEF Mailing
      <3>2. InBalance(r, a)'
        BY <2>1, <2>2, <2>5 DEF PairOK, InBalance, Balanced
      <3>. QED  BY <2>2, <2>5, <3>1, <3>2 DEF PairOK
    <2>. QED  BY <2>3, <2>4, <2>5
  <1>3. LedgerOK'
    BY <1>2 DEF LedgerOK, PairOK, InBalance, Balanced, Waiting, Mailing
  <1>. QED  BY <1>1, <1>3

LEMMA ClaimKeeps ==
  ASSUME DigestOK, NEW a \in Story, Claim(a)
  PROVE  DigestOK'
  <1>1. DigestTypeOK' /\ DigestTypeOK
    BY ClaimTypes DEF DigestOK
  <1>2. CASE queuedAt[a]
    <2>1. UNCHANGED <<queuedAt, wishes, notes, fan, delivery, mailed, excuse, owed, cuts>>
      BY <1>2 DEF Claim
    <2>2. OwedOK'
      BY <2>1 DEF DigestOK, OwedOK, Ahead, Wants, CutOff
    <2>. QED  BY <1>1, <2>1, <2>2, QuietKeeps DEF DigestOK
  <1>3. CASE ~queuedAt[a]
    <2>1. PICK cats \in Targets :
            /\ fan' = [fan EXCEPT ![a] = [cats |-> cats, after |-> 0]]
            /\ owed' = [owed EXCEPT ![a] =
                 {x \in Follower \X Category :
                    (\E i \in DOMAIN cats : cats[i] = x[2]) /\ Wants(wishes[x[1]], x[2])}]
      BY <1>3 DEF Claim
    <2>2. /\ queuedAt' = [queuedAt EXCEPT ![a] = TRUE]
          /\ UNCHANGED <<wishes, notes, delivery, mailed, excuse, cuts>>
      BY <1>3 DEF Claim
    <2>3. cats \in Seq(Category) /\ DOMAIN cats = 1..Len(cats)
      BY FiledIs, LenProperties DEF Targets
    <2>4. fan \in [Story -> FanType] /\ queuedAt \in [Story -> BOOLEAN]
          /\ owed \in [Story -> SUBSET (Follower \X Category)]
      BY <1>1 DEF DigestTypeOK, FanType
    <2>5. /\ fan'[a] = [cats |-> cats, after |-> 0] /\ queuedAt'[a]
          /\ \A b \in Story : b # a => fan'[b] = fan[b] /\ queuedAt'[b] = queuedAt[b]
                                       /\ owed'[b] = owed[b]
      BY <2>1, <2>2, <2>4
    <2>6. DeliveriesOK' /\ LedgerOK'
      <3>1. \A b \in Story : fan'[b].cats # <<>> => queuedAt'[b]
        BY <2>5 DEF DigestOK, LedgerOK
      <3>2. ASSUME NEW r \in Follower, NEW b \in Story
            PROVE  /\ notes'[r][b].status = "none" =>
                        \/ mailed[r][b] = 0
                        \/ queuedAt'[b] /\ fan'[b].cats = <<>>
                   /\ notes'[r][b].status # "none" => queuedAt'[b]
                   /\ notes'[r][b] = notes[r][b]
        <4>1. PairOK(r, b)
          BY DEF DigestOK, LedgerOK
        <4>. QED  BY <1>3, <2>2, <2>5, <4>1 DEF PairOK
      <3>. QED  BY <1>1, <2>2, <3>1, <3>2, FanKeeps
    <2>7. OwedOK'
      <3>1. ASSUME NEW b \in Story, NEW r \in Follower, NEW c \in Category,
                   <<r, c>> \in owed'[b]
            PROVE  /\ Wants(wishes'[r], c)
                   /\ notes'[r][b].status # "none"
                        \/ Ahead(fan'[b].cats, fan'[b].after, r, c)
                        \/ CutOff(b, r, c)'
        <4>1. CASE b # a
          BY <2>2, <2>5, <3>1, <4>1 DEF DigestOK, OwedOK, CutOff
        <4>2. CASE b = a
          <5>1. (\E i \in DOMAIN cats : cats[i] = c) /\ Wants(wishes[r], c)
            BY <2>1, <2>4, <3>1, <4>2
          <5>2. r > 0
            BY DigestAssumption
          <5>3. Ahead(cats, 0, r, c)
            BY <2>3, <5>1, <5>2 DEF Ahead
          <5>. QED  BY <2>2, <2>5, <4>2, <5>1, <5>3
        <4>. QED  BY <4>1, <4>2
      <3>. QED  BY <3>1 DEF OwedOK, Ahead, Wants, CutOff
    <2>. QED  BY <1>1, <2>6, <2>7 DEF DigestOK
  <1>. QED  BY <1>2, <1>3

LEMMA FanCutKeeps ==
  ASSUME DigestOK, NEW a \in Story, FanCut(a)
  PROVE  DigestOK'
  <1>1. DigestTypeOK' /\ DigestTypeOK
    BY FanCutTypes DEF DigestOK
  <1>2. /\ fan' = [fan EXCEPT ![a] = FanIdle]
        /\ cuts' = [cuts EXCEPT ![a] = @ \cup Unserved(fan[a])]
        /\ fan[a].cats # <<>>
        /\ UNCHANGED <<queuedAt, wishes, notes, delivery, mailed, excuse, owed>>
    BY DEF FanCut
  <1>3. FanIdle.cats = <<>>
    BY DEF FanIdle
  <1>4. /\ fan'[a].cats = <<>> /\ cuts'[a] = cuts[a] \cup Unserved(fan[a])
        /\ \A b \in Story : b # a => fan'[b] = fan[b] /\ cuts'[b] = cuts[b]
    BY <1>1, <1>2, <1>3 DEF DigestTypeOK
  <1>5. DeliveriesOK' /\ LedgerOK'
    <2>1. \A b \in Story : fan'[b].cats # <<>> => queuedAt'[b]
      BY <1>2, <1>4 DEF DigestOK, LedgerOK
    <2>2. ASSUME NEW r \in Follower, NEW b \in Story
          PROVE  /\ notes'[r][b].status = "none" =>
                      \/ mailed[r][b] = 0
                      \/ queuedAt'[b] /\ fan'[b].cats = <<>>
                 /\ notes'[r][b].status # "none" => queuedAt'[b]
                 /\ notes'[r][b] = notes[r][b]
      <3>1. PairOK(r, b)
        BY DEF DigestOK, LedgerOK
      <3>. QED  BY <1>2, <1>4, <3>1 DEF PairOK
    <2>. QED  BY <1>1, <1>2, <2>1, <2>2, FanKeeps
  <1>6. OwedOK'
    <2>1. ASSUME NEW b \in Story, NEW r \in Follower, NEW c \in Category,
                 <<r, c>> \in owed'[b]
          PROVE  /\ Wants(wishes'[r], c)
                 /\ notes'[r][b].status # "none"
                      \/ Ahead(fan'[b].cats, fan'[b].after, r, c)
                      \/ CutOff(b, r, c)'
      <3>1. /\ Wants(wishes[r], c)
            /\ \/ notes[r][b].status # "none"
               \/ Ahead(fan[b].cats, fan[b].after, r, c)
               \/ CutOff(b, r, c)
        BY <1>2, <2>1 DEF DigestOK, OwedOK
      <3>2. CASE b # a
        BY <1>2, <1>4, <3>1, <3>2 DEF CutOff
      <3>3. CASE b = a /\ Ahead(fan[b].cats, fan[b].after, r, c)
        <4>1. PICK i \in 1..Len(fan[a].cats) :
                fan[a].cats[i] = c /\ (i = 1 => r > fan[a].after)
          BY <3>3 DEF Ahead
        <4>. DEFINE served == IF i = 1 THEN fan[a].after ELSE 0
        <4>2. <<c, served>> \in cuts'[a] /\ r > served
          <5>1. r > 0 /\ fan[a] \in FanType
            BY <1>1, DigestAssumption DEF DigestTypeOK, FanType
          <5>. QED  BY <1>4, <4>1, <5>1, UnservedIs
        <4>. HIDE DEF served
        <4>3. CutOff(a, r, c)'
          BY <4>2 DEF CutOff
        <4>. QED  BY <1>2, <3>1, <3>3, <4>3
      <3>4. CASE b = a /\ CutOff(b, r, c)
        BY <1>2, <1>4, <3>1, <3>4 DEF CutOff
      <3>5. CASE notes[r][b].status # "none"
        BY <1>2, <3>1, <3>5
      <3>. QED  BY <3>1, <3>2, <3>3, <3>4, <3>5
    <2>. QED  BY <2>1 DEF OwedOK, Ahead, Wants, CutOff
  <1>. QED  BY <1>1, <1>5, <1>6 DEF DigestOK

LEMMA PruneKeeps ==
  ASSUME DigestOK, NEW r \in Follower, NEW a \in Story, Prune(r, a)
  PROVE  DigestOK'
  <1>1. DigestTypeOK' /\ DigestTypeOK
    BY PruneTypes DEF DigestOK
  <1>2. /\ notes' = [notes EXCEPT ![r][a] = NoNote]
        /\ owed' = [owed EXCEPT ![a] = {x \in @ : x[1] # r}]
        /\ notes[r][a].status # "none" /\ fan[a] = FanIdle
        /\ UNCHANGED <<queuedAt, wishes, fan, delivery, mailed, excuse, cuts>>
    BY DEF Prune
  <1>3. \A d \in Delivery : delivery[d].todo = {}
    BY DEF Prune, DigestOK, DeliveriesOK
  <1>4. /\ notes'[r][a].status = "none" /\ fan[a].cats = <<>>
        /\ \A q \in Follower, b \in Story : q # r \/ b # a => notes'[q][b] = notes[q][b]
    BY <1>1, <1>2, RowsAre DEF DigestTypeOK, FanIdle
  <1>5. DeliveriesOK' /\ LedgerOK'
    <2>1. \A b \in Story : fan'[b].cats # <<>> => queuedAt'[b]
      BY <1>2 DEF DigestOK, LedgerOK
    <2>2. ASSUME NEW q \in Follower, NEW b \in Story
          PROVE  /\ notes'[q][b].status = "none" =>
                      \/ mailed[q][b] = 0
                      \/ queuedAt'[b] /\ fan'[b].cats = <<>>
                 /\ notes'[q][b].status # "none" => queuedAt'[b]
                 /\ \/ notes'[q][b] = notes[q][b]
                    \/ /\ notes'[q][b].status = "none"
                       /\ \A d \in Delivery : <<q, b>> \notin delivery[d].todo
      <3>1. PairOK(q, b)
        BY DEF DigestOK, LedgerOK
      <3>2. CASE q # r \/ b # a
        BY <1>2, <1>4, <3>1, <3>2 DEF PairOK
      <3>3. CASE q = r /\ b = a
        BY <1>2, <1>3, <1>4, <3>1, <3>3 DEF PairOK
      <3>. QED  BY <3>2, <3>3
    <2>. QED  BY <1>1, <1>2, <2>1, <2>2, FanKeeps
  <1>6. OwedOK'
    <2>1. ASSUME NEW b \in Story, NEW q \in Follower, NEW c \in Category,
                 <<q, c>> \in owed'[b]
          PROVE  /\ Wants(wishes'[q], c)
                 /\ notes'[q][b].status # "none"
                      \/ Ahead(fan'[b].cats, fan'[b].after, q, c)
                      \/ CutOff(b, q, c)'
      <3>1. <<q, c>> \in owed[b] /\ (b = a => q # r)
        BY <1>1, <1>2, <2>1 DEF DigestTypeOK
      <3>. QED  BY <1>2, <1>4, <3>1 DEF DigestOK, OwedOK, CutOff
    <2>. QED  BY <2>1 DEF OwedOK, Ahead, Wants, CutOff
  <1>. QED  BY <1>1, <1>5, <1>6 DEF DigestOK

(* Whoever is still ahead after a page was, and was not on it.             *)
LEMMA AheadMoves ==
  ASSUME NEW cats \in Seq(Category), cats # <<>>, NEW after, NEW r \in Follower, NEW c,
         Ahead(cats, after, r, c), c # Head(cats) \/ ~(r > after)
  PROVE  Ahead(Tail(cats), 0, r, c) /\ \A top : Ahead(cats, top, r, c)
  <1>1. /\ Len(cats) \in Nat /\ Len(cats) > 0 /\ Head(cats) = cats[1]
        /\ Len(Tail(cats)) = Len(cats) - 1
        /\ \A i \in 1..Len(Tail(cats)) : Tail(cats)[i] = cats[i + 1]
    BY HeadTailProperties, EmptySeq
  <1>2. PICK i \in 1..Len(cats) : cats[i] = c /\ (i = 1 => r > after)
    BY DEF Ahead
  <1>3. i # 1
    BY <1>1, <1>2
  <1>4. i - 1 \in 1..Len(Tail(cats)) /\ Tail(cats)[i - 1] = c
    BY <1>1, <1>2, <1>3
  <1>5. r > 0
    BY DigestAssumption
  <1>. QED  BY <1>2, <1>3, <1>4, <1>5 DEF Ahead

LEMMA FanPageKeeps ==
  ASSUME DigestOK, NEW a \in Story, FanPage(a)
  PROVE  DigestOK'
  <1>. DEFINE cats == fan[a].cats
              after == fan[a].after
              head == Head(cats)
              noCursor == CursorLost(head, after)
              left == Left(head, after)
              page == IF noCursor THEN {} ELSE FirstOf(left)
  <1>1. DigestTypeOK' /\ DigestTypeOK
    BY FanPageTypes DEF DigestOK
  <1>2. /\ cats # <<>> /\ cats \in Seq(Category) /\ head \in Category
        /\ fan \in [Story -> FanType]
    <2>1. cats # <<>> /\ cats \in Seq(Category)
      BY <1>1 DEF DigestTypeOK, FanPage
    <2>. QED  BY <1>1, <2>1, HeadTailProperties DEF DigestTypeOK, FanType
  <1>3. FollowersAfter(head, after) = FirstOf(left) /\ left \in SUBSET Follower
    BY PageIs
  <1>4. /\ notes' = [r \in Follower |->
              IF r \in page /\ notes[r][a].status = "none"
              THEN [notes[r] EXCEPT ![a] = [status |-> "PENDENTE", attempts |-> 0]]
              ELSE notes[r]]
        /\ fan' = IF Cardinality(page) < FANOUT_BATCH
                  THEN [fan EXCEPT ![a] = [cats |-> Tail(cats), after |-> 0]]
                  ELSE [fan EXCEPT ![a].after = Max(page)]
        /\ cuts' = IF noCursor THEN [cuts EXCEPT ![a] = @ \cup {<<head, after>>}] ELSE cuts
        /\ UNCHANGED <<queuedAt, wishes, delivery, mailed, excuse, owed>>
    BY <1>3 DEF FanPage, NextCategory, NextPage
  <1>5. /\ page \in SUBSET Follower
        /\ noCursor => Cardinality(page) < FANOUT_BATCH
        /\ ~noCursor /\ Cardinality(page) < FANOUT_BATCH => page = left
        /\ ~(Cardinality(page) < FANOUT_BATCH) =>
             \A r \in left \ page : r > Max(page)
    <2>1. CASE noCursor
      <3>1. 0 < FANOUT_BATCH
        BY DigestAssumption
      <3>2. page = {}
        BY <2>1
      <3>. QED  BY <2>1, <3>1, <3>2, FS_EmptySet
    <2>2. CASE ~noCursor
      <3>1. page = FirstOf(left)
        BY <2>2
      <3>2. /\ page \in SUBSET left
            /\ \A q \in page, r \in left \ page : q < r
            /\ Cardinality(page) < FANOUT_BATCH => page = left
            /\ ~(Cardinality(page) < FANOUT_BATCH) => page # {}
        <4>. HIDE DEF left, page
        <4>. QED  BY <1>3, <3>1, FirstOfIs
      <3>3. page # {} => Max(page) \in page
        <4>. HIDE DEF left, page
        <4>. QED  BY <1>3, <3>2, GreatestIs
      <3>4. \A r \in Follower : r \in Nat
        BY DigestAssumption
      <3>5. ~(Cardinality(page) < FANOUT_BATCH) => \A r \in left \ page : r > Max(page)
        <4>. DEFINE top == Max(page)
        <4>. HIDE DEF left, page, top
        <4>. SUFFICES ASSUME ~(Cardinality(page) < FANOUT_BATCH), NEW r \in left \ page
                      PROVE  r > top
          BY DEF top
        <4>1. top \in page
          BY <3>2, <3>3 DEF top
        <4>. QED  BY <1>3, <3>2, <3>4, <4>1
      <3>. QED  BY <1>3, <2>2, <3>2, <3>5
    <2>. QED  BY <2>1, <2>2
  <1>6. \A r \in Follower : /\ r \in left <=> r > after /\ Wants(wishes[r], head)
                            /\ \A c \in Category : Wants(wishes[r], c) => c # head \/ r \in left
                                                     \/ ~(r > after)
    BY DEF Left
  <1>. HIDE DEF cats, after, head, noCursor, left, page
  <1>7. \A r \in Follower, b \in Story :
          \/ notes'[r][b] = notes[r][b] /\ (b = a /\ r \in page => notes[r][b].status # "none")
          \/ b = a /\ notes[r][b].status = "none" /\ notes'[r][b].status = "PENDENTE"
    BY <1>1, <1>4 DEF DigestTypeOK
  <1>8. /\ \A b \in Story : b # a => fan'[b] = fan[b] /\ cuts'[b] = cuts[b]
        /\ noCursor => cuts'[a] = cuts[a] \cup {<<head, after>>}
        /\ \A b \in Story : cuts[b] \subseteq cuts'[b]
    BY <1>1, <1>2, <1>4 DEF DigestTypeOK
  <1>9. /\ Cardinality(page) < FANOUT_BATCH =>
             fan'[a].cats = Tail(cats) /\ fan'[a].after = 0
        /\ ~(Cardinality(page) < FANOUT_BATCH) =>
             fan'[a].cats = cats /\ fan'[a].after = Max(page)
    <2>. DEFINE top == Max(page)
    <2>. HIDE DEF top
    <2>1. fan[a] \in FanType /\ fan[a].cats = cats
      BY <1>2 DEF cats
    <2>2. Cardinality(page) < FANOUT_BATCH => fan'[a] = [cats |-> Tail(cats), after |-> 0]
      BY <1>2, <1>4
    <2>3. ~(Cardinality(page) < FANOUT_BATCH) => fan'[a] = [fan[a] EXCEPT !.after = top]
      BY <1>2, <1>4 DEF top
    <2>4. /\ [fan[a] EXCEPT !.after = top].cats = cats
          /\ [fan[a] EXCEPT !.after = top].after = top
      BY <2>1 DEF FanType
    <2>5. Cardinality(page) < FANOUT_BATCH =>
            fan'[a].cats = Tail(cats) /\ fan'[a].after = 0
      BY <2>2
    <2>6. ~(Cardinality(page) < FANOUT_BATCH) =>
            fan'[a].cats = cats /\ fan'[a].after = top
      BY <2>3, <2>4
    <2>7. top = Max(page)
      BY DEF top
    <2>. QED  BY <2>5, <2>6, <2>7
  <1>10. queuedAt[a]
    BY <1>2 DEF DigestOK, LedgerOK, cats
  <1>11. DeliveriesOK' /\ LedgerOK'
    <2>1. \A b \in Story : fan'[b].cats # <<>> => queuedAt'[b]
      BY <1>4, <1>8, <1>10 DEF DigestOK, LedgerOK
    <2>2. ASSUME NEW r \in Follower, NEW b \in Story
          PROVE  /\ notes'[r][b].status = "none" =>
                      \/ mailed[r][b] = 0
                      \/ queuedAt'[b] /\ fan'[b].cats = <<>>
                 /\ notes'[r][b].status # "none" => queuedAt'[b]
                 /\ \/ notes'[r][b] = notes[r][b]
                    \/ /\ notes[r][b].status = "none" /\ notes'[r][b].status = "PENDENTE"
                       /\ mailed[r][b] = 0
      <3>1. PairOK(r, b)
        BY DEF DigestOK, LedgerOK
      <3>2. CASE b # a
        BY <1>4, <1>7, <1>8, <3>1, <3>2 DEF PairOK
      <3>3. CASE b = a
        <4>1. notes[r][b].status = "none" => mailed[r][b] = 0
          BY <1>2, <3>1, <3>3 DEF PairOK, cats
        <4>. QED  BY <1>4, <1>7, <1>10, <3>3, <4>1
      <3>. QED  BY <3>2, <3>3
    <2>. QED  BY <1>1, <1>4, <2>1, <2>2, FanKeeps
  <1>12. OwedOK'
    <2>1. ASSUME NEW b \in Story, NEW r \in Follower, NEW c \in Category,
                 <<r, c>> \in owed'[b]
          PROVE  /\ Wants(wishes'[r], c)
                 /\ notes'[r][b].status # "none"
                      \/ Ahead(fan'[b].cats, fan'[b].after, r, c)
                      \/ CutOff(b, r, c)'
      <3>1. /\ Wants(wishes'[r], c) /\ Wants(wishes[r], c)
            /\ \/ notes[r][b].status # "none"
               \/ Ahead(fan[b].cats, fan[b].after, r, c)
               \/ CutOff(b, r, c)
        BY <1>4, <2>1 DEF DigestOK, OwedOK
      <3>2. CASE CutOff(b, r, c)
        <4>1. CutOff(b, r, c)'
          BY <1>8, <3>2 DEF CutOff
        <4>. QED  BY <3>1, <4>1
      <3>3. notes[r][b].status # "none" => notes'[r][b].status # "none"
        BY <1>7
      <3>4. CASE b # a \/ notes[r][b].status # "none"
        BY <1>8, <3>1, <3>2, <3>3, <3>4
      <3>5. CASE b = a /\ notes[r][b].status = "none" /\ ~CutOff(b, r, c)
        <4>1. Ahead(cats, after, r, c)
          BY <3>1, <3>5 DEF cats, after
        <4>2. CASE r \in page
          BY <1>7, <3>1, <3>5, <4>2
        <4>3. CASE r \notin page /\ (c # head \/ ~(r > after))
          <5>1. Ahead(Tail(cats), 0, r, c) /\ \A top : Ahead(cats, top, r, c)
            BY <1>2, <4>1, <4>3, AheadMoves DEF head
          <5>2. Ahead(fan'[b].cats, fan'[b].after, r, c)
            BY <1>9, <3>5, <5>1
          <5>. QED  BY <3>1, <5>2
        <4>4. CASE r \notin page /\ c = head /\ r > after /\ noCursor
          <5>1. <<c, after>> \in cuts'[a]
            BY <1>8, <4>4
          <5>2. CutOff(a, r, c)'
            BY <4>4, <5>1 DEF CutOff
          <5>. QED  BY <3>1, <3>5, <5>2
        <4>5. CASE r \notin page /\ c = head /\ r > after /\ ~noCursor
          <5>1. r \in left \ page
            BY <1>6, <3>1, <4>5
          <5>2. ~(Cardinality(page) < FANOUT_BATCH) /\ r > Max(page)
            BY <1>5, <4>5, <5>1
          <5>3. Ahead(cats, Max(page), r, c)
            <6>1. 1 \in 1..Len(cats) /\ cats[1] = c
              BY <1>2, <4>5, EmptySeq, HeadTailProperties DEF head
            <6>. QED  BY <5>2, <6>1 DEF Ahead
          <5>4. Ahead(fan'[b].cats, fan'[b].after, r, c)
            BY <1>9, <3>5, <5>2, <5>3
          <5>. QED  BY <3>1, <5>4
        <4>. QED  BY <4>2, <4>3, <4>4, <4>5
      <3>. QED  BY <3>2, <3>4, <3>5
    <2>. QED  BY <2>1 DEF OwedOK, Ahead, Wants, CutOff
  <1>. QED  BY <1>1, <1>11, <1>12 DEF DigestOK

-----------------------------------------------------------------------------
LEMMA DigestStartsOK == DigestInit => DigestOK
  <1>. SUFFICES ASSUME DigestInit PROVE DigestOK
    OBVIOUS
  <1>1. DigestTypeOK
    BY DigestStarts
  <1>2. DeliveriesOK /\ \A d \in Delivery : delivery[d].todo = {}
    BY DeliveryIdleIs DEF DigestInit, DeliveriesOK
  <1>3. \A a \in Story : fan[a].cats = <<>> /\ owed[a] = {}
    BY DEF DigestInit, FanIdle
  <1>4. ASSUME NEW r \in Follower, NEW a \in Story PROVE PairOK(r, a)
    <2>1. notes[r][a].status = "none" /\ mailed[r][a] = 0 /\ excuse[r][a] = 0
      BY RowsAre DEF DigestInit
    <2>2. Waiting(r, a) = {} /\ Mailing(r, a) = {}
      BY <1>2 DEF Waiting, Mailing
    <2>3. Cardinality(Waiting(r, a)) = 0 /\ Cardinality(Mailing(r, a)) = 0
      BY <2>2, FS_EmptySet
    <2>4. InBalance(r, a)
      BY <2>1, <2>3 DEF InBalance, Balanced
    <2>. QED  BY <1>2, <2>1, <2>2, <2>4 DEF PairOK
  <1>. QED  BY <1>1, <1>2, <1>3, <1>4 DEF DigestOK, LedgerOK, OwedOK

LEMMA DigestKeeps == DigestOK /\ [DigestNext]_dvars => DigestOK'
  <1>. SUFFICES ASSUME DigestOK, [DigestNext]_dvars PROVE DigestOK'
    OBVIOUS
  <1>1. CASE UNCHANGED dvars
    <2>1. DigestTypeOK'
      BY <1>1 DEF dvars, DigestOK, DigestTypeOK, NoteType, Pair
    <2>2. OwedOK'
      BY <1>1 DEF dvars, DigestOK, OwedOK, Ahead, Wants, CutOff
    <2>3. UNCHANGED <<queuedAt, notes, fan, delivery, mailed, excuse>>
      BY <1>1 DEF dvars
    <2>. QED  BY <2>1, <2>2, <2>3, QuietKeeps DEF DigestOK
  <1>2. CASE \/ \E a \in Story : Release(a) \/ Passes(a)
             \/ Look
    <2>1. CASE Story # {}
      BY <1>2, <2>1, NewsKeeps
    <2>2. CASE Story = {}
      BY <1>2, <2>2 DEF Look
    <2>. QED  BY <2>1, <2>2
  <1>3. CASE \E a \in Story : Claim(a) \/ FanPage(a) \/ FanCut(a)
    BY <1>3, ClaimKeeps, FanPageKeeps, FanCutKeeps
  <1>4. CASE \E r \in Follower, a \in Story : Prune(r, a)
    BY <1>4, PruneKeeps
  <1>5. CASE \E r \in Follower : WishStep(r)
    BY <1>5, WishKeeps
  <1>6. CASE \E d \in Delivery, c \in Cadence : BeginDelivery(d, c)
    BY <1>6, BeginKeeps
  <1>7. CASE \E d \in Delivery : DeliveryStep(d) \/ CrashDelivery(d)
    BY <1>7, SendKeeps, RecordSentKeeps, RecordSentFailsKeeps, RecordFailedKeeps,
       EndDeliveryKeeps, CrashDeliveryKeeps DEF DeliveryStep
  <1>. QED  BY <1>1, <1>2, <1>3, <1>4, <1>5, <1>6, <1>7 DEF DigestNext, WishStep

LEMMA DigestHolds == DigestSpec => []DigestOK
  BY DigestStartsOK, DigestKeeps, PTL DEF DigestSpec

(* DigestTypeOK: every variable of the digests keeps its type.             *)
THEOREM DigestTypes == DigestSpec => []DigestTypeOK
  <1>1. DigestOK => DigestTypeOK
    BY DEF DigestOK
  <1>. QED  BY <1>1, DigestHolds, PTL

(* EveryFollowerIsTold: a fan-out that is over reached every reader who    *)
(* followed one of the categories all along, up to where that category was *)
(* cut short, by the process stopping or by the unfollow of the reader a   *)
(* page ended with; for any size of page, depth of the chain and number of *)
(* followers.                                                              *)
THEOREM FollowersAreTold == DigestSpec => []EveryFollowerIsTold
  <1>1. DigestOK => EveryFollowerIsTold
    <2>. SUFFICES ASSUME DigestOK, NEW a \in Story, fan[a].cats = <<>>, NEW x \in owed[a]
                  PROVE  notes[x[1]][a].status # "none" \/ CutOff(a, x[1], x[2])
      BY DEF EveryFollowerIsTold
    <2>1. x \in Follower \X Category
      BY DEF DigestOK, DigestTypeOK
    <2>2. PICK r \in Follower, c \in Category : x = <<r, c>>
      BY <2>1
    <2>3. \/ notes[r][a].status # "none"
          \/ Ahead(fan[a].cats, fan[a].after, r, c)
          \/ CutOff(a, r, c)
      BY <2>2 DEF DigestOK, OwedOK
    <2>4. Len(<<>>) = 0
      BY EmptySeq
    <2>. QED  BY <2>2, <2>3, <2>4 DEF Ahead
  <1>. QED  BY <1>1, DigestHolds, PTL

(* SentWasMailed: what deliver marks as ENVIADO was sent.                  *)
THEOREM SentIsMailed == DigestSpec => []SentWasMailed
  <1>1. DigestOK => SentWasMailed
    <2>. SUFFICES ASSUME DigestOK, NEW x \in Pair, NoteRow(x).status = "ENVIADO"
                  PROVE  mailed[x[1]][x[2]] > 0
      BY DEF SentWasMailed
    <2>1. PICK r \in Follower, a \in Story : x = <<r, a>>
      BY DEF Pair
    <2>2. notes[r][a].status = "ENVIADO" /\ PairOK(r, a)
      BY <2>1 DEF NoteRow, DigestOK, LedgerOK
    <2>. QED  BY <2>1, <2>2 DEF PairOK
  <1>. QED  BY <1>1, DigestHolds, PTL

(* RepeatsHaveAReason: a reader gets an article again only with a reason,  *)
(* however many deliveries overlap, are cut off or cannot write a row.     *)
THEOREM RepeatsAreExcused == DigestSpec => []RepeatsHaveAReason
  <1>1. DigestOK => RepeatsHaveAReason
    <2>. SUFFICES ASSUME DigestOK, NEW x \in Pair
                  PROVE  mailed[x[1]][x[2]] <= 1 + excuse[x[1]][x[2]]
      BY DEF RepeatsHaveAReason
    <2>1. PICK r \in Follower, a \in Story : x = <<r, a>>
      BY DEF Pair
    <2>. DEFINE m == mailed[r][a]
                e == excuse[r][a]
                w == Cardinality(Waiting(r, a))
    <2>2. m \in 0..MaxCount /\ e \in 0..MaxCount /\ w \in Nat
      BY PairSorts, HoldersAre DEF DigestOK
    <2>3. e = MaxCount \/ m + w <= 1 + e
      BY DEF DigestOK, LedgerOK, PairOK, InBalance, Balanced
    <2>4. x[1] = r /\ x[2] = a
      BY <2>1
    <2>. HIDE DEF m, e, w
    <2>5. m <= 1 + e
      BY <2>2, <2>3, CountFacts
    <2>. QED  BY <2>4, <2>5 DEF m, e
  <1>. QED  BY <1>1, DigestHolds, PTL
=============================================================================
