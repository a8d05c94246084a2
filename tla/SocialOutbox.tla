---------------------------- MODULE SocialOutbox ----------------------------
(***************************************************************************)
(* Posting published articles to the newspaper's social networks:          *)
(* backend/src/social/social-publishing.service.ts, run every minute, in   *)
(* every API process, by social.scheduler.ts.                              *)
(*                                                                         *)
(* A tick of either job is a request of its own: ticks of two processes,   *)
(* or of one whose previous tick is still waiting for Meta, overlap.  A    *)
(* step is what a tick does between two awaits.                            *)
(***************************************************************************)
EXTENDS Integers, FiniteSets

CONSTANTS
  Article,
  Network,       \* FACEBOOK, INSTAGRAM
  Target,        \* the networks that are switched on and can show an article
  Tick,          \* bound: job runs under way at a time
  MaxAttempts,   \* MAX_ATTEMPTS
  MaxEdits,      \* bound: how often the text of a post is rewritten
  MaxLost,       \* bound: answers and updates that get lost
  MaxDeaths      \* bound: ticks that die half-way

Post == Article \X Network

PostStatus == {"NENHUM", "AGENDADO", "A_ENVIAR", "ENVIADO", "FALHOU",
               "CANCELADO"}
Final == {"ENVIADO", "FALHOU", "CANCELADO"}

ASSUME OutboxAssumption ==
  /\ Target \in [Article -> SUBSET Network]
  /\ MaxAttempts \in Nat \ {0}
  /\ MaxEdits \in Nat
  /\ MaxLost \in Nat
  /\ MaxDeaths \in Nat

VARIABLES
  live,      \* the articles PUBLICADO within the last day
  claimed,   \* the articles whose socialQueuedAt is set
  post,      \* SocialPost: one row for an article and a network
  ripe,      \* the posts whose scheduledFor has passed
  meta,      \* at Meta: how many copies of a post there are, and the text of
             \*   the last one
  job,       \* the ticks under way
  lost,      \* how many answers and updates were lost
  deaths     \* how many ticks have died

vars == <<live, claimed, post, ripe, meta, job, lost, deaths>>

NoPost == [status |-> "NENHUM", attempts |-> 0, text |-> 0]
Queued == [NoPost EXCEPT !.status = "AGENDADO"]

(* A tick: the articles it found and has yet to claim, or the posts it     *)
(* found, as they were when it read them, and the one it is at.            *)
JobIdle == [pc |-> "idle", articles |-> {}, article |-> {}, batch |-> {},
            at |-> {}]

Snapshot(p) == [post |-> p, attempts |-> post[p].attempts,
                text |-> post[p].text]

(* The post a tick has claimed and not yet written the outcome of.         *)
InFlight(t) == IF job[t].pc \in {"call", "sent", "failed"}
               THEN {q.post : q \in job[t].at} ELSE {}

Init ==
  /\ live = {}
  /\ claimed = {}
  /\ post = [p \in Post |-> NoPost]
  /\ ripe = {}
  /\ meta = [p \in Post |-> [copies |-> 0, text |-> 0]]
  /\ job = [t \in Tick |-> JobIdle]
  /\ lost = 0
  /\ deaths = 0

-----------------------------------------------------------------------------
(* enqueueDueArticles.                                                     *)

FindDue(t) ==
  /\ job[t].pc = "idle"
  /\ live \ claimed # {}
  /\ job' = [job EXCEPT ![t] = [JobIdle EXCEPT !.pc = "enqueue",
                                               !.articles = live \ claimed]]
  /\ UNCHANGED <<live, claimed, post, ripe, meta, lost, deaths>>

(* A tick with nothing left to do returns.                                 *)
WithoutArticle(j, a) ==
  IF j.articles = {a} THEN JobIdle
  ELSE [j EXCEPT !.pc = "enqueue", !.articles = @ \ {a}, !.article = {}]

(* Mutant: the whole list is claimed with the first article.               *)
ClaimArticles(t, a) ==
  /\ job[t].pc = "enqueue"
  /\ a \in job[t].articles
  /\ claimed' = claimed \cup job[t].articles
  /\ job' = [job EXCEPT ![t] =
               IF a \in claimed \/ Target[a] = {}
               THEN WithoutArticle(job[t], a)
               ELSE [job[t] EXCEPT !.pc = "rows", !.article = {a}]]
  /\ UNCHANGED <<live, post, ripe, meta, lost, deaths>>

(* updateMany where socialQueuedAt is null: somebody else's claim, and an  *)
(* article no network takes, are passed over.                              *)
ClaimArticle(t, a) ==
  /\ job[t].pc = "enqueue"
  /\ a \in job[t].articles
  /\ claimed' = claimed \cup {a}
  /\ job' = [job EXCEPT ![t] =
               IF a \in claimed \/ Target[a] = {}
               THEN WithoutArticle(job[t], a)
               ELSE [job[t] EXCEPT !.pc = "rows", !.article = {a}]]
  /\ UNCHANGED <<live, post, ripe, meta, lost, deaths>>

(* createMany with skipDuplicates.                                         *)
RowsAdded(a) ==
  [p \in Post |-> IF /\ p[1] = a /\ p[2] \in Target[a]
                     /\ post[p].status = "NENHUM"
                  THEN Queued ELSE post[p]]

CreateRows(t) ==
  \E a \in job[t].article :
    /\ job[t].pc = "rows"
    /\ post' = RowsAdded(a)
    /\ job' = [job EXCEPT ![t] = WithoutArticle(job[t], a)]
    /\ UNCHANGED <<live, claimed, ripe, meta, lost, deaths>>

-----------------------------------------------------------------------------
(* deliver.                                                                *)

Due(p) == /\ p \in ripe
          /\ post[p].status = "AGENDADO"
          /\ post[p].attempts < MaxAttempts

FindRipe(t) ==
  LET batch == {Snapshot(p) : p \in {x \in Post : Due(x)}} IN
  /\ job[t].pc = "idle"
  /\ batch # {}
  /\ job' = [job EXCEPT ![t] = [JobIdle EXCEPT !.pc = "deliver",
                                               !.batch = batch]]
  /\ UNCHANGED <<live, claimed, post, ripe, meta, lost, deaths>>

WithoutPost(j, q) ==
  IF j.batch = {q} THEN JobIdle
  ELSE [j EXCEPT !.pc = "deliver", !.batch = @ \ {q}, !.at = {}]

(* Mutants: the claim is won as long as the post has not gone out, or      *)
(* whatever has become of it.                                              *)
ClaimableUnsent(p) == post[p].status \notin {"ENVIADO", "FALHOU"}
ClaimableAlways(p) == TRUE

(* Only the tick that takes the row out of AGENDADO may call Meta.         *)
Claimable(p) == post[p].status = "AGENDADO"

ClaimPost(t, q) ==
  /\ job[t].pc = "deliver"
  /\ q \in job[t].batch
  /\ IF Claimable(q.post)
     THEN /\ post' = [post EXCEPT ![q.post].status = "A_ENVIAR"]
          /\ job' = [job EXCEPT ![t] =
                       [job[t] EXCEPT !.pc = "call", !.at = {q}]]
     ELSE /\ job' = [job EXCEPT ![t] = WithoutPost(job[t], q)]
          /\ UNCHANGED post
  /\ UNCHANGED <<live, claimed, ripe, meta, lost, deaths>>

(* Mutant: only a missing answer is a failure.                             *)
AfterAnyAnswer(outcome) == IF outcome = "unanswered" THEN "failed" ELSE "sent"

AfterCall(outcome) == IF outcome = "posted" THEN "sent" ELSE "failed"

AtMeta(copy, outcome, text) ==
  IF outcome = "refused" THEN copy
  ELSE [copies |-> copy.copies + 1, text |-> text]

(* What was read with the batch is what is sent.  Meta posts it and says   *)
(* so, refuses it, or posts it and the answer never arrives, which the     *)
(* client cannot tell from a refusal.                                      *)
CallMeta(t) ==
  \E q \in job[t].at, outcome \in {"posted", "refused", "unanswered"} :
    /\ job[t].pc = "call"
    /\ outcome = "unanswered" => lost < MaxLost
    /\ lost' = IF outcome = "unanswered" THEN lost + 1 ELSE lost
    /\ meta' = [meta EXCEPT ![q.post] =
                  AtMeta(meta[q.post], outcome, q.text)]
    /\ job' = [job EXCEPT ![t].pc = AfterCall(outcome)]
    /\ UNCHANGED <<live, claimed, post, ripe, deaths>>

WriteSent(t) ==
  \E q \in job[t].at :
    /\ job[t].pc = "sent"
    /\ post' = [post EXCEPT ![q.post].status = "ENVIADO"]
    /\ job' = [job EXCEPT ![t] = WithoutPost(job[t], q)]
    /\ UNCHANGED <<live, claimed, ripe, meta, lost, deaths>>

(* The update sits in the same try as the call: when it fails, the post    *)
(* counts as refused.                                                      *)
WriteSentFails(t) ==
  /\ job[t].pc = "sent"
  /\ lost < MaxLost
  /\ lost' = lost + 1
  /\ job' = [job EXCEPT ![t].pc = "failed"]
  /\ UNCHANGED <<live, claimed, post, ripe, meta, deaths>>

(* Mutants: one retry too many; attempts added to those on the row.        *)
RequeuedOnceMore(row, attempts) ==
  [row EXCEPT !.status = IF attempts > MaxAttempts THEN "FALHOU"
                                                   ELSE "AGENDADO",
              !.attempts = attempts]
RequeuedByIncrement(row, attempts) ==
  [row EXCEPT !.status = IF attempts >= MaxAttempts THEN "FALHOU"
                                                    ELSE "AGENDADO",
              !.attempts = @ + attempts]

(* Back to the queue, unless the retries are spent.                        *)
Requeued(row, attempts) ==
  [row EXCEPT !.status = IF attempts >= MaxAttempts THEN "FALHOU"
                                                    ELSE "AGENDADO",
              !.attempts = attempts]

WriteFailed(t) ==
  \E q \in job[t].at :
    /\ job[t].pc = "failed"
    /\ post' = [post EXCEPT ![q.post] =
                  Requeued(post[q.post], q.attempts + 1)]
    /\ job' = [job EXCEPT ![t] = WithoutPost(job[t], q)]
    /\ UNCHANGED <<live, claimed, ripe, meta, lost, deaths>>

-----------------------------------------------------------------------------
(* The newsroom and the world.                                             *)

(* updateMessage and cancel: only while the row is AGENDADO.               *)
UpdateMessage(p) ==
  /\ post[p].status = "AGENDADO"
  /\ post[p].text < MaxEdits
  /\ post' = [post EXCEPT ![p].text = @ + 1]
  /\ UNCHANGED <<live, claimed, ripe, meta, job, lost, deaths>>

Cancel(p) ==
  /\ post[p].status = "AGENDADO"
  /\ post' = [post EXCEPT ![p].status = "CANCELADO"]
  /\ UNCHANGED <<live, claimed, ripe, meta, job, lost, deaths>>

(* An article is published, republished, archived, or a day goes by.       *)
GoLive(a) ==
  /\ a \notin live
  /\ live' = live \cup {a}
  /\ UNCHANGED <<claimed, post, ripe, meta, job, lost, deaths>>

LeaveLive(a) ==
  /\ a \in live
  /\ live' = live \ {a}
  /\ UNCHANGED <<claimed, post, ripe, meta, job, lost, deaths>>

(* The delay in which the newsroom may still change its mind is over.      *)
Ripen(p) ==
  /\ post[p].status # "NENHUM"
  /\ p \notin ripe
  /\ ripe' = ripe \cup {p}
  /\ UNCHANGED <<live, claimed, post, meta, job, lost, deaths>>

(* The process dies, or the update that should record a failure fails too. *)
Die(t) ==
  /\ job[t].pc # "idle"
  /\ deaths < MaxDeaths
  /\ deaths' = deaths + 1
  /\ job' = [job EXCEPT ![t] = JobIdle]
  /\ UNCHANGED <<live, claimed, post, ripe, meta, lost>>

-----------------------------------------------------------------------------
JobStep(t) ==
  \/ \E a \in Article : ClaimArticle(t, a)
  \/ CreateRows(t)
  \/ \E q \in job[t].batch : ClaimPost(t, q)
  \/ CallMeta(t)
  \/ WriteSent(t)
  \/ WriteFailed(t)

TickNext ==
  \E t \in Tick : FindDue(t) \/ FindRipe(t) \/ JobStep(t)
                    \/ WriteSentFails(t) \/ Die(t)

WorldNext ==
  \/ \E a \in Article : GoLive(a) \/ LeaveLive(a)
  \/ \E p \in Post : UpdateMessage(p) \/ Cancel(p) \/ Ripen(p)

Next == TickNext \/ WorldNext

Spec == Init /\ [][Next]_vars

(* Both jobs run every minute in every process, a tick that has begun goes *)
(* on, and time passes.                                                    *)
Running == (\A t \in Tick : WF_vars(JobStep(t))) /\ \A p \in Post : WF_vars(Ripen(p))
SomeDue == \E t \in Tick : FindDue(t)
SomeRipe == \E t \in Tick : FindRipe(t)
Fairness == Running /\ SF_vars(SomeDue) /\ SF_vars(SomeRipe)

FairSpec == Spec /\ Fairness

-----------------------------------------------------------------------------
(* Correctness.                                                            *)

PostRow == [status : PostStatus, attempts : 0..MaxAttempts, text : 0..MaxEdits]

BatchEntry == [post : Post, attempts : 0..(MaxAttempts - 1),
               text : 0..MaxEdits]

Job == [pc : {"idle", "enqueue", "rows", "deliver", "call", "sent", "failed"},
        articles : SUBSET Article, article : SUBSET Article,
        batch : SUBSET BatchEntry, at : SUBSET BatchEntry]

(* Every variable has its type, and a tick that is at a post is at one of  *)
(* its batch, and at one only.                                             *)
TypeOK ==
  /\ live \subseteq Article /\ claimed \subseteq Article /\ ripe \subseteq Post
  /\ post \in [Post -> PostRow]
  /\ meta \in [Post -> [copies : Nat, text : 0..MaxEdits]]
  /\ job \in [Tick -> Job]
  /\ \A t \in Tick : job[t].pc \in {"call", "sent", "failed"} =>
       \E q \in job[t].batch : job[t].at = {q}
  /\ lost \in 0..MaxLost
  /\ deaths \in 0..MaxDeaths

(* Between the claim and the outcome a post belongs to one tick: its row   *)
(* is A_ENVIAR, and no other tick is talking to Meta about it, whatever    *)
(* each of them read before.                                               *)
OneCaller ==
  /\ \A t \in Tick : \A p \in InFlight(t) : post[p].status = "A_ENVIAR"
  /\ \A t, u \in Tick : t # u => InFlight(t) \cap InFlight(u) = {}

(* Whoever cancels a post and is told it worked is obeyed: the row stays   *)
(* CANCELADO and nothing of it reaches the network any more, from whatever *)
(* batch it had been read into.                                            *)
CancelledStaysOut ==
  [][\A p \in Post : post[p].status = "CANCELADO" =>
       post'[p].status = "CANCELADO" /\ meta'[p] = meta[p]]_vars

(* What is done stays done: a post that went out, failed for good or was   *)
(* cancelled never comes back, nor does republishing the article queue it  *)
(* again.                                                                  *)
FinalIsFinal ==
  [][\A p \in Post : post[p].status \in Final =>
       post'[p].status = post[p].status]_vars

(* A second copy of a post has a cause: an answer or an update was lost.   *)
(* Overlapping ticks alone never make one.                                 *)
CopiesAreExplained == \A p \in Post : meta[p].copies <= 1 + lost

(* A post is out when its row says so.                                     *)
SentIsPosted ==
  \A p \in Post : post[p].status = "ENVIADO" => meta[p].copies > 0

(* While no tick dies, a post whose time has come is decided.              *)
PostsAreDecided ==
  \A p \in Post : post[p].status = "AGENDADO" ~> post[p].status \in Final

(* An article that stays published gets its posts, while no tick dies.     *)
HasItsPosts(a) == \A n \in Target[a] : post[<<a, n>>].status # "NENHUM"

LiveIsQueued == \A a \in Article : []<>(a \notin live \/ HasItsPosts(a))

-----------------------------------------------------------------------------
(* What the comments say, and the code does not do.                        *)

(* "O texto tal como vai sair": the copy at Meta is the text of the row.   *)
TextIsTheRows ==
  \A p \in Post : post[p].status = "ENVIADO" => meta[p].text = post[p].text

(* "Estado curto": a post is not on its way for ever.                      *)
SendingIsShort ==
  \A p \in Post : post[p].status = "A_ENVIAR" ~> post[p].status # "A_ENVIAR"
=============================================================================
