------------------------------ MODULE Newsroom ------------------------------
(***************************************************************************)
(* Articles on their way to the readers: backend/src/articles/articles.    *)
(* service.ts and articles.scheduler.ts, and the half of backend/src/      *)
(* packages/packages.service.ts that puts pacotes on sale.                 *)
(*                                                                         *)
(* Every write is by id alone, on what was read some awaits earlier.  The  *)
(* handlers whose reading decides only whether somebody may act (nobody's  *)
(* role or authorship changes here) are one step; the others are a reading *)
(* and a writing.  Of the text only `exclusive' is kept, in the row and in the   *)
(* draft.                                                                  *)
(***************************************************************************)
EXTENDS Integers, FiniteSets

CONSTANTS
  Article,      \* bound: the articles there can be
  Person,       \* the staff: everybody writes, edits and submits their own
  Chief,        \* with artigos.publicar, .aprovar, .editar_todos, .eliminar
  Pack,         \* bound: the pacotes there can be
  Request,      \* bound: the requests under way at a time
  Round,        \* bound: the scheduler's rounds under way at a time
  Slot,         \* bound: the times an article may be scheduled for
  MaxTime       \* bound: how far the clock goes

ASSUME NewsroomAssumption ==
  /\ Chief \subseteq Person
  /\ Slot \subseteq 0..MaxTime
  /\ MaxTime \in Nat

Undated == -1
Date == 0..MaxTime
Live == {"PUBLICADO"}                       \* what the public routes show
Reserved == {"PUBLICADO", "AGENDADO"}     \* assertMayPublish
Drafting == {"RASCUNHO", "EM_REVISAO"}    \* DRAFT_MEMBER_STATUSES
Unsellable == {"ARQUIVADO", "AGENDADO"}   \* FORBIDDEN_MEMBER_STATUSES
Status == Reserved \cup Drafting \cup Unsellable

VARIABLES
  now,      \* the clock
  row,      \* Article
  pack,     \* Package, with its PackageArticle rows
  job,      \* the requests under way
  round,    \* the scheduler's rounds: what each read as due
  cleared,  \* history: the articles a chief published or scheduled
  shown,    \* history: the articles that have been PUBLICADO
  closed    \* history: the articles that have been exclusive

nvars == <<now, row, pack, job, round, cleared, shown, closed>>

NoRow == [status |-> "none", author |-> {}, sched |-> Undated,
          published |-> Undated, exclusive |-> FALSE, draft |-> {}]
NoPack == [status |-> "none", members |-> {}, sold |-> {}]
JobIdle == [pc |-> "idle", kind |-> "none", todo |-> {}, one |-> {},
            draft |-> {}, when |-> Undated, pack |-> {}, members |-> {},
            drafts |-> {}]

Exists(a) == row[a].status # "none"
Members(k) == pack[k].members
CanEdit(p, a) == p \in Chief \/ row[a].author = {p}
Editable(a) == Exists(a) /\ {p \in Person : CanEdit(p, a)} # {}
Decidable(a) == Exists(a) /\ Chief # {}

(* assertMayPublish, asked of a create and a PATCH.  Mutant: only of a     *)
(* status that is live at once, not of one a timer away from it.           *)
MayOnlySchedule(p, status) == status \in Live => p \in Chief
MaySet(p, status) == status \in Reserved => p \in Chief

(* Every write of articles goes through here: the histories follow it.     *)
WriteRows(new) ==
  /\ row' = new
  /\ shown' = shown \cup {a \in Article : new[a].status \in Live}
  /\ closed' = closed \cup {a \in Article : new[a].exclusive}

WriteRow(a, new) == WriteRows([row EXCEPT ![a] = new])

Closing(S) ==
  [a \in Article |-> IF a \in S /\ Exists(a)
                     THEN [row[a] EXCEPT !.exclusive = TRUE] ELSE row[a]]

-----------------------------------------------------------------------------
NewsInit ==
  /\ now = 0
  /\ row = [a \in Article |-> NoRow]
  /\ pack = [k \in Pack |-> NoPack]
  /\ job = [r \in Request |-> JobIdle]
  /\ round = [t \in Round |-> {}]
  /\ cleared = {}
  /\ shown = {}
  /\ closed = {}

Tick ==
  /\ now < MaxTime
  /\ now' = now + 1
  /\ UNCHANGED <<row, pack, job, round, cleared, shown, closed>>

-----------------------------------------------------------------------------
(* Articles: the handlers of one step.                                     *)

(* Mutant: a row created straight into PUBLICADO has no date.              *)
CreatedDateless(status) == Undated
CreatedDate(status) == IF status \in Live THEN now ELSE Undated

Create(p, a, status, sched, exclusive) ==
  /\ a \notin shown \cup closed \cup cleared /\ ~Exists(a)
  /\ MaySet(p, status)
  /\ WriteRow(a, [NoRow EXCEPT !.status = status, !.author = {p},
                    !.sched = sched, !.exclusive = exclusive,
                    !.published = CreatedDate(status)])
  /\ cleared' = IF p \in Chief /\ status \in Reserved THEN cleared \cup {a}
                ELSE cleared
  /\ UNCHANGED <<now, pack, job, round>>

(* PATCH, of one field at a time: several are as many PATCHes.  A new  *)
(* date or paywall asks for no permission beyond editing.                  *)
Update(a, new) ==
  /\ Editable(a)
  /\ WriteRow(a, new)
  /\ UNCHANGED <<now, pack, job, round>>

UpdateStatus(p, a, status) ==
  /\ CanEdit(p, a) /\ MaySet(p, status)
  /\ Update(a, [row[a] EXCEPT !.status = status,
                  !.published = IF status \in Live THEN now ELSE @])
  /\ cleared' = IF p \in Chief /\ status \in Reserved THEN cleared \cup {a}
                ELSE cleared

UpdateSchedule(a, sched) ==
  /\ Update(a, [row[a] EXCEPT !.sched = sched])
  /\ UNCHANGED cleared

UpdateExclusive(a, exclusive) ==
  /\ Update(a, [row[a] EXCEPT !.exclusive = exclusive])
  /\ UNCHANGED cleared

(* The autosave of a live article: the live columns stay as they are.      *)
SaveDraft(a, exclusive) ==
  /\ Editable(a)
  /\ row' = [row EXCEPT ![a].draft = {exclusive}]
  /\ UNCHANGED <<now, pack, job, round, cleared, shown, closed>>

DiscardDraft(a) ==
  /\ Editable(a)
  /\ row[a].draft # {}
  /\ row' = [row EXCEPT ![a].draft = {}]
  /\ UNCHANGED <<now, pack, job, round, cleared, shown, closed>>

Archive(a) ==
  /\ Editable(a)
  /\ row' = [row EXCEPT ![a].status = "ARQUIVADO"]
  /\ UNCHANGED <<now, pack, job, round, cleared, shown, closed>>

(* The row's places in pacotes go with it.                                 *)
RemoveArticle(a) ==
  /\ Decidable(a)
  /\ row' = [row EXCEPT ![a] = NoRow]
  /\ pack' = [k \in Pack |-> [pack[k] EXCEPT !.members = @ \ {a}]]
  /\ UNCHANGED <<now, job, round, cleared, shown, closed>>

-----------------------------------------------------------------------------
(* Articles: the handlers that write what an earlier reading decided.      *)

Begin(r, kind, a, draft, when) ==
  /\ job[r].pc = "idle"
  /\ job' = [job EXCEPT ![r] = [JobIdle EXCEPT !.pc = "write", !.kind = kind,
                                  !.one = {a}, !.draft = draft, !.when = when]]
  /\ UNCHANGED <<now, row, pack, round, cleared, shown, closed>>

(* submitForReview, also what publish() falls back to without the right.   *)
ReadToSubmit(r, a, when) ==
  /\ Editable(a)
  /\ row[a].status \in Drafting
  /\ Begin(r, "submit", a, {}, when)

ReadToReject(r, a) ==
  /\ Decidable(a) /\ row[a].status = "EM_REVISAO"
  /\ Begin(r, "reject", a, {}, Undated)

ReadToPublish(r, a) ==
  /\ Decidable(a)
  /\ Begin(r, "publish", a, row[a].draft, Undated)

(* The draft that was read replaces the live columns.                      *)
Published(old, draft) ==
  [old EXCEPT !.status = "PUBLICADO", !.published = now, !.sched = Undated,
              !.exclusive = IF draft = {} THEN @ ELSE TRUE \in draft, !.draft = {}]

Written(old, j) ==
  CASE j.kind = "submit" ->
         [old EXCEPT !.status = "EM_REVISAO", !.sched = j.when]
    [] j.kind = "reject" ->
         [old EXCEPT !.status = "RASCUNHO", !.sched = Undated]
    [] j.kind = "publish" -> Published(old, j.draft)

WriteArticle(r, a) ==
  /\ job[r].pc = "write" /\ job[r].one = {a}
  /\ Exists(a)
  /\ WriteRow(a, Written(row[a], job[r]))
  /\ cleared' = IF job[r].kind = "publish" THEN cleared \cup {a} ELSE cleared
  /\ job' = [job EXCEPT ![r] = JobIdle]
  /\ UNCHANGED <<now, pack, round>>

(* A write of what is gone, Stripe's refusal, the database or the process  *)
(* going away: whatever was done so far stays.                             *)
Abort(r) ==
  /\ job[r].pc # "idle"
  /\ job' = [job EXCEPT ![r] = JobIdle]
  /\ UNCHANGED <<now, row, pack, round, cleared, shown, closed>>

-----------------------------------------------------------------------------
(* The scheduler: one round a minute, of the rows due; they are then       *)
(* updated each on its own, by id.                                         *)

Due(a) ==
  /\ row[a].status = "AGENDADO"
  /\ row[a].sched # Undated
  /\ row[a].sched <= now

(* Mutant: only of the rows that were never published before.             *)
ReadDueOnce(t) ==
  /\ round[t] = {}
  /\ {a \in Article : Due(a) /\ row[a].published = Undated} # {}
  /\ round' = [round EXCEPT ![t] =
       {<<a, row[a].sched>> : a \in {x \in Article : Due(x) /\ row[x].published = Undated}}]
  /\ UNCHANGED <<now, row, pack, job, cleared, shown, closed>>
ReadDue(t) ==
  /\ round[t] = {}
  /\ {a \in Article : Due(a)} # {}
  /\ round' = [round EXCEPT ![t] = {<<a, row[a].sched>> : a \in {x \in Article : Due(x)}}]
  /\ UNCHANGED <<now, row, pack, job, cleared, shown, closed>>

PublishDue(t, a, d) ==
  /\ <<a, d>> \in round[t]
  /\ round' = [round EXCEPT ![t] = @ \ {<<a, d>>}]
  /\ IF Exists(a)
     THEN WriteRow(a, [row[a] EXCEPT !.status = "PUBLICADO", !.published = d,
                                     !.sched = Undated])
     ELSE UNCHANGED <<row, shown, closed>>
  /\ UNCHANGED <<now, pack, job, cleared>>

(* The process stops between the reading and the updates.                  *)
Restart(t) ==
  /\ round[t] # {}
  /\ round' = [round EXCEPT ![t] = {}]
  /\ UNCHANGED <<now, row, pack, job, cleared, shown, closed>>

-----------------------------------------------------------------------------
(* Pacotes.                                                                *)

CreatePack(k) ==
  /\ pack[k] = NoPack
  /\ pack' = [pack EXCEPT ![k].status = "RASCUNHO"]
  /\ UNCHANGED <<now, row, job, round, cleared, shown, closed>>

Joinable(a) == Exists(a) /\ row[a].status \notin Unsellable

SetArticles(k, S) ==
  /\ pack[k].status # "none"
  /\ \A a \in S : Joinable(a)
  /\ pack' = [pack EXCEPT ![k].members = S]
  /\ UNCHANGED <<now, row, job, round, cleared, shown, closed>>

(* The article editor's field: K is the one pacote, or none.               *)
AssignArticle(a, K) ==
  /\ Joinable(a)
  /\ Cardinality({k \in Pack : a \in Members(k)}) <= 1
  /\ \A k \in K : pack[k].status # "none"
  /\ pack' = [k \in Pack |-> [pack[k] EXCEPT !.members =
                 IF k \in K THEN @ \cup {a} ELSE @ \ {a}]]
  /\ UNCHANGED <<now, row, job, round, cleared, shown, closed>>

ReadPack(r, kind, k, drafts) ==
  /\ job[r].pc = "idle"
  /\ job' = [job EXCEPT ![r] = [JobIdle EXCEPT !.pc = "next", !.kind = kind,
               !.pack = {k}, !.members = Members(k), !.todo = drafts, !.drafts = drafts]]
  /\ UNCHANGED <<now, row, pack, round, cleared, shown, closed>>

DraftsOf(k) == {a \in Members(k) : row[a].status \in Drafting}

(* assertMayPublishArticles.                                               *)
MaySell(drafts) == {p \in Person : drafts = {} \/ p \in Chief} # {}

ReadToSell(r, k) ==
  /\ pack[k].status # "none"
  /\ Members(k) # {}
  /\ \A a \in Members(k) : row[a].status \notin Unsellable
  /\ MaySell(DraftsOf(k))
  /\ ReadPack(r, "sell", k, DraftsOf(k))

ReadPending(r, k) ==
  /\ DraftsOf(k) # {}
  /\ MaySell(DraftsOf(k))
  /\ ReadPack(r, "pending", k, DraftsOf(k))

(* publish() of one of its drafts: the reading and the writing.            *)
NextDraft(r, a) ==
  /\ job[r].pc = "next" /\ a \in job[r].todo
  /\ Exists(a)
  /\ job' = [job EXCEPT ![r].pc = "put", ![r].one = {a}, ![r].draft = row[a].draft]
  /\ UNCHANGED <<now, row, pack, round, cleared, shown, closed>>

PutDraft(r, a) ==
  /\ job[r].pc = "put" /\ job[r].one = {a}
  /\ Exists(a)
  /\ WriteRow(a, Published(row[a], job[r].draft))
  /\ cleared' = cleared \cup {a}
  /\ job' = [job EXCEPT ![r].pc = "next", ![r].todo = @ \ {a}, ![r].one = {},
                        ![r].draft = {}]
  /\ UNCHANGED <<now, pack, round>>

(* Whom the sale closes: every member it read.  Mutant: as it once was,    *)
(* only what this very publish published.                                  *)
ClosedDraftsOnly(j) == j.drafts
ClosedBy(j) == IF j.kind = "sell" THEN j.members ELSE j.drafts

CloseMembers(r) ==
  /\ job[r].pc = "next" /\ job[r].todo = {}
  /\ WriteRows(Closing(ClosedBy(job[r])))
  /\ job' = [job EXCEPT ![r] = IF job[r].kind = "sell" THEN [@ EXCEPT !.pc = "stripe"]
                               ELSE JobIdle]
  /\ UNCHANGED <<now, pack, round, cleared>>

(* Stripe has the Product and the Price: the pacote goes on sale.  Mutant: *)
(* the history keeps the pacote.                                           *)
PutOnSaleByName(r, k) ==
  /\ job[r].pc = "stripe" /\ job[r].pack = {k}
  /\ pack[k].status # "none"
  /\ pack' = [pack EXCEPT ![k].status = "PUBLICADO", ![k].sold = job[r].pack]
  /\ job' = [job EXCEPT ![r] = JobIdle]
  /\ UNCHANGED <<now, row, round, cleared, shown, closed>>
PutOnSale(r, k) ==
  /\ job[r].pc = "stripe" /\ job[r].pack = {k}
  /\ pack[k].status # "none"
  /\ pack' = [pack EXCEPT ![k].status = "PUBLICADO", ![k].sold = job[r].members]
  /\ job' = [job EXCEPT ![r] = JobIdle]
  /\ UNCHANGED <<now, row, round, cleared, shown, closed>>

MakeExclusive(k) ==
  LET open == {a \in Members(k) : row[a].status \in Live /\ ~row[a].exclusive} IN
  /\ open # {}
  /\ WriteRows(Closing(open))
  /\ UNCHANGED <<now, pack, job, round, cleared>>

Unpublish(k) ==
  /\ pack[k].status # "none"
  /\ pack' = [pack EXCEPT ![k].status = "RASCUNHO", ![k].sold = {}]
  /\ UNCHANGED <<now, row, job, round, cleared, shown, closed>>

(* Nobody has bought it: a pacote with purchases is refused.               *)
RemovePack(k) ==
  /\ pack[k].status # "none"
  /\ pack' = [pack EXCEPT ![k] = NoPack]
  /\ UNCHANGED <<now, row, job, round, cleared, shown, closed>>

-----------------------------------------------------------------------------
ByStaff(a) ==
  \/ \E p \in Person, s \in Status, d \in Slot \cup {Undated}, e \in BOOLEAN :
       Create(p, a, s, d, e)
  \/ \E p \in Person, s \in Status : UpdateStatus(p, a, s)
  \/ \E d \in Slot \cup {Undated} : UpdateSchedule(a, d)
  \/ \E e \in BOOLEAN : UpdateExclusive(a, e) \/ SaveDraft(a, e)
  \/ DiscardDraft(a)
  \/ Archive(a)
  \/ RemoveArticle(a)

ByRequest(r, a) ==
  \/ \E d \in Slot \cup {Undated} : ReadToSubmit(r, a, d)
  \/ ReadToReject(r, a)
  \/ ReadToPublish(r, a)
  \/ WriteArticle(r, a)
  \/ NextDraft(r, a)
  \/ PutDraft(r, a)

OfPack(k) ==
  \/ CreatePack(k)
  \/ \E S \in SUBSET Article : SetArticles(k, S)
  \/ \E r \in Request : ReadToSell(r, k) \/ ReadPending(r, k)
  \/ \E r \in Request : PutOnSale(r, k)
  \/ MakeExclusive(k)
  \/ Unpublish(k)
  \/ RemovePack(k)

NewsNext ==
  \/ Tick
  \/ \E a \in Article : ByStaff(a)
  \/ \E a \in Article, r \in Request : ByRequest(r, a)
  \/ \E r \in Request : CloseMembers(r) \/ Abort(r)
  \/ \E k \in Pack : OfPack(k)
  \/ \E a \in Article, K \in {{}} \cup {{k} : k \in Pack} : AssignArticle(a, K)
  \/ \E t \in Round : ReadDue(t) \/ Restart(t)
  \/ \E t \in Round, a \in Article, d \in Slot : PublishDue(t, a, d)

(* The cron fires every minute, whatever the newsroom does; and of the     *)
(* rounds that start, not every one is cut off by a restart.               *)
NewsFairness ==
  /\ \A t \in Round : WF_nvars(ReadDue(t))
  /\ \A a \in Article : SF_nvars(\E t \in Round, d \in Slot : PublishDue(t, a, d))

NewsSpec == NewsInit /\ [][NewsNext]_nvars /\ NewsFairness

-----------------------------------------------------------------------------
RowType == [status : Status \cup {"none"}, author : SUBSET Person,
            sched : Slot \cup {Undated}, published : Date \cup {Undated},
            exclusive : BOOLEAN, draft : SUBSET BOOLEAN]
PackType == [status : {"none", "RASCUNHO", "PUBLICADO"},
             members : SUBSET Article, sold : SUBSET Article]
JobType == [pc : {"idle", "write", "next", "put", "stripe"},
            kind : {"none", "submit", "reject", "publish", "sell", "pending"},
            todo : SUBSET Article, one : SUBSET Article, draft : SUBSET BOOLEAN,
            when : Slot \cup {Undated}, pack : SUBSET Pack,
            members : SUBSET Article, drafts : SUBSET Article]

(* The types; and only a request publishing a pacote has members.          *)
NewsTypeOK ==
  /\ now \in Date
  /\ row \in [Article -> RowType]
  /\ pack \in [Pack -> PackType]
  /\ job \in [Request -> JobType]
  /\ round \in [Round -> SUBSET (Article \X Slot)]
  /\ cleared \subseteq Article /\ shown \subseteq Article /\ closed \subseteq Article

(* Nothing is live, or a timer away from it, that no chief ever published  *)
(* or scheduled: not by a field in a create or a PATCH, not by the clock   *)
(* and not by a pacote.                                                    *)
OnlyChiefsRelease ==
  \A a \in Article : row[a].status \in Reserved => a \in cleared

(* Whatever road it took there (create, PATCH, publish, the clock or a     *)
(* pacote), a live article has a date, and not one to come: without it it  *)
(* sorts before all others and no reader hears of it.                      *)
LiveIsDated ==
  \A a \in Article : row[a].status \in Live =>
    row[a].published # Undated /\ row[a].published <= now

(* A pacote on sale sells what its publishing read, and each of those was  *)
(* by then live and closed at least once, however the requests of others   *)
(* fell in between; unless it has been deleted.                            *)
SaleIsWhole ==
  \A k \in Pack : pack[k].status = "PUBLICADO" =>
    \A a \in pack[k].sold : Exists(a) => a \in shown \cap closed

(* What is due does not stay due: the clock publishes it, restarts or not, *)
(* unless somebody takes it back.                                          *)
DueIsPublished == \A a \in Article : Due(a) ~> ~Due(a)

(* Claim: the articles of a pacote go live already closed; publishing them *)
(* in the open first is said not to happen.                                *)
ClosedWhenPublished ==
  [][\A r \in Request, a \in Article :
       /\ job[r].pc = "put" /\ job[r].one = {a} /\ job'[r].pc = "next"
       => row'[a].exclusive]_nvars
=============================================================================
