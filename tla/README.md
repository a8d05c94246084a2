# Verification of Patriota

Patriota is a newspaper's web site: a NestJS backend (`backend/src`, PostgreSQL
through Prisma, Redis, Stripe, Meta, a mail provider, a file store) and a
Next.js frontend. This directory holds TLA+ models of the parts that are hard to
test, the TLC configurations that check them, and proofs checked by TLAPS.

Short names of sources used below, under `backend/src` unless said otherwise:
**PP** `packages/package-purchases.service.ts`, **B** `billing/billing.service.ts`,
**PK** `packages/packages.service.ts`, **AR** `articles/articles.service.ts`,
**SP** `social/social-publishing.service.ts`, **RA** `reader-auth/reader-auth.service.ts`,
**RD** `readers/readers.service.ts`, **schema** `backend/prisma/schema.prisma`.

## 1. Inventory

The backend runs as one or more identical API processes. Everything concurrent
meets in the database: handlers are chains of awaits, each await a statement or
a transaction of its own, at READ COMMITTED, and nothing is locked between two
of them. Cron jobs run in every process, and a tick starts whether or not the
previous one has ended.

| component | state | operations | interacts with | what makes it correct |
|---|---|---|---|---|
| pacote purchases (PP) | `PackagePurchase`, `PackagePurchaseItem` | checkout, five webhook handlers, gift, revocation | Stripe, webhook dispatch, catalogue, articles | nobody reads what they have not paid for or been given; whoever paid gets what was shown; a refund takes it back |
| webhook and subscriptions (B) | `StripeEvent`, `Reader.plan*` | `handleEvent`, subscription events, checkout, resync, gifts | Stripe, purchases, readers administration | an event acts once; a plan is one that was paid or given |
| reader accounts, OAuth | `Reader`, `EmailToken` | register, verify, sign in, reset, change, link, suspend, erase | mailer, social networks | a changed password, a reset and a suspension end what came before them |
| reader notifications | `ArticleNotification`, a claim on `Article` | claim, fan out, deliver, sweep | mailer, articles, follows | each follower is told once, eventually |
| media, storage | `Media`, two buckets, a cache | upload, promote, sweep, fetch, delete | articles, ads, pacotes | a row has its bytes; a file is public only if something public shows it |
| staff log-in, users, permissions | `User`, `RolePermissions`, tokens, a counter in Redis | sign in, lock, invite, promote, suspend, reset, the matrix | every admin route | rank is respected; a session goes with its password; decisions last |
| articles (AR, scheduler) | `Article` | draft, review, timer, publish, archive, delete | media, outboxes, pacotes | nothing is published without a chief; what is due comes out |
| pacote catalogue (PK) | `Package`, `PackageArticle` | create, fill, publish, withdraw, delete | Stripe prices, articles | a pacote on sale is published and closed |
| article editor (frontend) | a form, its timers, the requests under way | type, autosave, save, publish | AR through server actions | no words are lost, no article is made twice |
| categories | `Category`, `CategoryFavorite` | create, move, remove, follow | articles, notifications | the stored depth and path are those of the tree |
| comments | `Comment`, `Article.commentCount` | post, edit, decide, purge, erase, recount | readers | what is shown was approved; the count is right |
| social outbox (SP) | `SocialPost`, `Article.socialQueuedAt` | enqueue, deliver, edit, cancel | Meta, articles | posted once, never when cancelled, never forgotten |
| newsletter, settings, activity log, dashboards, mailer, infrastructure | one table each, or none | mostly one row per call | | see `PROJECT.json`, with the reason each is left out |

Hard behaviours: Stripe delivers at least once, in any order, concurrently;
reads before a transaction that acts on them; writes by id alone of a row read
some awaits ago; cron ticks that overlap, or die between a claim and its effect;
answers that time out although the call worked; timers of a form racing its
buttons. `PROJECT.json` lists each hazard at its line.

## 2. Modules

| module | what it models |
|---|---|
| `PackageEntitlement` | abstract: a purchase is opened, lapses or is held; what it holds is decided once and given up whole |
| `PackagePurchases` | the purchases: tabs, Stripe, webhook workers, administrators, newsroom |
| `ReaderRules` | the date rules of plans and suspensions, as operators |
| `Subscriptions` | the paid plan of a reader and the Stripe behind it |
| `ReaderAccounts` | the account of a reader: links by mail, sessions, passwords, social identities, suspensions |
| `ReaderDigests` | the notification e-mails: claim, fan-out, delivery |
| `MediaLibrary` | files, their two buckets, the cache, and the pages that show them |
| `StaffAccess` | staff accounts, tokens, and the permissions matrix |
| `LoginLock` | the counter that locks a staff login |
| `CategoryTree` | categories with their stored depth and path, and follows |
| `Comments` | the comments of one article and its counter |
| `Newsroom` | articles on their way to the site, the scheduler, pacotes on their way to sale |
| `ArticleEditor` | the editor page: autosave, buttons, server actions |
| `SocialOutbox` | the outbox jobs, Meta, the newsroom |
| `...Proofs` (8 modules) | theorems about `PackagePurchases`, `Subscriptions`, `ReaderAccounts`, `MediaLibrary`, `StaffAccess`; in `PromisesProofs` about `SocialOutbox` and `ReaderDigests`, in `ThreadsProofs` about `Comments` and `CategoryTree`, in `NewsdeskProofs` about `Newsroom` and `ArticleEditor` |
| `MC...` (9 modules) | small instances for TLC |

In all of them a step is what a request does between two awaits; a transaction
is one step, because it commits whole or not at all. A request carries what it
has read, and between two of its steps anybody else may run. A handler whose
reading only decides whether somebody may act, and whose answer nothing can
change, is one step. Processes die by dropping a request where it stands.

### PackagePurchases

| actions | code |
|---|---|
| `ReadOffer`, `CheckOwned`, `FindReusable`, `ReuseRow` / `CreateRow`, `OpenSession`, `LinkSession` | `createCheckoutSession`, PP:76-232, one action per await |
| `Age` | a row leaves `PENDING_REUSE_WINDOW_MS` |
| `Emit` | Stripe: which event may follow which for one session (external). Events stay in `sent` for ever: they may be delivered in any order, repeatedly, to several workers |
| `Deliver` | the ledger check of `handleEvent`, B:228-235 |
| `ReadRow`, `SettleTx` | `onCheckoutCompleted`, PP:245-355: row read outside, ledger row + promotion + entitlement rows inside the transaction. `SettleAborts` is the ledger's primary key and the article's foreign key |
| `ReadRow`, `ReverseTx` | `onChargeRefunded` PP:428-478 and `onChargeDisputed` PP:493-540; `revoking` is decided at the read, as in the code |
| `ExpireRow`, `Record` | `onCheckoutExpired` PP:364-379, and `record` |
| `ReadForGrant`, `CheckGrant`, `GrantTx`, `ReadForRevoke`, `RevokeTx` | `grant` PP:700-775, `revoke` PP:784-821 |
| `SetArticles`, `PublishPackage`, `UnpublishPackage`, `ArchiveArticle`, `DeleteArticle` | PK and AR, as far as a purchase can tell |

Abstractions. A payment intent is identified with the session it belongs to.
A session that a promotion code has left with nothing to pay completes without
an intent (`completed_free`); its row is promoted, and keeps the intent it had.
Amounts are gone: a refund is partial or total. Rows are numbered in the order
of `createdAt`. `reader.stripeCustomerId`, which the settling transaction also
fills in, belongs to subscriptions and is left out. `NoMetadata` names the
kinds of event whose metadata does not arrive: always the disputes' (a dispute
does not inherit the metadata of its charge), and in `purchases_tabs` those of
refunds and expiries too. A completed session without metadata is only recorded, because the
discriminator in `BillingService` (B:325-342) does not know it for a pacote's;
the look-up by session id in `onCheckoutCompleted` cannot be reached through it.
Publishing a pacote is one step, since a purchase sees only its last write.

### Subscriptions and ReaderRules

| actions | code |
|---|---|
| `Subscribe`, `Activate`, `MakeByHand`, `Renew`, `ScheduleEnd`, `Cancel` | Stripe (external): each change makes an event that carries the subscription as it then was, and stays in `sent` |
| `Deliver`, `FindReader`, `Commit`, `LinkTx`, `Record` | `handleEvent` B:227-305, `onSubscriptionChanged` B:443-483, `onCheckoutCompleted` B:344-376 |
| `ReadForCheckout`, `OpenSession` | `createCheckoutSession`, B:63-139 |
| `ReadForSync`, `Retrieve`, `WriteSynced` | `resyncFromStripe`, B:185-210 |
| `SeeLapsed`, `Tidy` | the guard that puts a lapsed plan back to free, `reader-auth.guard.ts`:148-155 |
| `ReadForGrant`, `Grant`, `ReadForRevoke`, `Revoke`, `Erase` | RD:651-764, `anonymise` RA:615-671 |

`ReaderRules` holds what is pure: `PlanActive`, `PlanLapsed`, `EntitledUntil`,
the suspension rules and the administration's filters. Prices and amounts are
gone; a date is a small number and `NoDate` stands for null.

### ReaderAccounts

| actions | code |
|---|---|
| `ReadForRegister`, `CreateAccount`, `ReadForResend`, `ReadForForgot`, `IssueEmailToken` | `register`, `resendVerification`, `forgotPassword`, RA:88-224 and 392-421 |
| `OpenLink`, `ReadForVerify`, `VerifyEmail`, `ResetPassword` | RA:226-307, 423-462: the link is spent and the row written in one transaction |
| `ReadForLogin`, `Login`, `ReadForChange`, `ChangePassword`, `LogoutAll` | RA:312-370, 470-497 |
| `ReadIdentity`, `ReadByAddress`, `LinkIdentity`, `CreateByIdentity` | `OAuthService.signIn` |
| `SeeLapse`, `TidyLapse`, `ReadForSuspend`, `Suspend`, `ReadForUnsuspend`, `Unsuspend`, `Anonymise` | the guard's lapse, RD:524-639, RA:615-671 |

A token is the reader, the version it was signed with and, as history, the
password that was typed for it. An address is its account; the profile's other
columns, the moderation history and the single-use OAuth state are left out.

### ReaderDigests

`Look`, `Claim`, `FanPage` are `enqueueDueArticles` and `fanOut` (a page of
`FANOUT_BATCH` followers, by cursor, per category from the leaf up);
`BeginDelivery`, `Send`, `RecordSent`, `RecordFailed`, `EndDelivery` are
`deliver`; `Prune` the deletion of old rows; `Follow`, `Unfollow`, `Mute`,
`SetCadence`, `UnsubscribeAll` the reader's wishes. `FanCut`, `SendFails`,
`RecordSentFails`, `CrashDelivery` are the failures. An e-mail is the rows it
covers. `owed` and `cuts` are history: whom a claim promised a row, as long as
they do not change their own mind, and where a category was cut short, because
the process stopped or because Prisma found no cursor: the reader a page ended
with had unfollowed. `cuts` takes nobody out of `owed`; it is the exception
`EveryFollowerIsTold` states.

### MediaLibrary

A file is one `Media` row with all its variants. `Upload`, `Put`, `Record`,
`RecordFails` are `uploadFile`/`uploadVideo`; `Edit`, `SetCover`,
`PublishPacote`, `UnpublishPage` the writes of the pages that promote what they
show; `Find`, `Copy`, `CopyFails`, `Flag` `publishKeys`; `SweepPublished` the
job; `Fetch`, `Keep`, `Heal`, `Refuse`, `Expire` what `/uploads` does with its
cache; `Remove`, `RemoveAdImage`, `Elsewhere`, `Drop`, `Unlink`, `UnlinkCopy`
deletion. `known` and `offered` are history. Left out: quotas, avatars, staff's
own access, byte ranges.

### StaffAccess and LoginLock

`Enter` is both guards, `ReadTarget` the load and `assertMayActOn`, and
`ChangeRole`, `SetActive`, `ResetPassword`, `RemoveMember`, `Invite` the writes
by id (users.service.ts). `StartLogin`/`Sign` are the two halves of `login`;
`StartOwnPassword`/`Compare`/`OwnPassword` of `changeOwnPassword`. `UpdateMatrix` and `Boot` are
rbac.service.ts; a boot may stop after any of the rows. `Assignable` and
`Default` are its tables, cut to five operations. `superActed` and
`overlapped` are history.

`LoginLock` is login-attempts.service.ts with every call to Redis or the
database a step: `ReadFailures`, `ReadLimit`, `WrongPassword`, `RightPassword`,
`CountFailure`, `SetExpiry`, `Forget`, and `CallFails`, `LockRestart`.

### CategoryTree and Comments

`StartCreateCat`/`InsertCat` and `StartMove`/`ReadParent`/`Measure`/`Move` read
the parent, measure the subtree and rewrite its paths in a transaction from a
row read before it; `RemoveCat`, `FollowCat`, `UnfollowCat` are one step.

A request of `Comments` reads (`StartPost`, `StartUpdate`, `StartRemove`,
`StartModerate`, `StartPurge`, `StartHardDelete`), writes (`InsertComment`,
`WriteRows`), counts (`CountApproved`) and stores the count (`StoreCount`).
`crossed`, `together` and `cut` are history: what they exclude from a property
really happens, and is said there.

### Newsroom and ArticleEditor

`Newsroom`: `Create`, `Update...`, `SaveDraft`, `DiscardDraft`, `Archive`,
`RemoveArticle` are one step; submitting, rejecting and publishing are a
reading and a `WriteArticle`. `ReadDue`/`PublishDue` are the scheduler's round,
`Restart` a process that stops. `ReadToSell`, `NextDraft`/`PutDraft`,
`CloseMembers`, `PutOnSale` are `publish` of a pacote, step by step, with
`ReadPending`/`MakeExclusive` for later members. Of a text only `exclusive` is
kept, in the row and in the draft.

`ArticleEditor`: a page has a form, two timers (`idle` and `ceiling`, each armed
from two places: `Clocks`), an autosave and a button under way. `Type`, `SetState` (the "Estado" select, by which the form and not the article
says whether a save is of a live piece), `Fire`, `FireWhileBusy`, `ReceiveAuto`, `CancelPending` are useAutosave.ts; `Click`,
`Press`, `Proceed`, `Finish`, `GiveUp` the editor's actions; `AutoCreate`,
`AutoPatch`, `CreatePiece`, `PatchPiece`, `PublishPiece` what the server does.
That a page's server actions run one at a time, and that a thrown transition
takes the page down, are Next.js and React (external).

### SocialOutbox

| actions | code |
|---|---|
| `FindDue`, `ClaimArticle`, `CreateRows` | `enqueueDueArticles`, SP:90-186 |
| `FindRipe`, `ClaimPost`, `CallMeta`, `WriteSent`, `WriteSentFails`, `WriteFailed` | `deliver`, SP:191-256. The batch is a snapshot: what is sent, and the attempts written, are those read with it |
| `UpdateMessage`, `Cancel` | SP:297-325 |
| `GoLive`, `LeaveLive`, `Ripen` | an article is published, archived or grows a day old; the delay is over |
| `Die` | a process dies, or the update that records a failure fails |

Abstractions. A text is the number of times it was edited. A batch is worked
through in any order, which covers `scheduledFor`. Whether a network takes an
article (`Target`) is fixed: the switches and the cover do not change while the
model runs. The Instagram client's two calls are one: they fail or succeed
together, the permalink look-up being optional. Deleting an article, which
deletes its posts, is not modelled.

## 3. Runs

The `MC` modules of components that share no state put them side by side: the variable `part`
picks one component for a whole behaviour, the others stay at their initial
state, and fairness is asked for the part that moves. Where bounds stop a
behaviour, deadlock is not checked. Symmetry is used only in runs without
liveness properties.

| run | bounds | shows |
|---|---|---|
| `purchases_tabs` | 2 tabs, 2 sessions (with or without something to pay), 2 rows, 2 articles, 1 worker, no metadata on refunds and expiries | payments and rows are not confused, whether found by metadata, payment or session; refinement of `PackageEntitlement` |
| `purchases_hooks` | 2 workers, 1 session, all reversals, 1 death | entitlement rows only while paid; status only advances |
| `purchases_admin` | an administrator, 1 editorial change, 1 draft, 1 death | gifts are beyond Stripe; refinement |
| `recoveries` | 2 workers, 1 session, 1 article that may be deleted, 1 death; 2 logins, limits 1..2, 1 fault; fair | every event is recorded and whoever paid is settled, unless the article was deleted; locks end |
| `outbox_ticks` | 2 ticks, 2 networks, 1 edit, 1 lost answer, 1 death | one caller, explained copies, cancellation, final states |
| `readers` | 1 reader with 2 subscriptions (one made by hand), 1 worker, 1 task, clock 0..1, 2 changes of each, 1 gift; 1 account, 2 passwords, 2 links, 2 requests, 1 network, version 0..2, 1 session; 2 followers, 2 nested categories, pages of 1, 2 changes of mind, no delivery (`promises` has them) | a plan that reads was paid or given; changed passwords, resets and suspensions end what came before; nobody is passed over by a fan-out but after where it was cut short |
| `office` | 1 file, 3 pages (an article, a slot, a pacote), 2 workers; 3 staff, 2 roles, 2 requests, 2 passwords, 1 session, 2 writes | rows have bytes, what is public was offered; sessions go with passwords, decisions last, rank shields |
| `threads` | 3 categories to depth 1, 2 editors; 3 comments, 1 reader, 2 requests at a time and 4 in all, 1 edit | depths and paths agree, nothing hangs; two levels, approval, the count, erasure |
| `promises` | 2 articles (one that no network takes), 2 ticks, 1 lost answer; 1 follower, 1 story, 2 deliveries, 1 change of mind; 1 file, 1 page, 2 workers; fair | every post and note is decided, every live article queued, a missed promotion made up for; repeats have a reason |
| `newsdesk` | 1 article, 2 staff, 1 pacote, 1 request, 2 rounds; 1 tab, 2 pieces, 2 versions, 1 loss; fair | chiefs release, what is sold is closed, what is due comes out; autosave creates once and words arrive |

Why the bounds are enough: each race in this code is between two requests about
one row (two tabs, two workers, two ticks, two editors, a worker and an
administrator), so two of each, one row to fight over and, where rows can be
confused, one more, make every pair of steps meet; one death or lost answer at
any step makes every partial execution occur. An expiry that closes a row under
another session needs two sessions; with two, `PaidIsSettled` was checked with
one worker while it was worked out, and `recoveries` has one. The proofs lift the safety
properties they state to all values.

Fairness, and why the code justifies it.
- `PackagePurchases`: a delivery under way goes on (`WF` on `HookStep`), and
  Stripe retries what it has no 2xx for, each event on its own schedule (`SF` on
  `Deliver` of each event). Nothing is assumed of readers or administrators.
- `SocialOutbox`, `ReaderDigests`, `MediaLibrary`: a tick that has begun goes on,
  and the jobs start again and again (`@Cron`, which starts a tick whether or
  not the last has ended), so what stays due is in the end looked at: `SF`,
  because others may take it, or a failure put it back, in between.
- `Newsroom`: each round is read (`WF`), and a due article is written (`SF`: a
  restart may empty a round, the next minute fills another).
- `ArticleEditor`: timers fire, requests are answered or fail. `LoginLock`: time
  passes and an attempt under way goes on. Nothing is assumed of people.

### Where the code does not do what is said of it

Each is a run in which TLC finds the counterexample; quotes are in `PROJECT.json`.

| run | what happens |
|---|---|
| `claim_refund` | a total refund handled before the payment's event does not revoke, and the payment then grants |
| `claim_publish` | "Publicar" lays an older saved draft over the text the editor shows, and drops the newer one |

Behaviour of the same kind that the models have and no run states:

- Purchases: two attempts of one reader, each with a row of its own, can both be
  paid; with two paid sessions of one row, refunding either revokes it; a gift
  holds members that are not published. When an article of the offer is deleted
  between the click and the payment's event, the entitlement row's foreign key
  makes every retry fail: the event is never recorded and the buyer stays
  PENDENTE (`Unpayable`, the exception of `EventsAreRecorded` and
  `PaidIsSettled`). A row may be closed by the expiry of an abandoned session
  before the payment of another is handled, which then grants nothing
  (`ClosedByAnother`, the other exception of `PaidIsSettled`).
- Outbox: the attempts of overlapping ticks are undercounted; a tick that dies
  after the claim leaves a row `A_ENVIAR` for ever, and one that dies before
  `createMany` leaves the article without posts (`LiveIsQueued` is checked
  while no tick dies).
- Subscriptions and accounts: a stale write by id can bring back a plan on an
  erased row, end one it never saw, lift a newer suspension or confirm twice
  (`ErasedHasNoPlan`, `TidyEndsNothing`, `SuspensionHolds`, `ConfirmedOnce`,
  `ErasedStaysErased`: defined, and false). `resetPassword` confirms the address
  and leaves `PENDENTE_VERIFICACAO`.
- Digests: an unfollow by the last reader of a page loses the rest of the
  category, and a tick that dies after the claim the followers left (`CutOff`,
  the exceptions of `EveryFollowerIsTold`); muting does not stop rows already
  written.
- Media: `uploadFile` leaves its bytes behind when the row cannot be written.
- Staff: the target is read before and written after (hence `overlapped` in
  `RankShields`); the last active SUPER_ADMIN can suspend or demote themselves,
  and two can delete each other; MODERADOR holds a permission it can use on nobody.
- Login lock: a fault between `incr` and `expire` leaves a counter that never
  expires (`LockEndsAlways` is false); a failed settings query lets logins through.
- Categories: a follow of a category moved below another cannot be undone by
  the button (`FollowsCanBeStopped`); two overlapping moves can make a cycle
  (`NoCategoryInsideItself`, `TreeIsSound` hold without overlap only).
- Comments: interleaved recounts store a stale number; a moderator approves a
  text edited after they saw it; deciding on a removed comment revives it.
- Newsroom: the scheduler publishes by id what was withdrawn after the round was
  read; an author may take down their own live article or move its date; pacote
  members are briefly readable before they are closed (`ClosedWhenPublished`).
- Editor: words typed while a button's save is pending, and after a failed save
  with no further key, are not sent; the ceiling re-sends unchanged text; going
  back to the first text leaves the older autosave on the server.

## 4. Proofs

TLAPS checks 52 listed theorems, for any values of the constants: every
invariant and action property of the passing runs but the liveness properties,
and some more. Each proof module assumes only the named assumptions of the
modules it is about: the constants are sets of the kinds said, numbers are
naturals, null values are nobody's, `Comment`, `Follower` and `Delivery`, over
which something is counted, are finite; all of them are evaluated by the runs.
Each argument is an inductive invariant, checked by TLC before it was proved,
with one lemma per action or group of actions and lemmas for what the idle
values and the record updates are.

- `PackagePurchasesProofs`. `Inv` gives `TypeOK`, `ItemsOnlyWhilePaid`,
  `PaidByItsOwnPayment`, `GiftsAreBeyondStripe`, `RecordedPaymentIsDecided`,
  `StatusOnlyAdvances` and the refinement `Spec => Holdings!Spec`. The
  properties are not inductive as they stand, since a request may hold a row it
  read long ago. `SessionLinks`: a session's row exists and came from a
  checkout. `RowLinks`: a row remembers only sessions that name it and payments
  that were made. Inductive with them: a row promoted without a payment has a
  session that had nothing to pay. `RequestLinks`: a request works on the row its event names,
  and one that means to revoke read a row that was PAGO, which since can only
  have become REEMBOLSADO. That last conjunct makes the unguarded transaction of
  a reversal harmless, as the promotion's filter on PENDENTE does a stale
  settlement.
- `PromisesProofs`, of the outbox. `TypeOK /\ OneCaller` is inductive: the conditional
  update is a lock held from the claim to the outcome. `CancelledStaysOut` and
  `FinalIsFinal` follow, since every write to a row wants it AGENDADO or in
  flight. `CopiesInv` adds where a copy at Meta can come from: a row that still
  may be claimed has at most as many copies as answers were lost, and one more
  only once its tick has come back from Meta. It gives `CopiesAreExplained` and
  that ENVIADO means posted.
- `PromisesProofs`, of the digests. `OwedOK`: a reader who is owed a row still
  wants it, and has it, or is ahead of the fan-out's cursor, or comes after
  where the category was cut short. That a page keeps
  this rests on what the model's `Max` and pages are for any finite set of
  readers (`GreatestIs`, `FirstOfIs`, from the well-founded naturals). `LedgerOK`:
  per reader and article, e-mails sent and deliveries that may yet send one are
  at most one more than the reasons counted, and while the row is PENDENTE what
  was sent is covered by reasons and by sendings not yet recorded; each step
  moves at most one delivery in or out of these sets (`HoldersMove`). The counts
  stop at `MaxCount`, which is any positive number. It gives
  `EveryFollowerIsTold`, `RepeatsHaveAReason` and that ENVIADO means mailed.
- `SubscriptionsProofs`. `SubsInv`: a subscription is one customer's and Stripe
  has told of what it is; the id on a row is the reader's own; a plan was given
  to, or ran at Stripe to, the date on the row; a delivery about to write has
  found the owner; a resync that has its answer carries a date of a subscription
  of the reader's own. It gives `ReadsOnlyWhatIsBacked` whatever order the
  events, retries and stale writes come in.
- `ReaderAccountsProofs`. `AcctInv`: a token, and a sign-in under way, has a
  version no newer than the row's, and if it is the same the account is not
  suspended and the password is the one typed; of two reset links of an account,
  one that may still be used was asked for after every one that was. It gives
  `OldPasswordOpensNothing`, `ResetWithdrawsOthers`, `SuspensionStrandsSessions`
  and that only a confirmed address is active.
- `MediaLibraryProofs`. `MediaInv`: an upload is of a new file and nobody
  else's; bytes are deleted only of a file that has lost its row for good; what
  a request copies or flags was offered; an answer kept as public can only be
  outlived by the row. It gives `RowsHaveBytes` and `PublicWasOffered`.
- `StaffAccessProofs`. `Sessions`: a version seen in a row goes with one
  password for good. `Granted`: what a request carries is what the guards and
  `assertMayActOn` let through. `FoundersOwn`: before any SUPER_ADMIN acts,
  nothing aims at the first one. They give `TokenMatchesPassword`,
  `RankShields`, `OnlySupersMakeSupers`; `DecisionsLast` is inductive with the types.
- `ThreadsProofs`, of the comments. `CommentsInv`: a request that is not late finds
  its rows as it read them (`Steady`), a comment about to be inserted hangs under
  a top one, and as long as requests do not meet, the one there is has the right
  number (`Alone`, `Counting`, with the cardinality lemmas). It gives
  `ShownAsApproved`, `CountIsRight`, `ThreadsHaveTwoLevels`, `ErasedWasRemoved`
  (the cascade of a deleted article is outside the module).
- `ThreadsProofs`, of the category tree. `TreeInv`: what a request has read has a
  path as long as its depth says, ending in the category, so what it writes has
  (`PlacedIs`, `RewrittenIs`). `NothingHangs` is inductive with it: the foreign
  keys look at the write. `Quiet`: as long as no request wrote over what another
  changed, the rows form a tree and a request nobody came in the way of finds
  what it read as it read it; a subtree's paths stay consistent when their common
  prefix gives way to another (`PrefixOfAbove`, `SpliceGrows`). It gives
  `TreeIsSound`, which TLC checked on the instance of `threads` while it was
  worked out and which no run states.
- `NewsdeskProofs`, of the newsroom. `NewsInv`: what is live or on the timer was cleared, what a
  round holds was due and cleared; a request that sells has shown what it no
  longer has to do, and what waits for Stripe is closed. It gives
  `OnlyChiefsRelease`, `SaleIsWhole` and that what is live has a date that has come.

- `NewsdeskProofs`, of the editor. `PageOK`, of each page: a clock is an open
  editor's, a save in flight its own (`Owned`); what is to be sent again is noted
  only while a save travels that no button has superseded (`Awaited`); an editor
  whose autosave made an article has its id, or the answer that brings it is on
  its way (`Known`); words the server lacks are about to be sent (`Promised`). It
  gives `AutosaveCreatesOnce` and `UnsavedIsPending`.

TLC checked `EditorTypeOK`, `UnsavedIsPending`, `DigestTypeOK` and `SentWasMailed`
too while their proofs were worked out; no run states them, the theorems do.

Only model-checked: the liveness properties (`EventsAreRecorded`,
`PaidIsSettled`, `PostsAreDecided`, `LiveIsQueued`, `NotesAreDecided`,
`LiveBecomesPublic`, `DueIsPublished`, `WordsReachTheServer`, `LockEnds`), since
fairness and ENABLED are beyond the prover. `LoginLock`, of which the runs check
only how a lock ends, has no theorem.

## 5. Not modelled, and next

Not modelled: the newsletter (one row per call; `sendCampaign` counts and
marks), settings as such (key and value pairs, last write wins), activity log
and staff bell (append only), dashboards (counts), mailer, infrastructure,
scripts, and the frontend but for its editor (its pages read, and send one call
per click). `PROJECT.json` says of each modelled component what is left out.

Next: what `LoginLock` never does (refuse before the lowest limit, let through
beyond the highest while Redis answers), with its proof; a refinement of an
abstract outbox, in which a post is decided once.
