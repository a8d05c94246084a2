------------------------- MODULE PackagePurchases --------------------------
(***************************************************************************)
(* The purchase of a pacote: backend/src/packages/package-purchases        *)
(* .service.ts, the part of BillingService.handleEvent that dispatches to  *)
(* it, and the Stripe it talks to.                                         *)
(*                                                                         *)
(* Requests run concurrently (browser tabs of readers, webhook deliveries, *)
(* administrators).  A step is what one request does between two awaits on *)
(* the database or on Stripe; a database transaction is one step, since it *)
(* either commits whole or leaves nothing.  Between two steps any other    *)
(* request may run, and any request may die.                               *)
(***************************************************************************)
EXTENDS Integers, FiniteSets

CONSTANTS
  Reader,          \* readers with a confirmed address
  Package,         \* pacotes
  Article,         \* articles
  Draft,           \* the articles not yet published at the start
  MaxPurchases,    \* bound: rows of PackagePurchase
  Session,         \* bound: the Checkout sessions Stripe can be asked for
  NoSession,       \* a null session or payment intent
  Tab,             \* bound: concurrent checkout requests
  Worker,          \* bound: concurrent webhook deliveries
  Admin,           \* bound: concurrent administrator requests
  Kinds,           \* the kinds of event Stripe produces in this instance
  NoMetadata,      \* the kinds whose metadata does not reach the handler
  MaxEdits,        \* bound: editorial changes
  MaxFaults        \* bound: requests that die half-way

PurchaseId == 1..MaxPurchases   \* in order of createdAt
None == 0

RowStatus == {"NENHUM", "PENDENTE", "PAGO", "REEMBOLSADO", "EXPIRADO"}
ArticleStatus == {"RASCUNHO", "PUBLICADO", "ARQUIVADO", "ELIMINADO"}

Settling == {"completed_paid", "completed_free", "async_succeeded"}
Unsettled == {"completed_unpaid", "async_failed"}
Refunds == {"refund_partial", "refund_total"}
Disputes == {"dispute_created", "dispute_won", "dispute_lost"}
AllKinds == Settling \cup Unsettled \cup Refunds \cup Disputes \cup {"expired"}

Event == [kind : AllKinds, session : Session]
Ev(k, s) == [kind |-> k, session |-> s]
NoEvent == [kind |-> "none", session |-> NoSession]

ASSUME PurchasesAssumption ==
  /\ MaxPurchases \in Nat
  /\ NoSession \notin Session
  /\ Draft \subseteq Article
  /\ Kinds \subseteq AllKinds
  /\ NoMetadata \subseteq AllKinds
  /\ MaxEdits \in Nat
  /\ MaxFaults \in Nat

VARIABLES
  article,    \* the status of each article
  members,    \* PackageArticle: the articles of each pacote
  onSale,     \* the pacotes that are PUBLICADO and have a Stripe price
  purchase,   \* PackagePurchase: the money record
  recent,     \* the rows created within PENDING_REUSE_WINDOW_MS
  items,      \* PackagePurchaseItem: <<purchase, article>> entitlement rows
  session,    \* at Stripe: the row a session's metadata names, and what
              \*   the page that opened it listed
  sent,       \* at Stripe: the events it has produced, delivered for ever
  ledger,     \* StripeEvent: the events recorded as handled
  tab,        \* the checkout requests under way
  hook,       \* the webhook deliveries under way
  admin,      \* the administrator requests under way
  edits,      \* how many editorial changes there have been
  faults      \* how many requests have died

newsroom == <<article, members, onSale, edits>>
stripe == <<session, sent>>
vars == <<article, members, onSale, purchase, recent, items, session, sent,
          ledger, tab, hook, admin, edits, faults>>

-----------------------------------------------------------------------------
(* Rows and requests.                                                      *)

NoRow == [status |-> "NENHUM", source |-> "STRIPE", reader |-> None,
          package |-> None, snapshot |-> {}, session |-> NoSession,
          intent |-> NoSession, refund |-> "none", disputed |-> FALSE]

NewRow(status, source, r, k, offer) ==
  [NoRow EXCEPT !.status = status, !.source = source, !.reader = r,
                !.package = k, !.snapshot = offer]

NotOpened == [row |-> None, shown |-> {}]

TabIdle == [pc |-> "idle", reader |-> None, package |-> None, offer |-> {},
            row |-> None, session |-> NoSession]
HookIdle == [pc |-> "idle", event |-> NoEvent, row |-> None, offer |-> {},
             revoking |-> FALSE]
AdminIdle == [pc |-> "idle", reader |-> None, package |-> None, offer |-> {},
              row |-> None]

Existing == {a \in Article : article[a] # "ELIMINADO"}
Published == {a \in Article : article[a] = "PUBLICADO"}

(* The members a reader sees on the page, and buys.                        *)
Offer(k) == members[k] \cap Published

(* "Já tem este pacote."                                                   *)
Owns(r, k) ==
  \E p \in PurchaseId : /\ purchase[p].status = "PAGO"
                        /\ purchase[p].reader = r
                        /\ purchase[p].package = k

(* The unfinished attempts createCheckoutSession may take up again.        *)
Reusable(r, k) ==
  {p \in recent : /\ purchase[p].status = "PENDENTE"
                  /\ purchase[p].reader = r
                  /\ purchase[p].package = k}

Unused == {p \in PurchaseId : purchase[p].status = "NENHUM"}

-----------------------------------------------------------------------------
Init ==
  /\ article = [a \in Article |->
                  IF a \in Draft THEN "RASCUNHO" ELSE "PUBLICADO"]
  /\ members = [k \in Package |-> Article]
  /\ onSale \in SUBSET Package
  /\ purchase = [p \in PurchaseId |-> NoRow]
  /\ recent = {}
  /\ items = {}
  /\ session = [s \in Session |-> NotOpened]
  /\ sent = {}
  /\ ledger = {}
  /\ tab = [t \in Tab |-> TabIdle]
  /\ hook = [w \in Worker |-> HookIdle]
  /\ admin = [d \in Admin |-> AdminIdle]
  /\ edits = 0
  /\ faults = 0

-----------------------------------------------------------------------------
(* createCheckoutSession, one action per await.                            *)

(* The pacote on sale, with its published members.  Nothing to buy is an   *)
(* error answer, and changes nothing.                                      *)
ReadOffer(t, r, k) ==
  /\ tab[t].pc = "idle"
  /\ k \in onSale
  /\ Offer(k) # {}
  /\ tab' = [tab EXCEPT ![t] = [TabIdle EXCEPT !.pc = "owned", !.reader = r,
                                  !.package = k, !.offer = Offer(k)]]
  /\ UNCHANGED <<newsroom, purchase, recent, items, stripe, ledger, hook,
                 admin, faults>>

(* A reader who has the pacote is refused.                                 *)
CheckOwned(t) ==
  /\ tab[t].pc = "owned"
  /\ tab' = [tab EXCEPT ![t] =
               IF Owns(tab[t].reader, tab[t].package)
               THEN TabIdle ELSE [tab[t] EXCEPT !.pc = "reuse"]]
  /\ UNCHANGED <<newsroom, purchase, recent, items, stripe, ledger, hook,
                 admin, faults>>

(* The newest recent unfinished attempt, if there is one.                  *)
FindReusable(t) ==
  /\ tab[t].pc = "reuse"
  /\ LET R == Reusable(tab[t].reader, tab[t].package) IN
     \E p \in IF R = {} THEN {None} ELSE {q \in R : \A x \in R : x <= q} :
        tab' = [tab EXCEPT ![t] = [tab[t] EXCEPT !.pc = "write", !.row = p]]
  /\ UNCHANGED <<newsroom, purchase, recent, items, stripe, ledger, hook,
                 admin, faults>>

(* The row that was found takes the new offer, whatever has become of it   *)
(* since: the update is by id alone.                                       *)
ReuseRow(t) ==
  /\ tab[t].pc = "write"
  /\ tab[t].row # None
  /\ purchase' = [purchase EXCEPT ![tab[t].row].snapshot = tab[t].offer]
  /\ tab' = [tab EXCEPT ![t] = [tab[t] EXCEPT !.pc = "session"]]
  /\ UNCHANGED <<newsroom, recent, items, stripe, ledger, hook, admin, faults>>

CreateRow(t) ==
  /\ tab[t].pc = "write"
  /\ tab[t].row = None
  /\ \E p \in Unused :
       /\ \A q \in Unused : p <= q
       /\ purchase' = [purchase EXCEPT ![p] =
            NewRow("PENDENTE", "STRIPE", tab[t].reader, tab[t].package,
                   tab[t].offer)]
       /\ recent' = recent \cup {p}
       /\ tab' = [tab EXCEPT ![t] =
                    [tab[t] EXCEPT !.pc = "session", !.row = p]]
  /\ UNCHANGED <<newsroom, items, stripe, ledger, hook, admin, faults>>

(* stripe.checkout.sessions.create: the row's id goes into the metadata of *)
(* the session and of its payment.                                         *)
OpenSession(t, s) ==
  /\ tab[t].pc = "session"
  /\ session[s].row = None
  /\ session' = [session EXCEPT ![s] =
                   [row |-> tab[t].row, shown |-> tab[t].offer]]
  /\ tab' = [tab EXCEPT ![t] = [tab[t] EXCEPT !.pc = "link", !.session = s]]
  /\ UNCHANGED <<newsroom, purchase, recent, items, sent, ledger, hook, admin,
                 faults>>

LinkSession(t) ==
  /\ tab[t].pc = "link"
  /\ purchase' = [purchase EXCEPT ![tab[t].row].session = tab[t].session]
  /\ tab' = [tab EXCEPT ![t] = TabIdle]
  /\ UNCHANGED <<newsroom, recent, items, stripe, ledger, hook, admin, faults>>

(* An hour goes by: rows leave the reuse window oldest first.              *)
Age(p) ==
  /\ p \in recent
  /\ purchase[p].status = "PENDENTE"
  /\ \A q \in recent : purchase[q].status = "PENDENTE" => p <= q
  /\ recent' = recent \ {p}
  /\ UNCHANGED <<newsroom, purchase, items, stripe, ledger, tab, hook, admin,
                 faults>>

-----------------------------------------------------------------------------
(* Stripe: what can happen to a session, and the event it leads to.        *)

Sent(k, s) == Ev(k, s) \in sent

(* The ways a session ends: a promotion code may leave nothing to pay.     *)
Closing == {"completed_paid", "completed_free", "completed_unpaid", "expired"}

Open(s) == session[s].row # None /\ \A k \in Closing : ~Sent(k, s)

Paid(s) == \E k \in Settling : Sent(k, s)
Charged(s) == Sent("completed_paid", s) \/ Sent("async_succeeded", s)

Happens(k, s) ==
  CASE k \in Closing -> Open(s)
    [] k \in {"async_succeeded", "async_failed"} ->
         /\ Sent("completed_unpaid", s)
         /\ ~Sent("async_succeeded", s)
         /\ ~Sent("async_failed", s)
    [] k \in Refunds -> Charged(s) /\ ~Sent("refund_total", s)
    [] k = "dispute_created" -> Charged(s)
    [] OTHER -> /\ Sent("dispute_created", s)
                /\ ~Sent("dispute_won", s)
                /\ ~Sent("dispute_lost", s)

Emit(k, s) ==
  /\ Happens(k, s)
  /\ ~Sent(k, s)
  /\ sent' = sent \cup {Ev(k, s)}
  /\ UNCHANGED <<newsroom, purchase, recent, items, session, ledger, tab, hook,
                 admin, faults>>

-----------------------------------------------------------------------------
(* handleEvent.  Stripe delivers an event until it is answered with a 2xx, *)
(* more than once, in any order, to several workers at a time.  A delivery *)
(* of a recorded event is answered at once and changes nothing.            *)

Deliver(w, e) ==
  /\ hook[w].pc = "idle"
  /\ e \in sent
  /\ e \notin ledger
  /\ hook' = [hook EXCEPT ![w] = [HookIdle EXCEPT !.pc = "dispatch",
                                    !.event = e]]
  /\ UNCHANGED <<newsroom, purchase, recent, items, stripe, ledger, tab, admin,
                 faults>>

(* Mutant: the row is looked up by who bought what.                        *)
RowsOfBuyer(e) ==
  LET x == session[e.session].row IN
  {p \in PurchaseId : /\ purchase[p].status # "NENHUM"
                      /\ purchase[p].reader = purchase[x].reader
                      /\ purchase[p].package = purchase[x].package}

(* The events the switch hands to a handler that looks a row up.  A        *)
(* completed session without its metadata is not known to be a pacote's:   *)
(* the discriminator in BillingService only records it.                    *)
Handled == (Settling \ NoMetadata) \cup Refunds \cup Disputes
OnlyRecorded == Unsettled \cup (Settling \cap NoMetadata)

(* The row an event is about: by the metadata, or else by what the row     *)
(* remembers of the session or of the payment.                             *)
RowsFor(e) ==
  IF e.kind \notin NoMetadata
  THEN {p \in PurchaseId : p = session[e.session].row}
  ELSE IF e.kind \in Refunds \cup Disputes
  THEN {p \in PurchaseId : purchase[p].intent = e.session}
  ELSE {p \in PurchaseId : purchase[p].session = e.session}

(* The first await of a handler: the row is read, outside the transaction. *)
(* No row, nothing to do but record the event.                             *)
ReadRow(w) ==
  LET e == hook[w].event IN
  /\ hook[w].pc = "dispatch"
  /\ e.kind \in Handled
  /\ IF RowsFor(e) = {}
     THEN hook' = [hook EXCEPT ![w] = [hook[w] EXCEPT !.pc = "record"]]
     ELSE \E p \in RowsFor(e) :
            hook' = [hook EXCEPT ![w] =
              [hook[w] EXCEPT
                 !.pc = IF e.kind \in Settling THEN "settle" ELSE "reverse",
                 !.row = p,
                 !.offer = IF e.kind \in Settling THEN purchase[p].snapshot
                                                  ELSE {},
                 !.revoking = /\ e.kind \in {"refund_total", "dispute_lost"}
                              /\ purchase[p].status = "PAGO"]]
  /\ UNCHANGED <<newsroom, purchase, recent, items, stripe, ledger, tab, admin,
                 faults>>

(* Mutants: an attempt is promoted only within the hour, or even when it   *)
(* was closed, or whatever it is unless it is paid.                        *)
PromotableRecent(p) == purchase[p].status = "PENDENTE" /\ p \in recent
PromotableClosed(p) == purchase[p].status \in {"PENDENTE", "EXPIRADO"}
PromotableUnlessPaid(p) == purchase[p].status # "PAGO"

(* Only a row still waiting for its payment can be promoted.               *)
Promotable(p) == purchase[p].status = "PENDENTE"

(* Mutant: the payment intent is not kept.                                 *)
PromotedWithoutIntent(row, e) == [row EXCEPT !.status = "PAGO"]

(* A promoted row, and the entitlement rows that come with it.  A session  *)
(* with nothing to pay has no payment to remember.                         *)
Promoted(row, e) ==
  [row EXCEPT !.status = "PAGO",
              !.intent = IF e.kind = "completed_free" THEN @ ELSE e.session]
Entitlement(p, offer) == {p} \X offer

(* Mutant: only the session the row was last linked to is good.            *)
SettleAbortsUnlinked(e, p, offer) ==
  \/ e \in ledger
  \/ purchase[p].session # e.session
  \/ Promotable(p) /\ ~(offer \subseteq Existing)

(* The transaction aborts, and the delivery fails, when the event has been *)
(* recorded meanwhile, or when an article of the snapshot is gone: the     *)
(* entitlement row would reference nothing.                                *)
SettleAborts(e, p, offer) ==
  \/ e \in ledger
  \/ Promotable(p) /\ ~(offer \subseteq Existing)

SettleTx(w) ==
  LET e == hook[w].event
      p == hook[w].row
      offer == hook[w].offer
  IN
  /\ hook[w].pc = "settle"
  /\ hook' = [hook EXCEPT ![w] = HookIdle]
  /\ IF SettleAborts(e, p, offer)
     THEN UNCHANGED <<ledger, purchase, items>>
     ELSE /\ ledger' = ledger \cup {e}
          /\ IF Promotable(p)
             THEN /\ purchase' =
                       [purchase EXCEPT ![p] = Promoted(purchase[p], e)]
                  /\ items' = items \cup Entitlement(p, offer)
             ELSE UNCHANGED <<purchase, items>>
  /\ UNCHANGED <<newsroom, recent, stripe, tab, admin, faults>>

(* Mutant: a dispute that is won gives the access back.                    *)
MarkedRestoring(row, kind) ==
  IF kind \in Refunds
  THEN [row EXCEPT !.refund = IF kind = "refund_total" THEN "total"
                                                       ELSE "partial"]
  ELSE [row EXCEPT !.disputed = TRUE,
                   !.status = IF kind = "dispute_won" THEN "PAGO" ELSE @]

(* What a reversal writes on the row, besides taking the access back.      *)
Marked(row, kind) ==
  IF kind \in Refunds
  THEN [row EXCEPT !.refund = IF kind = "refund_total" THEN "total"
                                                       ELSE "partial"]
  ELSE [row EXCEPT !.disputed = TRUE]

(* Mutants: a status the schema does not have; entitlement rows kept,      *)
(* deleted by what the pacote holds now, or taken from every purchase of   *)
(* the reader.                                                             *)
RevokedByName(row) == [row EXCEPT !.status = "REVOGADO"]
ItemsKept(p) == items
ItemsOutsidePackage(p) ==
  {i \in items : i[1] # p \/ i[2] \notin members[purchase[p].package]}
ItemsOfOthers(p) ==
  {i \in items : purchase[i[1]].reader # purchase[p].reader}

(* A revoked row, and the entitlement rows that are left.                  *)
Revoked(row) == [row EXCEPT !.status = "REEMBOLSADO"]
ItemsWithout(p) == {i \in items : i[1] # p}

ReverseTx(w) ==
  LET e == hook[w].event
      p == hook[w].row
      marked == Marked(purchase[p], e.kind)
  IN
  /\ hook[w].pc = "reverse"
  /\ hook' = [hook EXCEPT ![w] = HookIdle]
  /\ IF e \in ledger
     THEN UNCHANGED <<ledger, purchase, items>>
     ELSE /\ ledger' = ledger \cup {e}
          /\ IF hook[w].revoking
             THEN /\ purchase' = [purchase EXCEPT ![p] = Revoked(marked)]
                  /\ items' = ItemsWithout(p)
             ELSE /\ purchase' = [purchase EXCEPT ![p] = marked]
                  /\ UNCHANGED items
  /\ UNCHANGED <<newsroom, recent, stripe, tab, admin, faults>>

(* onCheckoutExpired closes the row first and records the event after.     *)
ExpireRow(w) ==
  LET e == hook[w].event IN
  /\ hook[w].pc = "dispatch"
  /\ e.kind = "expired"
  /\ purchase' = [p \in PurchaseId |->
       IF p \in RowsFor(e) /\ purchase[p].status = "PENDENTE"
       THEN [purchase[p] EXCEPT !.status = "EXPIRADO"] ELSE purchase[p]]
  /\ hook' = [hook EXCEPT ![w] = [hook[w] EXCEPT !.pc = "record"]]
  /\ UNCHANGED <<newsroom, recent, items, stripe, ledger, tab, admin, faults>>

(* record: a second insert of the same id fails, and changes nothing.      *)
Record(w) ==
  LET e == hook[w].event IN
  /\ \/ hook[w].pc = "record"
     \/ hook[w].pc = "dispatch" /\ e.kind \in OnlyRecorded
  /\ ledger' = ledger \cup {e}
  /\ hook' = [hook EXCEPT ![w] = HookIdle]
  /\ UNCHANGED <<newsroom, purchase, recent, items, stripe, tab, admin, faults>>

HookStep(w) ==
  ReadRow(w) \/ SettleTx(w) \/ ReverseTx(w) \/ ExpireRow(w) \/ Record(w)

-----------------------------------------------------------------------------
(* grant and revoke, by an administrator.                                  *)

(* Every member, published or not.                                         *)
ReadForGrant(d, r, k) ==
  /\ admin[d].pc = "idle"
  /\ admin' = [admin EXCEPT ![d] =
       [AdminIdle EXCEPT !.pc = "owned", !.reader = r, !.package = k,
                         !.offer = members[k]]]
  /\ UNCHANGED <<newsroom, purchase, recent, items, stripe, ledger, tab, hook,
                 faults>>

CheckGrant(d) ==
  /\ admin[d].pc = "owned"
  /\ admin' = [admin EXCEPT ![d] =
       IF Owns(admin[d].reader, admin[d].package)
       THEN AdminIdle ELSE [admin[d] EXCEPT !.pc = "grant"]]
  /\ UNCHANGED <<newsroom, purchase, recent, items, stripe, ledger, tab, hook,
                 faults>>

GrantTx(d) ==
  /\ admin[d].pc = "grant"
  /\ IF admin[d].offer \subseteq Existing
     THEN \E p \in Unused :
            /\ \A q \in Unused : p <= q
            /\ purchase' = [purchase EXCEPT ![p] =
                 NewRow("PAGO", "MANUAL", admin[d].reader, admin[d].package,
                        admin[d].offer)]
            /\ items' = items \cup Entitlement(p, admin[d].offer)
     ELSE UNCHANGED <<purchase, items>>
  /\ admin' = [admin EXCEPT ![d] = AdminIdle]
  /\ UNCHANGED <<newsroom, recent, stripe, ledger, tab, hook, faults>>

ReadForRevoke(d, p) ==
  /\ admin[d].pc = "idle"
  /\ purchase[p].status = "PAGO"
  /\ admin' = [admin EXCEPT ![d] =
                 [AdminIdle EXCEPT !.pc = "revoke", !.row = p]]
  /\ UNCHANGED <<newsroom, purchase, recent, items, stripe, ledger, tab, hook,
                 faults>>

RevokeTx(d) ==
  LET p == admin[d].row IN
  /\ admin[d].pc = "revoke"
  /\ purchase' = [purchase EXCEPT ![p] = Revoked(purchase[p])]
  /\ items' = ItemsWithout(p)
  /\ admin' = [admin EXCEPT ![d] = AdminIdle]
  /\ UNCHANGED <<newsroom, recent, stripe, ledger, tab, hook, faults>>

-----------------------------------------------------------------------------
(* The newsroom, as far as purchases can tell.                             *)

SetArticles(k, S) ==
  /\ edits < MaxEdits
  /\ \A a \in S : article[a] \in {"RASCUNHO", "PUBLICADO"}
  /\ members' = [members EXCEPT ![k] = S]
  /\ edits' = edits + 1
  /\ UNCHANGED <<article, onSale, purchase, recent, items, stripe, ledger, tab,
                 hook, admin, faults>>

(* Publishing a pacote publishes the drafts in it; PackagesService.publish *)
(* refuses an empty one and one with an archived member.  It takes several *)
(* writes, of which a purchase can only tell the last from the others, so  *)
(* here it is one step.                                                    *)
PublishPackage(k) ==
  /\ edits < MaxEdits
  /\ k \notin onSale
  /\ members[k] # {}
  /\ \A a \in members[k] : article[a] \in {"RASCUNHO", "PUBLICADO"}
  /\ article' = [a \in Article |->
                   IF a \in members[k] THEN "PUBLICADO" ELSE article[a]]
  /\ onSale' = onSale \cup {k}
  /\ edits' = edits + 1
  /\ UNCHANGED <<members, purchase, recent, items, stripe, ledger, tab, hook,
                 admin, faults>>

UnpublishPackage(k) ==
  /\ edits < MaxEdits
  /\ k \in onSale
  /\ onSale' = onSale \ {k}
  /\ edits' = edits + 1
  /\ UNCHANGED <<article, members, purchase, recent, items, stripe, ledger,
                 tab, hook, admin, faults>>

ArchiveArticle(a) ==
  /\ edits < MaxEdits
  /\ article[a] \in {"RASCUNHO", "PUBLICADO"}
  /\ article' = [article EXCEPT ![a] = "ARQUIVADO"]
  /\ edits' = edits + 1
  /\ UNCHANGED <<members, onSale, purchase, recent, items, stripe, ledger, tab,
                 hook, admin, faults>>

(* A hard delete: memberships and entitlement rows go with the article.    *)
DeleteArticle(a) ==
  /\ edits < MaxEdits
  /\ a \in Existing
  /\ article' = [article EXCEPT ![a] = "ELIMINADO"]
  /\ members' = [k \in Package |-> members[k] \ {a}]
  /\ items' = {i \in items : i[2] # a}
  /\ edits' = edits + 1
  /\ UNCHANGED <<onSale, purchase, recent, stripe, ledger, tab, hook, admin,
                 faults>>

-----------------------------------------------------------------------------
(* A request dies between two steps: the process is killed, the database   *)
(* or Stripe does not answer.                                              *)
Die ==
  /\ faults < MaxFaults
  /\ faults' = faults + 1
  /\ \/ \E t \in Tab : /\ tab[t].pc # "idle"
                       /\ tab' = [tab EXCEPT ![t] = TabIdle]
                       /\ UNCHANGED <<hook, admin>>
     \/ \E w \in Worker : /\ hook[w].pc # "idle"
                          /\ hook' = [hook EXCEPT ![w] = HookIdle]
                          /\ UNCHANGED <<tab, admin>>
     \/ \E d \in Admin : /\ admin[d].pc # "idle"
                         /\ admin' = [admin EXCEPT ![d] = AdminIdle]
                         /\ UNCHANGED <<tab, hook>>
  /\ UNCHANGED <<newsroom, purchase, recent, items, stripe, ledger>>

TabNext ==
  \E t \in Tab :
    \/ \E r \in Reader, k \in Package : ReadOffer(t, r, k)
    \/ CheckOwned(t)
    \/ FindReusable(t)
    \/ ReuseRow(t)
    \/ CreateRow(t)
    \/ \E s \in Session : OpenSession(t, s)
    \/ LinkSession(t)

StripeNext == \E k \in Kinds, s \in Session : Emit(k, s)

HookNext ==
  \E w \in Worker : (\E e \in sent : Deliver(w, e)) \/ HookStep(w)

AdminNext ==
  \E d \in Admin :
    \/ \E r \in Reader, k \in Package : ReadForGrant(d, r, k)
    \/ CheckGrant(d)
    \/ GrantTx(d)
    \/ \E p \in PurchaseId : ReadForRevoke(d, p)
    \/ RevokeTx(d)

NewsroomNext ==
  \/ \E k \in Package, S \in SUBSET Article : SetArticles(k, S)
  \/ \E k \in Package : PublishPackage(k) \/ UnpublishPackage(k)
  \/ \E a \in Article : ArchiveArticle(a) \/ DeleteArticle(a)

Next ==
  \/ TabNext
  \/ \E p \in PurchaseId : Age(p)
  \/ StripeNext
  \/ HookNext
  \/ AdminNext
  \/ NewsroomNext
  \/ Die

Spec == Init /\ [][Next]_vars

(* A delivery under way goes on, and Stripe never gives up on an event it  *)
(* has not been answered for: each is retried on a schedule of its own, so *)
(* no event that keeps failing can starve another.                         *)
Fairness ==
  /\ \A w \in Worker : WF_vars(HookStep(w))
  /\ \A k \in Kinds, s \in Session :
       SF_vars(\E w \in Worker : Deliver(w, Ev(k, s)))

FairSpec == Spec /\ Fairness

-----------------------------------------------------------------------------
(* Correctness.                                                            *)

Row == [status : RowStatus, source : {"STRIPE", "MANUAL"},
        reader : Reader \cup {None}, package : Package \cup {None},
        snapshot : SUBSET Article, session : Session \cup {NoSession},
        intent : Session \cup {NoSession},
        refund : {"none", "partial", "total"}, disputed : BOOLEAN]

TabRequest == [pc : {"idle", "owned", "reuse", "write", "session", "link"},
               reader : Reader \cup {None}, package : Package \cup {None},
               offer : SUBSET Article, row : PurchaseId \cup {None},
               session : Session \cup {NoSession}]

Delivery == [pc : {"idle", "dispatch", "settle", "reverse", "record"},
             event : Event \cup {NoEvent}, row : PurchaseId \cup {None},
             offer : SUBSET Article, revoking : BOOLEAN]

AdminRequest == [pc : {"idle", "owned", "grant", "revoke"},
                 reader : Reader \cup {None}, package : Package \cup {None},
                 offer : SUBSET Article, row : PurchaseId \cup {None}]

NewsroomOK == /\ article \in [Article -> ArticleStatus]
              /\ members \in [Package -> SUBSET Article]
              /\ onSale \subseteq Package
              /\ edits \in 0..MaxEdits

RowsOK == /\ purchase \in [PurchaseId -> Row]
          /\ recent \subseteq PurchaseId
          /\ items \subseteq PurchaseId \X Article

StripeOK == /\ session \in [Session -> [row : PurchaseId \cup {None},
                                        shown : SUBSET Article]]
            /\ sent \subseteq Event
            /\ ledger \subseteq sent

TabOK(t) == /\ tab[t].pc \in {"session", "link"} => tab[t].row # None
            /\ tab[t].pc = "link" => tab[t].session # NoSession

HookOK(w) == /\ hook[w].pc # "idle" => hook[w].event \in sent
             /\ hook[w].pc \in {"settle", "reverse"} => hook[w].row # None

AdminOK(d) == admin[d].pc = "revoke" => admin[d].row # None

RequestsOK == /\ tab \in [Tab -> TabRequest] /\ \A t \in Tab : TabOK(t)
              /\ hook \in [Worker -> Delivery] /\ \A w \in Worker : HookOK(w)
              /\ admin \in [Admin -> AdminRequest] /\ \A d \in Admin : AdminOK(d)
              /\ faults \in 0..MaxFaults

(* Every variable has its type, a request at work on a row has one, and    *)
(* nothing is handled or recorded that Stripe did not send.                *)
TypeOK == NewsroomOK /\ RowsOK /\ StripeOK /\ RequestsOK

(* The read gate looks at entitlement rows alone, so they may exist only   *)
(* for a purchase that is paid: none before the payment, none left behind  *)
(* by a refund, a lost dispute or a person's decision, however the         *)
(* webhooks, the reader's tabs and the administrators interleave.          *)
ItemsOnlyWhilePaid ==
  \A i \in items : purchase[i[1]].status = "PAGO"

(* A row bought through Stripe is paid, or was, only because of a session  *)
(* that row opened: Stripe took a payment for it, and the row remembers    *)
(* which; or Stripe let it through with nothing to pay, and then the row   *)
(* remembers no payment at all.                                            *)
PaidByItsOwnPayment ==
  \A p \in PurchaseId :
    purchase[p].source = "STRIPE" /\ purchase[p].status \in {"PAGO", "REEMBOLSADO"}
      => \/ /\ purchase[p].intent \in Session
            /\ session[purchase[p].intent].row = p
            /\ Charged(purchase[p].intent)
         \/ /\ purchase[p].intent = NoSession
            /\ \E s \in Session :
                 session[s].row = p /\ Sent("completed_free", s)

(* A gift is nobody's payment: no event of Stripe's ever lands on it, so   *)
(* only the person who gave it can take it back.                           *)
GiftsAreBeyondStripe ==
  \A p \in PurchaseId :
    purchase[p].source = "MANUAL"
      => /\ purchase[p].status \in {"PAGO", "REEMBOLSADO"}
         /\ purchase[p].intent = NoSession
         /\ purchase[p].refund = "none"
         /\ ~purchase[p].disputed

(* A payment event is not recorded as handled while the row it pays for is *)
(* still waiting: the ledger and the promotion are one transaction.        *)
RecordedPaymentIsDecided ==
  \A s \in Session, k \in Settling \ NoMetadata :
    Ev(k, s) \in ledger => purchase[session[s].row].status # "PENDENTE"

(* Why these hold.  A session's row exists and came from a checkout; a row *)
(* remembers only sessions that name it, and only payments that were made; *)
(* a request under way works on the row its event or its reading is about. *)
SessionLinks ==
  /\ \A s \in Session :
       session[s].row # None => /\ purchase[session[s].row].status # "NENHUM"
                                /\ purchase[session[s].row].source = "STRIPE"
  /\ \A e \in sent : session[e.session].row # None

RowLinks ==
  \A p \in PurchaseId :
    /\ purchase[p].status = "PENDENTE" => purchase[p].source = "STRIPE"
    /\ purchase[p].session # NoSession =>
         session[purchase[p].session].row = p
    /\ purchase[p].intent # NoSession =>
         session[purchase[p].intent].row = p /\ Charged(purchase[p].intent)

TabLinked(t) ==
  /\ tab[t].row # None => /\ purchase[tab[t].row].status # "NENHUM"
                          /\ purchase[tab[t].row].source = "STRIPE"
  /\ tab[t].pc = "link" => session[tab[t].session].row = tab[t].row

HookLinked(w) ==
  /\ hook[w].pc = "settle" => hook[w].event.kind \in Settling
  /\ hook[w].pc = "reverse" => hook[w].event.kind \in Refunds \cup Disputes
  /\ hook[w].pc \in {"settle", "reverse"} =>
       session[hook[w].event.session].row = hook[w].row
  /\ hook[w].pc = "reverse" /\ hook[w].revoking =>
       purchase[hook[w].row].status \in {"PAGO", "REEMBOLSADO"}
  /\ hook[w].pc = "record" => hook[w].event.kind \notin Settling \ NoMetadata

AdminLinked(d) ==
  admin[d].pc = "revoke" =>
    purchase[admin[d].row].status \in {"PAGO", "REEMBOLSADO"}

RequestLinks == /\ \A t \in Tab : TabLinked(t)
                /\ \A w \in Worker : HookLinked(w)
                /\ \A d \in Admin : AdminLinked(d)

Inv ==
  /\ TypeOK
  /\ ItemsOnlyWhilePaid
  /\ PaidByItsOwnPayment
  /\ GiftsAreBeyondStripe
  /\ RecordedPaymentIsDecided
  /\ SessionLinks /\ RowLinks /\ RequestLinks

(* How far along its life a row is.                                        *)
Rank(status) ==
  CASE status = "NENHUM" -> 0
    [] status = "PENDENTE" -> 1
    [] status = "PAGO" -> 2
    [] OTHER -> 3

(* A row only moves forward: what was revoked or has expired is never sold *)
(* or given again, whatever is replayed, retried or read too early.        *)
StatusOnlyAdvances ==
  [][\A p \in PurchaseId :
       purchase'[p].status # purchase[p].status =>
         Rank(purchase'[p].status) > Rank(purchase[p].status)]_vars

StageOf(p) ==
  CASE purchase[p].status = "NENHUM" -> "none"
    [] purchase[p].status = "PENDENTE" -> "open"
    [] purchase[p].status = "PAGO" -> "held"
    [] OTHER -> "over"

HeldBy(p) == {a \in Article : <<p, a>> \in items}

Holdings == INSTANCE PackageEntitlement WITH
  Purchase <- PurchaseId,
  stage <- [p \in PurchaseId |-> StageOf(p)],
  held <- [p \in PurchaseId |-> HeldBy(p)]

(* What a purchase holds is decided when it is promoted.  Afterwards the   *)
(* newsroom's changes to the pacote, another tab's new offer and replayed  *)
(* events neither add to it nor take from it.                              *)
ImplementsEntitlement == Holdings!Spec

(* A row that waits for a payment which cannot be taken to it: an article  *)
(* of what was offered is gone, and the transaction fails whenever it is   *)
(* tried.  Nobody is told, and nothing in the code puts it right.          *)
Unpayable(p) == Promotable(p) /\ ~(purchase[p].snapshot \subseteq Existing)

(* Everything Stripe sends is in the end recorded, so Stripe stops sending *)
(* it, whatever dies, races or is retried; except the payment of a row     *)
(* that an editor's deletion has left unpayable.                           *)
EventsAreRecorded ==
  \A k \in Kinds, s \in Session :
    Sent(k, s) ~> \/ Ev(k, s) \in ledger
                  \/ /\ k \in Settling
                     /\ \E p \in PurchaseId : session[s].row = p /\ Unpayable(p)

(* Another session the same row had opened has expired.                    *)
ClosedByAnother(p, s) ==
  /\ purchase[p].status = "EXPIRADO"
  /\ \E x \in Session \ {s} : session[x].row = p /\ Sent("expired", x)

(* Somebody whose payment Stripe reports, metadata and all, in the end has *)
(* the pacote (or had it, until it was taken back).  There are two ways to *)
(* be left without: the row is unpayable; or another session of the row    *)
(* expired and closed it before the payment was handled.                   *)
PaidIsSettled ==
  \A k \in Settling \ NoMetadata, s \in Session, p \in PurchaseId :
    Sent(k, s) /\ session[s].row = p ~>
      \/ purchase[p].status \in {"PAGO", "REEMBOLSADO"}
      \/ Unpayable(p)
      \/ ClosedByAnother(p, s)

-----------------------------------------------------------------------------
(* What the comments and documents say of the program, and the code does   *)
(* not do.                                                                 *)

(* "Um reembolso total retira o acesso": once a total refund is recorded,  *)
(* nothing of that purchase can be read.                                   *)
RefundEndsEntitlement ==
  \A s \in Session :
    Ev("refund_total", s) \in ledger =>
      \A a \in Article : <<session[s].row, a>> \notin items
=============================================================================
