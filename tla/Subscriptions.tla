---------------------------- MODULE Subscriptions ----------------------------
(***************************************************************************)
(* The paid plan of a reader: the subscription half of backend/src/billing *)
(* /billing.service.ts, the gifts of readers.service.ts, the tidying in    *)
(* reader-auth.guard.ts, and the Stripe behind them.                       *)
(*                                                                         *)
(* A step is what a request does between two awaits.  A request carries    *)
(* what it has read; most of the writes are by id alone, whatever has      *)
(* become of the row since.                                                *)
(***************************************************************************)
EXTENDS ReaderRules, FiniteSets

CONSTANTS
  Reader,       \* readers with a confirmed address
  Sub,          \* bound: the subscriptions Stripe can be asked for
  NoSub,        \* a null subscription id
  Worker,       \* bound: concurrent webhook deliveries
  Task,         \* bound: the other requests under way at a time
  ByHand,       \* the subscriptions made in Stripe's dashboard: no metadata
  Buyer,        \* the readers Stripe knows already, from buying a pacote
  GiftEnd,      \* the ends a gift may be given
  MaxTime,      \* bound: how far the clock goes
  MaxVersions,  \* bound: how often one subscription changes
  MaxGrants     \* bound: gifts

Statuses == {"incomplete", "active", "past_due", "canceled"}
Entitling == {"active"}
Dead == {"canceled"}
Date == 0..(MaxTime + 1)

ASSUME SubscriptionsAssumption ==
  /\ NoSub \notin Sub
  /\ ByHand \subseteq Sub
  /\ Buyer \subseteq Reader
  /\ GiftEnd \subseteq 0..(MaxTime + 1) \cup {NoDate}
  /\ MaxTime \in Nat
  /\ MaxVersions \in Nat
  /\ MaxGrants \in Nat

VARIABLES
  now,      \* the clock
  reader,   \* the plan columns of Reader, and whether it is ANONIMIZADO
  stripe,   \* at Stripe: each subscription
  sent,     \* at Stripe: the events, delivered for ever and in any order
  ledger,   \* StripeEvent
  hook,     \* the deliveries under way
  task,     \* the other requests under way
  granted   \* ActivityLog: who was given a plan, and until when

svars == <<now, reader, stripe, sent, ledger, hook, task, granted>>

-----------------------------------------------------------------------------
(* Rows, subscriptions and requests.                                       *)

FreeRow == [plan |-> "GRATIS", until |-> NoDate, source |-> "none",
            sub |-> NoSub, customer |-> FALSE, erased |-> FALSE]

(* A subscription as Stripe describes it: its owner is the customer.       *)
NotYet == [status |-> "incomplete", until |-> 0, ending |-> FALSE]
Unasked == [owner |-> {}, version |-> 0, data |-> NotYet]

HookIdle == [pc |-> "idle", event |-> {}, reader |-> {}, entitled |-> FALSE]
TaskIdle == [pc |-> "idle", reader |-> {}, until |-> NoDate, sub |-> NoSub,
             data |-> NotYet, entitled |-> FALSE]

(* An event carries the subscription as it was when Stripe made the event. *)
Changed(s, n, data) == [kind |-> "changed", sub |-> s, n |-> n, data |-> data]
Linked(s) == [kind |-> "linked", sub |-> s, n |-> 0, data |-> NotYet]

(* Somebody who is paying already is not sold a second subscription, and   *)
(* is not given one.                                                       *)
PaysAlready(row) == row.source = "STRIPE" /\ row.plan # "GRATIS"

LapsedPlan(row) ==
  [row EXCEPT !.plan = "GRATIS", !.until = NoDate, !.source = "none"]

(* Stripe goes on trying a card that was refused until the period ends.    *)
Entitles(data) ==
  \/ data.status \in Entitling
  \/ data.status = "past_due" /\ data.until > now

(* Mutants: a scheduled end leaves the plan open; the source is not written. *)
PlanForOpen(row, entitled, data) ==
  IF ~entitled THEN LapsedPlan(row)
  ELSE [row EXCEPT !.plan = "PREMIUM", !.source = "STRIPE",
                   !.until = IF data.ending THEN NoDate ELSE data.until]
PlanForAnySource(row, entitled, data) ==
  IF ~entitled THEN LapsedPlan(row)
  ELSE [row EXCEPT !.plan = "PREMIUM", !.until = data.until]

(* planFor: the columns a subscription decides, given whether it entitles. *)
PlanFor(row, entitled, data) ==
  IF ~entitled THEN LapsedPlan(row)
  ELSE [row EXCEPT !.plan = "PREMIUM", !.until = data.until,
                   !.source = "STRIPE"]

-----------------------------------------------------------------------------
SubsInit ==
  /\ now = 0
  /\ reader = [r \in Reader |-> [FreeRow EXCEPT !.customer = r \in Buyer]]
  /\ stripe = [s \in Sub |-> Unasked]
  /\ sent = {}
  /\ ledger = {}
  /\ hook = [w \in Worker |-> HookIdle]
  /\ task = [t \in Task |-> TaskIdle]
  /\ granted = {}

Tick ==
  /\ now < MaxTime
  /\ now' = now + 1
  /\ UNCHANGED <<reader, stripe, sent, ledger, hook, task, granted>>

-----------------------------------------------------------------------------
(* Stripe.  Every change of a subscription makes an event.                 *)

Becomes(s, data) ==
  /\ stripe[s].version < MaxVersions
  /\ stripe' = [stripe EXCEPT ![s].version = @ + 1, ![s].data = data]
  /\ sent' = sent \cup {Changed(s, stripe[s].version + 1, data)}
  /\ UNCHANGED <<now, reader, ledger, hook, task, granted>>

Running(s) == /\ stripe[s].version > 0
              /\ stripe[s].data.status \in {"active", "past_due"}

(* The card form of a checkout page is filled in.                          *)
Subscribe(s) ==
  /\ stripe[s].owner # {}
  /\ stripe[s].version = 0
  /\ Becomes(s, [NotYet EXCEPT !.until = now + 1])

(* The first payment succeeds, and with it the checkout.                   *)
Activate(s) ==
  /\ stripe[s].version = 1
  /\ stripe[s].data.status = "incomplete"
  /\ stripe[s].version < MaxVersions
  /\ LET data == [stripe[s].data EXCEPT !.status = "active"] IN
     /\ stripe' = [stripe EXCEPT ![s].version = 2, ![s].data = data]
     /\ sent' = sent \cup {Changed(s, 2, data), Linked(s)}
  /\ UNCHANGED <<now, reader, ledger, hook, task, granted>>

(* Somebody at the newspaper makes a subscription for a known customer.    *)
MakeByHand(s, r) ==
  /\ s \in ByHand
  /\ stripe[s].owner = {} /\ MaxVersions > 0
  /\ reader[r].customer
  /\ LET data == [status |-> "active", until |-> now + 1, ending |-> FALSE] IN
     /\ stripe' = [stripe EXCEPT ![s] = [owner |-> {r}, version |-> 1,
                                         data |-> data]]
     /\ sent' = sent \cup {Changed(s, 1, data)}
  /\ UNCHANGED <<now, reader, ledger, hook, task, granted>>

(* A period ends: the next is paid for, or the card is refused.            *)
Renew(s, status) ==
  /\ Running(s)
  /\ ~stripe[s].data.ending
  /\ stripe[s].data.until <= now
  /\ Becomes(s, [status |-> status, until |-> now + 1, ending |-> FALSE])

(* The portal: the reader schedules the end, or thinks better of it.       *)
ScheduleEnd(s) ==
  /\ Running(s)
  /\ stripe[s].data.until > now
  /\ Becomes(s, [stripe[s].data EXCEPT !.ending = ~@])

Cancel(s) ==
  /\ Running(s)
  /\ Becomes(s, [stripe[s].data EXCEPT !.status = "canceled"])

StripeNext ==
  \E s \in Sub :
    \/ Subscribe(s)
    \/ Activate(s)
    \/ \E r \in Reader : MakeByHand(s, r)
    \/ \E status \in {"active", "past_due"} : Renew(s, status)
    \/ ScheduleEnd(s)
    \/ Cancel(s)

-----------------------------------------------------------------------------
(* handleEvent.                                                            *)

Deliver(w, e) ==
  /\ hook[w].pc = "idle"
  /\ e \in sent
  /\ e \notin ledger
  /\ hook' = [hook EXCEPT ![w] = [HookIdle EXCEPT !.pc = "dispatch",
                                    !.event = {e}]]
  /\ UNCHANGED <<now, reader, stripe, sent, ledger, task, granted>>

(* findReaderFor: by our metadata, or the subscription id a reader holds,  *)
(* or the customer id.                                                     *)
FindReaderFor(s) ==
  IF s \notin ByHand THEN stripe[s].owner
  ELSE IF \E r \in Reader : reader[r].sub = s
  THEN {r \in Reader : reader[r].sub = s}
  ELSE {r \in stripe[s].owner : reader[r].customer}

(* onSubscriptionChanged reads the reader, and decides what the event says *)
(* of the plan, outside the transaction.                                   *)
FindReader(w) ==
  /\ hook[w].pc = "dispatch"
  /\ \E e \in hook[w].event :
       /\ e.kind = "changed"
       /\ \/ /\ FindReaderFor(e.sub) = {}
             /\ hook' = [hook EXCEPT ![w].pc = "record"]
          \/ \E r \in FindReaderFor(e.sub) :
               hook' = [hook EXCEPT ![w].pc = "apply", ![w].reader = {r},
                                    ![w].entitled = Entitles(e.data)]
  /\ UNCHANGED <<now, reader, stripe, sent, ledger, task, granted>>

(* The row after a subscription's event.                                   *)
AfterChange(row, e, entitled) ==
  [PlanFor(row, entitled, e.data) EXCEPT
     !.sub = IF e.data.status \in Dead THEN NoSub ELSE e.sub]

Commit(w, e, changed) ==
  /\ hook' = [hook EXCEPT ![w] = HookIdle]
  /\ IF e \in ledger
     THEN UNCHANGED <<ledger, reader>>
     ELSE ledger' = ledger \cup {e} /\ reader' = changed
  /\ UNCHANGED <<now, stripe, sent, task, granted>>

ApplyTx(w) ==
  /\ hook[w].pc = "apply"
  /\ \E e \in hook[w].event, r \in hook[w].reader :
       Commit(w, e, [reader EXCEPT ![r] =
         AfterChange(reader[r], e, hook[w].entitled)])

(* onCheckoutCompleted of a subscription only links the ids.               *)
LinkTx(w) ==
  /\ hook[w].pc = "dispatch"
  /\ \E e \in hook[w].event :
       /\ e.kind = "linked"
       /\ \E r \in stripe[e.sub].owner :
            Commit(w, e, [reader EXCEPT ![r].customer = TRUE,
                                        ![r].sub = e.sub])

Record(w) ==
  /\ hook[w].pc = "record"
  /\ \E e \in hook[w].event : Commit(w, e, reader)

HookStep(w) == FindReader(w) \/ ApplyTx(w) \/ LinkTx(w) \/ Record(w)

(* The delivery dies, or is answered too late; Stripe tries again.         *)
DeliveryFails(w) ==
  /\ hook[w].pc # "idle"
  /\ hook' = [hook EXCEPT ![w] = HookIdle]
  /\ UNCHANGED <<now, reader, stripe, sent, ledger, task, granted>>

-----------------------------------------------------------------------------
(* Requests of readers and of the newsroom.                                *)

Begin(t, request) ==
  /\ task[t].pc = "idle"
  /\ task' = [task EXCEPT ![t] = request]
  /\ UNCHANGED <<now, reader, stripe, sent, ledger, hook, granted>>

TaskFor(pc, r) == [TaskIdle EXCEPT !.pc = pc, !.reader = {r}]
Finish(t) == task' = [task EXCEPT ![t] = TaskIdle]

(* createCheckoutSession refuses a reader who pays already, then asks      *)
(* Stripe for a page.                                                      *)
ReadForCheckout(t, r) ==
  /\ ~reader[r].erased
  /\ ~PaysAlready(reader[r])
  /\ Begin(t, TaskFor("checkout", r))

OpenSession(t, s) ==
  /\ task[t].pc = "checkout"
  /\ s \notin ByHand
  /\ stripe[s].owner = {}
  /\ stripe' = [stripe EXCEPT ![s].owner = task[t].reader]
  /\ Finish(t)
  /\ UNCHANGED <<now, reader, sent, ledger, hook, granted>>

(* resyncFromStripe, from the reader's own page.                           *)
ReadForSync(t, r) ==
  /\ ~reader[r].erased
  /\ reader[r].sub # NoSub
  /\ Begin(t, [TaskFor("sync", r) EXCEPT !.sub = reader[r].sub])

Retrieve(t) ==
  /\ task[t].pc = "sync"
  /\ LET data == stripe[task[t].sub].data IN
     task' = [task EXCEPT ![t].pc = "synced", ![t].data = data,
                          ![t].entitled = Entitles(data)]
  /\ UNCHANGED <<now, reader, stripe, sent, ledger, hook, granted>>

Write(t, r, row) ==
  /\ reader' = [reader EXCEPT ![r] = row]
  /\ Finish(t)
  /\ UNCHANGED <<now, stripe, sent, ledger, hook>>

WriteSynced(t) ==
  /\ task[t].pc = "synced"
  /\ \E r \in task[t].reader :
       Write(t, r, PlanFor(reader[r], task[t].entitled, task[t].data))
  /\ UNCHANGED granted

(* ReaderAuthGuard, on any request of a reader whose plan has lapsed.      *)
SeeLapsed(t, r) ==
  /\ ~reader[r].erased
  /\ PlanLapsed(reader[r].plan, reader[r].until, now)
  /\ Begin(t, TaskFor("tidy", r))

Tidy(t) ==
  /\ task[t].pc = "tidy"
  /\ \E r \in task[t].reader : Write(t, r, LapsedPlan(reader[r]))
  /\ UNCHANGED granted

(* grantSubscription and revokeSubscription.                               *)
ReadForGrant(t, r, until) ==
  /\ Cardinality(granted) < MaxGrants
  /\ ~reader[r].erased
  /\ ~PaysAlready(reader[r])
  /\ until = NoDate \/ until > now
  /\ Begin(t, [TaskFor("grant", r) EXCEPT !.until = until])

(* Mutant: a gift of a kind the schema does not have.                      *)
GiftRowNamed(row, until) ==
  [row EXCEPT !.plan = "PREMIUM", !.until = until, !.source = "OFERTA"]

GiftRow(row, until) ==
  [row EXCEPT !.plan = "PREMIUM", !.until = until, !.source = "MANUAL"]

Grant(t) ==
  /\ task[t].pc = "grant"
  /\ \E r \in task[t].reader :
       /\ Write(t, r, GiftRow(reader[r], task[t].until))
       /\ granted' = granted \cup {<<r, task[t].until>>}

ReadForRevoke(t, r) ==
  /\ reader[r].plan # "GRATIS"
  /\ reader[r].source # "STRIPE"
  /\ Begin(t, TaskFor("revoke", r))

Revoke(t) ==
  /\ task[t].pc = "revoke"
  /\ \E r \in task[t].reader : Write(t, r, LapsedPlan(reader[r]))
  /\ UNCHANGED granted

(* A request dies, or Stripe does not answer it.                           *)
Abandon(t) ==
  /\ task[t].pc # "idle"
  /\ Finish(t)
  /\ UNCHANGED <<now, reader, stripe, sent, ledger, hook, granted>>

(* anonymise: one transaction.                                             *)
ErasedRow(row) == [row EXCEPT !.plan = "GRATIS", !.until = NoDate,
                              !.customer = FALSE, !.erased = TRUE]

Erase(r) ==
  /\ ~reader[r].erased
  /\ reader' = [reader EXCEPT ![r] = ErasedRow(reader[r])]
  /\ UNCHANGED <<now, stripe, sent, ledger, hook, task, granted>>

TaskNext ==
  \E t \in Task :
    \/ \E r \in Reader :
         \/ ReadForCheckout(t, r)
         \/ ReadForSync(t, r)
         \/ SeeLapsed(t, r)
         \/ \E until \in GiftEnd : ReadForGrant(t, r, until)
         \/ ReadForRevoke(t, r)
    \/ \E s \in Sub : OpenSession(t, s)
    \/ Retrieve(t) \/ WriteSynced(t) \/ Tidy(t) \/ Grant(t) \/ Revoke(t)
    \/ Abandon(t)

HookNext ==
  \E w \in Worker :
    (\E e \in sent : Deliver(w, e)) \/ HookStep(w) \/ DeliveryFails(w)

SubsNext ==
  \/ Tick
  \/ StripeNext
  \/ HookNext
  \/ TaskNext
  \/ \E r \in Reader : Erase(r)

SubsSpec == SubsInit /\ [][SubsNext]_svars

-----------------------------------------------------------------------------
(* Correctness.                                                            *)

PlanRow == [plan : {"GRATIS", "PREMIUM"}, until : Date \cup {NoDate},
            source : {"none", "STRIPE", "MANUAL"}, sub : Sub \cup {NoSub},
            customer : BOOLEAN, erased : BOOLEAN]
SubData == [status : Statuses, until : Date, ending : BOOLEAN]
SubEvent == [kind : {"changed", "linked"}, sub : Sub, n : 0..MaxVersions,
             data : SubData]

SubsTypeOK ==
  /\ now \in 0..MaxTime
  /\ reader \in [Reader -> PlanRow]
  /\ stripe \in [Sub -> [owner : SUBSET Reader, version : 0..MaxVersions,
                         data : SubData]]
  /\ sent \subseteq SubEvent
  /\ ledger \subseteq sent
  /\ hook \in [Worker -> [pc : {"idle", "dispatch", "apply", "record"},
                          event : SUBSET sent, reader : SUBSET Reader,
                          entitled : BOOLEAN]]
  /\ task \in [Task -> [pc : {"idle", "checkout", "sync", "synced", "tidy",
                             "grant", "revoke"},
                       reader : SUBSET Reader, until : Date \cup {NoDate},
                       sub : Sub \cup {NoSub}, data : SubData,
                       entitled : BOOLEAN]]
  /\ granted \subseteq Reader \X (Date \cup {NoDate})

(* A subscription of the reader's was, at some moment, paid or being       *)
(* retried until that date.                                                *)
PaidUntil(r, until) ==
  \E e \in sent : /\ e.kind = "changed"
                  /\ stripe[e.sub].owner = {r}
                  /\ e.data.status \in {"active", "past_due"}
                  /\ e.data.until = until

Reads(r) == PlanActive(reader[r].plan, reader[r].until, now)

(* Whoever reads today was given the plan by somebody, or has (or had) a   *)
(* subscription of their own running to that very date: whichever old      *)
(* event, stale read or repeated write came last, a date is never made up, *)
(* taken from somebody else's subscription, or left open by Stripe.        *)
ReadsOnlyWhatIsBacked ==
  \A r \in Reader :
    Reads(r) => \/ /\ reader[r].source = "MANUAL"
                   /\ <<r, reader[r].until>> \in granted
                \/ /\ reader[r].source = "STRIPE"
                   /\ PaidUntil(r, reader[r].until)

(* getStats adds those who pay and those who were given a plan, and calls  *)
(* the sum the readers with a plan: no writer leaves a plan without its    *)
(* source.                                                                 *)
StatsAddUp ==
  LET bySource(x) == {r \in Reader : ActivePlanWhere(reader[r], now)
                                      /\ reader[r].source = x} IN
  Cardinality({r \in Reader : Reads(r)})
    = Cardinality(bySource("STRIPE")) + Cardinality(bySource("MANUAL"))

-----------------------------------------------------------------------------
(* What the comments say of the program, and the code does not do.         *)

(* "This only stops the row from claiming a plan that ended": the guard's  *)
(* tidying ends no plan that is still running.                             *)
TidyEndsNothing ==
  [][\A r \in Reader, t \in Task :
       Tidy(t) /\ Reads(r) => reader'[r].plan = reader[r].plan]_svars

(* "The two have to go together": an erased account has no plan.           *)
ErasedHasNoPlan ==
  \A r \in Reader : reader[r].erased => reader[r].plan = "GRATIS"
=============================================================================
