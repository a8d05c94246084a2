------------------------- MODULE SubscriptionsProofs -------------------------
(***************************************************************************)
(* What Subscriptions promises for any number of readers, subscriptions,   *)
(* deliveries and requests.                                                *)
(***************************************************************************)
EXTENDS Subscriptions, TLAPS

-----------------------------------------------------------------------------
(* The invariant.                                                          *)

Paying == {"active", "past_due"}

(* A subscription is one customer's, and Stripe told of what it is now.    *)
SubOK(s) ==
  /\ \A x, y \in stripe[s].owner : x = y
  /\ stripe[s].version > 0 => stripe[s].owner # {}
  /\ stripe[s].data.status \in Paying =>
       \E e \in sent : e.kind = "changed" /\ e.sub = s /\ e.data = stripe[s].data

(* The id a reader holds is that of their own subscription, and whoever    *)
(* has the plan was given it, or it ran to that date.                      *)
RowOK(r) ==
  /\ reader[r].sub # NoSub => stripe[reader[r].sub].owner = {r}
  /\ reader[r].plan # "GRATIS" =>
       \/ reader[r].source = "MANUAL" /\ <<r, reader[r].until>> \in granted
       \/ reader[r].source = "STRIPE" /\ PaidUntil(r, reader[r].until)

(* A delivery about to write has found the customer of the subscription.   *)
HookOK(w) ==
  /\ \A x, y \in hook[w].event : x = y
  /\ hook[w].pc = "apply" =>
       \A e \in hook[w].event, r \in hook[w].reader :
         /\ e.kind = "changed" /\ stripe[e.sub].owner = {r}
         /\ hook[w].entitled => e.data.status \in Paying

TaskOK(t) ==
  /\ \A x, y \in task[t].reader : x = y
  /\ task[t].pc = "sync" => task[t].sub \in Sub
  /\ \A r \in task[t].reader :
       /\ task[t].pc = "sync" => stripe[task[t].sub].owner = {r}
       /\ task[t].pc = "synced" /\ task[t].entitled => PaidUntil(r, task[t].data.until)

SubsInv ==
  /\ \A s \in Sub : SubOK(s)
  /\ \A e \in sent : stripe[e.sub].owner # {}
  /\ \A r \in Reader : RowOK(r)
  /\ \A w \in Worker : HookOK(w)
  /\ \A t \in Task : TaskOK(t)

-----------------------------------------------------------------------------
(* What the constants, the rows and the initial values are.                *)

StripeType == [owner : SUBSET Reader, version : 0..MaxVersions, data : SubData]
HookType == [pc : {"idle", "dispatch", "apply", "record"}, event : SUBSET SubEvent,
             reader : SUBSET Reader, entitled : BOOLEAN]
TaskType == [pc : {"idle", "checkout", "sync", "synced", "tidy", "grant", "revoke"},
             reader : SUBSET Reader, until : Date \cup {NoDate},
             sub : Sub \cup {NoSub}, data : SubData, entitled : BOOLEAN]

LEMMA Dates ==
  /\ 0 \in Date /\ NoDate \notin Date /\ GiftEnd \subseteq Date \cup {NoDate}
  /\ \A t \in 0..MaxTime : t + 1 \in Date
  /\ \A t \in 0..MaxTime : t < MaxTime => t + 1 \in 0..MaxTime
  /\ 0 \in 0..MaxTime /\ 0 \in 0..MaxVersions
  /\ \A v \in 0..MaxVersions : v < MaxVersions => v + 1 \in 0..MaxVersions /\ v + 1 > 0
  /\ \A d \in Date : d \in Int /\ d >= 0
  <1>1. MaxTime \in Nat /\ MaxVersions \in Nat /\ GiftEnd \subseteq Date \cup {NoDate}
    BY SubscriptionsAssumption DEF Date
  <1>. QED  BY <1>1 DEF Date, NoDate

LEMMA NotYetTypes ==
  /\ NotYet \in SubData /\ NotYet.status = "incomplete"
  <1>. DEFINE z == 0
  <1>1. z \in Date
    BY Dates
  <1>2. NotYet = [status |-> "incomplete", until |-> z, ending |-> FALSE]
    BY DEF NotYet
  <1>. HIDE DEF z
  <1>. QED  BY <1>1, <1>2 DEF SubData, Statuses

LEMMA UnaskedTypes ==
  /\ Unasked \in StripeType /\ Unasked.owner = {} /\ Unasked.version = 0
  /\ Unasked.data.status = "incomplete"
  <1>. DEFINE z == 0
              o == {}
  <1>1. z \in 0..MaxVersions /\ o \in SUBSET Reader
    BY Dates
  <1>2. Unasked = [owner |-> o, version |-> z, data |-> NotYet]
    BY DEF Unasked
  <1>3. Unasked \in StripeType
    <2>. HIDE DEF z, o
    <2>. QED  BY <1>1, <1>2, NotYetTypes DEF StripeType
  <1>. QED  BY <1>3, NotYetTypes DEF Unasked

LEMMA FreeRowTypes ==
  ASSUME NEW c \in BOOLEAN
  PROVE  /\ [FreeRow EXCEPT !.customer = c] \in PlanRow
         /\ [FreeRow EXCEPT !.customer = c].sub = NoSub
         /\ [FreeRow EXCEPT !.customer = c].plan = "GRATIS"
  BY DEF FreeRow, PlanRow

LEMMA HookIdleTypes == HookIdle \in HookType /\ HookIdle.pc = "idle" /\ HookIdle.event = {}
  <1>. DEFINE e == {}
              r == {}
  <1>1. e \in SUBSET SubEvent /\ r \in SUBSET Reader
    OBVIOUS
  <1>2. HookIdle = [pc |-> "idle", event |-> e, reader |-> r, entitled |-> FALSE]
    BY DEF HookIdle
  <1>3. HookIdle \in HookType
    <2>. HIDE DEF e, r
    <2>. QED  BY <1>1, <1>2 DEF HookType
  <1>. QED  BY <1>3 DEF HookIdle

LEMMA TaskIdleTypes == TaskIdle \in TaskType /\ TaskIdle.pc = "idle" /\ TaskIdle.reader = {}
  <1>. DEFINE r == {}
              n == NoDate
  <1>1. r \in SUBSET Reader /\ n \in Date \cup {NoDate}
    OBVIOUS
  <1>2. TaskIdle = [pc |-> "idle", reader |-> r, until |-> n, sub |-> NoSub,
                    data |-> NotYet, entitled |-> FALSE]
    BY DEF TaskIdle
  <1>3. TaskIdle \in TaskType
    <2>. HIDE DEF r, n
    <2>. QED  BY <1>1, <1>2, NotYetTypes DEF TaskType
  <1>. QED  BY <1>3 DEF TaskIdle

(* A hook is what the types say when its event is one that was sent.       *)
HooksTyped ==
  hook \in [Worker -> HookType] /\ \A w \in Worker : hook[w].event \subseteq sent

LEMMA SubsTyped ==
  SubsTypeOK <=>
    /\ now \in 0..MaxTime
    /\ reader \in [Reader -> PlanRow]
    /\ stripe \in [Sub -> StripeType]
    /\ sent \subseteq SubEvent
    /\ ledger \subseteq sent
    /\ HooksTyped
    /\ task \in [Task -> TaskType]
    /\ granted \subseteq Reader \X (Date \cup {NoDate})
  <1>. DEFINE T == [pc : {"idle", "dispatch", "apply", "record"}, event : SUBSET sent,
                    reader : SUBSET Reader, entitled : BOOLEAN]
  <1>1. ASSUME sent \subseteq SubEvent, NEW h
        PROVE  h \in T <=> h \in HookType /\ h.event \subseteq sent
    BY <1>1 DEF HookType
  <1>2. ASSUME sent \subseteq SubEvent
        PROVE  hook \in [Worker -> T] <=> HooksTyped
    <2>. HIDE DEF T
    <2>. QED  BY <1>1, <1>2 DEF HooksTyped
  <1>. QED  BY <1>2 DEF SubsTypeOK, StripeType, TaskType

LEMMA SubsBegins == SubsInit => SubsTypeOK /\ SubsInv
  <1>. SUFFICES ASSUME SubsInit PROVE SubsTypeOK /\ SubsInv
    OBVIOUS
  <1>1. \A r \in Reader : reader[r] \in PlanRow /\ reader[r].sub = NoSub
                            /\ reader[r].plan = "GRATIS"
    <2>1. ASSUME NEW r \in Reader
          PROVE  reader[r] \in PlanRow /\ reader[r].sub = NoSub /\ reader[r].plan = "GRATIS"
      <3>. DEFINE c == r \in Buyer
      <3>1. reader[r] = [FreeRow EXCEPT !.customer = c] /\ c \in BOOLEAN
        BY DEF SubsInit
      <3>. HIDE DEF c
      <3>. QED  BY <3>1, FreeRowTypes
    <2>. QED  BY <2>1
  <1>2. reader \in [Reader -> PlanRow]
    BY <1>1 DEF SubsInit
  <1>3. HooksTyped
    BY HookIdleTypes DEF SubsInit, HooksTyped
  <1>4. SubsTypeOK
    BY <1>2, <1>3, SubsTyped, Dates, UnaskedTypes, TaskIdleTypes DEF SubsInit
  <1>5. \A s \in Sub : SubOK(s)
    BY UnaskedTypes DEF SubsInit, SubOK, Paying
  <1>6. \A r \in Reader : RowOK(r)
    BY <1>1 DEF RowOK
  <1>7. \A w \in Worker : HookOK(w)
    BY HookIdleTypes DEF SubsInit, HookOK
  <1>8. \A t \in Task : TaskOK(t)
    BY TaskIdleTypes DEF SubsInit, TaskOK
  <1>. QED  BY <1>4, <1>5, <1>6, <1>7, <1>8 DEF SubsInv, SubsInit

-----------------------------------------------------------------------------
(* What no step takes back: the owner of a subscription, an event that was *)
(* sent, a gift.                                                           *)

Keeping ==
  /\ sent \subseteq sent' /\ sent' \subseteq SubEvent
  /\ granted \subseteq granted'
  /\ \A s \in Sub : stripe[s].owner # {} => stripe'[s].owner = stripe[s].owner

LEMMA PaidStays ==
  ASSUME SubsTypeOK, Keeping, NEW r \in Reader, NEW d, PaidUntil(r, d)
  PROVE  \E e \in sent' : /\ e.kind = "changed"
                          /\ stripe'[e.sub].owner = {r}
                          /\ e.data.status \in {"active", "past_due"}
                          /\ e.data.until = d
  <1>1. PICK e \in sent : /\ e.kind = "changed"
                          /\ stripe[e.sub].owner = {r}
                          /\ e.data.status \in {"active", "past_due"}
                          /\ e.data.until = d
    BY DEF PaidUntil
  <1>2. e \in sent' /\ e.sub \in Sub
    BY <1>1 DEF Keeping, SubEvent
  <1>3. stripe'[e.sub].owner = {r}
    BY <1>1, <1>2 DEF Keeping
  <1>. QED  BY <1>1, <1>2, <1>3

LEMMA RowStays ==
  ASSUME SubsTypeOK, SubsInv, Keeping, NEW r \in Reader, reader'[r] = reader[r]
  PROVE  RowOK(r)'
  <1>1. RowOK(r) /\ reader[r] \in PlanRow
    BY SubsTyped DEF SubsInv
  <1>2. reader[r].sub # NoSub => stripe'[reader[r].sub].owner = {r}
    BY <1>1 DEF RowOK, Keeping, PlanRow
  <1>3. PaidUntil(r, reader[r].until) =>
          \E e \in sent' : /\ e.kind = "changed"
                           /\ stripe'[e.sub].owner = {r}
                           /\ e.data.status \in {"active", "past_due"}
                           /\ e.data.until = reader[r].until
    BY PaidStays
  <1>. QED  BY <1>1, <1>2, <1>3 DEF RowOK, PaidUntil, Keeping

LEMMA HookStays ==
  ASSUME SubsTypeOK, SubsInv, Keeping, NEW w \in Worker, hook'[w] = hook[w]
  PROVE  HookOK(w)'
  <1>1. HookOK(w) /\ hook[w].event \subseteq sent
    BY SubsTyped DEF SubsInv, HooksTyped
  <1>2. \A e \in hook[w].event : e.sub \in Sub
    BY <1>1, SubsTyped DEF SubEvent
  <1>. QED  BY <1>1, <1>2 DEF HookOK, Keeping

LEMMA TaskStays ==
  ASSUME SubsTypeOK, SubsInv, Keeping, NEW t \in Task, task'[t] = task[t]
  PROVE  TaskOK(t)'
  <1>1. TaskOK(t) /\ task[t] \in TaskType
    BY SubsTyped DEF SubsInv
  <1>2. \A r \in task[t].reader :
          /\ task[t].pc = "sync" => /\ task[t].sub \in Sub
                                    /\ stripe'[task[t].sub].owner = {r}
          /\ task[t].pc = "synced" /\ task[t].entitled =>
               \E e \in sent' : /\ e.kind = "changed"
                                /\ stripe'[e.sub].owner = {r}
                                /\ e.data.status \in {"active", "past_due"}
                                /\ e.data.until = task[t].data.until
    <2>1. ASSUME NEW r \in task[t].reader, task[t].pc = "sync"
          PROVE  task[t].sub \in Sub /\ stripe'[task[t].sub].owner = {r}
      BY <1>1, <2>1 DEF TaskOK, Keeping
    <2>2. ASSUME NEW r \in task[t].reader, task[t].pc = "synced", task[t].entitled
          PROVE  \E e \in sent' : /\ e.kind = "changed"
                                  /\ stripe'[e.sub].owner = {r}
                                  /\ e.data.status \in {"active", "past_due"}
                                  /\ e.data.until = task[t].data.until
      <3>1. r \in Reader /\ PaidUntil(r, task[t].data.until)
        BY <1>1, <2>2 DEF TaskOK, TaskType
      <3>. QED  BY <3>1, PaidStays
    <2>. QED  BY <2>1, <2>2
  <1>. QED  BY <1>1, <1>2 DEF TaskOK, PaidUntil

LEMMA SubStays ==
  ASSUME SubsTypeOK, SubsInv, Keeping, NEW s \in Sub, stripe'[s] = stripe[s]
  PROVE  SubOK(s)'
  <1>1. SubOK(s)
    BY DEF SubsInv
  <1>. QED  BY <1>1 DEF SubOK, Keeping

LEMMA EventsStay ==
  ASSUME SubsTypeOK, SubsInv, Keeping, NEW e \in sent
  PROVE  stripe'[e.sub].owner # {}
  <1>1. e.sub \in Sub
    BY SubsTyped DEF SubEvent
  <1>. QED  BY <1>1 DEF SubsInv, Keeping

LEMMA HooksRest ==
  ASSUME SubsTypeOK, SubsInv, Keeping, hook' = hook
  PROVE  HooksTyped' /\ \A w \in Worker : HookOK(w)'
  <1>1. \A w \in Worker : HookOK(w)'
    BY HookStays
  <1>. QED  BY <1>1, SubsTyped DEF HooksTyped, Keeping

LEMMA HooksGo ==
  ASSUME SubsTypeOK, SubsInv, Keeping, NEW w \in Worker, NEW h \in HookType,
         h.event \subseteq sent', hook' = [hook EXCEPT ![w] = h], HookOK(w)'
  PROVE  HooksTyped' /\ \A x \in Worker : HookOK(x)'
  <1>1. \A x \in Worker : hook'[x] = IF x = w THEN h ELSE hook[x]
    BY SubsTyped DEF HooksTyped
  <1>2. ASSUME NEW x \in Worker, x # w PROVE HookOK(x)' /\ hook'[x].event \subseteq sent'
    BY <1>1, <1>2, SubsTyped, HookStays DEF HooksTyped, Keeping
  <1>3. hook' \in [Worker -> HookType]
    BY <1>1, SubsTyped DEF HooksTyped
  <1>. QED  BY <1>1, <1>2, <1>3 DEF HooksTyped

LEMMA HooksEnd ==
  ASSUME SubsTypeOK, SubsInv, Keeping, NEW w \in Worker,
         hook' = [hook EXCEPT ![w] = HookIdle]
  PROVE  HooksTyped' /\ \A x \in Worker : HookOK(x)'
  <1>1. hook'[w] = HookIdle
    BY SubsTyped DEF HooksTyped
  <1>2. HookOK(w)' /\ HookIdle.event \subseteq sent'
    BY <1>1, HookIdleTypes DEF HookOK
  <1>. QED  BY <1>2, HookIdleTypes, HooksGo

LEMMA TasksRest ==
  ASSUME SubsTypeOK, SubsInv, Keeping, task' = task
  PROVE  task' \in [Task -> TaskType] /\ \A t \in Task : TaskOK(t)'
  BY SubsTyped, TaskStays

LEMMA TasksGo ==
  ASSUME SubsTypeOK, SubsInv, Keeping, NEW t \in Task, NEW j \in TaskType,
         task' = [task EXCEPT ![t] = j], TaskOK(t)'
  PROVE  task' \in [Task -> TaskType] /\ \A x \in Task : TaskOK(x)'
  <1>1. ASSUME NEW x \in Task, x # t PROVE TaskOK(x)'
    <2>1. task'[x] = task[x]
      BY <1>1, SubsTyped
    <2>. QED  BY <2>1, TaskStays
  <1>. QED  BY <1>1, SubsTyped

LEMMA TasksEnd ==
  ASSUME SubsTypeOK, SubsInv, Keeping, NEW t \in Task, Finish(t)
  PROVE  task' \in [Task -> TaskType] /\ \A x \in Task : TaskOK(x)'
  <1>1. task' = [task EXCEPT ![t] = TaskIdle] /\ task'[t] = TaskIdle
    BY SubsTyped DEF Finish
  <1>2. TaskOK(t)'
    BY <1>1, TaskIdleTypes DEF TaskOK
  <1>. QED  BY <1>1, <1>2, TaskIdleTypes, TasksGo

LEMMA RowsRest ==
  ASSUME SubsTypeOK, SubsInv, Keeping, reader' = reader
  PROVE  reader' \in [Reader -> PlanRow] /\ \A r \in Reader : RowOK(r)'
  BY SubsTyped, RowStays

LEMMA RowsGo ==
  ASSUME SubsTypeOK, SubsInv, Keeping, NEW r \in Reader, NEW row \in PlanRow,
         reader' = [reader EXCEPT ![r] = row], RowOK(r)'
  PROVE  reader' \in [Reader -> PlanRow] /\ \A x \in Reader : RowOK(x)'
  <1>1. ASSUME NEW x \in Reader, x # r PROVE RowOK(x)'
    <2>1. reader'[x] = reader[x]
      BY <1>1, SubsTyped
    <2>. QED  BY <2>1, RowStays
  <1>. QED  BY <1>1, SubsTyped

LEMMA SubsRest ==
  ASSUME SubsTypeOK, SubsInv, Keeping, stripe' = stripe, sent' = sent
  PROVE  /\ stripe' \in [Sub -> StripeType] /\ \A s \in Sub : SubOK(s)'
         /\ \A e \in sent' : stripe'[e.sub].owner # {}
  BY SubsTyped, SubStays, EventsStay

LEMMA SubsTogether ==
  ASSUME SubsTypeOK, SubsInv, Keeping,
         now' \in 0..MaxTime, ledger' \subseteq sent',
         granted' \subseteq Reader \X (Date \cup {NoDate}),
         stripe' \in [Sub -> StripeType], \A s \in Sub : SubOK(s)',
         \A e \in sent' : stripe'[e.sub].owner # {},
         reader' \in [Reader -> PlanRow], \A r \in Reader : RowOK(r)',
         HooksTyped', \A w \in Worker : HookOK(w)',
         task' \in [Task -> TaskType], \A t \in Task : TaskOK(t)'
  PROVE  SubsTypeOK' /\ SubsInv'
  <1>. DEFINE T == [pc : {"idle", "dispatch", "apply", "record"}, event : SUBSET sent',
                    reader : SUBSET Reader, entitled : BOOLEAN]
  <1>1. ASSUME NEW h \in HookType, h.event \subseteq sent' PROVE h \in T
    BY <1>1 DEF HookType
  <1>2. hook' \in [Worker -> T]
    <2>. HIDE DEF T
    <2>. QED  BY <1>1 DEF HooksTyped
  <1>3. SubsTypeOK'
    BY <1>2 DEF SubsTypeOK, StripeType, TaskType, Keeping
  <1>. QED  BY <1>3 DEF SubsInv

-----------------------------------------------------------------------------
(* The clock, and Stripe.                                                  *)

LEMMA NothingMoves ==
  ASSUME SubsTypeOK, SubsInv, now' \in 0..MaxTime,
         UNCHANGED <<reader, stripe, sent, ledger, hook, task, granted>>
  PROVE  SubsTypeOK' /\ SubsInv'
  <1>0. reader' = reader /\ stripe' = stripe /\ sent' = sent /\ ledger' = ledger
        /\ hook' = hook /\ task' = task /\ granted' = granted
    OBVIOUS
  <1>1. Keeping
    BY <1>0, SubsTyped DEF Keeping
  <1>2. ledger' \subseteq sent' /\ granted' \subseteq Reader \X (Date \cup {NoDate})
    BY <1>0, SubsTyped
  <1>. QED  BY <1>0, <1>1, <1>2, SubsRest, RowsRest, HooksRest, TasksRest, SubsTogether

LEMMA TickKeeps ==
  ASSUME SubsTypeOK, SubsInv, Tick
  PROVE  SubsTypeOK' /\ SubsInv'
  <1>1. now' \in 0..MaxTime
    BY SubsTyped, Dates DEF Tick
  <1>. QED  BY <1>1, NothingMoves DEF Tick

LEMMA StripeKeeps ==
  ASSUME SubsTypeOK, SubsInv, NEW s \in Sub, NEW n \in StripeType,
         stripe' = [stripe EXCEPT ![s] = n], sent \subseteq sent',
         sent' \subseteq SubEvent, \A e \in sent' \ sent : e.sub = s,
         n.owner # {}, stripe[s].owner # {} => n.owner = stripe[s].owner,
         \A x, y \in n.owner : x = y,
         n.data.status \in Paying =>
           \E e \in sent' : e.kind = "changed" /\ e.sub = s /\ e.data = n.data,
         UNCHANGED <<now, reader, ledger, hook, task, granted>>
  PROVE  SubsTypeOK' /\ SubsInv'
  <1>0. now' = now /\ reader' = reader /\ ledger' = ledger
        /\ hook' = hook /\ task' = task /\ granted' = granted
    OBVIOUS
  <1>1. stripe' \in [Sub -> StripeType] /\ stripe'[s] = n
        /\ \A x \in Sub : x # s => stripe'[x] = stripe[x]
    BY SubsTyped
  <1>2. Keeping
    BY <1>0, <1>1, SubsTyped DEF Keeping
  <1>3. SubOK(s)'
    <2>1. \A x, y \in stripe'[s].owner : x = y
      BY <1>1
    <2>2. stripe'[s].owner # {}
      BY <1>1
    <2>3. stripe'[s].data.status \in Paying =>
            \E e \in sent' : e.kind = "changed" /\ e.sub = s /\ e.data = stripe'[s].data
      BY <1>1
    <2>. QED  BY <2>1, <2>2, <2>3 DEF SubOK
  <1>4. ASSUME NEW x \in Sub PROVE SubOK(x)'
    <2>1. CASE x = s
      BY <1>3, <2>1
    <2>2. CASE x # s
      BY <1>1, <1>2, <2>2, SubStays
    <2>. QED  BY <2>1, <2>2
  <1>5. \A e \in sent' : stripe'[e.sub].owner # {}
    <2>1. \A e \in sent' \ sent : stripe'[e.sub].owner # {}
      BY <1>1
    <2>. QED  BY <1>2, <2>1, EventsStay
  <1>6. now' \in 0..MaxTime /\ ledger' \subseteq sent'
        /\ granted' \subseteq Reader \X (Date \cup {NoDate})
    BY <1>0, SubsTyped
  <1>. QED  BY <1>0, <1>1, <1>2, <1>4, <1>5, <1>6, RowsRest, HooksRest, TasksRest,
              SubsTogether

LEMMA ChangedTypes ==
  ASSUME NEW s \in Sub, NEW n \in 0..MaxVersions, NEW data \in SubData
  PROVE  /\ Changed(s, n, data) \in SubEvent
         /\ Changed(s, n, data).kind = "changed"
         /\ Changed(s, n, data).sub = s
         /\ Changed(s, n, data).data = data
  BY DEF Changed, SubEvent

LEMMA LinkedTypes ==
  ASSUME NEW s \in Sub
  PROVE  Linked(s) \in SubEvent /\ Linked(s).sub = s /\ Linked(s).kind = "linked"
  <1>. DEFINE z == 0
  <1>1. z \in 0..MaxVersions
    BY Dates
  <1>2. Linked(s) = [kind |-> "linked", sub |-> s, n |-> z, data |-> NotYet]
    BY DEF Linked
  <1>. HIDE DEF z
  <1>. QED  BY <1>1, <1>2, NotYetTypes DEF SubEvent

LEMMA BecomesKeeps ==
  ASSUME SubsTypeOK, SubsInv, NEW s \in Sub, NEW data \in SubData,
         stripe[s].owner # {}, Becomes(s, data)
  PROVE  SubsTypeOK' /\ SubsInv'
  <1>. DEFINE v == stripe[s].version + 1
              n == [stripe[s] EXCEPT !.version = v, !.data = data]
              E == {Changed(s, v, data)}
  <1>1. stripe[s] \in StripeType /\ SubOK(s)
    BY SubsTyped DEF SubsInv
  <1>2. v \in 0..MaxVersions
    BY <1>1, Dates DEF StripeType, Becomes
  <1>3. stripe' = [stripe EXCEPT ![s] = n] /\ sent' = sent \cup E
        /\ UNCHANGED <<now, reader, ledger, hook, task, granted>>
    BY <1>1 DEF Becomes
  <1>. HIDE DEF v
  <1>4. n \in StripeType /\ n.owner = stripe[s].owner /\ n.data = data
    BY <1>1, <1>2 DEF StripeType
  <1>5. E \in SUBSET SubEvent /\ (\A e \in E : e.sub = s)
        /\ \E e \in E : e.kind = "changed" /\ e.sub = s /\ e.data = data
    BY <1>2, ChangedTypes
  <1>6. \A x, y \in n.owner : x = y
    BY <1>1, <1>4 DEF SubOK
  <1>. HIDE DEF n, E
  <1>7. sent \subseteq sent' /\ sent' \subseteq SubEvent /\ (\A e \in sent' \ sent : e.sub = s)
        /\ \E e \in sent' : e.kind = "changed" /\ e.sub = s /\ e.data = data
    BY <1>3, <1>5, SubsTyped
  <1>. QED  BY <1>3, <1>4, <1>6, <1>7, StripeKeeps

LEMMA RunningHasOwner ==
  ASSUME SubsTypeOK, SubsInv, NEW s \in Sub, stripe[s].version > 0
  PROVE  stripe[s].owner # {} /\ stripe[s].data \in SubData /\ now + 1 \in Date
  BY SubsTyped, Dates DEF SubsInv, SubOK, StripeType

LEMMA SubscribeKeeps ==
  ASSUME SubsTypeOK, SubsInv, NEW s \in Sub, Subscribe(s)
  PROVE  SubsTypeOK' /\ SubsInv'
  <1>. DEFINE d == now + 1
              data == [NotYet EXCEPT !.until = d]
  <1>1. d \in Date
    BY SubsTyped, Dates
  <1>2. data \in SubData
    <2>. HIDE DEF d
    <2>. QED  BY <1>1, NotYetTypes DEF SubData
  <1>. HIDE DEF data
  <1>3. stripe[s].owner # {} /\ Becomes(s, data)
    BY DEF Subscribe, data
  <1>. QED  BY <1>2, <1>3, BecomesKeeps

LEMMA RenewKeeps ==
  ASSUME SubsTypeOK, SubsInv, NEW s \in Sub, NEW status \in {"active", "past_due"},
         Renew(s, status)
  PROVE  SubsTypeOK' /\ SubsInv'
  <1>. DEFINE d == now + 1
              data == [status |-> status, until |-> d, ending |-> FALSE]
  <1>1. d \in Date /\ stripe[s].owner # {}
    BY RunningHasOwner DEF Renew, Running
  <1>2. data \in SubData
    <2>. HIDE DEF d
    <2>. QED  BY <1>1 DEF SubData, Statuses
  <1>3. Becomes(s, data)
    BY DEF Renew
  <1>. HIDE DEF data
  <1>. QED  BY <1>1, <1>2, <1>3, BecomesKeeps

LEMMA ScheduleEndKeeps ==
  ASSUME SubsTypeOK, SubsInv, NEW s \in Sub, ScheduleEnd(s)
  PROVE  SubsTypeOK' /\ SubsInv'
  <1>1. stripe[s].data \in SubData /\ stripe[s].owner # {}
    BY RunningHasOwner DEF ScheduleEnd, Running
  <1>. DEFINE data == [stripe[s].data EXCEPT !.ending = ~@]
  <1>2. data \in SubData
    BY <1>1 DEF SubData
  <1>3. Becomes(s, data)
    BY DEF ScheduleEnd
  <1>. HIDE DEF data
  <1>. QED  BY <1>1, <1>2, <1>3, BecomesKeeps

LEMMA CancelKeeps ==
  ASSUME SubsTypeOK, SubsInv, NEW s \in Sub, Cancel(s)
  PROVE  SubsTypeOK' /\ SubsInv'
  <1>1. stripe[s].data \in SubData /\ stripe[s].owner # {}
    BY RunningHasOwner DEF Cancel, Running
  <1>. DEFINE data == [stripe[s].data EXCEPT !.status = "canceled"]
  <1>2. data \in SubData
    BY <1>1 DEF SubData, Statuses
  <1>3. Becomes(s, data)
    BY DEF Cancel
  <1>. HIDE DEF data
  <1>. QED  BY <1>1, <1>2, <1>3, BecomesKeeps

LEMMA ActivateKeeps ==
  ASSUME SubsTypeOK, SubsInv, NEW s \in Sub, Activate(s)
  PROVE  SubsTypeOK' /\ SubsInv'
  <1>1. stripe[s] \in StripeType /\ stripe[s].owner # {} /\ stripe[s].data \in SubData
        /\ (\A x, y \in stripe[s].owner : x = y)
    <2>1. stripe[s].version > 0
      BY DEF Activate
    <2>. QED  BY <2>1, RunningHasOwner, SubsTyped DEF SubsInv, SubOK
  <1>. DEFINE v == 2
              data == [stripe[s].data EXCEPT !.status = "active"]
              n == [stripe[s] EXCEPT !.version = v, !.data = data]
              E == {Changed(s, v, data), Linked(s)}
  <1>2. v \in 0..MaxVersions
    BY SubscriptionsAssumption DEF Activate
  <1>3. data \in SubData
    BY <1>1 DEF SubData, Statuses
  <1>4. stripe' = [stripe EXCEPT ![s] = n] /\ sent' = sent \cup E
        /\ UNCHANGED <<now, reader, ledger, hook, task, granted>>
    BY <1>1 DEF Activate
  <1>. HIDE DEF v, data
  <1>5. n \in StripeType /\ n.owner = stripe[s].owner /\ n.data = data
    BY <1>1, <1>2, <1>3 DEF StripeType
  <1>6. E \in SUBSET SubEvent /\ (\A e \in E : e.sub = s)
        /\ \E e \in E : e.kind = "changed" /\ e.sub = s /\ e.data = data
    BY <1>2, <1>3, ChangedTypes, LinkedTypes
  <1>7. \A x, y \in n.owner : x = y
    BY <1>1, <1>5
  <1>. HIDE DEF n, E
  <1>8. sent \subseteq sent' /\ sent' \subseteq SubEvent /\ (\A e \in sent' \ sent : e.sub = s)
        /\ \E e \in sent' : e.kind = "changed" /\ e.sub = s /\ e.data = data
    BY <1>4, <1>6, SubsTyped
  <1>. QED  BY <1>1, <1>4, <1>5, <1>7, <1>8, StripeKeeps

LEMMA MakeByHandKeeps ==
  ASSUME SubsTypeOK, SubsInv, NEW s \in Sub, NEW r \in Reader, MakeByHand(s, r)
  PROVE  SubsTypeOK' /\ SubsInv'
  <1>. DEFINE d == now + 1
              v == 1
              o == {r}
              data == [status |-> "active", until |-> d, ending |-> FALSE]
              n == [owner |-> o, version |-> v, data |-> data]
              E == {Changed(s, v, data)}
  <1>1. d \in Date
    BY SubsTyped, Dates
  <1>2. v \in 0..MaxVersions /\ o \in SUBSET Reader
    BY SubscriptionsAssumption DEF MakeByHand
  <1>3. data \in SubData
    <2>. HIDE DEF d
    <2>. QED  BY <1>1 DEF SubData, Statuses
  <1>4. stripe' = [stripe EXCEPT ![s] = n] /\ sent' = sent \cup E
        /\ UNCHANGED <<now, reader, ledger, hook, task, granted>>
        /\ stripe[s].owner = {}
    BY DEF MakeByHand
  <1>5. n.owner # {} /\ \A x, y \in n.owner : x = y
    OBVIOUS
  <1>. HIDE DEF v, data, o
  <1>6. n \in StripeType /\ n.data = data
    BY <1>2, <1>3 DEF StripeType
  <1>7. E \in SUBSET SubEvent /\ (\A e \in E : e.sub = s)
        /\ \E e \in E : e.kind = "changed" /\ e.sub = s /\ e.data = data
    BY <1>2, <1>3, ChangedTypes
  <1>. HIDE DEF n, E
  <1>8. sent \subseteq sent' /\ sent' \subseteq SubEvent /\ (\A e \in sent' \ sent : e.sub = s)
        /\ \E e \in sent' : e.kind = "changed" /\ e.sub = s /\ e.data = data
    BY <1>4, <1>7, SubsTyped
  <1>. QED  BY <1>4, <1>5, <1>6, <1>8, StripeKeeps

LEMMA StripeNextKeeps ==
  ASSUME SubsTypeOK, SubsInv, StripeNext
  PROVE  SubsTypeOK' /\ SubsInv'
  <1>. PICK s \in Sub :
         \/ Subscribe(s) \/ Activate(s)
         \/ \E r \in Reader : MakeByHand(s, r)
         \/ \E status \in {"active", "past_due"} : Renew(s, status)
         \/ ScheduleEnd(s) \/ Cancel(s)
    BY DEF StripeNext
  <1>. QED  BY SubscribeKeeps, ActivateKeeps, MakeByHandKeeps, RenewKeeps,
              ScheduleEndKeeps, CancelKeeps

-----------------------------------------------------------------------------
(* The deliveries of events.                                               *)

LEMMA HookOnlyKeeps ==
  ASSUME SubsTypeOK, SubsInv, NEW w \in Worker, NEW h \in HookType,
         h.event \subseteq sent, \A x, y \in h.event : x = y,
         h.pc = "apply" =>
           \A e \in h.event, r \in h.reader :
             /\ e.kind = "changed" /\ stripe[e.sub].owner = {r}
             /\ h.entitled => e.data.status \in Paying,
         hook' = [hook EXCEPT ![w] = h],
         UNCHANGED <<now, reader, stripe, sent, ledger, task, granted>>
  PROVE  SubsTypeOK' /\ SubsInv'
  <1>0. now' = now /\ reader' = reader /\ stripe' = stripe /\ sent' = sent
        /\ ledger' = ledger /\ task' = task /\ granted' = granted
    OBVIOUS
  <1>1. Keeping
    BY <1>0, SubsTyped DEF Keeping
  <1>2. hook'[w] = h
    BY SubsTyped DEF HooksTyped
  <1>3. HookOK(w)' /\ h.event \subseteq sent'
    BY <1>0, <1>2 DEF HookOK
  <1>4. now' \in 0..MaxTime /\ ledger' \subseteq sent'
        /\ granted' \subseteq Reader \X (Date \cup {NoDate})
    BY <1>0, SubsTyped
  <1>5. HooksTyped' /\ \A x \in Worker : HookOK(x)'
    BY <1>1, <1>3, HooksGo
  <1>. QED  BY <1>0, <1>1, <1>4, <1>5, SubsRest, RowsRest, TasksRest, SubsTogether

LEMMA DeliverKeeps ==
  ASSUME SubsTypeOK, SubsInv, NEW w \in Worker, NEW e \in sent, Deliver(w, e)
  PROVE  SubsTypeOK' /\ SubsInv'
  <1>. DEFINE E == {e}
              h == [HookIdle EXCEPT !.pc = "dispatch", !.event = E]
  <1>1. E \subseteq sent /\ E \in SUBSET SubEvent /\ (\A x, y \in E : x = y)
    BY SubsTyped
  <1>2. hook' = [hook EXCEPT ![w] = h]
        /\ UNCHANGED <<now, reader, stripe, sent, ledger, task, granted>>
    BY DEF Deliver
  <1>. HIDE DEF E
  <1>3. h \in HookType /\ h.event = E /\ h.pc = "dispatch"
    BY <1>1, HookIdleTypes DEF HookType
  <1>. HIDE DEF h
  <1>. QED  BY <1>1, <1>2, <1>3, HookOnlyKeeps

LEMMA FoundOwns ==
  ASSUME SubsTypeOK, SubsInv, NEW s \in Sub, NEW r \in FindReaderFor(s)
  PROVE  r \in Reader /\ stripe[s].owner = {r}
  <1>1. SubOK(s) /\ stripe[s].owner \subseteq Reader
    BY SubsTyped DEF SubsInv, StripeType
  <1>2. CASE r \in stripe[s].owner
    BY <1>1, <1>2 DEF SubOK
  <1>3. CASE r \in Reader /\ reader[r].sub = s
    <2>1. s # NoSub
      BY SubscriptionsAssumption
    <2>2. RowOK(r)
      BY <1>3 DEF SubsInv
    <2>. QED  BY <1>3, <2>1, <2>2 DEF RowOK
  <1>. QED  BY <1>2, <1>3 DEF FindReaderFor

LEMMA FindReaderKeeps ==
  ASSUME SubsTypeOK, SubsInv, NEW w \in Worker, FindReader(w)
  PROVE  SubsTypeOK' /\ SubsInv'
  <1>. DEFINE i == hook[w]
  <1>1. i \in HookType /\ i.event \subseteq sent /\ HookOK(w)
    BY SubsTyped DEF SubsInv, HooksTyped
  <1>2. UNCHANGED <<now, reader, stripe, sent, ledger, task, granted>>
    BY DEF FindReader
  <1>3. PICK e \in i.event :
          /\ e.kind = "changed"
          /\ \/ hook' = [hook EXCEPT ![w].pc = "record"]
             \/ \E r \in FindReaderFor(e.sub) :
                  hook' = [hook EXCEPT ![w].pc = "apply", ![w].reader = {r},
                                       ![w].entitled = Entitles(e.data)]
    BY DEF FindReader
  <1>4. e \in SubEvent /\ e.sub \in Sub /\ (\A x, y \in i.event : x = y)
    BY <1>1, <1>3, SubsTyped DEF SubEvent, HookOK
  <1>5. CASE hook' = [hook EXCEPT ![w].pc = "record"]
    <2>. DEFINE h == [i EXCEPT !.pc = "record"]
    <2>1. hook' = [hook EXCEPT ![w] = h]
      BY <1>5, SubsTyped DEF HooksTyped
    <2>. HIDE DEF i
    <2>2. h \in HookType /\ h.event = i.event /\ h.pc = "record"
      BY <1>1 DEF HookType
    <2>. HIDE DEF h
    <2>. QED  BY <1>1, <1>2, <1>4, <2>1, <2>2, HookOnlyKeeps
  <1>6. ASSUME NEW r \in FindReaderFor(e.sub),
               hook' = [hook EXCEPT ![w].pc = "apply", ![w].reader = {r},
                                    ![w].entitled = Entitles(e.data)]
        PROVE  SubsTypeOK' /\ SubsInv'
    <2>. DEFINE R == {r}
                b == Entitles(e.data)
                h == [i EXCEPT !.pc = "apply", !.reader = R, !.entitled = b]
    <2>1. hook' = [hook EXCEPT ![w] = h]
      BY <1>6, SubsTyped DEF HooksTyped
    <2>2. r \in Reader /\ stripe[e.sub].owner = {r}
      BY <1>4, FoundOwns
    <2>3. b \in BOOLEAN /\ (b => e.data.status \in Paying)
      BY DEF Entitles, Entitling, Paying
    <2>4. R \in SUBSET Reader
      BY <2>2
    <2>. HIDE DEF i, b
    <2>5. h \in HookType /\ h.event = i.event /\ h.pc = "apply" /\ h.reader = R
          /\ h.entitled = b
      <3>. HIDE DEF R
      <3>. QED  BY <1>1, <2>3, <2>4 DEF HookType
    <2>. HIDE DEF h
    <2>6. \A x \in h.event, y \in h.reader :
            /\ x.kind = "changed" /\ stripe[x.sub].owner = {y}
            /\ h.entitled => x.data.status \in Paying
      BY <1>3, <1>4, <2>2, <2>3, <2>5
    <2>. QED  BY <1>1, <1>2, <1>4, <2>1, <2>5, <2>6, HookOnlyKeeps
  <1>. QED  BY <1>3, <1>5, <1>6

LEMMA DeliveryFailsKeeps ==
  ASSUME SubsTypeOK, SubsInv, NEW w \in Worker, DeliveryFails(w)
  PROVE  SubsTypeOK' /\ SubsInv'
  <1>1. HookIdle.event \subseteq sent /\ \A x, y \in HookIdle.event : x = y
    BY HookIdleTypes
  <1>. QED  BY <1>1, HookIdleTypes, HookOnlyKeeps DEF DeliveryFails

(* A transaction that changes one reader's row.                            *)
LEMMA CommitKeeps ==
  ASSUME SubsTypeOK, SubsInv, NEW w \in Worker, NEW e \in sent, NEW r \in Reader,
         NEW row \in PlanRow, Commit(w, e, [reader EXCEPT ![r] = row]),
         row.sub # NoSub => stripe[row.sub].owner = {r},
         row.plan # "GRATIS" =>
           \/ row.source = "MANUAL" /\ <<r, row.until>> \in granted
           \/ row.source = "STRIPE" /\ PaidUntil(r, row.until)
  PROVE  SubsTypeOK' /\ SubsInv'
  <1>0. now' = now /\ stripe' = stripe /\ sent' = sent /\ task' = task /\ granted' = granted
        /\ hook' = [hook EXCEPT ![w] = HookIdle]
    BY DEF Commit
  <1>1. Keeping
    BY <1>0, SubsTyped DEF Keeping
  <1>2. now' \in 0..MaxTime /\ ledger' \subseteq sent'
        /\ granted' \subseteq Reader \X (Date \cup {NoDate})
    BY <1>0, SubsTyped DEF Commit
  <1>3. reader' \in [Reader -> PlanRow] /\ \A x \in Reader : RowOK(x)'
    <2>1. CASE reader' = reader
      BY <1>1, <2>1, RowsRest
    <2>2. CASE reader' = [reader EXCEPT ![r] = row]
      <3>1. reader'[r] = row
        BY <2>2, SubsTyped
      <3>2. RowOK(r)'
        BY <1>0, <3>1 DEF RowOK, PaidUntil
      <3>. QED  BY <1>1, <2>2, <3>2, RowsGo
    <2>. QED  BY <2>1, <2>2 DEF Commit
  <1>. QED  BY <1>0, <1>1, <1>2, <1>3, SubsRest, HooksEnd, TasksRest, SubsTogether

LEMMA PlanForTypes ==
  ASSUME NEW row \in PlanRow, NEW b \in BOOLEAN, NEW data \in SubData
  PROVE  /\ PlanFor(row, b, data) \in PlanRow
         /\ PlanFor(row, b, data).sub = row.sub
         /\ b => /\ PlanFor(row, b, data).source = "STRIPE"
                 /\ PlanFor(row, b, data).until = data.until
         /\ ~b => PlanFor(row, b, data).plan = "GRATIS"
  <1>. DEFINE n == NoDate
              d == data.until
              new == PlanFor(row, b, data)
  <1>1. n \in Date \cup {NoDate} /\ d \in Date \cup {NoDate}
    BY DEF SubData
  <1>2. CASE b
    <2>1. new = [row EXCEPT !.plan = "PREMIUM", !.until = d, !.source = "STRIPE"]
      BY <1>2 DEF PlanFor
    <2>. HIDE DEF new, d
    <2>2. new \in PlanRow /\ new.sub = row.sub /\ new.source = "STRIPE" /\ new.until = d
      BY <1>1, <2>1 DEF PlanRow
    <2>. QED  BY <1>2, <2>2 DEF new, d
  <1>3. CASE ~b
    <2>1. new = [row EXCEPT !.plan = "GRATIS", !.until = n, !.source = "none"]
      BY <1>3 DEF PlanFor, LapsedPlan
    <2>. HIDE DEF new, n
    <2>2. new \in PlanRow /\ new.sub = row.sub /\ new.plan = "GRATIS"
      BY <1>1, <2>1 DEF PlanRow
    <2>. QED  BY <1>3, <2>2 DEF new
  <1>. QED  BY <1>2, <1>3

LEMMA ApplyTxKeeps ==
  ASSUME SubsTypeOK, SubsInv, NEW w \in Worker, ApplyTx(w)
  PROVE  SubsTypeOK' /\ SubsInv'
  <1>. DEFINE i == hook[w]
  <1>1. i \in HookType /\ i.event \subseteq sent /\ HookOK(w) /\ i.pc = "apply"
    BY SubsTyped DEF SubsInv, HooksTyped, ApplyTx
  <1>2. PICK e \in i.event, r \in i.reader :
          Commit(w, e, [reader EXCEPT ![r] = AfterChange(reader[r], e, i.entitled)])
    BY DEF ApplyTx
  <1>3. e \in sent /\ e \in SubEvent /\ e.sub \in Sub /\ e.data \in SubData /\ r \in Reader
        /\ i.entitled \in BOOLEAN
    BY <1>1, SubsTyped DEF SubEvent, HookType
  <1>4. e.kind = "changed" /\ stripe[e.sub].owner = {r}
        /\ (i.entitled => e.data.status \in Paying)
    BY <1>1, <1>2 DEF HookOK
  <1>5. reader[r] \in PlanRow
    BY <1>3, SubsTyped
  <1>. DEFINE b == i.entitled
              plan == PlanFor(reader[r], b, e.data)
              s == IF e.data.status \in Dead THEN NoSub ELSE e.sub
              row == AfterChange(reader[r], e, b)
  <1>. HIDE DEF i
  <1>6. b \in BOOLEAN
    BY <1>3
  <1>. HIDE DEF b
  <1>7. plan \in PlanRow /\ (b => plan.source = "STRIPE" /\ plan.until = e.data.until)
        /\ (~b => plan.plan = "GRATIS")
    BY <1>3, <1>5, <1>6, PlanForTypes
  <1>8. row = [plan EXCEPT !.sub = s]
    BY DEF AfterChange
  <1>. HIDE DEF plan, row
  <1>9. s \in Sub \cup {NoSub} /\ (s # NoSub => stripe[s].owner = {r})
    BY <1>3, <1>4
  <1>10. row \in PlanRow /\ row.sub = s /\ row.plan = plan.plan /\ row.source = plan.source
         /\ row.until = plan.until
    <2>. HIDE DEF s
    <2>. QED  BY <1>7, <1>8, <1>9 DEF PlanRow
  <1>11. b => PaidUntil(r, e.data.until)
    BY <1>3, <1>4 DEF PaidUntil, Paying, b
  <1>. HIDE DEF s
  <1>12. row.plan # "GRATIS" => row.source = "STRIPE" /\ PaidUntil(r, row.until)
    BY <1>7, <1>10, <1>11
  <1>13. Commit(w, e, [reader EXCEPT ![r] = row])
    BY <1>2 DEF row, b
  <1>. QED  BY <1>3, <1>9, <1>10, <1>12, <1>13, CommitKeeps

LEMMA LinkTxKeeps ==
  ASSUME SubsTypeOK, SubsInv, NEW w \in Worker, LinkTx(w)
  PROVE  SubsTypeOK' /\ SubsInv'
  <1>1. hook[w].event \subseteq sent
    BY SubsTyped DEF HooksTyped
  <1>. PICK e \in hook[w].event :
         \E r \in stripe[e.sub].owner :
           Commit(w, e, [reader EXCEPT ![r].customer = TRUE, ![r].sub = e.sub])
    BY DEF LinkTx
  <1>2. PICK r \in stripe[e.sub].owner :
          Commit(w, e, [reader EXCEPT ![r].customer = TRUE, ![r].sub = e.sub])
    OBVIOUS
  <1>3. e \in sent /\ e.sub \in Sub
    BY <1>1, SubsTyped DEF SubEvent
  <1>4. r \in Reader /\ stripe[e.sub].owner = {r}
    BY <1>2, <1>3, SubsTyped DEF SubsInv, SubOK, StripeType
  <1>5. reader[r] \in PlanRow /\ RowOK(r)
    BY <1>4, SubsTyped DEF SubsInv
  <1>. DEFINE row == [reader[r] EXCEPT !.customer = TRUE, !.sub = e.sub]
  <1>6. [reader EXCEPT ![r].customer = TRUE, ![r].sub = e.sub] = [reader EXCEPT ![r] = row]
    BY <1>4, <1>5, SubsTyped
  <1>7. row \in PlanRow /\ row.sub = e.sub /\ row.plan = reader[r].plan
        /\ row.source = reader[r].source /\ row.until = reader[r].until
    BY <1>3, <1>5 DEF PlanRow
  <1>. HIDE DEF row
  <1>8. Commit(w, e, [reader EXCEPT ![r] = row])
    BY <1>2, <1>6
  <1>9. row.plan # "GRATIS" =>
           \/ row.source = "MANUAL" /\ <<r, row.until>> \in granted
           \/ row.source = "STRIPE" /\ PaidUntil(r, row.until)
    BY <1>5, <1>7 DEF RowOK
  <1>. QED  BY <1>3, <1>4, <1>7, <1>8, <1>9, CommitKeeps

LEMMA RecordKeeps ==
  ASSUME SubsTypeOK, SubsInv, NEW w \in Worker, Record(w)
  PROVE  SubsTypeOK' /\ SubsInv'
  <1>0. PICK e \in hook[w].event : Commit(w, e, reader)
    BY DEF Record
  <1>1. now' = now /\ stripe' = stripe /\ sent' = sent /\ task' = task /\ granted' = granted
        /\ hook' = [hook EXCEPT ![w] = HookIdle] /\ reader' = reader /\ e \in sent
    BY <1>0, SubsTyped DEF Commit, HooksTyped
  <1>2. Keeping
    BY <1>1, SubsTyped DEF Keeping
  <1>3. now' \in 0..MaxTime /\ ledger' \subseteq sent'
        /\ granted' \subseteq Reader \X (Date \cup {NoDate})
    BY <1>0, <1>1, SubsTyped DEF Commit
  <1>. QED  BY <1>1, <1>2, <1>3, SubsRest, RowsRest, HooksEnd, TasksRest, SubsTogether

LEMMA HookNextKeeps ==
  ASSUME SubsTypeOK, SubsInv, HookNext
  PROVE  SubsTypeOK' /\ SubsInv'
  BY DeliverKeeps, FindReaderKeeps, ApplyTxKeeps, LinkTxKeeps, RecordKeeps,
     DeliveryFailsKeeps DEF HookNext, HookStep

-----------------------------------------------------------------------------
(* The requests.                                                           *)

LEMMA TaskOnlyKeeps ==
  ASSUME SubsTypeOK, SubsInv, NEW t \in Task, NEW j \in TaskType,
         task' = [task EXCEPT ![t] = j],
         \A x, y \in j.reader : x = y, j.pc = "sync" => j.sub \in Sub,
         \A r \in j.reader :
           /\ j.pc = "sync" => stripe[j.sub].owner = {r}
           /\ j.pc = "synced" /\ j.entitled => PaidUntil(r, j.data.until),
         UNCHANGED <<now, reader, stripe, sent, ledger, hook, granted>>
  PROVE  SubsTypeOK' /\ SubsInv'
  <1>0. now' = now /\ reader' = reader /\ stripe' = stripe /\ sent' = sent
        /\ ledger' = ledger /\ hook' = hook /\ granted' = granted
    OBVIOUS
  <1>1. Keeping
    BY <1>0, SubsTyped DEF Keeping
  <1>2. task'[t] = j
    BY SubsTyped
  <1>3. TaskOK(t)'
    <2>1. ASSUME NEW r \in j.reader
          PROVE  /\ j.pc = "sync" => stripe'[j.sub].owner = {r}
                 /\ j.pc = "synced" /\ j.entitled => PaidUntil(r, j.data.until)'
      <3>1. PaidUntil(r, j.data.until) => PaidUntil(r, j.data.until)'
        BY <1>0 DEF PaidUntil
      <3>. QED  BY <1>0, <3>1
    <2>. QED  BY <1>2, <2>1 DEF TaskOK
  <1>4. now' \in 0..MaxTime /\ ledger' \subseteq sent'
        /\ granted' \subseteq Reader \X (Date \cup {NoDate})
    BY <1>0, SubsTyped
  <1>5. task' \in [Task -> TaskType] /\ \A x \in Task : TaskOK(x)'
    BY <1>1, <1>3, TasksGo
  <1>. QED  BY <1>0, <1>1, <1>4, <1>5, SubsRest, RowsRest, HooksRest, SubsTogether

LEMMA TaskForTypes ==
  ASSUME NEW r \in Reader,
         NEW pc \in {"checkout", "sync", "synced", "tidy", "grant", "revoke"}
  PROVE  /\ TaskFor(pc, r) \in TaskType
         /\ TaskFor(pc, r).pc = pc /\ TaskFor(pc, r).reader = {r}
  <1>. DEFINE R == {r}
  <1>1. TaskFor(pc, r) = [TaskIdle EXCEPT !.pc = pc, !.reader = R] /\ R \in SUBSET Reader
    BY DEF TaskFor
  <1>. HIDE DEF R
  <1>2. TaskFor(pc, r) \in TaskType /\ TaskFor(pc, r).pc = pc /\ TaskFor(pc, r).reader = R
    BY <1>1, TaskIdleTypes DEF TaskType
  <1>. QED  BY <1>2 DEF R

LEMMA PlainTaskKeeps ==
  ASSUME SubsTypeOK, SubsInv, NEW t \in Task, NEW j \in TaskType, NEW r \in Reader,
         j.reader = {r}, j.pc \notin {"sync", "synced"}, Begin(t, j)
  PROVE  SubsTypeOK' /\ SubsInv'
  BY TaskOnlyKeeps DEF Begin

LEMMA BeginningKeeps ==
  ASSUME SubsTypeOK, SubsInv, NEW t \in Task, NEW r \in Reader,
         \/ ReadForCheckout(t, r) \/ SeeLapsed(t, r) \/ ReadForRevoke(t, r)
  PROVE  SubsTypeOK' /\ SubsInv'
  <1>. PICK pc \in {"checkout", "tidy", "revoke"} : Begin(t, TaskFor(pc, r))
    BY DEF ReadForCheckout, SeeLapsed, ReadForRevoke
  <1>. DEFINE j == TaskFor(pc, r)
  <1>1. j \in TaskType /\ j.pc = pc /\ j.reader = {r} /\ Begin(t, j)
    BY TaskForTypes
  <1>. HIDE DEF j
  <1>. QED  BY <1>1, PlainTaskKeeps

LEMMA ReadForGrantKeeps ==
  ASSUME SubsTypeOK, SubsInv, NEW t \in Task, NEW r \in Reader, NEW until \in GiftEnd,
         ReadForGrant(t, r, until)
  PROVE  SubsTypeOK' /\ SubsInv'
  <1>. DEFINE i == TaskFor("grant", r)
              j == [i EXCEPT !.until = until]
  <1>1. i \in TaskType /\ i.pc = "grant" /\ i.reader = {r} /\ until \in Date \cup {NoDate}
    BY TaskForTypes, Dates
  <1>2. Begin(t, j)
    BY DEF ReadForGrant
  <1>. HIDE DEF i
  <1>3. j \in TaskType /\ j.pc = "grant" /\ j.reader = {r}
    BY <1>1 DEF TaskType
  <1>. HIDE DEF j
  <1>. QED  BY <1>2, <1>3, PlainTaskKeeps

LEMMA ReadForSyncKeeps ==
  ASSUME SubsTypeOK, SubsInv, NEW t \in Task, NEW r \in Reader, ReadForSync(t, r)
  PROVE  SubsTypeOK' /\ SubsInv'
  <1>. DEFINE i == TaskFor("sync", r)
              s == reader[r].sub
              j == [i EXCEPT !.sub = s]
  <1>1. i \in TaskType /\ i.pc = "sync" /\ i.reader = {r}
    BY TaskForTypes
  <1>2. s \in Sub /\ stripe[s].owner = {r}
    <2>1. reader[r] \in PlanRow /\ RowOK(r) /\ s # NoSub
      BY SubsTyped DEF SubsInv, ReadForSync
    <2>. QED  BY <2>1 DEF PlanRow, RowOK
  <1>3. task' = [task EXCEPT ![t] = j]
        /\ UNCHANGED <<now, reader, stripe, sent, ledger, hook, granted>>
    BY DEF ReadForSync, Begin
  <1>. HIDE DEF i, s
  <1>4. j \in TaskType /\ j.pc = "sync" /\ j.reader = {r} /\ j.sub = s
    BY <1>1, <1>2 DEF TaskType
  <1>. HIDE DEF j
  <1>. QED  BY <1>2, <1>3, <1>4, TaskOnlyKeeps

LEMMA RetrieveKeeps ==
  ASSUME SubsTypeOK, SubsInv, NEW t \in Task, Retrieve(t)
  PROVE  SubsTypeOK' /\ SubsInv'
  <1>. DEFINE i == task[t]
              s == i.sub
              data == stripe[s].data
              b == Entitles(data)
              j == [i EXCEPT !.pc = "synced", !.data = data, !.entitled = b]
  <1>1. i \in TaskType /\ i.pc = "sync" /\ TaskOK(t)
        /\ UNCHANGED <<now, reader, stripe, sent, ledger, hook, granted>>
    BY SubsTyped DEF SubsInv, Retrieve
  <1>2. task' = [task EXCEPT ![t] = j]
    BY SubsTyped DEF Retrieve
  <1>3. b \in BOOLEAN /\ (b => data.status \in Paying)
    BY DEF Entitles, Entitling, Paying
  <1>4. s \in Sub /\ (\A x, y \in i.reader : x = y)
        /\ (\A r \in i.reader : stripe[s].owner = {r})
    BY <1>1 DEF TaskOK
  <1>5. stripe[s] \in StripeType /\ SubOK(s)
    BY <1>4, SubsTyped DEF SubsInv
  <1>6. data \in SubData
    BY <1>5 DEF StripeType
  <1>. HIDE DEF i, s, b
  <1>7. b => \A r \in i.reader : PaidUntil(r, data.until)
    BY <1>3, <1>4, <1>5 DEF SubOK, PaidUntil, Paying
  <1>. HIDE DEF data
  <1>8. j \in TaskType /\ j.pc = "synced" /\ j.reader = i.reader /\ j.data = data
        /\ j.entitled = b
    BY <1>1, <1>3, <1>6 DEF TaskType
  <1>. HIDE DEF j
  <1>9. \A x, y \in j.reader : x = y
    BY <1>4, <1>8
  <1>10. \A r \in j.reader : j.entitled => PaidUntil(r, j.data.until)
    BY <1>7, <1>8
  <1>11. j.pc # "sync"
    BY <1>8
  <1>. QED  BY <1>1, <1>2, <1>8, <1>9, <1>10, <1>11, TaskOnlyKeeps

LEMMA AbandonKeeps ==
  ASSUME SubsTypeOK, SubsInv, NEW t \in Task, Abandon(t)
  PROVE  SubsTypeOK' /\ SubsInv'
  BY TaskIdleTypes, TaskOnlyKeeps DEF Abandon, Finish

LEMMA OpenSessionKeeps ==
  ASSUME SubsTypeOK, SubsInv, NEW t \in Task, NEW s \in Sub, OpenSession(t, s)
  PROVE  SubsTypeOK' /\ SubsInv'
  <1>0. now' = now /\ reader' = reader /\ sent' = sent /\ ledger' = ledger
        /\ hook' = hook /\ granted' = granted /\ Finish(t) /\ stripe[s].owner = {}
    BY DEF OpenSession
  <1>1. stripe[s] \in StripeType /\ SubOK(s) /\ task[t] \in TaskType /\ TaskOK(t)
    BY SubsTyped DEF SubsInv
  <1>2. stripe'[s] = [stripe[s] EXCEPT !.owner = task[t].reader]
        /\ \A x \in Sub : x # s => stripe'[x] = stripe[x]
    BY <1>1, SubsTyped DEF OpenSession
  <1>3. stripe'[s] \in StripeType /\ stripe'[s].owner = task[t].reader
        /\ stripe'[s].version = stripe[s].version /\ stripe'[s].data = stripe[s].data
    BY <1>1, <1>2 DEF StripeType, TaskType
  <1>4. stripe' \in [Sub -> StripeType]
    BY <1>2, <1>3, SubsTyped DEF OpenSession
  <1>5. Keeping
    BY <1>0, <1>2, SubsTyped DEF Keeping
  <1>6. SubOK(s)'
    <2>1. ~(stripe[s].version > 0)
      BY <1>0, <1>1 DEF SubOK
    <2>2. \A x, y \in stripe'[s].owner : x = y
      BY <1>1, <1>3 DEF TaskOK
    <2>. QED  BY <1>0, <1>1, <1>3, <2>1, <2>2 DEF SubOK
  <1>7. ASSUME NEW x \in Sub PROVE SubOK(x)'
    <2>1. CASE x = s
      BY <1>6, <2>1
    <2>2. CASE x # s
      BY <1>2, <1>5, <2>2, SubStays
    <2>. QED  BY <2>1, <2>2
  <1>8. \A e \in sent' : stripe'[e.sub].owner # {}
    BY <1>0, <1>5, EventsStay
  <1>9. now' \in 0..MaxTime /\ ledger' \subseteq sent'
        /\ granted' \subseteq Reader \X (Date \cup {NoDate})
    BY <1>0, SubsTyped
  <1>. QED  BY <1>0, <1>4, <1>5, <1>7, <1>8, <1>9, RowsRest, HooksRest, TasksEnd,
              SubsTogether

(* A row is written by a request, which ends, or by an erasure.            *)
LEMMA WritingKeeps ==
  ASSUME SubsTypeOK, SubsInv, NEW r \in Reader, NEW row \in PlanRow,
         reader' = [reader EXCEPT ![r] = row],
         (\E t \in Task : Finish(t)) \/ task' = task,
         UNCHANGED <<now, stripe, sent, ledger, hook>>,
         granted \subseteq granted', granted' \subseteq Reader \X (Date \cup {NoDate}),
         row.sub = reader[r].sub,
         row.plan # "GRATIS" =>
           \/ row.source = "MANUAL" /\ <<r, row.until>> \in granted'
           \/ row.source = "STRIPE" /\ PaidUntil(r, row.until)
  PROVE  SubsTypeOK' /\ SubsInv'
  <1>0. now' = now /\ stripe' = stripe /\ sent' = sent /\ ledger' = ledger /\ hook' = hook
    OBVIOUS
  <1>1. Keeping
    BY <1>0, SubsTyped DEF Keeping
  <1>2. reader'[r] = row /\ RowOK(r)
    BY SubsTyped DEF SubsInv
  <1>3. RowOK(r)'
    BY <1>0, <1>2 DEF RowOK, PaidUntil
  <1>4. reader' \in [Reader -> PlanRow] /\ \A x \in Reader : RowOK(x)'
    BY <1>1, <1>3, RowsGo
  <1>5. task' \in [Task -> TaskType] /\ \A t \in Task : TaskOK(t)'
    BY <1>1, TasksEnd, TasksRest
  <1>6. now' \in 0..MaxTime /\ ledger' \subseteq sent'
    BY <1>0, SubsTyped
  <1>. QED  BY <1>0, <1>1, <1>4, <1>5, <1>6, SubsRest, HooksRest, SubsTogether

LEMMA LapsedPlanTypes ==
  ASSUME NEW row \in PlanRow
  PROVE  /\ LapsedPlan(row) \in PlanRow /\ LapsedPlan(row).sub = row.sub
         /\ LapsedPlan(row).plan = "GRATIS"
  <1>. DEFINE n == NoDate
  <1>1. n \in Date \cup {NoDate}
        /\ LapsedPlan(row) = [row EXCEPT !.plan = "GRATIS", !.until = n, !.source = "none"]
    BY DEF LapsedPlan
  <1>. HIDE DEF n
  <1>. QED  BY <1>1 DEF PlanRow

LEMMA TaskReads ==
  ASSUME SubsTypeOK, SubsInv, NEW t \in Task, NEW r \in task[t].reader
  PROVE  /\ r \in Reader /\ reader[r] \in PlanRow
         /\ task[t] \in TaskType /\ TaskOK(t)
         /\ granted \subseteq Reader \X (Date \cup {NoDate})
  <1>1. task[t] \in TaskType /\ TaskOK(t)
    BY SubsTyped DEF SubsInv
  <1>2. r \in Reader
    BY <1>1 DEF TaskType
  <1>. QED  BY <1>1, <1>2, SubsTyped

LEMMA EndingPlanKeeps ==
  ASSUME SubsTypeOK, SubsInv, NEW t \in Task, Tidy(t) \/ Revoke(t)
  PROVE  SubsTypeOK' /\ SubsInv'
  <1>1. PICK r \in task[t].reader : Write(t, r, LapsedPlan(reader[r])) /\ granted' = granted
    BY DEF Tidy, Revoke
  <1>. DEFINE row == LapsedPlan(reader[r])
  <1>2. r \in Reader /\ row \in PlanRow /\ row.sub = reader[r].sub /\ row.plan = "GRATIS"
    BY TaskReads, LapsedPlanTypes
  <1>3. reader' = [reader EXCEPT ![r] = row] /\ Finish(t)
        /\ UNCHANGED <<now, stripe, sent, ledger, hook>>
    BY <1>1 DEF Write
  <1>4. granted \subseteq granted' /\ granted' \subseteq Reader \X (Date \cup {NoDate})
    BY <1>1, TaskReads
  <1>. HIDE DEF row
  <1>. QED  BY <1>2, <1>3, <1>4, WritingKeeps

LEMMA WriteSyncedKeeps ==
  ASSUME SubsTypeOK, SubsInv, NEW t \in Task, WriteSynced(t)
  PROVE  SubsTypeOK' /\ SubsInv'
  <1>1. PICK r \in task[t].reader :
          /\ Write(t, r, PlanFor(reader[r], task[t].entitled, task[t].data))
          /\ granted' = granted /\ task[t].pc = "synced"
    BY DEF WriteSynced
  <1>. DEFINE row == PlanFor(reader[r], task[t].entitled, task[t].data)
  <1>2. r \in Reader /\ reader[r] \in PlanRow /\ task[t].entitled \in BOOLEAN
        /\ task[t].data \in SubData
    BY TaskReads DEF TaskType
  <1>3. row \in PlanRow /\ row.sub = reader[r].sub
        /\ (task[t].entitled => row.source = "STRIPE" /\ row.until = task[t].data.until)
        /\ (~task[t].entitled => row.plan = "GRATIS")
    BY <1>2, PlanForTypes
  <1>4. task[t].entitled => PaidUntil(r, task[t].data.until)
    BY <1>1, TaskReads DEF TaskOK
  <1>5. reader' = [reader EXCEPT ![r] = row] /\ Finish(t)
        /\ UNCHANGED <<now, stripe, sent, ledger, hook>>
    BY <1>1 DEF Write
  <1>6. granted \subseteq granted' /\ granted' \subseteq Reader \X (Date \cup {NoDate})
    BY <1>1, TaskReads
  <1>. HIDE DEF row
  <1>7. row.plan # "GRATIS" => row.source = "STRIPE" /\ PaidUntil(r, row.until)
    BY <1>3, <1>4
  <1>. QED  BY <1>2, <1>3, <1>5, <1>6, <1>7, WritingKeeps

LEMMA GrantKeeps ==
  ASSUME SubsTypeOK, SubsInv, NEW t \in Task, Grant(t)
  PROVE  SubsTypeOK' /\ SubsInv'
  <1>1. PICK r \in task[t].reader :
          /\ Write(t, r, GiftRow(reader[r], task[t].until))
          /\ granted' = granted \cup {<<r, task[t].until>>}
    BY DEF Grant
  <1>. DEFINE u == task[t].until
              row == GiftRow(reader[r], u)
  <1>2. r \in Reader /\ reader[r] \in PlanRow /\ u \in Date \cup {NoDate}
    BY TaskReads DEF TaskType
  <1>3. row = [reader[r] EXCEPT !.plan = "PREMIUM", !.until = u, !.source = "MANUAL"]
    BY DEF GiftRow
  <1>4. reader' = [reader EXCEPT ![r] = row] /\ Finish(t)
        /\ UNCHANGED <<now, stripe, sent, ledger, hook>>
    BY <1>1 DEF Write
  <1>5. granted \subseteq granted' /\ granted' \subseteq Reader \X (Date \cup {NoDate})
        /\ <<r, u>> \in granted'
    BY <1>1, <1>2, TaskReads
  <1>. HIDE DEF row, u
  <1>6. row \in PlanRow /\ row.sub = reader[r].sub /\ row.source = "MANUAL" /\ row.until = u
    BY <1>2, <1>3 DEF PlanRow
  <1>. QED  BY <1>2, <1>4, <1>5, <1>6, WritingKeeps

LEMMA EraseKeeps ==
  ASSUME SubsTypeOK, SubsInv, NEW r \in Reader, Erase(r)
  PROVE  SubsTypeOK' /\ SubsInv'
  <1>. DEFINE n == NoDate
              row == ErasedRow(reader[r])
  <1>1. row = [reader[r] EXCEPT !.plan = "GRATIS", !.until = n, !.customer = FALSE,
                                !.erased = TRUE]
        /\ n \in Date \cup {NoDate} /\ reader[r] \in PlanRow
    BY SubsTyped DEF ErasedRow
  <1>2. reader' = [reader EXCEPT ![r] = row] /\ task' = task /\ granted' = granted
        /\ UNCHANGED <<now, stripe, sent, ledger, hook>>
    BY DEF Erase
  <1>. HIDE DEF row, n
  <1>3. row \in PlanRow /\ row.sub = reader[r].sub /\ row.plan = "GRATIS"
    BY <1>1 DEF PlanRow
  <1>4. granted \subseteq granted' /\ granted' \subseteq Reader \X (Date \cup {NoDate})
    BY <1>2, SubsTyped
  <1>. QED  BY <1>2, <1>3, <1>4, WritingKeeps

LEMMA TaskNextKeeps ==
  ASSUME SubsTypeOK, SubsInv, TaskNext
  PROVE  SubsTypeOK' /\ SubsInv'
  <1>1. ASSUME NEW t \in Task, NEW r \in Reader,
               \/ ReadForCheckout(t, r) \/ ReadForSync(t, r) \/ SeeLapsed(t, r)
               \/ (\E until \in GiftEnd : ReadForGrant(t, r, until)) \/ ReadForRevoke(t, r)
        PROVE  SubsTypeOK' /\ SubsInv'
    BY <1>1, BeginningKeeps, ReadForSyncKeeps, ReadForGrantKeeps
  <1>2. ASSUME NEW t \in Task, NEW s \in Sub, OpenSession(t, s)
        PROVE  SubsTypeOK' /\ SubsInv'
    BY <1>2, OpenSessionKeeps
  <1>3. ASSUME NEW t \in Task,
               \/ Retrieve(t) \/ WriteSynced(t) \/ Tidy(t) \/ Grant(t) \/ Revoke(t)
               \/ Abandon(t)
        PROVE  SubsTypeOK' /\ SubsInv'
    BY <1>3, RetrieveKeeps, WriteSyncedKeeps, EndingPlanKeeps, GrantKeeps, AbandonKeeps
  <1>. QED  BY <1>1, <1>2, <1>3 DEF TaskNext

-----------------------------------------------------------------------------
(* Every step, and the theorems.                                           *)

LEMMA SubsStays ==
  SubsTypeOK /\ SubsInv /\ [SubsNext]_svars => SubsTypeOK' /\ SubsInv'
  <1>. SUFFICES ASSUME SubsTypeOK, SubsInv, [SubsNext]_svars
                PROVE  SubsTypeOK' /\ SubsInv'
    OBVIOUS
  <1>1. CASE UNCHANGED svars
    <2>1. now' \in 0..MaxTime /\ UNCHANGED <<reader, stripe, sent, ledger, hook, task, granted>>
      BY <1>1, SubsTyped DEF svars
    <2>. QED  BY <2>1, NothingMoves
  <1>. QED  BY <1>1, TickKeeps, StripeNextKeeps, HookNextKeeps, TaskNextKeeps, EraseKeeps
            DEF SubsNext

(* The inductive invariant holds of every behaviour.                       *)
LEMMA SubsHold == SubsSpec => [](SubsTypeOK /\ SubsInv)
  BY SubsBegins, SubsStays, PTL DEF SubsSpec

(* Rows, subscriptions, events and requests keep their types: what is in   *)
(* the ledger was sent, and a plan's end is a date Stripe or the newsroom  *)
(* gave.                                                                   *)
THEOREM PlanTypes == SubsSpec => []SubsTypeOK
  BY SubsHold, PTL

(* Whoever reads today was given the plan, or has or had a subscription of *)
(* their own running to that very date, whatever order events, retries,    *)
(* stale reads and repeated writes come in.                                *)
THEOREM PlansAreBacked == SubsSpec => []ReadsOnlyWhatIsBacked
  <1>1. SubsTypeOK /\ SubsInv => ReadsOnlyWhatIsBacked
    BY DEF SubsInv, RowOK, ReadsOnlyWhatIsBacked, Reads, PlanActive
  <1>. QED  BY <1>1, SubsHold, PTL

(* The subscription a reader is linked to is theirs: an event that finds   *)
(* its reader by the id they hold finds the customer who pays.             *)
LinkedToTheirOwn ==
  \A r \in Reader : reader[r].sub # NoSub => stripe[reader[r].sub].owner = {r}

THEOREM LinksAreTheirs == SubsSpec => []LinkedToTheirOwn
  <1>1. SubsTypeOK /\ SubsInv => LinkedToTheirOwn
    BY DEF SubsInv, RowOK, LinkedToTheirOwn
  <1>. QED  BY <1>1, SubsHold, PTL
=============================================================================
