--------------------------- MODULE ReaderDigests ---------------------------
(***************************************************************************)
(* The notification e-mails: backend/src/reader-notifications (the service *)
(* and its scheduler), the wishes that steer them (reader-library's        *)
(* follows, the profile's cadence, the unsubscribe link) and the ledger    *)
(* ArticleNotification between the two halves.                             *)
(*                                                                         *)
(* One half finds articles that came out, claims each and writes a row for *)
(* every follower, a page of followers at a time; the other drains the     *)
(* rows, one e-mail per reader.  Neither waits for the other, nor for its  *)
(* own last tick.                                                          *)
(***************************************************************************)
EXTENDS Integers, Sequences, FiniteSets, FiniteSetsExt

CONSTANTS
  Follower,      \* readers with a verified address: a set of numbers, their ids' order
  Story,
  Category,
  Filed,         \* the article's category and the ones above it, leaf first
  Cadence,       \* IMEDIATO, DIARIO, SEMANAL
  Delivery,      \* bound: the deliveries under way at a time
  FANOUT_BATCH,
  MAX_ATTEMPTS,
  MaxChanges,    \* bound: the changes of mind of readers
  MaxCount       \* bound: where the two counts of e-mails stop counting

ASSUME DigestAssumption ==
  /\ Follower \subseteq Nat \ {0} /\ IsFiniteSet(Follower)
  /\ Filed \in Seq(Category) \ {<<>>}
  /\ FANOUT_BATCH \in Nat \ {0} /\ MAX_ATTEMPTS \in Nat \ {0}
  /\ IsFiniteSet(Delivery) /\ MaxChanges \in Nat /\ MaxCount \in Nat \ {0}
  /\ "NUNCA" \notin Cadence

VARIABLES
  piece,     \* articles: draft, due (published within the day), old
  queuedAt,  \* the claim, notificationsQueuedAt
  wishes,    \* a reader's cadence, and per category: none, muted or on
  notes,    \* the rows of ArticleNotification
  seen,      \* what the ticks under way found due
  fan,       \* the fan-out of an article: categories left, the cursor
  delivery,  \* the deliveries under way
  changes,   \* bound: changes of mind so far
  mailed,    \* history: how often a reader was sent an article
  excuse,    \* history: the reasons there were for sending it again
  owed,      \* history: whom the fan-out of an article should reach, and why
  cuts       \* history: where it was cut short, as <<category, last id served>>

dvars == <<piece, queuedAt, wishes, notes, seen, fan, delivery, changes,
           mailed, excuse, owed, cuts>>

NoNote == [status |-> "none", attempts |-> 0]
FanIdle == [cats |-> <<>>, after |-> 0]
DeliveryIdle == [pc |-> "idle", todo |-> {}, to |-> {}]

Pair == Follower \X Story
NoteRow(x) == notes[x[1]][x[2]]
Capped(n) == IF n < MaxCount THEN n + 1 ELSE n
Bump(count, pairs) ==
  [r \in Follower |-> [a \in Story |->
     IF <<r, a>> \in pairs THEN Capped(count[r][a]) ELSE count[r][a]]]
Noted(pairs, New(_)) ==
  [r \in Follower |-> [a \in Story |->
     IF <<r, a>> \in pairs THEN New(notes[r][a]) ELSE notes[r][a]]]

DigestInit ==
  /\ piece = [a \in Story |-> "draft"]
  /\ queuedAt = [a \in Story |-> FALSE]
  /\ wishes \in [Follower -> [cadence : Cadence, cats : [Category -> {"none", "on"}]]]
  /\ notes = [r \in Follower |-> [a \in Story |-> NoNote]]
  /\ seen = {}
  /\ fan = [a \in Story |-> FanIdle]
  /\ delivery = [d \in Delivery |-> DeliveryIdle]
  /\ changes = 0
  /\ mailed = [r \in Follower |-> [a \in Story |-> 0]]
  /\ excuse = [r \in Follower |-> [a \in Story |-> 0]]
  /\ owed = [a \in Story |-> {}]
  /\ cuts = [a \in Story |-> {}]

-----------------------------------------------------------------------------
(* The newsroom, and the day going by.                                     *)

Release(a) ==
  /\ piece[a] = "draft"
  /\ piece' = [piece EXCEPT ![a] = "due"]
  /\ UNCHANGED <<queuedAt, wishes, notes, seen, fan, delivery, changes, mailed, excuse, owed, cuts>>

(* It is withdrawn, or a day has gone by since it came out.                *)
Passes(a) ==
  /\ piece[a] = "due"
  /\ piece' \in {[piece EXCEPT ![a] = "draft"], [piece EXCEPT ![a] = "old"]}
  /\ UNCHANGED <<queuedAt, wishes, notes, seen, fan, delivery, changes, mailed, excuse, owed, cuts>>

-----------------------------------------------------------------------------
(* Readers change their minds: the profile, the link in an e-mail, the     *)
(* follow buttons.                                                         *)

Wants(w, c) == w.cats[c] = "on" /\ w.cadence # "NUNCA"

Wish(r, w) ==
  /\ changes < MaxChanges
  /\ changes' = changes + 1
  /\ wishes' = [wishes EXCEPT ![r] = w]
  /\ owed' = [a \in Story |-> {x \in owed[a] : x[1] = r => Wants(w, x[2])}]
  /\ UNCHANGED <<piece, queuedAt, notes, seen, fan, delivery, mailed, excuse, cuts>>

SetCadence(r) ==
  \E c \in Cadence \ {wishes[r].cadence} : Wish(r, [wishes[r] EXCEPT !.cadence = c])

(* Everything stopped, by the link or because the account was suspended.   *)
UnsubscribeAll(r) ==
  /\ wishes[r].cadence # "NUNCA"
  /\ Wish(r, [wishes[r] EXCEPT !.cadence = "NUNCA"])

Mute(r, c) ==
  /\ wishes[r].cats[c] = "on"
  /\ Wish(r, [wishes[r] EXCEPT !.cats[c] = "muted"])

(* The buttons act on the topmost category, whichever they are shown for.  *)
Root == Filed[Len(Filed)]

Follow(r) ==
  /\ wishes[r].cats[Root] # "on"
  /\ Wish(r, [wishes[r] EXCEPT !.cats[Root] = "on"])

Unfollow(r) ==
  /\ wishes[r].cats[Root] # "none"
  /\ Wish(r, [wishes[r] EXCEPT !.cats[Root] = "none"])

-----------------------------------------------------------------------------
(* enqueueDueArticles                                                      *)

DueStory(a) == piece[a] = "due" /\ ~queuedAt[a]

Look ==
  /\ {a \in Story : DueStory(a)} \ seen # {}
  /\ seen' = seen \cup {a \in Story : DueStory(a)}
  /\ UNCHANGED <<piece, queuedAt, wishes, notes, fan, delivery, changes, mailed, excuse, owed, cuts>>

(* notifyTargets: the whole chain, or with CATEGORY_FUNNEL off, or the     *)
(* tree not to be read, the category of the article alone.                 *)
Targets == {Filed, SubSeq(Filed, 1, 1)}

Claim(a) ==
  /\ a \in seen
  /\ seen' = seen \ {a}
  /\ IF queuedAt[a]
     THEN UNCHANGED <<queuedAt, fan, owed>>
     ELSE /\ queuedAt' = [queuedAt EXCEPT ![a] = TRUE]
          /\ \E cats \in Targets :
               /\ fan' = [fan EXCEPT ![a] = [cats |-> cats, after |-> 0]]
               /\ owed' = [owed EXCEPT ![a] =
                    {x \in Follower \X Category :
                       /\ \E i \in DOMAIN cats : cats[i] = x[2]
                       /\ Wants(wishes[x[1]], x[2])}]
  /\ UNCHANGED <<piece, wishes, notes, delivery, changes, mailed, excuse, cuts>>

(* A page of followers in the order of their ids, after the last of the    *)
(* page before.                                                            *)
FollowersAfter(c, after) ==
  LET left == {r \in Follower : r > after /\ Wants(wishes[r], c)} IN
  {r \in left : Cardinality({q \in left : q < r}) < FANOUT_BATCH}

(* Prisma's cursor is a row: gone, the page is empty.                      *)
CursorLost(c, after) == after # 0 /\ wishes[after].cats[c] = "none"

(* Mutant: after the first category the fan-out is over.                   *)
NextCategoryNone(a) == [fan EXCEPT ![a] = FanIdle]
NextCategory(a) == [fan EXCEPT ![a] = [cats |-> Tail(fan[a].cats), after |-> 0]]

(* Mutant: the cursor skips one.                                           *)
NextPageSkips(a, page) == [fan EXCEPT ![a].after = Max(page) + 1]
NextPage(a, page) == [fan EXCEPT ![a].after = Max(page)]

FanPage(a) ==
  /\ fan[a].cats # <<>>
  /\ LET c == Head(fan[a].cats)
         lost == CursorLost(c, fan[a].after)
         page == IF lost THEN {} ELSE FollowersAfter(c, fan[a].after)
     IN /\ notes' = [r \in Follower |->
             IF r \in page /\ notes[r][a].status = "none"
             THEN [notes[r] EXCEPT ![a] = [status |-> "PENDENTE", attempts |-> 0]]
             ELSE notes[r]]
        /\ fan' = IF Cardinality(page) < FANOUT_BATCH THEN NextCategory(a)
                  ELSE NextPage(a, page)
        /\ cuts' = IF lost THEN [cuts EXCEPT ![a] = @ \cup {<<c, fan[a].after>>}] ELSE cuts
  /\ UNCHANGED <<piece, queuedAt, wishes, seen, delivery, changes, mailed, excuse, owed>>

(* The pages that are left, as the id each category has been served to.    *)
Unserved(f) == {<<f.cats[i], IF i = 1 THEN f.after ELSE 0>> : i \in DOMAIN f.cats}

(* The process stops, or a query fails: the claim stays.                   *)
FanCut(a) ==
  /\ fan[a].cats # <<>>
  /\ fan' = [fan EXCEPT ![a] = FanIdle]
  /\ cuts' = [cuts EXCEPT ![a] = @ \cup Unserved(fan[a])]
  /\ UNCHANGED <<piece, queuedAt, wishes, notes, seen, delivery, changes, mailed, excuse, owed>>

-----------------------------------------------------------------------------
(* deliver                                                                 *)

Pending(x) == NoteRow(x).status = "PENDENTE" /\ NoteRow(x).attempts < MAX_ATTEMPTS
Draining(c) == {x \in Pair : Pending(x) /\ wishes[x[1]].cadence = c}
Held == UNION {delivery[d].todo : d \in Delivery}

BeginDelivery(d, c) ==
  /\ delivery[d].pc = "idle"
  /\ Draining(c) # {}
  /\ delivery' = [delivery EXCEPT ![d] =
       [pc |-> "send", todo |-> Draining(c), to |-> {}]]
  /\ excuse' = Bump(excuse, Draining(c) \cap Held)   \* another delivery has them too
  /\ UNCHANGED <<piece, queuedAt, wishes, notes, seen, fan, changes, mailed, owed, cuts>>

To(d, r) == {x \in delivery[d].todo : x[1] = r}

(* One e-mail for all that the reader is owed.                             *)
Send(d, r) ==
  /\ delivery[d].pc = "send" /\ To(d, r) # {}
  /\ mailed' = Bump(mailed, To(d, r))
  /\ delivery' = [delivery EXCEPT ![d].pc = "sent", ![d].to = {r}]
  /\ UNCHANGED <<piece, queuedAt, wishes, notes, seen, fan, changes, excuse, owed, cuts>>

(* Mutant: a refusal is not thrown, and looks like success.                *)
SendNeverThrows(d, r) ==
  /\ delivery[d].pc = "send" /\ To(d, r) # {}
  /\ delivery' = [delivery EXCEPT ![d].pc = "sent", ![d].to = {r}]
  /\ UNCHANGED <<piece, queuedAt, wishes, notes, seen, fan, changes, mailed, excuse, owed, cuts>>
(* The provider refuses; or it does not, and its answer is lost.           *)
SendFails(d, r) ==
  /\ delivery[d].pc = "send" /\ To(d, r) # {}
  /\ \/ UNCHANGED <<mailed, excuse>>
     \/ /\ mailed' = Bump(mailed, To(d, r))
        /\ excuse' = Bump(excuse, To(d, r))
  /\ delivery' = [delivery EXCEPT ![d].pc = "failed", ![d].to = {r}]
  /\ UNCHANGED <<piece, queuedAt, wishes, notes, seen, fan, changes, owed, cuts>>

Handled(d) == UNION {To(d, r) : r \in delivery[d].to}
Onward(d) ==
  [delivery EXCEPT ![d].pc = "send", ![d].to = {}, ![d].todo = @ \ Handled(d)]

(* Mutant: when it was sent is written, and not that it was.               *)
AsSentUnmarked(row) == row
AsSent(row) == IF row.status = "none" THEN row ELSE [row EXCEPT !.status = "ENVIADO"]
(* Mutant: failures are not counted.                                       *)
AsUncounted(row) == row
AsFailed(row) ==
  IF row.status = "none" THEN row
  ELSE [status |-> row.status, attempts |-> row.attempts + 1]

RecordSent(d) ==
  /\ delivery[d].pc = "sent"
  /\ notes' = Noted(Handled(d), AsSent)
  /\ delivery' = Onward(d)
  /\ UNCHANGED <<piece, queuedAt, wishes, seen, fan, changes, mailed, excuse, owed, cuts>>

(* The row cannot be written: it counts as if the e-mail had failed.       *)
RecordSentFails(d) ==
  /\ delivery[d].pc = "sent"
  /\ excuse' = Bump(excuse, Handled(d))
  /\ delivery' = [delivery EXCEPT ![d].pc = "failed"]
  /\ UNCHANGED <<piece, queuedAt, wishes, notes, seen, fan, changes, mailed, owed, cuts>>

RecordFailed(d) ==
  /\ delivery[d].pc = "failed"
  /\ notes' = Noted(Handled(d), AsFailed)
  /\ delivery' = Onward(d)
  /\ UNCHANGED <<piece, queuedAt, wishes, seen, fan, changes, mailed, excuse, owed, cuts>>

GivenUp(row) ==
  IF row.status = "PENDENTE" /\ row.attempts >= MAX_ATTEMPTS
  THEN [row EXCEPT !.status = "FALHOU"] ELSE row

(* The rows that used up their attempts, whoever's they are.               *)
EndDelivery(d) ==
  /\ delivery[d].pc = "send" /\ delivery[d].todo = {}
  /\ notes' = Noted(Pair, GivenUp)
  /\ delivery' = [delivery EXCEPT ![d] = DeliveryIdle]
  /\ UNCHANGED <<piece, queuedAt, wishes, seen, fan, changes, mailed, excuse, owed, cuts>>

(* The process stops, or the ledger cannot be written.                     *)
CrashDelivery(d) ==
  /\ delivery[d].pc # "idle"
  /\ delivery' = [delivery EXCEPT ![d] = DeliveryIdle]
  /\ excuse' = IF delivery[d].pc = "sent" THEN Bump(excuse, Handled(d)) ELSE excuse
  /\ UNCHANGED <<piece, queuedAt, wishes, notes, seen, fan, changes, mailed, owed, cuts>>

(* Ninety days later; no delivery and no fan-out takes that long.          *)
Prune(r, a) ==
  /\ piece[a] = "old" /\ notes[r][a].status # "none"
  /\ \A d \in Delivery : delivery[d].pc = "idle"
  /\ fan[a] = FanIdle
  /\ notes' = [notes EXCEPT ![r][a] = NoNote]
  /\ owed' = [owed EXCEPT ![a] = {x \in @ : x[1] # r}]
  /\ UNCHANGED <<piece, queuedAt, wishes, seen, fan, delivery, changes, mailed, excuse, cuts>>

-----------------------------------------------------------------------------
DeliveryStep(d) ==
  \/ \E r \in Follower : Send(d, r) \/ SendFails(d, r)
  \/ RecordSent(d) \/ RecordSentFails(d) \/ RecordFailed(d) \/ EndDelivery(d)

DigestNext ==
  \/ \E a \in Story :
       Release(a) \/ Passes(a) \/ Claim(a) \/ FanPage(a) \/ FanCut(a)
  \/ Look
  \/ \E r \in Follower, a \in Story : Prune(r, a)
  \/ \E r \in Follower : SetCadence(r) \/ UnsubscribeAll(r) \/ Follow(r) \/ Unfollow(r)
  \/ \E r \in Follower, c \in Category : Mute(r, c)
  \/ \E d \in Delivery, c \in Cadence : BeginDelivery(d, c)
  \/ \E d \in Delivery : DeliveryStep(d) \/ CrashDelivery(d)

DigestSpec == DigestInit /\ [][DigestNext]_dvars

(* The ticks come for ever, and neither the process nor the ledger fails   *)
(* every time an answer is to be recorded.                                 *)
Ticking ==
  /\ \A a \in Story : WF_dvars(Claim(a)) /\ WF_dvars(FanPage(a))
  /\ \A d \in Delivery : WF_dvars(DeliveryStep(d))
SomeRound(c) == \E d \in Delivery : BeginDelivery(d, c)
SomeMail(r) == \E d \in Delivery : Send(d, r) \/ SendFails(d, r)
SomeRecord == \E d \in Delivery : RecordSent(d) \/ RecordFailed(d)
DigestFairness ==
  /\ Ticking /\ SF_dvars(SomeRecord)
  /\ \A c \in Cadence : SF_dvars(SomeRound(c))
  /\ \A r \in Follower : SF_dvars(SomeMail(r))

DigestFairSpec == DigestSpec /\ DigestFairness

-----------------------------------------------------------------------------
NoteType == [status : {"none", "PENDENTE", "ENVIADO", "FALHOU"}, attempts : Nat]

(* The types.                                                              *)
DigestTypeOK ==
  /\ piece \in [Story -> {"draft", "due", "old"}]
  /\ queuedAt \in [Story -> BOOLEAN]
  /\ wishes \in [Follower -> [cadence : Cadence \cup {"NUNCA"},
                              cats : [Category -> {"none", "muted", "on"}]]]
  /\ notes \in [Follower -> [Story -> NoteType]]
  /\ seen \subseteq Story
  /\ fan \in [Story -> [cats : Seq(Category), after : Follower \cup {0}]]
  /\ delivery \in [Delivery -> [pc : {"idle", "send", "sent", "failed"},
                                todo : SUBSET Pair, to : SUBSET Follower]]
  /\ changes \in 0..MaxChanges
  /\ mailed \in [Follower -> [Story -> 0..MaxCount]]
  /\ excuse \in [Follower -> [Story -> 0..MaxCount]]
  /\ owed \in [Story -> SUBSET (Follower \X Category)]
  /\ cuts \in [Story -> SUBSET (Category \X (Follower \cup {0}))]

(* This follower of this category comes after where the fan-out was cut.   *)
CutOff(a, r, c) == \E x \in cuts[a] : x[1] = c /\ r > x[2]

(* When the fan-out of an article is over, every reader who followed one   *)
(* of its categories all along has been reached, page by page, whatever    *)
(* others did meanwhile; except the readers after the point where that     *)
(* category was cut short, because the process stopped there, or because   *)
(* the reader a page ended with unfollowed it before the next was read.    *)
EveryFollowerIsTold ==
  \A a \in Story : queuedAt[a] /\ fan[a].cats = <<>> =>
    \A x \in owed[a] : notes[x[1]][a].status # "none" \/ CutOff(a, x[1], x[2])

(* What the ledger calls sent was sent.                                    *)
SentWasMailed ==
  \A x \in Pair : NoteRow(x).status = "ENVIADO" => mailed[x[1]][x[2]] > 0

(* A reader gets an article again only with a reason: an answer that was   *)
(* lost, a process that stopped before the row was written, or another     *)
(* delivery that read the same row.                                        *)
RepeatsHaveAReason ==
  \A x \in Pair : mailed[x[1]][x[2]] <= 1 + excuse[x[1]][x[2]]

(* Attempts end: a row is sent, or used up, unless its reader stops the    *)
(* e-mails; no failure is tried for ever.                                  *)
Awaiting(x) ==
  NoteRow(x).status = "PENDENTE" /\ NoteRow(x).attempts < MAX_ATTEMPTS /\ wishes[x[1]].cadence # "NUNCA"
NotesAreDecided == \A x \in Pair : Awaiting(x) ~> ~Awaiting(x)
=============================================================================
