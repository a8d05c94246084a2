---------------------- MODULE PackagePurchasesProofs -----------------------
(***************************************************************************)
(* What holds of the purchase of a pacote for any number of readers,       *)
(* pacotes, articles, sessions and concurrent requests.                    *)
(***************************************************************************)
EXTENDS PackagePurchases, TLAPS

(* The identifiers of rows never include the null one.                     *)
LEMMA NoneIsNoRow == None \notin PurchaseId
BY DEF None, PurchaseId

LEMMA NoRowType == NoRow \in Row
BY DEF NoRow, Row, RowStatus, None

LEMMA NewRowType ==
  ASSUME NEW st \in RowStatus, NEW so \in {"STRIPE", "MANUAL"},
         NEW r \in Reader \cup {None}, NEW k \in Package \cup {None},
         NEW S \in SUBSET Article
  PROVE  NewRow(st, so, r, k, S) \in Row
BY DEF NewRow, NoRow, Row, RowStatus, None

LEMMA IdleTypes ==
  /\ TabIdle \in TabRequest
  /\ HookIdle \in Delivery
  /\ AdminIdle \in AdminRequest
BY DEF TabIdle, TabRequest, HookIdle, Delivery, AdminIdle, AdminRequest,
       NoEvent, None

LEMMA MarkedType ==
  ASSUME NEW row \in Row, NEW kind
  PROVE  Marked(row, kind) \in Row /\ Revoked(row) \in Row
BY DEF Marked, Revoked, Row, RowStatus

LEMMA ChangedRowType ==
  ASSUME NEW row \in Row
  PROVE  /\ \A S \in SUBSET Article : [row EXCEPT !.snapshot = S] \in Row
         /\ \A s \in Session \cup {NoSession} :
              [row EXCEPT !.session = s] \in Row
         /\ \A st \in RowStatus : [row EXCEPT !.status = st] \in Row
         /\ \A st \in RowStatus, s \in Session \cup {NoSession} :
              [row EXCEPT !.status = st, !.intent = s] \in Row
BY DEF Row

(* Rows stay rows when one of them takes a new value that is a row.        *)
LEMMA RowMoves ==
  ASSUME RowsOK, NEW p \in PurchaseId, NEW row \in Row,
         purchase' = [purchase EXCEPT ![p] = row],
         recent' \subseteq PurchaseId, items' \subseteq PurchaseId \X Article
  PROVE  RowsOK'
BY DEF RowsOK

LEMMA InitType == Init => TypeOK
<1> SUFFICES ASSUME Init PROVE TypeOK
  OBVIOUS
<1>1. NewsroomOK
  BY PurchasesAssumption DEF Init, NewsroomOK, ArticleStatus
<1>2. RowsOK
  BY NoRowType DEF Init, RowsOK
<1>3. StripeOK
  BY DEF Init, NotOpened, StripeOK
<1>4. /\ tab \in [Tab -> TabRequest]
      /\ hook \in [Worker -> Delivery]
      /\ admin \in [Admin -> AdminRequest]
  BY IdleTypes DEF Init
<1>5. /\ \A t \in Tab : tab[t].pc = "idle"
      /\ \A w \in Worker : hook[w].pc = "idle"
      /\ \A d \in Admin : admin[d].pc = "idle"
  BY DEF Init, TabIdle, HookIdle, AdminIdle
<1>6. faults \in 0..MaxFaults
  BY PurchasesAssumption DEF Init
<1>7. RequestsOK
  BY <1>4, <1>5, <1>6 DEF RequestsOK, TabOK, HookOK, AdminOK
<1>8. QED
  BY <1>1, <1>2, <1>3, <1>7 DEF TypeOK

LEMMA OfferType ==
  ASSUME TypeOK, NEW k \in Package
  PROVE  Offer(k) \in SUBSET Article
BY DEF Offer, Published, TypeOK, NewsroomOK

LEMMA RowsForType ==
  ASSUME NEW e
  PROVE  RowsFor(e) \subseteq PurchaseId
BY DEF RowsFor

(* A request's next state, when it is well formed, keeps all of its kind so. *)
LEMMA TabMoves ==
  ASSUME RequestsOK, NEW t \in Tab, NEW req \in TabRequest,
         tab' = [tab EXCEPT ![t] = req],
         req.pc \in {"session", "link"} => req.row # None,
         req.pc = "link" => req.session # NoSession,
         UNCHANGED <<hook, admin, faults>>, sent \subseteq sent'
  PROVE  RequestsOK'
BY DEF RequestsOK, TabOK, HookOK, AdminOK

LEMMA HookMoves ==
  ASSUME RequestsOK, NEW w \in Worker, NEW req \in Delivery,
         hook' = [hook EXCEPT ![w] = req],
         req.pc # "idle" => req.event \in sent,
         req.pc \in {"settle", "reverse"} => req.row # None,
         UNCHANGED <<tab, admin, faults>>, sent \subseteq sent'
  PROVE  RequestsOK'
BY DEF RequestsOK, TabOK, HookOK, AdminOK

LEMMA AdminMoves ==
  ASSUME RequestsOK, NEW d \in Admin, NEW req \in AdminRequest,
         admin' = [admin EXCEPT ![d] = req],
         req.pc = "revoke" => req.row # None,
         UNCHANGED <<tab, hook, faults>>, sent \subseteq sent'
  PROVE  RequestsOK'
BY DEF RequestsOK, TabOK, HookOK, AdminOK

LEMMA RequestsStay ==
  ASSUME RequestsOK, UNCHANGED <<tab, hook, admin, faults>>,
         sent \subseteq sent'
  PROVE  RequestsOK'
BY DEF RequestsOK, TabOK, HookOK, AdminOK

LEMMA OthersStay ==
  /\ NewsroomOK /\ UNCHANGED newsroom => NewsroomOK'
  /\ RowsOK /\ UNCHANGED <<purchase, recent, items>> => RowsOK'
  /\ StripeOK /\ UNCHANGED stripe /\ UNCHANGED ledger => StripeOK'
BY DEF NewsroomOK, RowsOK, StripeOK, newsroom, stripe

LEMMA TabType ==
  ASSUME TypeOK, TabNext
  PROVE  TypeOK'
<1> USE NoneIsNoRow DEF TypeOK
<1>1. ASSUME NEW t \in Tab, NEW r \in Reader, NEW k \in Package,
             ReadOffer(t, r, k)
      PROVE  TypeOK'
  <2> DEFINE req == [TabIdle EXCEPT !.pc = "owned", !.reader = r,
                                    !.package = k, !.offer = Offer(k)]
  <2>1. req \in TabRequest /\ req.pc = "owned"
    BY OfferType DEF TabRequest, TabIdle
  <2> HIDE DEF req
  <2>2. tab' = [tab EXCEPT ![t] = req]
    BY <1>1 DEF ReadOffer, req
  <2>3. RequestsOK'
    BY <1>1, <2>1, <2>2, TabMoves DEF ReadOffer, stripe
  <2>4. QED
    BY <1>1, <2>3, OthersStay DEF ReadOffer
<1>2. ASSUME NEW t \in Tab, CheckOwned(t)
      PROVE  TypeOK'
  <2>1. PICK req \in {TabIdle, [tab[t] EXCEPT !.pc = "reuse"]} :
          tab' = [tab EXCEPT ![t] = req]
    BY <1>2 DEF CheckOwned
  <2>2. req \in TabRequest /\ req.pc \in {"idle", "reuse"}
    BY <2>1, IdleTypes DEF RequestsOK, TabRequest, TabIdle
  <2>3. RequestsOK'
    BY <1>2, <2>1, <2>2, TabMoves DEF CheckOwned, stripe
  <2>4. QED
    BY <1>2, <2>3, OthersStay DEF CheckOwned
<1>3. ASSUME NEW t \in Tab, FindReusable(t)
      PROVE  TypeOK'
  <2>1. PICK p \in PurchaseId \cup {None} :
          tab' = [tab EXCEPT ![t] = [tab[t] EXCEPT !.pc = "write", !.row = p]]
    BY <1>3 DEF FindReusable, Reusable, RowsOK
  <2> DEFINE req == [tab[t] EXCEPT !.pc = "write", !.row = p]
  <2>2. req \in TabRequest /\ req.pc = "write"
    BY DEF RequestsOK, TabRequest
  <2> HIDE DEF req
  <2>3. RequestsOK'
    BY <1>3, <2>1, <2>2, TabMoves DEF FindReusable, stripe, req
  <2>4. QED
    BY <1>3, <2>3, OthersStay DEF FindReusable
<1>4. ASSUME NEW t \in Tab, ReuseRow(t)
      PROVE  TypeOK'
  <2> DEFINE req == [tab[t] EXCEPT !.pc = "session"]
  <2>1. req \in TabRequest /\ req.pc = "session" /\ req.row # None
    BY <1>4 DEF ReuseRow, RequestsOK, TabRequest
  <2> HIDE DEF req
  <2>2. RequestsOK'
    BY <1>4, <2>1, TabMoves DEF ReuseRow, stripe, req
  <2>3. tab[t].offer \in SUBSET Article
    BY DEF RequestsOK, TabRequest
  <2>4. tab[t].row \in PurchaseId /\ purchase[tab[t].row] \in Row
    BY <1>4 DEF ReuseRow, RequestsOK, TabRequest, RowsOK
  <2>5. purchase' = [purchase EXCEPT ![tab[t].row] =
                       [purchase[tab[t].row] EXCEPT !.snapshot = tab[t].offer]]
    BY <1>4 DEF ReuseRow
  <2>6. [purchase[tab[t].row] EXCEPT !.snapshot = tab[t].offer] \in Row
    BY <2>3, <2>4, ChangedRowType
  <2>7. RowsOK'
    <3>1. RowsOK
      OBVIOUS
    <3>2. recent' \subseteq PurchaseId /\ items' \subseteq PurchaseId \X Article
      BY <1>4 DEF ReuseRow, RowsOK
    <3> QED
      BY <2>4, <2>5, <2>6, <3>1, <3>2, RowMoves
  <2>8. QED
    BY <1>4, <2>2, <2>7, OthersStay DEF ReuseRow
<1>5. ASSUME NEW t \in Tab, CreateRow(t)
      PROVE  TypeOK'
  <2>1. PICK p \in Unused :
          /\ purchase' = [purchase EXCEPT ![p] =
               NewRow("PENDENTE", "STRIPE", tab[t].reader, tab[t].package,
                      tab[t].offer)]
          /\ recent' = recent \cup {p}
          /\ tab' = [tab EXCEPT ![t] =
                       [tab[t] EXCEPT !.pc = "session", !.row = p]]
    BY <1>5 DEF CreateRow
  <2>2. p \in PurchaseId /\ p # None
    BY <2>1 DEF Unused
  <2> DEFINE req == [tab[t] EXCEPT !.pc = "session", !.row = p]
  <2>3. req \in TabRequest /\ req.pc = "session" /\ req.row # None
    BY <2>2 DEF RequestsOK, TabRequest
  <2> HIDE DEF req
  <2>4. RequestsOK'
    BY <1>5, <2>1, <2>3, TabMoves DEF CreateRow, stripe, req
  <2>5. /\ tab[t].offer \in SUBSET Article
        /\ tab[t].reader \in Reader \cup {None}
        /\ tab[t].package \in Package \cup {None}
    BY DEF RequestsOK, TabRequest
  <2>6. RowsOK'
    BY <1>5, <2>1, <2>2, <2>5, NewRowType DEF CreateRow, RowsOK, RowStatus
  <2>7. QED
    BY <1>5, <2>4, <2>6, OthersStay DEF CreateRow
<1>6. ASSUME NEW t \in Tab, NEW s \in Session, OpenSession(t, s)
      PROVE  TypeOK'
  <2> DEFINE req == [tab[t] EXCEPT !.pc = "link", !.session = s]
  <2>0. tab[t] \in TabRequest /\ tab[t].row # None /\ s # NoSession
    BY <1>6, PurchasesAssumption DEF OpenSession, RequestsOK, TabOK
  <2>1. /\ req \in TabRequest /\ req.pc = "link"
        /\ req.row # None /\ req.session # NoSession
    BY <2>0 DEF TabRequest
  <2> HIDE DEF req
  <2>2. RequestsOK'
    BY <1>6, <2>1, TabMoves DEF OpenSession, req
  <2>3. tab[t].offer \in SUBSET Article /\ tab[t].row \in PurchaseId \cup {None}
    BY DEF RequestsOK, TabRequest
  <2>4. StripeOK'
    BY <1>6, <2>3 DEF OpenSession, StripeOK
  <2>5. QED
    BY <1>6, <2>2, <2>4, OthersStay DEF OpenSession
<1>7. ASSUME NEW t \in Tab, LinkSession(t)
      PROVE  TypeOK'
  <2>1. RequestsOK'
    BY <1>7, IdleTypes, TabMoves DEF LinkSession, TabIdle, stripe
  <2>2. tab[t].session \in Session \cup {NoSession}
    BY DEF RequestsOK, TabRequest
  <2>3. tab[t].row \in PurchaseId /\ purchase[tab[t].row] \in Row
    BY <1>7 DEF LinkSession, RequestsOK, TabOK, TabRequest, RowsOK
  <2>4. purchase' = [purchase EXCEPT ![tab[t].row] =
                       [purchase[tab[t].row] EXCEPT !.session = tab[t].session]]
    BY <1>7 DEF LinkSession
  <2>5. [purchase[tab[t].row] EXCEPT !.session = tab[t].session] \in Row
    BY <2>2, <2>3, ChangedRowType
  <2>6. RowsOK'
    <3>1. RowsOK
      OBVIOUS
    <3>2. recent' \subseteq PurchaseId /\ items' \subseteq PurchaseId \X Article
      BY <1>7 DEF LinkSession, RowsOK
    <3> QED
      BY <2>3, <2>4, <2>5, <3>1, <3>2, RowMoves
  <2>7. QED
    BY <1>7, <2>1, <2>6, OthersStay DEF LinkSession
<1>8. QED
  BY <1>1, <1>2, <1>3, <1>4, <1>5, <1>6, <1>7 DEF TabNext

LEMMA StripeType ==
  ASSUME TypeOK, StripeNext
  PROVE  TypeOK'
<1>1. PICK k \in Kinds, s \in Session : Emit(k, s)
  BY DEF StripeNext
<1>2. Ev(k, s) \in Event
  BY PurchasesAssumption DEF Ev, Event
<1>3. StripeOK' /\ sent \subseteq sent'
  BY <1>1, <1>2 DEF Emit, TypeOK, StripeOK
<1>4. QED
  BY <1>1, <1>3, OthersStay, RequestsStay DEF Emit, TypeOK

LEMMA HookType ==
  ASSUME TypeOK, HookNext
  PROVE  TypeOK'
<1> USE NoneIsNoRow DEF TypeOK
<1>1. ASSUME NEW w \in Worker, NEW e \in sent, Deliver(w, e)
      PROVE  TypeOK'
  <2> DEFINE req == [HookIdle EXCEPT !.pc = "dispatch", !.event = e]
  <2>1. req \in Delivery /\ req.pc = "dispatch" /\ req.event = e
    BY DEF StripeOK, Delivery, HookIdle
  <2> HIDE DEF req
  <2>2. hook' = [hook EXCEPT ![w] = req]
    BY <1>1 DEF Deliver, req
  <2>3. RequestsOK'
    BY <1>1, <2>1, <2>2, HookMoves DEF Deliver, stripe
  <2>4. QED
    BY <1>1, <2>3, OthersStay DEF Deliver
<1>2. ASSUME NEW w \in Worker, ReadRow(w)
      PROVE  TypeOK'
  <2>1. hook[w] \in Delivery /\ hook[w].event \in sent
    BY <1>2 DEF ReadRow, RequestsOK, HookOK
  <2>2. PICK req \in Delivery :
          /\ hook' = [hook EXCEPT ![w] = req]
          /\ req.event = hook[w].event
          /\ req.pc \in {"settle", "reverse"} => req.row # None
    <3> DEFINE e == hook[w].event
               found(p) ==
                 [hook[w] EXCEPT
                    !.pc = IF e.kind \in Settling THEN "settle" ELSE "reverse",
                    !.row = p,
                    !.offer = IF e.kind \in Settling THEN purchase[p].snapshot
                                                     ELSE {},
                    !.revoking = /\ e.kind \in {"refund_total", "dispute_lost"}
                                 /\ purchase[p].status = "PAGO"]
    <3>1. CASE RowsFor(e) = {}
      <4> DEFINE lost == [hook[w] EXCEPT !.pc = "record"]
      <4>1. /\ lost \in Delivery /\ lost.pc = "record"
            /\ lost.event = hook[w].event
        BY <2>1 DEF Delivery
      <4>2. hook' = [hook EXCEPT ![w] = lost]
        BY <1>2, <3>1 DEF ReadRow
      <4> QED
        BY <4>1, <4>2
    <3>2. CASE RowsFor(e) # {}
      <4>1. PICK p \in RowsFor(e) : hook' = [hook EXCEPT ![w] = found(p)]
        BY <1>2, <3>2 DEF ReadRow
      <4>2. p \in PurchaseId /\ purchase[p].snapshot \in SUBSET Article
        BY <4>1, RowsForType DEF RowsOK, Row
      <4>3. /\ found(p) \in Delivery /\ found(p).event = hook[w].event
            /\ found(p).row = p
        BY <2>1, <4>2 DEF Delivery
      <4> QED
        BY <4>1, <4>2, <4>3
    <3> QED
      BY <3>1, <3>2
  <2>3. RequestsOK'
    BY <1>2, <2>1, <2>2, HookMoves DEF ReadRow, stripe
  <2>4. QED
    BY <1>2, <2>3, OthersStay DEF ReadRow
<1>3. ASSUME NEW w \in Worker, SettleTx(w)
      PROVE  TypeOK'
  <2> DEFINE p == hook[w].row
  <2>1. /\ hook[w].event \in sent /\ hook[w].event.session \in Session
        /\ p \in PurchaseId /\ purchase[p] \in Row
        /\ hook[w].offer \in SUBSET Article
    BY <1>3 DEF SettleTx, RequestsOK, HookOK, Delivery, StripeOK, Event, RowsOK
  <2>2. RequestsOK'
    BY <1>3, IdleTypes, HookMoves DEF SettleTx, HookIdle, stripe
  <2>3. StripeOK'
    BY <1>3, <2>1 DEF SettleTx, StripeOK, stripe
  <2>4. items' \subseteq PurchaseId \X Article
    BY <1>3, <2>1 DEF SettleTx, Entitlement, RowsOK
  <2>5. \/ UNCHANGED purchase
        \/ purchase' = [purchase EXCEPT ![p] =
             Promoted(purchase[p], hook[w].event)]
    BY <1>3, <2>1 DEF SettleTx, RowsOK
  <2>6. Promoted(purchase[p], hook[w].event) \in Row
    BY <2>1, ChangedRowType DEF RowStatus, Promoted
  <2>7. RowsOK'
    BY <1>3, <2>1, <2>4, <2>5, <2>6, RowMoves DEF SettleTx, RowsOK
  <2>8. QED
    BY <1>3, <2>2, <2>3, <2>7, OthersStay DEF SettleTx
<1>4. ASSUME NEW w \in Worker, ReverseTx(w)
      PROVE  TypeOK'
  <2> DEFINE p == hook[w].row
             marked == Marked(purchase[p], hook[w].event.kind)
  <2>1. /\ hook[w].event \in sent /\ p \in PurchaseId /\ purchase[p] \in Row
    BY <1>4 DEF ReverseTx, RequestsOK, HookOK, Delivery, RowsOK
  <2>2. RequestsOK'
    BY <1>4, IdleTypes, HookMoves DEF ReverseTx, HookIdle, stripe
  <2>3. StripeOK'
    BY <1>4, <2>1 DEF ReverseTx, StripeOK, stripe
  <2>4. items' \subseteq PurchaseId \X Article
    BY <1>4 DEF ReverseTx, ItemsWithout, RowsOK
  <2>5. marked \in Row /\ Revoked(marked) \in Row
    BY <2>1, MarkedType
  <2>6. PICK row \in {purchase[p], marked, Revoked(marked)} :
          purchase' = [purchase EXCEPT ![p] = row]
    BY <1>4, <2>1 DEF ReverseTx, RowsOK
  <2>7. RowsOK'
    BY <1>4, <2>1, <2>4, <2>5, <2>6, RowMoves DEF ReverseTx, RowsOK
  <2>8. QED
    BY <1>4, <2>2, <2>3, <2>7, OthersStay DEF ReverseTx
<1>5. ASSUME NEW w \in Worker, ExpireRow(w)
      PROVE  TypeOK'
  <2> DEFINE req == [hook[w] EXCEPT !.pc = "record"]
  <2>1. /\ req \in Delivery /\ req.pc = "record"
        /\ req.event = hook[w].event /\ hook[w].event \in sent
    BY <1>5 DEF ExpireRow, RequestsOK, HookOK, Delivery
  <2> HIDE DEF req
  <2>2. RequestsOK'
    BY <1>5, <2>1, HookMoves DEF ExpireRow, stripe, req
  <2>3. \A p \in PurchaseId :
          purchase[p] \in Row /\ [purchase[p] EXCEPT !.status = "EXPIRADO"] \in Row
    BY DEF RowsOK, Row, RowStatus
  <2>4. purchase' \in [PurchaseId -> Row]
    BY <1>5, <2>3 DEF ExpireRow
  <2>5. RowsOK'
    BY <1>5, <2>4 DEF ExpireRow, RowsOK
  <2>6. QED
    BY <1>5, <2>2, <2>5, OthersStay DEF ExpireRow
<1>6. ASSUME NEW w \in Worker, Record(w)
      PROVE  TypeOK'
  <2>1. hook[w].event \in sent
    BY <1>6 DEF Record, RequestsOK, HookOK
  <2>2. RequestsOK'
    BY <1>6, IdleTypes, HookMoves DEF Record, HookIdle, stripe
  <2>3. StripeOK'
    BY <1>6, <2>1 DEF Record, StripeOK, stripe
  <2>4. QED
    BY <1>6, <2>2, <2>3, OthersStay DEF Record
<1>7. QED
  BY <1>1, <1>2, <1>3, <1>4, <1>5, <1>6 DEF HookNext, HookStep

LEMMA AdminType ==
  ASSUME TypeOK, AdminNext
  PROVE  TypeOK'
<1> USE NoneIsNoRow DEF TypeOK
<1>1. ASSUME NEW d \in Admin, NEW r \in Reader, NEW k \in Package,
             ReadForGrant(d, r, k)
      PROVE  TypeOK'
  <2> DEFINE req == [AdminIdle EXCEPT !.pc = "owned", !.reader = r,
                                      !.package = k, !.offer = members[k]]
  <2>1. req \in AdminRequest /\ req.pc = "owned"
    BY DEF NewsroomOK, AdminRequest, AdminIdle
  <2> HIDE DEF req
  <2>2. admin' = [admin EXCEPT ![d] = req]
    BY <1>1 DEF ReadForGrant, req
  <2>3. RequestsOK'
    BY <1>1, <2>1, <2>2, AdminMoves DEF ReadForGrant, stripe
  <2>4. QED
    BY <1>1, <2>3, OthersStay DEF ReadForGrant
<1>2. ASSUME NEW d \in Admin, CheckGrant(d)
      PROVE  TypeOK'
  <2>1. PICK req \in {AdminIdle, [admin[d] EXCEPT !.pc = "grant"]} :
          admin' = [admin EXCEPT ![d] = req]
    BY <1>2 DEF CheckGrant
  <2>2. req \in AdminRequest /\ req.pc \in {"idle", "grant"}
    BY <2>1, IdleTypes DEF RequestsOK, AdminRequest, AdminIdle
  <2>3. RequestsOK'
    BY <1>2, <2>1, <2>2, AdminMoves DEF CheckGrant, stripe
  <2>4. QED
    BY <1>2, <2>3, OthersStay DEF CheckGrant
<1>3. ASSUME NEW d \in Admin, GrantTx(d)
      PROVE  TypeOK'
  <2>1. /\ admin[d].offer \in SUBSET Article
        /\ admin[d].reader \in Reader \cup {None}
        /\ admin[d].package \in Package \cup {None}
    BY DEF RequestsOK, AdminRequest
  <2>2. RequestsOK'
    BY <1>3, IdleTypes, AdminMoves DEF GrantTx, AdminIdle, stripe
  <2>3. RowsOK'
    <3>1. CASE UNCHANGED <<purchase, items>>
      BY <1>3, <3>1, OthersStay DEF GrantTx
    <3>2. CASE ~UNCHANGED <<purchase, items>>
      <4>1. PICK p \in Unused :
              /\ purchase' = [purchase EXCEPT ![p] =
                   NewRow("PAGO", "MANUAL", admin[d].reader,
                          admin[d].package, admin[d].offer)]
              /\ items' = items \cup Entitlement(p, admin[d].offer)
        BY <1>3, <3>2 DEF GrantTx
      <4>2. p \in PurchaseId
        BY <4>1 DEF Unused
      <4>3. NewRow("PAGO", "MANUAL", admin[d].reader, admin[d].package,
                   admin[d].offer) \in Row
        BY <2>1, NewRowType DEF RowStatus
      <4>4. /\ items' \subseteq PurchaseId \X Article
            /\ recent' \subseteq PurchaseId
        BY <1>3, <2>1, <4>1, <4>2 DEF GrantTx, RowsOK, Entitlement
      <4> QED
        BY <4>1, <4>2, <4>3, <4>4, RowMoves
    <3> QED
      BY <3>1, <3>2
  <2>4. QED
    BY <1>3, <2>2, <2>3, OthersStay DEF GrantTx
<1>4. ASSUME NEW d \in Admin, NEW p \in PurchaseId, ReadForRevoke(d, p)
      PROVE  TypeOK'
  <2> DEFINE req == [AdminIdle EXCEPT !.pc = "revoke", !.row = p]
  <2>1. req \in AdminRequest /\ req.row # None
    BY DEF AdminRequest, AdminIdle
  <2> HIDE DEF req
  <2>2. admin' = [admin EXCEPT ![d] = req]
    BY <1>4 DEF ReadForRevoke, req
  <2>3. RequestsOK'
    BY <1>4, <2>1, <2>2, AdminMoves DEF ReadForRevoke, stripe
  <2>4. QED
    BY <1>4, <2>3, OthersStay DEF ReadForRevoke
<1>5. ASSUME NEW d \in Admin, RevokeTx(d)
      PROVE  TypeOK'
  <2> DEFINE p == admin[d].row
  <2>1. p \in PurchaseId /\ purchase[p] \in Row
    BY <1>5 DEF RevokeTx, RequestsOK, AdminOK, AdminRequest, RowsOK
  <2>2. RequestsOK'
    BY <1>5, IdleTypes, AdminMoves DEF RevokeTx, AdminIdle, stripe
  <2>3. Revoked(purchase[p]) \in Row
    BY <2>1, MarkedType
  <2>4. items' \subseteq PurchaseId \X Article /\ recent' \subseteq PurchaseId
    BY <1>5 DEF RevokeTx, ItemsWithout, RowsOK
  <2>5. purchase' = [purchase EXCEPT ![p] = Revoked(purchase[p])]
    BY <1>5 DEF RevokeTx
  <2>6. RowsOK'
    BY <2>1, <2>3, <2>4, <2>5, RowMoves
  <2>7. QED
    BY <1>5, <2>2, <2>6, OthersStay DEF RevokeTx
<1>6. QED
  BY <1>1, <1>2, <1>3, <1>4, <1>5 DEF AdminNext

LEMMA NewsroomType ==
  ASSUME TypeOK, NewsroomNext
  PROVE  TypeOK'
<1>1. NewsroomOK'
  BY PurchasesAssumption
  DEF NewsroomNext, SetArticles, PublishPackage, UnpublishPackage,
      ArchiveArticle, DeleteArticle, TypeOK, NewsroomOK, ArticleStatus
<1>2. RowsOK'
  BY DEF NewsroomNext, SetArticles, PublishPackage, UnpublishPackage,
         ArchiveArticle, DeleteArticle, TypeOK, RowsOK
<1>3. /\ UNCHANGED stripe /\ UNCHANGED ledger
      /\ UNCHANGED <<tab, hook, admin, faults>>
  BY DEF NewsroomNext, SetArticles, PublishPackage, UnpublishPackage,
         ArchiveArticle, DeleteArticle
<1>4. QED
  BY <1>1, <1>2, <1>3, OthersStay, RequestsStay DEF TypeOK, stripe

LEMMA DieType ==
  ASSUME TypeOK, Die
  PROVE  TypeOK'
<1> USE DEF TypeOK
<1>1. faults' \in 0..MaxFaults
  BY PurchasesAssumption DEF Die, RequestsOK
<1>2. /\ TabIdle.pc = "idle" /\ HookIdle.pc = "idle" /\ AdminIdle.pc = "idle"
      /\ sent' = sent
  BY DEF TabIdle, HookIdle, AdminIdle, Die, stripe
<1>3. ASSUME NEW t \in Tab, tab' = [tab EXCEPT ![t] = TabIdle],
             UNCHANGED <<hook, admin>>
      PROVE  RequestsOK'
  BY <1>1, <1>2, <1>3, IdleTypes DEF RequestsOK, TabOK, HookOK, AdminOK
<1>4. ASSUME NEW w \in Worker, hook' = [hook EXCEPT ![w] = HookIdle],
             UNCHANGED <<tab, admin>>
      PROVE  RequestsOK'
  BY <1>1, <1>2, <1>4, IdleTypes DEF RequestsOK, TabOK, HookOK, AdminOK
<1>5. ASSUME NEW d \in Admin, admin' = [admin EXCEPT ![d] = AdminIdle],
             UNCHANGED <<tab, hook>>
      PROVE  RequestsOK'
  BY <1>1, <1>2, <1>5, IdleTypes DEF RequestsOK, TabOK, HookOK, AdminOK
<1>6. RequestsOK'
  BY <1>3, <1>4, <1>5 DEF Die
<1>7. QED
  BY <1>6, OthersStay DEF Die

LEMMA NextType == TypeOK /\ [Next]_vars => TypeOK'
<1> SUFFICES ASSUME TypeOK, [Next]_vars PROVE TypeOK'
  OBVIOUS
<1>1. CASE \E p \in PurchaseId : Age(p)
  <2>1. RowsOK'
    BY <1>1 DEF Age, TypeOK, RowsOK
  <2>2. QED
    BY <1>1, <2>1, OthersStay, RequestsStay DEF Age, TypeOK, stripe
<1>2. CASE UNCHANGED vars
  BY <1>2, OthersStay, RequestsStay DEF vars, TypeOK, newsroom, stripe
<1>3. QED
  BY <1>1, <1>2, TabType, StripeType, HookType, AdminType, NewsroomType,
     DieType DEF Next

(* Type correctness: what every request reads and writes is well formed,   *)
(* and only events Stripe sent are ever recorded as handled.               *)
THEOREM TypeCorrect == Spec => []TypeOK
<1>1. Init => TypeOK
  BY InitType
<1>2. TypeOK /\ [Next]_vars => TypeOK'
  BY NextType
<1>3. QED
  BY <1>1, <1>2, PTL DEF Spec

-----------------------------------------------------------------------------
(* The strengthening of ItemsOnlyWhilePaid and of the properties of        *)
(* payments that every step preserves is Inv.  A step is cut in two: what  *)
(* it does to the rows, and what every other request under way may still   *)
(* rely on afterwards, which is the same for all of them.                  *)

StoreInv == /\ ItemsOnlyWhilePaid
            /\ PaidByItsOwnPayment
            /\ GiftsAreBeyondStripe
            /\ RecordedPaymentIsDecided
            /\ SessionLinks
            /\ RowLinks

(* Rows go forward, keep their source, and sessions keep their row.        *)
Forward(p) ==
  \/ purchase'[p].status = purchase[p].status
  \/ /\ purchase[p].status = "NENHUM"
     /\ purchase'[p].status \in {"PENDENTE", "PAGO"}
  \/ /\ purchase[p].status = "PENDENTE"
     /\ purchase'[p].status \in {"PAGO", "EXPIRADO"}
  \/ /\ purchase[p].status = "PAGO"
     /\ purchase'[p].status = "REEMBOLSADO"

Moves ==
  /\ \A p \in PurchaseId :
       /\ Forward(p)
       /\ purchase[p].status # "NENHUM" =>
            purchase'[p].source = purchase[p].source
  /\ \A s \in Session :
       session[s].row # None => session'[s].row = session[s].row

LEMMA NothingMoves ==
  ASSUME UNCHANGED <<purchase, session>>
  PROVE  Moves
BY DEF Moves, Forward

(* What a request relied on before a step of another, it may rely on after.*)
LEMMA TabRelies ==
  ASSUME TypeOK, Moves, NEW t \in Tab, TabLinked(t), tab'[t] = tab[t]
  PROVE  TabLinked(t)'
<1>1. /\ tab[t].row \in PurchaseId \cup {None}
      /\ tab[t].pc = "link" => tab[t].session \in Session /\ tab[t].row # None
  BY DEF TypeOK, RequestsOK, TabOK, TabRequest
<1>2. QED
  BY <1>1 DEF TabLinked, Moves, Forward

LEMMA HookRelies ==
  ASSUME TypeOK, Moves, NEW w \in Worker, HookLinked(w), hook'[w] = hook[w]
  PROVE  HookLinked(w)'
<1>1. hook[w].pc \in {"settle", "reverse"} =>
        hook[w].row \in PurchaseId /\ hook[w].event.session \in Session
  BY DEF TypeOK, RequestsOK, HookOK, Delivery, StripeOK, Event
<1>2. hook[w].pc \in {"settle", "reverse"} => hook[w].row # None
  BY DEF TypeOK, RequestsOK, HookOK
<1>3. QED
  BY <1>1, <1>2 DEF HookLinked, Moves, Forward

LEMMA AdminRelies ==
  ASSUME TypeOK, Moves, NEW d \in Admin, AdminLinked(d), admin'[d] = admin[d]
  PROVE  AdminLinked(d)'
<1>1. admin[d].pc = "revoke" => admin[d].row \in PurchaseId
  BY DEF TypeOK, RequestsOK, AdminOK, AdminRequest
<1>2. QED
  BY <1>1 DEF AdminLinked, Moves, Forward

LEMMA TabSteps ==
  ASSUME TypeOK, RequestLinks, Moves, NEW t \in Tab, TabLinked(t)',
         NEW req, tab' = [tab EXCEPT ![t] = req], UNCHANGED <<hook, admin>>
  PROVE  RequestLinks'
<1>1. \A u \in Tab : u # t => tab'[u] = tab[u]
  BY DEF TypeOK, RequestsOK
<1>2. QED
  BY <1>1, TabRelies, HookRelies, AdminRelies DEF RequestLinks

LEMMA HookSteps ==
  ASSUME TypeOK, RequestLinks, Moves, NEW w \in Worker, HookLinked(w)',
         NEW req, hook' = [hook EXCEPT ![w] = req], UNCHANGED <<tab, admin>>
  PROVE  RequestLinks'
<1>1. \A u \in Worker : u # w => hook'[u] = hook[u]
  BY DEF TypeOK, RequestsOK
<1>2. QED
  BY <1>1, TabRelies, HookRelies, AdminRelies DEF RequestLinks

LEMMA AdminSteps ==
  ASSUME TypeOK, RequestLinks, Moves, NEW d \in Admin, AdminLinked(d)',
         NEW req, admin' = [admin EXCEPT ![d] = req], UNCHANGED <<tab, hook>>
  PROVE  RequestLinks'
<1>1. \A u \in Admin : u # d => admin'[u] = admin[u]
  BY DEF TypeOK, RequestsOK
<1>2. QED
  BY <1>1, TabRelies, HookRelies, AdminRelies DEF RequestLinks

LEMMA NoRequestSteps ==
  ASSUME TypeOK, RequestLinks, Moves, UNCHANGED <<tab, hook, admin>>
  PROVE  RequestLinks'
BY TabRelies, HookRelies, AdminRelies DEF RequestLinks

LEMMA StoreStays ==
  ASSUME TypeOK, StoreInv, UNCHANGED <<purchase, session, sent, ledger>>,
         items' \subseteq items
  PROVE  StoreInv' /\ Moves
<1>1. Moves
  BY NothingMoves
<1>2. StoreInv'
  BY DEF StoreInv, ItemsOnlyWhilePaid, PaidByItsOwnPayment, Charged, Sent,
         GiftsAreBeyondStripe, RecordedPaymentIsDecided, SessionLinks, RowLinks
<1> QED
  BY <1>1, <1>2

LEMMA InitInv == Init => TypeOK /\ StoreInv /\ RequestLinks
<1> SUFFICES ASSUME Init PROVE TypeOK /\ StoreInv /\ RequestLinks
  OBVIOUS
<1>1. TypeOK
  BY InitType
<1>2. StoreInv
  BY DEF Init, NoRow, NotOpened, StoreInv, ItemsOnlyWhilePaid,
         PaidByItsOwnPayment, GiftsAreBeyondStripe, RecordedPaymentIsDecided,
         SessionLinks, RowLinks
<1>3. RequestLinks
  BY DEF Init, TabIdle, HookIdle, AdminIdle, RequestLinks, TabLinked,
         HookLinked, AdminLinked
<1>4. QED
  BY <1>1, <1>2, <1>3

(* Steps of a reader's tab.                                                *)
LEMMA TabInv ==
  ASSUME TypeOK, StoreInv, RequestLinks, TabNext
  PROVE  StoreInv' /\ RequestLinks' /\ Moves
<1> USE NoneIsNoRow
<1>1. ASSUME NEW t \in Tab, NEW r \in Reader, NEW k \in Package,
             ReadOffer(t, r, k)
      PROVE  StoreInv' /\ RequestLinks' /\ Moves
  <2>1. StoreInv' /\ Moves
    BY <1>1, StoreStays DEF ReadOffer, stripe
  <2>2. TabLinked(t)'
    BY <1>1 DEF ReadOffer, TabLinked, TabIdle, TypeOK, RequestsOK
  <2>3. QED
    BY <1>1, <2>1, <2>2, TabSteps DEF ReadOffer
<1>2. ASSUME NEW t \in Tab, CheckOwned(t)
      PROVE  StoreInv' /\ RequestLinks' /\ Moves
  <2>1. StoreInv' /\ Moves
    BY <1>2, StoreStays DEF CheckOwned, stripe
  <2>2. TabLinked(t)'
    BY <1>2 DEF CheckOwned, TabLinked, TabIdle, TypeOK, RequestsOK,
                TabRequest, RequestLinks, stripe
  <2>3. QED
    BY <1>2, <2>1, <2>2, TabSteps DEF CheckOwned
<1>3. ASSUME NEW t \in Tab, FindReusable(t)
      PROVE  StoreInv' /\ RequestLinks' /\ Moves
  <2>1. StoreInv' /\ Moves
    BY <1>3, StoreStays DEF FindReusable, stripe
  <2>2. PICK p \in Reusable(tab[t].reader, tab[t].package) \cup {None} :
          tab' = [tab EXCEPT ![t] = [tab[t] EXCEPT !.pc = "write", !.row = p]]
    BY <1>3 DEF FindReusable
  <2>3. p # None => /\ purchase[p].status = "PENDENTE"
                    /\ purchase[p].source = "STRIPE"
    BY <2>2 DEF Reusable, StoreInv, RowLinks, TypeOK, RowsOK
  <2>4. TabLinked(t)'
    BY <1>3, <2>2, <2>3 DEF FindReusable, TabLinked, TypeOK, RequestsOK,
                            TabRequest
  <2>5. QED
    BY <1>3, <2>1, <2>2, <2>4, TabSteps DEF FindReusable
<1>4. ASSUME NEW t \in Tab, ReuseRow(t)
      PROVE  StoreInv' /\ RequestLinks' /\ Moves
  <2>1. /\ tab[t].row \in PurchaseId
        /\ purchase' = [purchase EXCEPT ![tab[t].row] =
             [purchase[tab[t].row] EXCEPT !.snapshot = tab[t].offer]]
    BY <1>4 DEF ReuseRow, TypeOK, RequestsOK, TabRequest
  <2>2. \A p \in PurchaseId :
          /\ purchase'[p].status = purchase[p].status
          /\ purchase'[p].source = purchase[p].source
          /\ purchase'[p].session = purchase[p].session
          /\ purchase'[p].intent = purchase[p].intent
          /\ purchase'[p].refund = purchase[p].refund
          /\ purchase'[p].disputed = purchase[p].disputed
    BY <2>1 DEF TypeOK, RowsOK, Row
  <2>3. Moves
    BY <1>4, <2>2 DEF Moves, Forward, ReuseRow, stripe
  <2>4. StoreInv'
    <3>0. UNCHANGED <<items, session, sent, ledger>>
      BY <1>4 DEF ReuseRow, stripe
    <3>1. ItemsOnlyWhilePaid' /\ GiftsAreBeyondStripe'
      BY <2>2, <3>0 DEF StoreInv, ItemsOnlyWhilePaid, GiftsAreBeyondStripe, TypeOK, RowsOK
    <3>2. PaidByItsOwnPayment'
      BY <2>2, <3>0 DEF StoreInv, PaidByItsOwnPayment, Charged, Sent
    <3>3. \A s \in Session : session[s].row \in PurchaseId \cup {None}
      BY DEF TypeOK, StripeOK
    <3>4. SessionLinks'
      BY <2>2, <3>0, <3>3 DEF StoreInv, SessionLinks
    <3>5. \A e \in ledger : session[e.session].row \in PurchaseId
      BY <3>3 DEF StoreInv, SessionLinks, TypeOK, StripeOK, Event
    <3>6. RecordedPaymentIsDecided'
      BY <2>2, <3>0, <3>5 DEF StoreInv, RecordedPaymentIsDecided, Ev
    <3>7. RowLinks'
      BY <2>2, <3>0 DEF StoreInv, RowLinks, Charged, Sent
    <3>. QED  BY <3>1, <3>2, <3>4, <3>6, <3>7 DEF StoreInv
  <2>5. TabLinked(t)'
    BY <1>4, <2>1, <2>2 DEF ReuseRow, TabLinked, TypeOK, RequestsOK,
                            TabRequest, RequestLinks, stripe
  <2>6. QED
    BY <1>4, <2>3, <2>4, <2>5, TabSteps DEF ReuseRow
<1>5. ASSUME NEW t \in Tab, CreateRow(t)
      PROVE  StoreInv' /\ RequestLinks' /\ Moves
  <2>1. PICK p \in Unused :
          /\ purchase' = [purchase EXCEPT ![p] =
               NewRow("PENDENTE", "STRIPE", tab[t].reader, tab[t].package,
                      tab[t].offer)]
          /\ tab' = [tab EXCEPT ![t] =
                       [tab[t] EXCEPT !.pc = "session", !.row = p]]
    BY <1>5 DEF CreateRow
  <2>2. p \in PurchaseId /\ purchase[p].status = "NENHUM"
    BY <2>1 DEF Unused
  <2>3. /\ purchase'[p].status = "PENDENTE"
        /\ purchase'[p].source = "STRIPE"
        /\ purchase'[p].session = NoSession
        /\ purchase'[p].intent = NoSession
        /\ \A q \in PurchaseId : q # p => purchase'[q] = purchase[q]
    BY <2>1, <2>2 DEF NewRow, NoRow, TypeOK, RowsOK
  <2>4. Moves
    BY <1>5, <2>2, <2>3 DEF Moves, Forward, CreateRow, stripe
  <2>5. UNCHANGED <<items, session, sent, ledger>>
    BY <1>5 DEF CreateRow, stripe
  <2>6. ItemsOnlyWhilePaid' /\ PaidByItsOwnPayment' /\ GiftsAreBeyondStripe'
    BY <2>2, <2>3, <2>5 DEF StoreInv, ItemsOnlyWhilePaid, PaidByItsOwnPayment,
       GiftsAreBeyondStripe, Charged, Sent, TypeOK, RowsOK
  <2>7. SessionLinks' /\ RowLinks'
    BY <2>2, <2>3, <2>5 DEF StoreInv, SessionLinks, RowLinks, Charged, Sent,
       TypeOK, StripeOK
  <2>8. RecordedPaymentIsDecided'
    <3> SUFFICES ASSUME NEW s \in Session, NEW k \in Settling \ NoMetadata,
                        Ev(k, s) \in ledger
                 PROVE  purchase'[session[s].row].status # "PENDENTE"
      BY <2>5 DEF RecordedPaymentIsDecided
    <3>1. Ev(k, s) \in sent /\ Ev(k, s).session = s
      BY DEF TypeOK, StripeOK, Ev
    <3>2. session[s].row \in PurchaseId /\ session[s].row # p
      BY <2>2, <3>1 DEF StoreInv, SessionLinks, TypeOK, StripeOK
    <3>3. purchase[session[s].row].status # "PENDENTE"
      BY DEF StoreInv, RecordedPaymentIsDecided
    <3> QED
      BY <2>3, <3>2, <3>3
  <2>9. TabLinked(t)'
    BY <2>1, <2>3 DEF TabLinked, TypeOK, RequestsOK, TabRequest
  <2>10. QED
    BY <1>5, <2>1, <2>4, <2>6, <2>7, <2>8, <2>9, TabSteps
    DEF CreateRow, StoreInv
<1>6. ASSUME NEW t \in Tab, NEW s \in Session, OpenSession(t, s)
      PROVE  StoreInv' /\ RequestLinks' /\ Moves
  <2>1. /\ UNCHANGED <<purchase, items, sent, ledger, hook, admin>>
        /\ session[s].row = None /\ session'[s].row = tab[t].row
        /\ \A u \in Session : u # s => session'[u] = session[u]
    BY <1>6 DEF OpenSession, TypeOK, StripeOK
  <2>2. /\ tab[t].row \in PurchaseId
        /\ purchase[tab[t].row].status # "NENHUM"
        /\ purchase[tab[t].row].source = "STRIPE"
    BY <1>6 DEF OpenSession, TypeOK, RequestsOK, TabOK, TabRequest,
                RequestLinks, TabLinked
  <2>3. Moves
    BY <2>1 DEF Moves, Forward
  <2>4. \A e \in sent : e.session \in Session /\ e.session # s
    BY <2>1 DEF StoreInv, SessionLinks, TypeOK, StripeOK, Event
  <2>5. \A k : Ev(k, s) \notin sent
    BY <2>4 DEF Ev
  <2>6. \A p \in PurchaseId : purchase[p].session # s /\ purchase[p].intent # s
    BY <2>1, PurchasesAssumption DEF StoreInv, RowLinks
  <2>7. SessionLinks'
    <3>1. \A u \in Session :
            session'[u].row # None => /\ purchase[session'[u].row].status # "NENHUM"
                                      /\ purchase[session'[u].row].source = "STRIPE"
      BY <2>1, <2>2 DEF StoreInv, SessionLinks
    <3>2. \A e \in sent : session'[e.session].row # None
      BY <2>1, <2>4 DEF StoreInv, SessionLinks
    <3> QED
      BY <2>1, <3>1, <3>2 DEF SessionLinks
  <2>8. RowLinks' /\ PaidByItsOwnPayment'
    BY <2>1, <2>6 DEF StoreInv, RowLinks, PaidByItsOwnPayment, Charged, Sent,
                      TypeOK, RowsOK, Row
  <2>9. ItemsOnlyWhilePaid' /\ GiftsAreBeyondStripe'
    BY <2>1 DEF StoreInv, ItemsOnlyWhilePaid, GiftsAreBeyondStripe
  <2>10. RecordedPaymentIsDecided'
    BY <2>1, <2>5 DEF StoreInv, RecordedPaymentIsDecided, TypeOK, StripeOK
  <2>11. TabLinked(t)'
    BY <1>6, <2>1, <2>2 DEF OpenSession, TabLinked, TypeOK, RequestsOK,
                            TabRequest
  <2>12. QED
    BY <1>6, <2>1, <2>3, <2>7, <2>8, <2>9, <2>10, <2>11, TabSteps
    DEF OpenSession, StoreInv
<1>7. ASSUME NEW t \in Tab, LinkSession(t)
      PROVE  StoreInv' /\ RequestLinks' /\ Moves
  <2> DEFINE p == tab[t].row
  <2>1. /\ p \in PurchaseId /\ tab[t].session \in Session
        /\ session[tab[t].session].row = p
    BY <1>7 DEF LinkSession, TypeOK, RequestsOK, TabOK, TabRequest,
                RequestLinks, TabLinked
  <2>2. purchase' = [purchase EXCEPT ![p] =
                       [purchase[p] EXCEPT !.session = tab[t].session]]
    BY <1>7 DEF LinkSession
  <2>3. /\ purchase'[p].session = tab[t].session
        /\ \A q \in PurchaseId :
             /\ purchase'[q].status = purchase[q].status
             /\ purchase'[q].source = purchase[q].source
             /\ purchase'[q].intent = purchase[q].intent
             /\ purchase'[q].refund = purchase[q].refund
             /\ purchase'[q].disputed = purchase[q].disputed
             /\ q # p => purchase'[q].session = purchase[q].session
    BY <2>1, <2>2 DEF TypeOK, RowsOK, Row
  <2>4. UNCHANGED <<items, session, sent, ledger, hook, admin>>
    BY <1>7 DEF LinkSession, stripe
  <2>5. Moves
    BY <2>3, <2>4 DEF Moves, Forward
  <2>6. StoreInv'
    <3>1. ItemsOnlyWhilePaid' /\ GiftsAreBeyondStripe'
      BY <2>3, <2>4 DEF StoreInv, ItemsOnlyWhilePaid, GiftsAreBeyondStripe,
                        TypeOK, RowsOK
    <3>2. PaidByItsOwnPayment'
      BY <2>3, <2>4 DEF StoreInv, PaidByItsOwnPayment, Charged, Sent
    <3>6. RecordedPaymentIsDecided'
      <4> SUFFICES ASSUME NEW s \in Session, NEW k \in Settling \ NoMetadata,
                          Ev(k, s) \in ledger
                   PROVE  purchase'[session[s].row].status # "PENDENTE"
        BY <2>4 DEF RecordedPaymentIsDecided
      <4>1. Ev(k, s) \in sent /\ Ev(k, s).session = s
        BY DEF TypeOK, StripeOK, Ev
      <4>2. session[s].row \in PurchaseId
        BY <4>1 DEF StoreInv, SessionLinks, TypeOK, StripeOK
      <4>3. purchase[session[s].row].status # "PENDENTE"
        BY DEF StoreInv, RecordedPaymentIsDecided
      <4> QED
        BY <2>3, <4>2, <4>3
    <3>3. SessionLinks'
      BY <2>3, <2>4 DEF StoreInv, SessionLinks, TypeOK, StripeOK, Event
    <3>4. RowLinks'
      BY <2>1, <2>3, <2>4 DEF StoreInv, RowLinks, Charged, Sent
    <3> QED
      BY <3>1, <3>2, <3>3, <3>4, <3>6 DEF StoreInv
  <2>7. TabLinked(t)'
    BY <1>7 DEF LinkSession, TabLinked, TabIdle, TypeOK, RequestsOK
  <2>8. QED
    BY <1>7, <2>4, <2>5, <2>6, <2>7, TabSteps DEF LinkSession
<1>8. QED
  BY <1>1, <1>2, <1>3, <1>4, <1>5, <1>6, <1>7 DEF TabNext

(* Stripe produces an event: payments only accumulate.                     *)
LEMMA StripeInv ==
  ASSUME TypeOK, StoreInv, RequestLinks, StripeNext
  PROVE  StoreInv' /\ RequestLinks' /\ Moves
<1>1. PICK k \in Kinds, s \in Session : Emit(k, s)
  BY DEF StripeNext
<1>2. /\ UNCHANGED <<purchase, items, session, ledger, tab, hook, admin>>
      /\ sent' = sent \cup {Ev(k, s)}
  BY <1>1 DEF Emit
<1>3. session[s].row # None
  <2>1. \A j : Sent(j, s) => session[s].row # None
    BY DEF Sent, Ev, StoreInv, SessionLinks
  <2>2. Open(s) \/ Charged(s) \/ \E j : Sent(j, s)
    BY <1>1 DEF Emit, Happens
  <2>3. QED
    BY <2>1, <2>2 DEF Open, Charged
<1>4. Moves
  BY <1>2, NothingMoves
<1>5. SessionLinks'
  BY <1>2, <1>3 DEF StoreInv, SessionLinks, Ev
<1>6. RowLinks' /\ PaidByItsOwnPayment'
  BY <1>2 DEF StoreInv, RowLinks, PaidByItsOwnPayment, Charged, Sent
<1>7. ItemsOnlyWhilePaid' /\ GiftsAreBeyondStripe' /\ RecordedPaymentIsDecided'
  BY <1>2 DEF StoreInv, ItemsOnlyWhilePaid, GiftsAreBeyondStripe,
              RecordedPaymentIsDecided
<1>8. QED
  BY <1>2, <1>4, <1>5, <1>6, <1>7, NoRequestSteps DEF StoreInv

(* The row a delivered event is found to be about is the row whose         *)
(* checkout opened the session, whichever way it was looked up.            *)
LEMMA RowsForIsTheRow ==
  ASSUME TypeOK, StoreInv, NEW e \in sent, NEW p \in RowsFor(e)
  PROVE  /\ p \in PurchaseId /\ session[e.session].row = p
         /\ purchase[p].status # "NENHUM" /\ purchase[p].source = "STRIPE"
<1>1. e.session \in Session /\ e.session # NoSession /\ p \in PurchaseId
  BY RowsForType, PurchasesAssumption DEF TypeOK, StripeOK, Event
<1>2. session[e.session].row = p
  BY <1>1 DEF RowsFor, StoreInv, RowLinks
<1>3. QED
  BY <1>1, <1>2, NoneIsNoRow DEF StoreInv, SessionLinks

LEMMA RowsForFindsIt ==
  ASSUME TypeOK, StoreInv, NEW e \in sent, e.kind \notin NoMetadata
  PROVE  RowsFor(e) # {}
<1>1. session[e.session].row \in PurchaseId
  BY DEF TypeOK, StripeOK, Event, StoreInv, SessionLinks
<1>2. session[e.session].row \in RowsFor(e)
  BY <1>1 DEF RowsFor
<1> QED
  BY <1>2

(* Steps of a webhook delivery.                                            *)
LEMMA HookInv ==
  ASSUME TypeOK, StoreInv, RequestLinks, HookNext
  PROVE  StoreInv' /\ RequestLinks' /\ Moves
<1> USE NoneIsNoRow
<1>1. ASSUME NEW w \in Worker, NEW e \in sent, Deliver(w, e)
      PROVE  StoreInv' /\ RequestLinks' /\ Moves
  <2>1. StoreInv' /\ Moves
    BY <1>1, StoreStays DEF Deliver, stripe
  <2>2. HookLinked(w)'
    BY <1>1 DEF Deliver, HookLinked, HookIdle, TypeOK, RequestsOK
  <2>3. QED
    BY <1>1, <2>1, <2>2, HookSteps DEF Deliver
<1>2. ASSUME NEW w \in Worker, ReadRow(w)
      PROVE  StoreInv' /\ RequestLinks' /\ Moves
  <2> DEFINE e == hook[w].event
  <2>1. StoreInv' /\ Moves
    BY <1>2, StoreStays DEF ReadRow, stripe
  <2>2. hook[w] \in Delivery /\ e \in sent
    BY <1>2 DEF ReadRow, TypeOK, RequestsOK, HookOK
  <2>3. HookLinked(w)' /\ \E req : hook' = [hook EXCEPT ![w] = req]
    <3>1. CASE RowsFor(e) = {}
      <4>1. hook' = [hook EXCEPT ![w] = [hook[w] EXCEPT !.pc = "record"]]
        BY <1>2, <3>1 DEF ReadRow
      <4>2. hook'[w].pc = "record" /\ hook'[w].event = e
        BY <2>2, <4>1 DEF TypeOK, RequestsOK, Delivery
      <4>3. e.kind \in NoMetadata
        BY <2>2, <3>1, RowsForFindsIt
      <4> QED
        BY <4>1, <4>2, <4>3 DEF HookLinked
    <3>2. CASE RowsFor(e) # {}
      <4>1. PICK p \in RowsFor(e) :
              hook' = [hook EXCEPT ![w] =
                [hook[w] EXCEPT
                   !.pc = IF e.kind \in Settling THEN "settle" ELSE "reverse",
                   !.row = p,
                   !.offer = IF e.kind \in Settling THEN purchase[p].snapshot
                                                    ELSE {},
                   !.revoking = /\ e.kind \in {"refund_total", "dispute_lost"}
                                /\ purchase[p].status = "PAGO"]]
        BY <1>2, <3>2 DEF ReadRow
      <4>2. /\ hook'[w].pc = IF e.kind \in Settling THEN "settle" ELSE "reverse"
            /\ hook'[w].event = e /\ hook'[w].row = p
            /\ hook'[w].revoking => purchase[p].status = "PAGO"
        BY <2>2, <4>1 DEF TypeOK, RequestsOK, Delivery
      <4>3. session[e.session].row = p
        BY <2>2, RowsForIsTheRow
      <4>4. UNCHANGED <<purchase, session>>
        BY <1>2 DEF ReadRow, stripe
      <4>5. e.kind \in Settling \/ e.kind \in Refunds \cup Disputes
        BY <1>2 DEF ReadRow, Handled
      <4>6. HookLinked(w)'
        BY <4>2, <4>3, <4>4, <4>5 DEF HookLinked
      <4> QED
        BY <4>1, <4>6
    <3> QED
      BY <3>1, <3>2
  <2>4. QED
    BY <1>2, <2>1, <2>3, HookSteps DEF ReadRow
<1>3. ASSUME NEW w \in Worker, SettleTx(w)
      PROVE  StoreInv' /\ RequestLinks' /\ Moves
  <2> DEFINE e == hook[w].event
             p == hook[w].row
  <2>1. /\ e \in sent /\ e.kind \in Settling /\ e.session \in Session
        /\ e = Ev(e.kind, e.session)
        /\ p \in PurchaseId /\ session[e.session].row = p
    BY <1>3 DEF SettleTx, TypeOK, RequestsOK, HookOK, Delivery, StripeOK,
                Event, Ev, RequestLinks, HookLinked
  <2>2. /\ purchase[p].status # "NENHUM" /\ purchase[p].source = "STRIPE"
        /\ IF e.kind = "completed_free" THEN Sent("completed_free", e.session)
                                        ELSE Charged(e.session)
    BY <2>1 DEF StoreInv, SessionLinks, Charged, Sent, Settling
  <2>3. /\ hook' = [hook EXCEPT ![w] = HookIdle]
        /\ UNCHANGED <<session, sent, tab, admin>>
    BY <1>3 DEF SettleTx, stripe
  <2>4. HookLinked(w)'
    BY <2>3 DEF HookLinked, HookIdle, TypeOK, RequestsOK
  <2>5. CASE UNCHANGED <<ledger, purchase, items>>
    BY <2>3, <2>4, <2>5, StoreStays, HookSteps
  <2>6. CASE /\ ledger' = ledger \cup {e}
             /\ purchase[p].status # "PENDENTE"
             /\ UNCHANGED <<purchase, items>>
    <3>1. Moves
      BY <2>3, <2>6, NothingMoves
    <3>2. ItemsOnlyWhilePaid' /\ GiftsAreBeyondStripe' /\ PaidByItsOwnPayment'
      BY <2>3, <2>6 DEF StoreInv, ItemsOnlyWhilePaid, GiftsAreBeyondStripe,
                        PaidByItsOwnPayment, Charged, Sent
    <3>3. SessionLinks' /\ RowLinks'
      BY <2>3, <2>6 DEF StoreInv, SessionLinks, RowLinks, Charged, Sent
    <3>4. RecordedPaymentIsDecided'
      BY <2>1, <2>3, <2>6 DEF StoreInv, RecordedPaymentIsDecided, Ev
    <3> QED
      BY <2>3, <2>4, <3>1, <3>2, <3>3, <3>4, HookSteps DEF StoreInv
  <2>7. CASE /\ ledger' = ledger \cup {e}
             /\ purchase[p].status = "PENDENTE"
             /\ purchase' = [purchase EXCEPT ![p] =
                  Promoted(purchase[p], e)]
             /\ items' = items \cup Entitlement(p, hook[w].offer)
    <3>1. /\ purchase'[p].status = "PAGO"
          /\ purchase'[p].intent = IF e.kind = "completed_free"
                                   THEN purchase[p].intent ELSE e.session
          /\ \A q \in PurchaseId :
               /\ purchase'[q].source = purchase[q].source
               /\ purchase'[q].session = purchase[q].session
               /\ q # p => purchase'[q] = purchase[q]
      BY <2>1, <2>7 DEF TypeOK, RowsOK, Row, Promoted
    <3>2. Moves
      BY <2>3, <2>7, <3>1 DEF Moves, Forward
    <3>3. ItemsOnlyWhilePaid'
      BY <2>1, <2>7, <3>1 DEF StoreInv, ItemsOnlyWhilePaid, Entitlement,
                              TypeOK, RowsOK
    <3>4. PaidByItsOwnPayment'
      <4>1. \A q \in PurchaseId :
              purchase[q].intent # NoSession => purchase[q].intent \in Session
        BY DEF TypeOK, RowsOK, Row
      <4>2. CASE e.kind = "completed_free"
        BY <2>1, <2>2, <2>3, <3>1, <4>1, <4>2
        DEF StoreInv, PaidByItsOwnPayment, RowLinks, Charged, Sent
      <4>3. CASE e.kind # "completed_free"
        BY <2>1, <2>2, <2>3, <3>1, <4>3
        DEF StoreInv, PaidByItsOwnPayment, Charged, Sent
      <4> QED
        BY <4>2, <4>3
    <3>5. GiftsAreBeyondStripe'
      BY <2>2, <3>1 DEF StoreInv, GiftsAreBeyondStripe
    <3>6. SessionLinks'
      BY <2>1, <2>2, <2>3, <3>1 DEF StoreInv, SessionLinks, TypeOK, StripeOK,
                                    Event
    <3>7. RowLinks'
      BY <2>1, <2>2, <2>3, <3>1 DEF StoreInv, RowLinks, Charged, Sent
    <3>8. RecordedPaymentIsDecided'
      <4> SUFFICES ASSUME NEW s \in Session, NEW k \in Settling \ NoMetadata,
                          Ev(k, s) \in ledger'
                   PROVE  purchase'[session[s].row].status # "PENDENTE"
        BY <2>3 DEF RecordedPaymentIsDecided
      <4>1. Ev(k, s) \in sent /\ Ev(k, s).session = s
        BY <2>1, <2>7 DEF TypeOK, StripeOK, Ev
      <4>2. session[s].row \in PurchaseId
        BY <4>1 DEF StoreInv, SessionLinks, TypeOK, StripeOK
      <4>3. CASE session[s].row = p
        BY <3>1, <4>3
      <4>4. CASE session[s].row # p
        <5>1. Ev(k, s) \in ledger
          BY <2>1, <2>7, <4>1, <4>4 DEF Ev
        <5> QED
          BY <3>1, <4>2, <4>4, <5>1 DEF StoreInv, RecordedPaymentIsDecided
      <4> QED
        BY <4>3, <4>4
    <3> QED
      BY <2>3, <2>4, <3>2, <3>3, <3>4, <3>5, <3>6, <3>7, <3>8, HookSteps
      DEF StoreInv
  <2>8. QED
    BY <1>3, <2>5, <2>6, <2>7 DEF SettleTx, Promotable
<1>4. ASSUME NEW w \in Worker, ReverseTx(w)
      PROVE  StoreInv' /\ RequestLinks' /\ Moves
  <2> DEFINE e == hook[w].event
             p == hook[w].row
             marked == Marked(purchase[p], e.kind)
  <2>1. /\ e \in sent /\ e.kind \in Refunds \cup Disputes
        /\ p \in PurchaseId /\ session[e.session].row = p
        /\ hook[w].revoking => purchase[p].status \in {"PAGO", "REEMBOLSADO"}
        /\ e.session \in Session
    BY <1>4 DEF ReverseTx, TypeOK, RequestsOK, HookOK, Delivery, StripeOK,
                Event, RequestLinks, HookLinked
  <2>2. purchase[p] \in Row /\ purchase[p].source = "STRIPE"
    BY <2>1 DEF StoreInv, SessionLinks, TypeOK, RowsOK
  <2>3. /\ hook' = [hook EXCEPT ![w] = HookIdle]
        /\ UNCHANGED <<session, sent, tab, admin>>
    BY <1>4 DEF ReverseTx, stripe
  <2>4. HookLinked(w)'
    BY <2>3 DEF HookLinked, HookIdle, TypeOK, RequestsOK
  <2>5. CASE UNCHANGED <<ledger, purchase, items>>
    BY <2>3, <2>4, <2>5, StoreStays, HookSteps
  <2>6. CASE /\ ledger' = ledger \cup {e}
             /\ \/ /\ purchase' = [purchase EXCEPT ![p] = marked]
                   /\ UNCHANGED items
                \/ /\ hook[w].revoking
                   /\ purchase' = [purchase EXCEPT ![p] = Revoked(marked)]
                   /\ items' = ItemsWithout(p)
    <3>1. /\ marked.status = purchase[p].status
          /\ \A row \in {marked, Revoked(marked)} :
               /\ row.source = purchase[p].source
               /\ row.session = purchase[p].session
               /\ row.intent = purchase[p].intent
          /\ Revoked(marked).status = "REEMBOLSADO"
      BY <2>2 DEF Marked, Revoked, Row
    <3>2. /\ \A q \in PurchaseId :
               /\ purchase'[q].source = purchase[q].source
               /\ purchase'[q].session = purchase[q].session
               /\ purchase'[q].intent = purchase[q].intent
               /\ q # p => purchase'[q] = purchase[q]
          /\ \/ purchase'[p].status = purchase[p].status /\ items' = items
             \/ /\ purchase[p].status \in {"PAGO", "REEMBOLSADO"}
                /\ purchase'[p].status = "REEMBOLSADO"
                /\ items' = ItemsWithout(p)
      BY <2>1, <2>6, <3>1 DEF TypeOK, RowsOK
    <3> HIDE DEF marked
    <3>3. Moves
      BY <2>3, <2>6, <3>2 DEF Moves, Forward
    <3>4. ItemsOnlyWhilePaid'
      BY <3>2 DEF StoreInv, ItemsOnlyWhilePaid, ItemsWithout, TypeOK, RowsOK
    <3>5. PaidByItsOwnPayment'
      BY <2>3, <3>2 DEF StoreInv, PaidByItsOwnPayment, Charged, Sent
    <3>6. GiftsAreBeyondStripe'
      BY <2>2, <3>2 DEF StoreInv, GiftsAreBeyondStripe
    <3>7. SessionLinks'
      BY <2>1, <2>3, <3>2 DEF StoreInv, SessionLinks, TypeOK, StripeOK, Event
    <3>8. RowLinks'
      BY <2>3, <3>2 DEF StoreInv, RowLinks, Charged, Sent
    <3>9. RecordedPaymentIsDecided'
      <4> SUFFICES ASSUME NEW s \in Session, NEW k \in Settling \ NoMetadata,
                          Ev(k, s) \in ledger'
                   PROVE  purchase'[session[s].row].status # "PENDENTE"
        BY <2>3 DEF RecordedPaymentIsDecided
      <4>1. Ev(k, s) \in ledger
        BY <2>1, <2>6 DEF Ev, Settling, Refunds, Disputes
      <4>2. /\ session[s].row \in PurchaseId
            /\ purchase[session[s].row].status # "PENDENTE"
        BY <4>1 DEF StoreInv, SessionLinks, RecordedPaymentIsDecided, TypeOK,
                    StripeOK, Ev
      <4> QED
        BY <3>2, <4>2
    <3> QED
      BY <2>3, <2>4, <3>3, <3>4, <3>5, <3>6, <3>7, <3>8, <3>9, HookSteps
      DEF StoreInv
  <2>7. QED
    BY <1>4, <2>5, <2>6 DEF ReverseTx
<1>5. ASSUME NEW w \in Worker, ExpireRow(w)
      PROVE  StoreInv' /\ RequestLinks' /\ Moves
  <2> DEFINE e == hook[w].event
             req == [hook[w] EXCEPT !.pc = "record"]
  <2>1. /\ e.kind = "expired" /\ hook' = [hook EXCEPT ![w] = req]
        /\ UNCHANGED <<session, sent, tab, admin, ledger, items>>
    BY <1>5 DEF ExpireRow, stripe
  <2>2. req.pc = "record" /\ req.event = e
    BY DEF TypeOK, RequestsOK, Delivery
  <2>3. HookLinked(w)'
    BY <2>1, <2>2 DEF HookLinked, Settling, TypeOK, RequestsOK
  <2>4. \A q \in PurchaseId :
          /\ purchase'[q].source = purchase[q].source
          /\ purchase'[q].session = purchase[q].session
          /\ purchase'[q].intent = purchase[q].intent
          /\ purchase'[q].refund = purchase[q].refund
          /\ purchase'[q].disputed = purchase[q].disputed
          /\ \/ purchase'[q] = purchase[q]
             \/ /\ purchase[q].status = "PENDENTE"
                /\ purchase'[q].status = "EXPIRADO"
    BY <1>5 DEF ExpireRow, TypeOK, RowsOK, Row
  <2>5. Moves
    BY <2>1, <2>4 DEF Moves, Forward
  <2>6. ItemsOnlyWhilePaid' /\ PaidByItsOwnPayment'
    BY <2>1, <2>4 DEF StoreInv, ItemsOnlyWhilePaid, PaidByItsOwnPayment, Charged,
                      Sent, TypeOK, RowsOK
  <2>7. GiftsAreBeyondStripe'
    BY <2>4 DEF StoreInv, GiftsAreBeyondStripe
  <2>8. SessionLinks'
    BY <2>1, <2>4 DEF StoreInv, SessionLinks, TypeOK, StripeOK, Event
  <2>9. RowLinks'
    BY <2>1, <2>4 DEF StoreInv, RowLinks, Charged, Sent
  <2>10. RecordedPaymentIsDecided'
    <3> SUFFICES ASSUME NEW s \in Session, NEW k \in Settling \ NoMetadata,
                        Ev(k, s) \in ledger
                 PROVE  purchase'[session[s].row].status # "PENDENTE"
      BY <2>1 DEF RecordedPaymentIsDecided
    <3>1. /\ session[s].row \in PurchaseId
          /\ purchase[session[s].row].status # "PENDENTE"
      BY DEF StoreInv, SessionLinks, RecordedPaymentIsDecided, TypeOK,
             StripeOK, Ev
    <3> QED
      BY <2>4, <3>1
  <2>11. QED
    BY <2>1, <2>3, <2>5, <2>6, <2>7, <2>8, <2>9, <2>10, HookSteps DEF StoreInv
<1>6. ASSUME NEW w \in Worker, Record(w)
      PROVE  StoreInv' /\ RequestLinks' /\ Moves
  <2> DEFINE e == hook[w].event
  <2>1. /\ hook' = [hook EXCEPT ![w] = HookIdle]
        /\ ledger' = ledger \cup {e}
        /\ UNCHANGED <<session, sent, tab, admin, purchase, items>>
    BY <1>6 DEF Record, stripe
  <2>2. e.kind \notin Settling \ NoMetadata
    BY <1>6 DEF Record, RequestLinks, HookLinked, OnlyRecorded, Settling,
                Unsettled
  <2>3. HookLinked(w)'
    BY <2>1 DEF HookLinked, HookIdle, TypeOK, RequestsOK
  <2>4. Moves
    BY <2>1, NothingMoves
  <2>5. /\ ItemsOnlyWhilePaid' /\ GiftsAreBeyondStripe'
        /\ PaidByItsOwnPayment' /\ SessionLinks' /\ RowLinks'
    BY <2>1 DEF StoreInv, ItemsOnlyWhilePaid, GiftsAreBeyondStripe,
                PaidByItsOwnPayment, SessionLinks, RowLinks, Charged, Sent
  <2>6. RecordedPaymentIsDecided'
    BY <2>1, <2>2 DEF StoreInv, RecordedPaymentIsDecided, Ev
  <2>7. QED
    BY <2>1, <2>3, <2>4, <2>5, <2>6, HookSteps DEF StoreInv
<1>7. QED
  BY <1>1, <1>2, <1>3, <1>4, <1>5, <1>6 DEF HookNext, HookStep

(* Steps of an administrator.                                              *)
LEMMA AdminInv ==
  ASSUME TypeOK, StoreInv, RequestLinks, AdminNext
  PROVE  StoreInv' /\ RequestLinks' /\ Moves
<1> USE NoneIsNoRow
<1>1. ASSUME NEW d \in Admin, NEW r \in Reader, NEW k \in Package,
             ReadForGrant(d, r, k)
      PROVE  StoreInv' /\ RequestLinks' /\ Moves
  <2>1. StoreInv' /\ Moves
    BY <1>1, StoreStays DEF ReadForGrant, stripe
  <2>2. AdminLinked(d)'
    BY <1>1 DEF ReadForGrant, AdminLinked, AdminIdle, TypeOK, RequestsOK
  <2>3. QED
    BY <1>1, <2>1, <2>2, AdminSteps DEF ReadForGrant
<1>2. ASSUME NEW d \in Admin, CheckGrant(d)
      PROVE  StoreInv' /\ RequestLinks' /\ Moves
  <2>1. StoreInv' /\ Moves
    BY <1>2, StoreStays DEF CheckGrant, stripe
  <2>2. AdminLinked(d)'
    BY <1>2 DEF CheckGrant, AdminLinked, AdminIdle, TypeOK, RequestsOK,
                AdminRequest
  <2>3. QED
    BY <1>2, <2>1, <2>2, AdminSteps DEF CheckGrant
<1>3. ASSUME NEW d \in Admin, GrantTx(d)
      PROVE  StoreInv' /\ RequestLinks' /\ Moves
  <2>1. /\ admin' = [admin EXCEPT ![d] = AdminIdle]
        /\ UNCHANGED <<session, sent, ledger, tab, hook>>
    BY <1>3 DEF GrantTx, stripe
  <2>2. AdminLinked(d)'
    BY <2>1 DEF AdminLinked, AdminIdle, TypeOK, RequestsOK
  <2>3. CASE UNCHANGED <<purchase, items>>
    BY <2>1, <2>2, <2>3, StoreStays, AdminSteps
  <2>4. ASSUME NEW p \in Unused,
               purchase' = [purchase EXCEPT ![p] =
                 NewRow("PAGO", "MANUAL", admin[d].reader, admin[d].package,
                        admin[d].offer)],
               items' = items \cup Entitlement(p, admin[d].offer)
        PROVE  StoreInv' /\ RequestLinks' /\ Moves
    <3>1. p \in PurchaseId /\ purchase[p].status = "NENHUM"
      BY <2>4 DEF Unused
    <3>2. /\ purchase'[p].status = "PAGO"
          /\ purchase'[p].source = "MANUAL"
          /\ purchase'[p].session = NoSession
          /\ purchase'[p].intent = NoSession
          /\ purchase'[p].refund = "none"
          /\ ~purchase'[p].disputed
          /\ \A q \in PurchaseId : q # p => purchase'[q] = purchase[q]
      BY <2>4, <3>1 DEF NewRow, NoRow, TypeOK, RowsOK
    <3>3. Moves
      BY <2>1, <3>1, <3>2 DEF Moves, Forward
    <3>4. ItemsOnlyWhilePaid'
      BY <2>4, <3>1, <3>2 DEF StoreInv, ItemsOnlyWhilePaid, Entitlement,
                              TypeOK, RowsOK
    <3>5. PaidByItsOwnPayment' /\ GiftsAreBeyondStripe'
      BY <2>1, <3>2 DEF StoreInv, PaidByItsOwnPayment, GiftsAreBeyondStripe,
                        Charged, Sent
    <3>6. SessionLinks' /\ RowLinks'
      BY <2>1, <3>1, <3>2 DEF StoreInv, SessionLinks, RowLinks, Charged, Sent,
                              TypeOK, StripeOK
    <3>7. RecordedPaymentIsDecided'
      <4> SUFFICES ASSUME NEW s \in Session, NEW k \in Settling \ NoMetadata,
                          Ev(k, s) \in ledger
                   PROVE  purchase'[session[s].row].status # "PENDENTE"
        BY <2>1 DEF RecordedPaymentIsDecided
      <4>1. /\ session[s].row \in PurchaseId
            /\ purchase[session[s].row].status # "PENDENTE"
        BY DEF StoreInv, SessionLinks, RecordedPaymentIsDecided, TypeOK,
               StripeOK, Ev
      <4> QED
        BY <3>2, <4>1
    <3> QED
      BY <2>1, <2>2, <3>3, <3>4, <3>5, <3>6, <3>7, AdminSteps DEF StoreInv
  <2>5. QED
    BY <1>3, <2>3, <2>4 DEF GrantTx
<1>4. ASSUME NEW d \in Admin, NEW p \in PurchaseId, ReadForRevoke(d, p)
      PROVE  StoreInv' /\ RequestLinks' /\ Moves
  <2>1. StoreInv' /\ Moves
    BY <1>4, StoreStays DEF ReadForRevoke, stripe
  <2>2. AdminLinked(d)'
    BY <1>4 DEF ReadForRevoke, AdminLinked, AdminIdle, TypeOK, RequestsOK
  <2>3. QED
    BY <1>4, <2>1, <2>2, AdminSteps DEF ReadForRevoke
<1>5. ASSUME NEW d \in Admin, RevokeTx(d)
      PROVE  StoreInv' /\ RequestLinks' /\ Moves
  <2> DEFINE p == admin[d].row
  <2>1. /\ p \in PurchaseId /\ purchase[p] \in Row
        /\ purchase[p].status \in {"PAGO", "REEMBOLSADO"}
    BY <1>5 DEF RevokeTx, TypeOK, RowsOK, RequestsOK, AdminOK, AdminRequest,
                RequestLinks, AdminLinked
  <2>2. /\ admin' = [admin EXCEPT ![d] = AdminIdle]
        /\ items' = ItemsWithout(p)
        /\ purchase' = [purchase EXCEPT ![p] = Revoked(purchase[p])]
        /\ UNCHANGED <<session, sent, ledger, tab, hook>>
    BY <1>5 DEF RevokeTx, stripe
  <2>3. \A q \in PurchaseId :
          /\ purchase'[q].source = purchase[q].source
          /\ purchase'[q].session = purchase[q].session
          /\ purchase'[q].intent = purchase[q].intent
          /\ purchase'[q].refund = purchase[q].refund
          /\ purchase'[q].disputed = purchase[q].disputed
          /\ q # p => purchase'[q] = purchase[q]
    BY <2>1, <2>2 DEF Revoked, TypeOK, RowsOK, Row
  <2>4. purchase'[p].status = "REEMBOLSADO"
    BY <2>1, <2>2 DEF Revoked, TypeOK, RowsOK, Row
  <2> HIDE DEF p
  <2>5. Moves
    BY <2>1, <2>2, <2>3, <2>4 DEF Moves, Forward
  <2>6. ItemsOnlyWhilePaid'
    BY <2>2, <2>3 DEF StoreInv, ItemsOnlyWhilePaid, ItemsWithout, TypeOK,
                      RowsOK
  <2>7. PaidByItsOwnPayment'
    BY <2>1, <2>2, <2>3, <2>4 DEF StoreInv, PaidByItsOwnPayment, Charged, Sent
  <2>8. GiftsAreBeyondStripe'
    BY <2>1, <2>3, <2>4 DEF StoreInv, GiftsAreBeyondStripe
  <2>9. SessionLinks'
    BY <2>1, <2>2, <2>3, <2>4 DEF StoreInv, SessionLinks, TypeOK, StripeOK,
                                  Event
  <2>10. RowLinks'
    BY <2>1, <2>2, <2>3, <2>4 DEF StoreInv, RowLinks, Charged, Sent
  <2>11. RecordedPaymentIsDecided'
    <3> SUFFICES ASSUME NEW s \in Session, NEW k \in Settling \ NoMetadata,
                        Ev(k, s) \in ledger
                 PROVE  purchase'[session[s].row].status # "PENDENTE"
      BY <2>2 DEF RecordedPaymentIsDecided
    <3>1. /\ session[s].row \in PurchaseId
          /\ purchase[session[s].row].status # "PENDENTE"
      BY DEF StoreInv, SessionLinks, RecordedPaymentIsDecided, TypeOK,
             StripeOK, Ev
    <3> QED
      BY <2>3, <2>4, <3>1
  <2>12. AdminLinked(d)'
    BY <2>2 DEF AdminLinked, AdminIdle, TypeOK, RequestsOK
  <2>13. QED
    BY <2>2, <2>5, <2>6, <2>7, <2>8, <2>9, <2>10, <2>11, <2>12, AdminSteps
    DEF StoreInv
<1>6. QED
  BY <1>1, <1>2, <1>3, <1>4, <1>5 DEF AdminNext

(* Steps that take no request further: the newsroom, time, a dying request.*)
LEMMA OtherInv ==
  ASSUME TypeOK, StoreInv, RequestLinks,
         \/ NewsroomNext \/ Die \/ UNCHANGED vars
         \/ \E p \in PurchaseId : Age(p)
  PROVE  StoreInv' /\ RequestLinks' /\ Moves
<1>1. /\ UNCHANGED <<purchase, session, sent, ledger>>
      /\ items' \subseteq items
  BY DEF NewsroomNext, SetArticles, PublishPackage, UnpublishPackage,
         ArchiveArticle, DeleteArticle, Die, Age, vars, stripe
<1>2. StoreInv' /\ Moves
  BY <1>1, StoreStays
<1>3. CASE UNCHANGED <<tab, hook, admin>>
  BY <1>2, <1>3, NoRequestSteps
<1>4. CASE Die
  <2>1. ASSUME NEW t \in Tab, tab' = [tab EXCEPT ![t] = TabIdle],
               UNCHANGED <<hook, admin>>
        PROVE  RequestLinks'
    <3>1. TabLinked(t)'
      BY <2>1 DEF TabLinked, TabIdle, TypeOK, RequestsOK
    <3>2. QED
      BY <1>2, <2>1, <3>1, TabSteps
  <2>2. ASSUME NEW w \in Worker, hook' = [hook EXCEPT ![w] = HookIdle],
               UNCHANGED <<tab, admin>>
        PROVE  RequestLinks'
    <3>1. HookLinked(w)'
      BY <2>2 DEF HookLinked, HookIdle, TypeOK, RequestsOK
    <3>2. QED
      BY <1>2, <2>2, <3>1, HookSteps
  <2>3. ASSUME NEW d \in Admin, admin' = [admin EXCEPT ![d] = AdminIdle],
               UNCHANGED <<tab, hook>>
        PROVE  RequestLinks'
    <3>1. AdminLinked(d)'
      BY <2>3 DEF AdminLinked, AdminIdle, TypeOK, RequestsOK
    <3>2. QED
      BY <1>2, <2>3, <3>1, AdminSteps
  <2>4. QED
    BY <1>2, <1>4, <2>1, <2>2, <2>3 DEF Die
<1>5. Die \/ UNCHANGED <<tab, hook, admin>>
  BY DEF NewsroomNext, SetArticles, PublishPackage, UnpublishPackage,
         ArchiveArticle, DeleteArticle, Age, vars
<1>6. QED
  BY <1>2, <1>3, <1>4, <1>5

LEMMA NextInv == Inv /\ [Next]_vars => Inv' /\ Moves
<1> SUFFICES ASSUME Inv, [Next]_vars PROVE Inv' /\ Moves
  OBVIOUS
<1>1. TypeOK /\ StoreInv /\ RequestLinks
  BY DEF Inv, StoreInv
<1>2. TypeOK'
  BY <1>1, NextType
<1>3. StoreInv' /\ RequestLinks' /\ Moves
  BY <1>1, TabInv, StripeInv, HookInv, AdminInv, OtherInv DEF Next
<1>4. QED
  BY <1>2, <1>3 DEF Inv, StoreInv

LEMMA Invariant == Spec => []Inv
<1>1. Init => Inv
  BY InitInv DEF Inv, StoreInv
<1>2. Inv /\ [Next]_vars => Inv'
  BY NextInv
<1>3. QED
  BY <1>1, <1>2, PTL DEF Spec

(* Nobody reads through a purchase that is not paid: entitlement rows exist*)
(* only while their purchase is PAGO, however many requests interleave.    *)
THEOREM ItemsSafe == Spec => []ItemsOnlyWhilePaid
<1>1. Inv => ItemsOnlyWhilePaid
  BY DEF Inv
<1>2. QED
  BY <1>1, Invariant, PTL

(* A purchase made through Stripe is paid only because of a session it     *)
(* opened itself: Stripe took a payment for it and the row remembers which *)
(* one, or there was nothing to pay and the row remembers no payment.      *)
THEOREM PaymentsSafe == Spec => []PaidByItsOwnPayment
<1>1. Inv => PaidByItsOwnPayment
  BY DEF Inv
<1>2. QED
  BY <1>1, Invariant, PTL

(* No refund, dispute or expiry of Stripe's ever reaches a gift.           *)
THEOREM GiftsSafe == Spec => []GiftsAreBeyondStripe
<1>1. Inv => GiftsAreBeyondStripe
  BY DEF Inv
<1>2. QED
  BY <1>1, Invariant, PTL

(* A payment event recorded as handled leaves no row waiting for it.       *)
THEOREM PaymentsDecided == Spec => []RecordedPaymentIsDecided
<1>1. Inv => RecordedPaymentIsDecided
  BY DEF Inv
<1>2. QED
  BY <1>1, Invariant, PTL

(* A row of PackagePurchase never goes back in its life.                   *)
THEOREM StatusAdvances == Spec => StatusOnlyAdvances
<1>1. Inv /\ [Next]_vars =>
        [\A p \in PurchaseId :
           purchase'[p].status # purchase[p].status =>
             Rank(purchase'[p].status) > Rank(purchase[p].status)]_vars
  <2> SUFFICES ASSUME Inv, [Next]_vars, NEW p \in PurchaseId,
                      purchase'[p].status # purchase[p].status
               PROVE  Rank(purchase'[p].status) > Rank(purchase[p].status)
    OBVIOUS
  <2>1. Forward(p)
    BY NextInv DEF Moves
  <2>2. QED
    BY <2>1 DEF Forward, Rank
<1>2. QED
  BY <1>1, Invariant, PTL DEF Spec, StatusOnlyAdvances

-----------------------------------------------------------------------------
(* Refinement: each step changes the stage and the holding of one purchase *)
(* at most, the way PackageEntitlement allows.                             *)

(* A step that leaves both alone.                                          *)
LEMMA HoldingsStay ==
  ASSUME UNCHANGED items,
         \A q \in PurchaseId : purchase'[q].status = purchase[q].status
  PROVE  UNCHANGED Holdings!vars
<1>1. \A q \in PurchaseId : StageOf(q)' = StageOf(q) /\ HeldBy(q)' = HeldBy(q)
  BY DEF StageOf, HeldBy
<1>2. QED
  BY <1>1 DEF Holdings!vars

(* A step that moves purchase p alone.                                     *)
LEMMA OneHoldingMoves ==
  ASSUME NEW p \in PurchaseId,
         \A q \in PurchaseId \ {p} : /\ purchase'[q].status = purchase[q].status
                                     /\ HeldBy(q)' = HeldBy(q),
         \/ /\ purchase[p].status = "NENHUM"
            /\ purchase'[p].status = "PENDENTE"
            /\ HeldBy(p)' = HeldBy(p)
         \/ /\ purchase[p].status \in {"NENHUM", "PENDENTE"}
            /\ purchase'[p].status = "PAGO"
         \/ /\ purchase[p].status = "PENDENTE"
            /\ purchase'[p].status = "EXPIRADO"
            /\ HeldBy(p)' = HeldBy(p)
         \/ /\ purchase[p].status = "PAGO"
            /\ purchase'[p].status = "REEMBOLSADO"
            /\ HeldBy(p)' = {}
  PROVE  Holdings!Next
<1> DEFINE stages == [q \in PurchaseId |-> StageOf(q)]
           helds == [q \in PurchaseId |-> HeldBy(q)]
<1>1. /\ stages' = [stages EXCEPT ![p] = StageOf(p)']
      /\ helds' = [helds EXCEPT ![p] = HeldBy(p)']
      /\ stages[p] = StageOf(p) /\ helds[p] = HeldBy(p)
  <2>1. \A q \in PurchaseId \ {p} : StageOf(q)' = StageOf(q)
    BY DEF StageOf
  <2>2. QED
    BY <2>1
<1>2. HeldBy(p)' \in SUBSET Article
  BY DEF HeldBy
<1> HIDE DEF stages, helds
<1>3. HeldBy(p)' = HeldBy(p) => helds' = helds
  BY <1>1 DEF helds
<1>4. CASE /\ purchase[p].status = "NENHUM"
           /\ purchase'[p].status = "PENDENTE"
           /\ HeldBy(p)' = HeldBy(p)
  <2>1. StageOf(p) = "none" /\ StageOf(p)' = "open"
    BY <1>4 DEF StageOf
  <2>2. Holdings!Begin(p)
    BY <1>1, <1>3, <1>4, <2>1 DEF Holdings!Begin, stages, helds
  <2>3. QED
    BY <2>2 DEF Holdings!Next
<1>5. CASE /\ purchase[p].status \in {"NENHUM", "PENDENTE"}
           /\ purchase'[p].status = "PAGO"
  <2>1. StageOf(p) \in {"none", "open"} /\ StageOf(p)' = "held"
    BY <1>5 DEF StageOf
  <2>2. Holdings!Grant(p, HeldBy(p)')
    BY <1>1, <2>1 DEF Holdings!Grant, stages, helds
  <2>3. QED
    BY <1>2, <2>2 DEF Holdings!Next
<1>6. CASE /\ purchase[p].status = "PENDENTE"
           /\ purchase'[p].status = "EXPIRADO"
           /\ HeldBy(p)' = HeldBy(p)
  <2>1. StageOf(p) = "open" /\ StageOf(p)' = "over"
    BY <1>6 DEF StageOf
  <2>2. Holdings!Abandon(p)
    BY <1>1, <1>3, <1>6, <2>1 DEF Holdings!Abandon, stages, helds
  <2>3. QED
    BY <2>2 DEF Holdings!Next
<1>7. CASE /\ purchase[p].status = "PAGO"
           /\ purchase'[p].status = "REEMBOLSADO"
           /\ HeldBy(p)' = {}
  <2>1. StageOf(p) = "held" /\ StageOf(p)' = "over"
    BY <1>7 DEF StageOf
  <2>2. Holdings!TakeBack(p)
    BY <1>1, <1>7, <2>1 DEF Holdings!TakeBack, stages, helds
  <2>3. QED
    BY <2>2 DEF Holdings!Next
<1>8. QED
  BY <1>4, <1>5, <1>6, <1>7

(* The rows a transaction writes, seen as one purchase moving.             *)
LEMMA RevokingMoves ==
  ASSUME RowsOK, NEW p \in PurchaseId,
         \A q \in PurchaseId \ {p} : purchase'[q] = purchase[q],
         purchase[p].status \in {"PAGO", "REEMBOLSADO"},
         purchase'[p].status = "REEMBOLSADO",
         items' = ItemsWithout(p), ItemsOnlyWhilePaid
  PROVE  [Holdings!Next]_(Holdings!vars)
<1>1. HeldBy(p)' = {} /\ \A q \in PurchaseId \ {p} : HeldBy(q)' = HeldBy(q)
  BY DEF HeldBy, ItemsWithout
<1>2. CASE purchase[p].status = "PAGO"
  BY <1>1, <1>2, OneHoldingMoves
<1>3. CASE purchase[p].status = "REEMBOLSADO"
  <2>1. items' = items
    BY <1>3 DEF ItemsWithout, ItemsOnlyWhilePaid, RowsOK
  <2>2. QED
    BY <1>3, <2>1, HoldingsStay
<1>4. QED
  BY <1>2, <1>3

LEMMA GrantingMoves ==
  ASSUME RowsOK, NEW p \in PurchaseId, NEW S \in SUBSET Article,
         \A q \in PurchaseId \ {p} : purchase'[q] = purchase[q],
         purchase[p].status \in {"NENHUM", "PENDENTE"},
         purchase'[p].status = "PAGO",
         items' = items \cup Entitlement(p, S)
  PROVE  Holdings!Next
<1>1. \A q \in PurchaseId \ {p} : HeldBy(q)' = HeldBy(q)
  BY DEF HeldBy, Entitlement
<1>2. QED
  BY <1>1, OneHoldingMoves

(* Steps of a webhook delivery.                                            *)
LEMMA HookRefines ==
  ASSUME Inv, HookNext
  PROVE  [Holdings!Next]_(Holdings!vars)
<1> USE NoneIsNoRow
<1>1. TypeOK /\ RowsOK /\ StoreInv /\ RequestLinks /\ ItemsOnlyWhilePaid
  BY DEF Inv, TypeOK, StoreInv
<1>2. ASSUME NEW w \in Worker, SettleTx(w)
      PROVE  [Holdings!Next]_(Holdings!vars)
  <2> DEFINE p == hook[w].row
  <2>1. p \in PurchaseId /\ hook[w].offer \in SUBSET Article
    BY <1>1, <1>2 DEF SettleTx, TypeOK, RequestsOK, HookOK, Delivery
  <2>2. CASE UNCHANGED <<purchase, items>>
    BY <2>2, HoldingsStay
  <2>3. CASE /\ purchase[p].status = "PENDENTE"
             /\ purchase' = [purchase EXCEPT ![p] =
                  Promoted(purchase[p], hook[w].event)]
             /\ items' = items \cup Entitlement(p, hook[w].offer)
    <3>1. /\ purchase'[p].status = "PAGO"
          /\ \A q \in PurchaseId \ {p} : purchase'[q] = purchase[q]
      BY <1>1, <2>1, <2>3 DEF RowsOK, Row, Promoted
    <3>2. QED
      BY <1>1, <2>1, <2>3, <3>1, GrantingMoves
  <2>4. QED
    BY <1>2, <2>2, <2>3 DEF SettleTx, Promotable
<1>3. ASSUME NEW w \in Worker, ReverseTx(w)
      PROVE  [Holdings!Next]_(Holdings!vars)
  <2> DEFINE p == hook[w].row
             marked == Marked(purchase[p], hook[w].event.kind)
  <2>1. /\ p \in PurchaseId /\ purchase[p] \in Row
        /\ hook[w].revoking => purchase[p].status \in {"PAGO", "REEMBOLSADO"}
    BY <1>1, <1>3 DEF ReverseTx, TypeOK, RowsOK, RequestsOK, HookOK, Delivery,
                      RequestLinks, HookLinked
  <2>2. /\ marked.status = purchase[p].status
        /\ Revoked(marked).status = "REEMBOLSADO"
    BY <2>1 DEF Marked, Revoked, Row
  <2> HIDE DEF marked
  <2>3. CASE UNCHANGED <<purchase, items>>
    BY <2>3, HoldingsStay
  <2>4. CASE purchase' = [purchase EXCEPT ![p] = marked] /\ UNCHANGED items
    <3>1. \A q \in PurchaseId : purchase'[q].status = purchase[q].status
      BY <1>1, <2>1, <2>2, <2>4 DEF RowsOK
    <3>2. QED
      BY <2>4, <3>1, HoldingsStay
  <2>5. CASE /\ hook[w].revoking
             /\ purchase' = [purchase EXCEPT ![p] = Revoked(marked)]
             /\ items' = ItemsWithout(p)
    <3>1. /\ purchase'[p].status = "REEMBOLSADO"
          /\ \A q \in PurchaseId \ {p} : purchase'[q] = purchase[q]
      BY <1>1, <2>1, <2>2, <2>5 DEF RowsOK
    <3>2. QED
      BY <1>1, <2>1, <2>5, <3>1, RevokingMoves
  <2>6. QED
    BY <1>3, <2>3, <2>4, <2>5 DEF ReverseTx, marked
<1>4. ASSUME NEW w \in Worker, ExpireRow(w)
      PROVE  [Holdings!Next]_(Holdings!vars)
  <2> DEFINE e == hook[w].event
             Closed == {p \in RowsFor(e) : purchase[p].status = "PENDENTE"}
  <2>1. /\ UNCHANGED items
        /\ \A q \in PurchaseId :
             IF q \in Closed THEN purchase'[q].status = "EXPIRADO"
                             ELSE purchase'[q] = purchase[q]
    BY <1>1, <1>4 DEF ExpireRow, RowsOK, Row
  <2>2. CASE Closed = {}
    BY <2>1, <2>2, HoldingsStay
  <2>3. ASSUME NEW p \in Closed
        PROVE  Holdings!Next
    <3>1. /\ p \in PurchaseId /\ purchase[p].status = "PENDENTE"
          /\ \A q \in Closed : q = p
      BY <1>1, <1>4, RowsForType, RowsForIsTheRow
      DEF ExpireRow, TypeOK, RequestsOK, HookOK
    <3>2. \A q \in PurchaseId : HeldBy(q)' = HeldBy(q)
      BY <2>1 DEF HeldBy
    <3>3. /\ purchase'[p].status = "EXPIRADO"
          /\ \A q \in PurchaseId \ {p} : purchase'[q].status = purchase[q].status
      BY <2>1, <2>3, <3>1
    <3> HIDE DEF Closed
    <3>4. QED
      BY <3>1, <3>2, <3>3, OneHoldingMoves
  <2>4. QED
    BY <2>2, <2>3
<1>5. ASSUME NEW w \in Worker,
             \/ \E e \in sent : Deliver(w, e)
             \/ ReadRow(w) \/ Record(w)
      PROVE  [Holdings!Next]_(Holdings!vars)
  <2>1. UNCHANGED <<purchase, items>>
    BY <1>5 DEF Deliver, ReadRow, Record
  <2>2. QED
    BY <2>1, HoldingsStay
<1>6. QED
  BY <1>2, <1>3, <1>4, <1>5 DEF HookNext, HookStep

(* Steps of an administrator.                                              *)
LEMMA AdminRefines ==
  ASSUME Inv, AdminNext
  PROVE  [Holdings!Next]_(Holdings!vars)
<1> USE NoneIsNoRow
<1>1. TypeOK /\ RowsOK /\ RequestLinks /\ ItemsOnlyWhilePaid
  BY DEF Inv, TypeOK
<1>2. ASSUME NEW d \in Admin, GrantTx(d)
      PROVE  [Holdings!Next]_(Holdings!vars)
  <2>1. CASE UNCHANGED <<purchase, items>>
    BY <2>1, HoldingsStay
  <2>2. ASSUME NEW p \in Unused,
               purchase' = [purchase EXCEPT ![p] =
                 NewRow("PAGO", "MANUAL", admin[d].reader, admin[d].package,
                        admin[d].offer)],
               items' = items \cup Entitlement(p, admin[d].offer)
        PROVE  Holdings!Next
    <3>1. /\ p \in PurchaseId /\ purchase[p].status = "NENHUM"
          /\ admin[d].offer \in SUBSET Article
      BY <1>1, <2>2 DEF Unused, TypeOK, RequestsOK, AdminRequest
    <3>2. /\ purchase'[p].status = "PAGO"
          /\ \A q \in PurchaseId \ {p} : purchase'[q] = purchase[q]
      BY <1>1, <2>2, <3>1 DEF RowsOK, NewRow, NoRow
    <3>3. QED
      BY <1>1, <2>2, <3>1, <3>2, GrantingMoves
  <2>3. QED
    BY <1>2, <2>1, <2>2 DEF GrantTx
<1>3. ASSUME NEW d \in Admin, RevokeTx(d)
      PROVE  [Holdings!Next]_(Holdings!vars)
  <2> DEFINE p == admin[d].row
  <2>1. /\ p \in PurchaseId /\ purchase[p] \in Row
        /\ purchase[p].status \in {"PAGO", "REEMBOLSADO"}
    BY <1>1, <1>3 DEF RevokeTx, TypeOK, RowsOK, RequestsOK, AdminOK,
                      AdminRequest, RequestLinks, AdminLinked
  <2>2. /\ purchase'[p].status = "REEMBOLSADO"
        /\ \A q \in PurchaseId \ {p} : purchase'[q] = purchase[q]
        /\ items' = ItemsWithout(p)
    BY <1>1, <1>3, <2>1 DEF RevokeTx, Revoked, RowsOK, Row
  <2>3. QED
    BY <1>1, <2>1, <2>2, RevokingMoves
<1>4. ASSUME NEW d \in Admin,
             \/ \E r \in Reader, k \in Package : ReadForGrant(d, r, k)
             \/ CheckGrant(d)
             \/ \E p \in PurchaseId : ReadForRevoke(d, p)
      PROVE  [Holdings!Next]_(Holdings!vars)
  <2>1. UNCHANGED <<purchase, items>>
    BY <1>4 DEF ReadForGrant, CheckGrant, ReadForRevoke
  <2>2. QED
    BY <2>1, HoldingsStay
<1>5. QED
  BY <1>2, <1>3, <1>4 DEF AdminNext

(* Steps of a reader's tab.                                                *)
LEMMA TabRefines ==
  ASSUME Inv, TabNext
  PROVE  [Holdings!Next]_(Holdings!vars)
<1> USE NoneIsNoRow
<1>1. TypeOK /\ RowsOK
  BY DEF Inv, TypeOK
<1>2. ASSUME NEW t \in Tab, CreateRow(t)
      PROVE  [Holdings!Next]_(Holdings!vars)
  <2>1. PICK p \in Unused : purchase' = [purchase EXCEPT ![p] =
          NewRow("PENDENTE", "STRIPE", tab[t].reader, tab[t].package,
                 tab[t].offer)]
    BY <1>2 DEF CreateRow
  <2>2. p \in PurchaseId /\ purchase[p].status = "NENHUM"
    BY <2>1 DEF Unused
  <2>3. /\ purchase'[p].status = "PENDENTE"
        /\ \A q \in PurchaseId \ {p} : purchase'[q].status = purchase[q].status
    BY <1>1, <2>1, <2>2 DEF RowsOK, NewRow, NoRow
  <2>4. \A q \in PurchaseId : HeldBy(q)' = HeldBy(q)
    BY <1>2 DEF CreateRow, HeldBy
  <2>5. QED
    BY <2>2, <2>3, <2>4, OneHoldingMoves
<1>3. ASSUME NEW t \in Tab, ReuseRow(t) \/ LinkSession(t)
      PROVE  [Holdings!Next]_(Holdings!vars)
  <2>1. UNCHANGED items
    BY <1>3 DEF ReuseRow, LinkSession
  <2>2. \A q \in PurchaseId : purchase'[q].status = purchase[q].status
    BY <1>1, <1>3 DEF ReuseRow, LinkSession, RowsOK, Row
  <2>3. QED
    BY <2>1, <2>2, HoldingsStay
<1>4. ASSUME NEW t \in Tab,
             \/ \E r \in Reader, k \in Package : ReadOffer(t, r, k)
             \/ CheckOwned(t) \/ FindReusable(t)
             \/ \E s \in Session : OpenSession(t, s)
      PROVE  [Holdings!Next]_(Holdings!vars)
  <2>1. UNCHANGED <<purchase, items>>
    BY <1>4 DEF ReadOffer, CheckOwned, FindReusable, OpenSession
  <2>2. QED
    BY <2>1, HoldingsStay
<1>5. QED
  BY <1>2, <1>3, <1>4 DEF TabNext

(* A deleted article leaves every holding at once.                         *)
LEMMA DeleteRefines ==
  ASSUME NEW a \in Article, DeleteArticle(a)
  PROVE  Holdings!Next
<1> DEFINE stages == [q \in PurchaseId |-> StageOf(q)]
           helds == [q \in PurchaseId |-> HeldBy(q)]
<1>1. \A q \in PurchaseId : /\ StageOf(q)' = StageOf(q)
                            /\ HeldBy(q)' = HeldBy(q) \ {a}
  BY DEF DeleteArticle, StageOf, HeldBy
<1>2. stages' = stages /\ helds' = [q \in PurchaseId |-> helds[q] \ {a}]
  BY <1>1
<1>3. Holdings!Erase(a)
  BY <1>2 DEF Holdings!Erase
<1>4. QED
  BY <1>3 DEF Holdings!Next

LEMMA NextRefines ==
  ASSUME Inv, [Next]_vars
  PROVE  [Holdings!Next]_(Holdings!vars)
<1>1. CASE \E a \in Article : DeleteArticle(a)
  BY <1>1, DeleteRefines
<1>2. CASE UNCHANGED <<purchase, items>>
  BY <1>2, HoldingsStay
<1>3. CASE TabNext \/ HookNext \/ AdminNext
  BY <1>3, TabRefines, HookRefines, AdminRefines
<1>4. CASE StripeNext \/ Die \/ (\E p \in PurchaseId : Age(p)) \/ UNCHANGED vars
  <2>1. UNCHANGED <<purchase, items>>
    BY <1>4 DEF StripeNext, Emit, Die, Age, vars
  <2>2. QED
    BY <1>2, <2>1
<1>5. CASE NewsroomNext
  <2>1. (\E a \in Article : DeleteArticle(a)) \/ UNCHANGED <<purchase, items>>
    BY <1>5 DEF NewsroomNext, SetArticles, PublishPackage, UnpublishPackage,
                ArchiveArticle
  <2>2. QED
    BY <1>1, <1>2, <2>1
<1>6. QED
  BY <1>3, <1>4, <1>5 DEF Next

(* The checkout, the webhooks and the administrators together promise a    *)
(* purchase what PackageEntitlement says, and nothing else.                *)
THEOREM EntitlementImplemented == Spec => ImplementsEntitlement
<1>1. Init => Holdings!Init
  <2>1. ASSUME Init, NEW p \in PurchaseId
        PROVE  StageOf(p) = "none" /\ HeldBy(p) = {}
    BY <2>1 DEF Init, NoRow, StageOf, HeldBy
  <2>2. QED
    BY <2>1 DEF Holdings!Init
<1>2. Inv /\ [Next]_vars => [Holdings!Next]_(Holdings!vars)
  BY NextRefines
<1>3. QED
  BY <1>1, <1>2, Invariant, PTL DEF Spec, ImplementsEntitlement, Holdings!Spec

=============================================================================
