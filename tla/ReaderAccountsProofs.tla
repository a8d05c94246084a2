------------------------ MODULE ReaderAccountsProofs ------------------------
(***************************************************************************)
(* What ReaderAccounts promises for any number of accounts, links,         *)
(* requests and sessions.                                                  *)
(***************************************************************************)
EXTENDS ReaderAccounts, TLAPS

-----------------------------------------------------------------------------
(* The invariant.                                                          *)

(* A token of this version was never that of a suspended account.          *)
Fresh(r, version) ==
  /\ version <= account[r].version
  /\ version = account[r].version => ~Suspended(account[r])

(* What was typed is the password, unless the version has gone on.         *)
TypedHolds(r, version, typed) ==
  version = account[r].version /\ typed # NoPassword
    => typed = account[r].password

SessionOK(s) ==
  /\ account[s.reader].status # "none"
  /\ Fresh(s.reader, s.version)
  /\ TypedHolds(s.reader, s.version, s.by)

LinkType == [row : {"none", "unused", "used", "deleted"},
             reader : SUBSET Holder, kind : Kind, expires : AccountDate,
             after : SUBSET Link]
RequestType == [pc : Step, reader : SUBSET Holder, seen : Seen,
                link : SUBSET Link, typed : Password \cup {NoPassword},
                with : SUBSET Provider, trusted : BOOLEAN, until : AccountDate]

(* A request that has seen the account it is about.                        *)
HasSeen(j) == /\ j.pc \notin {"idle", "register"}
              /\ j.pc = "oauth" => j.seen.exists

(* A request from a link, and the kind that link is of.                    *)
FromLink(j) == j.pc \in Kind \cup {"verify"}
KindOf(pc) == IF pc = "verify" THEN "VERIFICACAO_EMAIL" ELSE pc

JobOK(j) ==
  /\ \A x, y \in j.reader : x = y
  /\ \A r \in j.reader :
       /\ HasSeen(j) => account[r].status # "none"
       /\ HasSeen(j) /\ j.pc \in {"login", "oauth"} => Fresh(r, j.seen.version)
       /\ j.pc = "login" => TypedHolds(r, j.seen.version, j.typed)
       /\ j.pc \in {"login", "tidy", "unsuspend"} /\ j.seen.verified
            => account[r].verified \/ account[r].erased
  /\ FromLink(j) =>
       \E l \in Link : /\ j.link = {l}
                       /\ link[l].row # "none"
                       /\ link[l].kind = KindOf(j.pc)
                       /\ link[l].reader = j.reader
RequestOK(q) == JobOK(request[q])

LinkOK(l) ==
  link[l].row # "none" =>
    \E r \in Holder : link[l].reader = {r} /\ account[r].status # "none"

(* A reset link still to be used was asked for after every reset that was  *)
(* done; of two that were used, one was asked for after the other.         *)
ResetsOf(k, l) == /\ k # l
                  /\ link[k].kind = "REPOR_PASSWORD"
                  /\ link[l].kind = "REPOR_PASSWORD"
                  /\ link[k].reader = link[l].reader
Withdrawn(k, l) ==
  ResetsOf(k, l) /\ link[k].row = "used" =>
    /\ link[l].row = "unused" => k \in link[l].after
    /\ link[l].row = "used" => k \in link[l].after \/ l \in link[k].after

(* A social identity is that of an account there is.                       *)
NobodyIsUnlinked ==
  \A r \in Holder : account[r].status = "none" => account[r].identities = {}

AcctInv ==
  /\ \A s \in session : SessionOK(s)
  /\ \A q \in Request : RequestOK(q)
  /\ \A l \in Link : LinkOK(l)
  /\ \A k, l \in Link : Withdrawn(k, l)
  /\ ActiveMeansConfirmed
  /\ NobodyIsUnlinked

-----------------------------------------------------------------------------
(* What the constants and the initial values are.                          *)

LEMMA Numbers ==
  /\ 0 \in AccountDate /\ NoDate \in AccountDate
  /\ \A d \in AccountDate : d \in Int
  /\ \A v \in 0..(MaxVersion + 1) : v \in Int
  /\ 0..MaxVersion \subseteq 0..(MaxVersion + 1)
  /\ \A v \in 0..MaxVersion : v < MaxVersion => v + 1 \in 0..MaxVersion
  /\ \A v \in 0..MaxVersion : v + 1 \in 0..(MaxVersion + 1)
  /\ 0 \in 0..MaxVersion /\ 0 \in 0..MaxClock
  /\ \A t \in 0..MaxClock :
       /\ t + LinkLife \in AccountDate
       /\ t + Term \in AccountDate
       /\ t + 2 * Term \in AccountDate
  <1>1. MaxVersion \in Nat /\ MaxClock \in Nat /\ Term \in Nat /\ LinkLife \in Nat
    BY AccountsAssumption
  <1>. QED  BY <1>1 DEF AccountDate, NoDate

LEMMA NoAccountTypes ==
  /\ NoAccount \in AccountRow
  /\ NoAccount.status = "none" /\ NoAccount.identities = {}
  <1>. DEFINE z == 0
              s == {}
              n == NoDate
  <1>1. z \in 0..MaxVersion /\ s \in SUBSET Provider /\ n \in AccountDate
    BY Numbers
  <1>2. NoAccount = [status |-> "none", until |-> n, verified |-> FALSE,
                     password |-> NoPassword, version |-> z, identities |-> s,
                     erased |-> FALSE]
    BY DEF NoAccount
  <1>. HIDE DEF z, s, n
  <1>3. NoAccount \in AccountRow /\ NoAccount.status = "none" /\ NoAccount.identities = s
    BY <1>1, <1>2 DEF AccountRow, Status
  <1>. QED  BY <1>3 DEF s

LEMMA NotSeenTypes == NotSeen \in Seen
  BY Numbers DEF NotSeen, Seen

LEMMA NotIssuedTypes == NotIssued \in LinkType /\ NotIssued.row = "none"
  <1>. DEFINE z == 0
              s == {}
              a == {}
  <1>1. z \in AccountDate /\ s \in SUBSET Holder /\ a \in SUBSET Link
    BY Numbers
  <1>2. NotIssued = [row |-> "none", reader |-> s, kind |-> "VERIFICACAO_EMAIL",
                     expires |-> z, after |-> a]
    BY DEF NotIssued
  <1>. HIDE DEF z, s, a
  <1>. QED  BY <1>1, <1>2 DEF LinkType, Kind

LEMMA IdleTypes ==
  /\ Idle \in RequestType
  /\ Idle.pc = "idle" /\ Idle.reader = {} /\ Idle.seen = NotSeen /\ Idle.link = {}
  /\ Idle.typed = NoPassword
  <1>. DEFINE s == {}
              l == {}
              w == {}
              n == NoDate
  <1>1. s \in SUBSET Holder /\ l \in SUBSET Link /\ w \in SUBSET Provider
        /\ n \in AccountDate /\ NotSeen \in Seen
    BY Numbers, NotSeenTypes
  <1>2. Idle = [pc |-> "idle", reader |-> s, seen |-> NotSeen, link |-> l,
                typed |-> NoPassword, with |-> w, trusted |-> FALSE, until |-> n]
    BY DEF Idle
  <1>3. Idle \in RequestType
    <2>. HIDE DEF s, l, w, n
    <2>. QED  BY <1>1, <1>2 DEF RequestType, Step
  <1>. QED  BY <1>3 DEF Idle

LEMMA IdleIsOK == JobOK(Idle)
  BY IdleTypes DEF JobOK, FromLink, Kind

LEMMA TypeOKParts ==
  AcctTypeOK <=>
    /\ clock \in 0..MaxClock
    /\ account \in [Holder -> AccountRow]
    /\ link \in [Link -> LinkType]
    /\ session \subseteq Session
    /\ request \in [Request -> RequestType]
  BY DEF AcctTypeOK, LinkType, RequestType

LEMMA AcctBegins == AcctInit => AcctTypeOK /\ AcctInv
  <1>. SUFFICES ASSUME AcctInit PROVE AcctTypeOK /\ AcctInv
    OBVIOUS
  <1>1. AcctTypeOK
    BY TypeOKParts, Numbers, NoAccountTypes, NotIssuedTypes, IdleTypes DEF AcctInit
  <1>2. \A q \in Request : RequestOK(q)
    BY IdleIsOK DEF AcctInit, RequestOK
  <1>3. \A l \in Link : LinkOK(l)
    BY NotIssuedTypes DEF AcctInit, LinkOK
  <1>4. \A k, l \in Link : Withdrawn(k, l)
    BY NotIssuedTypes DEF AcctInit, Withdrawn
  <1>5. ActiveMeansConfirmed
    BY NoAccountTypes DEF AcctInit, ActiveMeansConfirmed
  <1>6. NobodyIsUnlinked
    BY NoAccountTypes DEF AcctInit, NobodyIsUnlinked
  <1>. QED  BY <1>1, <1>2, <1>3, <1>4, <1>5, <1>6 DEF AcctInv, AcctInit

-----------------------------------------------------------------------------
(* What one step may do to an account and to a link, whoever takes it.     *)

RowMoves(r) ==
  /\ account'[r] \in AccountRow
  /\ account[r].status # "none" =>
       /\ account'[r].status # "none"
       /\ account[r].version <= account'[r].version
       /\ account'[r].version = account[r].version =>
            /\ account'[r].password = account[r].password
            /\ Suspended(account[r])' => Suspended(account[r])
       /\ account[r].verified \/ account[r].erased
            => account'[r].verified \/ account'[r].erased
  /\ account'[r].status = "ATIVO" /\ ~account'[r].erased => account'[r].verified
  /\ account'[r].status = "none" => account'[r].identities = {}

LinkMoves(l) ==
  /\ link'[l] \in LinkType
  /\ link[l].row # "none" =>
       /\ link'[l].row # "none"
       /\ link'[l].kind = link[l].kind
       /\ link'[l].reader = link[l].reader

Moving ==
  /\ clock' \in 0..MaxClock
  /\ account' \in [Holder -> AccountRow]
  /\ link' \in [Link -> LinkType]
  /\ \A r \in Holder : RowMoves(r)
  /\ \A l \in Link : LinkMoves(l)

LEMMA FreshStays ==
  ASSUME AcctTypeOK, Moving, NEW r \in Holder, NEW v \in 0..(MaxVersion + 1),
         account[r].status # "none", Fresh(r, v)
  PROVE  /\ v <= account'[r].version
         /\ v = account'[r].version => ~Suspended(account[r])'
  <1>1. RowMoves(r)
    BY DEF Moving
  <1>2. account[r].version \in Int /\ account'[r].version \in Int /\ v \in Int
    BY TypeOKParts, Numbers, <1>1 DEF AccountRow, RowMoves
  <1>3. account[r].version <= account'[r].version
    BY <1>1 DEF RowMoves
  <1>4. v <= account'[r].version
    BY <1>2, <1>3 DEF Fresh
  <1>5. ASSUME v = account'[r].version PROVE ~Suspended(account[r])'
    <2>1. v = account[r].version
      BY <1>2, <1>3, <1>5 DEF Fresh
    <2>2. account'[r].version = account[r].version
      BY <2>1, <1>5
    <2>. QED  BY <2>1, <2>2, <1>1 DEF Fresh, RowMoves
  <1>. QED  BY <1>4, <1>5

LEMMA TypedStays ==
  ASSUME AcctTypeOK, Moving, NEW r \in Holder, NEW v \in 0..(MaxVersion + 1), NEW p,
         account[r].status # "none", v <= account[r].version, TypedHolds(r, v, p)
  PROVE  v = account'[r].version /\ p # NoPassword => p = account'[r].password
  <1>1. RowMoves(r)
    BY DEF Moving
  <1>2. account[r].version \in Int /\ account'[r].version \in Int /\ v \in Int
    BY TypeOKParts, Numbers, <1>1 DEF AccountRow, RowMoves
  <1>3. account[r].version <= account'[r].version
    BY <1>1 DEF RowMoves
  <1>4. ASSUME v = account'[r].version PROVE account'[r].version = account[r].version
    BY <1>2, <1>3, <1>4
  <1>. QED  BY <1>4, <1>1 DEF RowMoves, TypedHolds

LEMMA SessionStays ==
  ASSUME AcctTypeOK, AcctInv, Moving, NEW s \in session
  PROVE  SessionOK(s)'
  <1>1. s \in Session /\ SessionOK(s)
    BY TypeOKParts DEF AcctInv
  <1>2. s.reader \in Holder /\ s.version \in 0..(MaxVersion + 1)
    BY <1>1 DEF Session
  <1>3. account'[s.reader].status # "none"
    BY <1>1, <1>2 DEF SessionOK, Moving, RowMoves
  <1>4. Fresh(s.reader, s.version)'
    BY <1>1, <1>2, FreshStays DEF SessionOK, Fresh
  <1>5. TypedHolds(s.reader, s.version, s.by)'
    BY <1>1, <1>2, TypedStays DEF SessionOK, Fresh, TypedHolds
  <1>. QED  BY <1>3, <1>4, <1>5 DEF SessionOK

LEMMA SeenVersion ==
  ASSUME NEW j \in RequestType
  PROVE  j.seen.version \in 0..MaxVersion /\ j.seen.version \in 0..(MaxVersion + 1)
  BY Numbers DEF RequestType, Seen

LEMMA RequestStays ==
  ASSUME AcctTypeOK, Moving, NEW q \in Request, RequestOK(q), request'[q] = request[q]
  PROVE  RequestOK(q)'
  <1>. DEFINE j == request[q]
  <1>0. j \in RequestType /\ request'[q] = j
    BY TypeOKParts
  <1>1. JobOK(j)
    BY DEF RequestOK
  <1>2. j.reader \subseteq Holder /\ j.seen.version \in 0..(MaxVersion + 1)
    BY <1>0, SeenVersion DEF RequestType
  <1>. HIDE DEF j
  <1>3. ASSUME NEW r \in j.reader
        PROVE  /\ HasSeen(j) => account'[r].status # "none"
               /\ HasSeen(j) /\ j.pc \in {"login", "oauth"} =>
                    /\ j.seen.version <= account'[r].version
                    /\ j.seen.version = account'[r].version => ~Suspended(account[r])'
               /\ j.pc = "login" =>
                    (j.seen.version = account'[r].version /\ j.typed # NoPassword
                      => j.typed = account'[r].password)
               /\ j.pc \in {"login", "tidy", "unsuspend"} /\ j.seen.verified
                    => account'[r].verified \/ account'[r].erased
    <2>1. RowMoves(r) /\ r \in Holder
      BY <1>2 DEF Moving
    <2>2. HasSeen(j) => account[r].status # "none"
      BY <1>1 DEF JobOK
    <2>3. HasSeen(j) => account'[r].status # "none"
      BY <2>1, <2>2 DEF RowMoves
    <2>4. ASSUME HasSeen(j), j.pc \in {"login", "oauth"}
          PROVE  /\ j.seen.version <= account'[r].version
                 /\ j.seen.version = account'[r].version => ~Suspended(account[r])'
      <3>1. Fresh(r, j.seen.version) /\ account[r].status # "none"
        BY <1>1, <2>4 DEF JobOK
      <3>. QED  BY <3>1, <2>1, <1>2, FreshStays
    <2>5. ASSUME j.pc = "login"
          PROVE  j.seen.version = account'[r].version /\ j.typed # NoPassword
                   => j.typed = account'[r].password
      <3>1. HasSeen(j)
        BY <2>5 DEF HasSeen
      <3>2. Fresh(r, j.seen.version) /\ account[r].status # "none"
            /\ TypedHolds(r, j.seen.version, j.typed)
        BY <1>1, <2>5, <3>1 DEF JobOK
      <3>. QED  BY <3>2, <2>1, <1>2, TypedStays DEF Fresh
    <2>6. ASSUME j.pc \in {"login", "tidy", "unsuspend"}, j.seen.verified
          PROVE  account'[r].verified \/ account'[r].erased
      <3>1. HasSeen(j)
        BY <2>6 DEF HasSeen
      <3>. QED  BY <1>1, <2>1, <2>2, <2>6, <3>1 DEF JobOK, RowMoves
    <2>. QED  BY <2>3, <2>4, <2>5, <2>6
  <1>4. FromLink(j) =>
          \E l \in Link : /\ j.link = {l}
                          /\ link'[l].row # "none"
                          /\ link'[l].kind = KindOf(j.pc)
                          /\ link'[l].reader = j.reader
    <2>1. SUFFICES ASSUME FromLink(j)
                   PROVE  \E l \in Link : /\ j.link = {l}
                          /\ link'[l].row # "none"
                          /\ link'[l].kind = KindOf(j.pc)
                          /\ link'[l].reader = j.reader
      OBVIOUS
    <2>2. PICK l \in Link : /\ j.link = {l}
                            /\ link[l].row # "none"
                            /\ link[l].kind = KindOf(j.pc)
                            /\ link[l].reader = j.reader
      BY <1>1, <2>1 DEF JobOK
    <2>. QED  BY <2>2 DEF Moving, LinkMoves
  <1>5. \A x, y \in j.reader : x = y
    BY <1>1 DEF JobOK
  <1>. QED  BY <1>0, <1>3, <1>4, <1>5 DEF RequestOK, JobOK, HasSeen, FromLink, Fresh,
              TypedHolds

LEMMA RequestsRest ==
  ASSUME AcctTypeOK, AcctInv, Moving, request' = request
  PROVE  request' \in [Request -> RequestType] /\ \A q \in Request : RequestOK(q)'
  <1>1. \A q \in Request : RequestOK(q)'
    BY RequestStays DEF AcctInv
  <1>. QED  BY <1>1, TypeOKParts

LEMMA RequestsGo ==
  ASSUME AcctTypeOK, AcctInv, Moving, NEW q \in Request, NEW j \in RequestType,
         Goes(q, j), RequestOK(q)'
  PROVE  request' \in [Request -> RequestType] /\ \A x \in Request : RequestOK(x)'
  <1>1. ASSUME NEW x \in Request, x # q PROVE RequestOK(x)'
    <2>1. request'[x] = request[x] /\ RequestOK(x)
      BY <1>1, TypeOKParts DEF Goes, AcctInv
    <2>. QED  BY <2>1, RequestStays
  <1>2. request' \in [Request -> RequestType]
    BY TypeOKParts DEF Goes
  <1>. QED  BY <1>1, <1>2

LEMMA RequestsEnd ==
  ASSUME AcctTypeOK, AcctInv, Moving, NEW q \in Request, Ends(q)
  PROVE  request' \in [Request -> RequestType] /\ \A x \in Request : RequestOK(x)'
  <1>1. request'[q] = Idle /\ Goes(q, Idle)
    BY TypeOKParts DEF Ends, Goes
  <1>2. RequestOK(q)'
    BY <1>1, IdleTypes DEF RequestOK, JobOK, FromLink, Kind
  <1>. QED  BY <1>1, <1>2, IdleTypes, RequestsGo

LEMMA LinkStays ==
  ASSUME AcctTypeOK, AcctInv, Moving, NEW l \in Link, link[l].row # "none"
  PROVE  LinkOK(l)'
  <1>1. PICK r \in Holder : link[l].reader = {r} /\ account[r].status # "none"
    BY DEF AcctInv, LinkOK
  <1>2. RowMoves(r) /\ LinkMoves(l)
    BY DEF Moving
  <1>. QED  BY <1>1, <1>2 DEF RowMoves, LinkMoves, LinkOK

LEMMA LinksRest ==
  ASSUME AcctTypeOK, AcctInv, Moving, link' = link
  PROVE  (\A l \in Link : LinkOK(l)') /\ (\A k, l \in Link : Withdrawn(k, l)')
  <1>1. \A l \in Link : LinkOK(l)'
    <2>1. ASSUME NEW l \in Link PROVE LinkOK(l)'
      <3>1. CASE link[l].row # "none"
        BY <3>1, LinkStays
      <3>2. CASE link[l].row = "none"
        BY <3>2 DEF LinkOK
      <3>. QED  BY <3>1, <3>2
    <2>. QED  BY <2>1
  <1>2. \A k, l \in Link : Withdrawn(k, l)'
    BY DEF AcctInv, Withdrawn, ResetsOf
  <1>. QED  BY <1>1, <1>2

LEMMA SessionsRest ==
  ASSUME AcctTypeOK, AcctInv, Moving, session' \subseteq session
  PROVE  session' \subseteq Session /\ \A s \in session' : SessionOK(s)'
  <1>1. \A s \in session' : SessionOK(s)'
    BY SessionStays
  <1>. QED  BY <1>1, TypeOKParts

(* What is left to show of a step, once it moves as it may.                *)
LEMMA Together ==
  ASSUME AcctTypeOK, AcctInv, Moving,
         request' \in [Request -> RequestType], \A q \in Request : RequestOK(q)',
         session' \subseteq Session, \A s \in session' : SessionOK(s)',
         \A l \in Link : LinkOK(l)', \A k, l \in Link : Withdrawn(k, l)'
  PROVE  AcctTypeOK' /\ AcctInv'
  <1>1. AcctTypeOK'
    BY DEF Moving, AcctTypeOK, LinkType, RequestType
  <1>2. ActiveMeansConfirmed'
    BY DEF Moving, RowMoves, ActiveMeansConfirmed
  <1>3. NobodyIsUnlinked'
    BY DEF Moving, RowMoves, NobodyIsUnlinked
  <1>. QED  BY <1>1, <1>2, <1>3 DEF AcctInv

-----------------------------------------------------------------------------
(* Steps that only read, and the clock.                                    *)

LEMMA RowStill ==
  ASSUME AcctTypeOK, AcctInv, NEW r \in Holder, account'[r] = account[r],
         Suspended(account[r])' => Suspended(account[r])
  PROVE  RowMoves(r)
  <1>1. account[r] \in AccountRow
    BY TypeOKParts
  <1>2. account[r].version \in Int
    BY <1>1, Numbers DEF AccountRow
  <1>3. account[r].version <= account'[r].version
    BY <1>2
  <1>. QED  BY <1>1, <1>3 DEF RowMoves, AcctInv, ActiveMeansConfirmed,
              NobodyIsUnlinked

LEMMA LinkStill ==
  ASSUME AcctTypeOK, NEW l \in Link, link'[l] = link[l]
  PROVE  LinkMoves(l)
  BY TypeOKParts DEF LinkMoves

LEMMA Unmoved ==
  ASSUME AcctTypeOK, AcctInv, clock' = clock, account' = account, link' = link
  PROVE  Moving
  <1>1. \A r \in Holder : RowMoves(r)
    <2>1. ASSUME NEW r \in Holder PROVE RowMoves(r)
      BY RowStill DEF Suspended
    <2>. QED  BY <2>1
  <1>2. \A l \in Link : LinkMoves(l)
    BY LinkStill
  <1>. QED  BY <1>1, <1>2, TypeOKParts DEF Moving

LEMMA TickKeeps ==
  ASSUME AcctTypeOK, AcctInv, AcctTick
  PROVE  AcctTypeOK' /\ AcctInv'
  <1>1. clock \in Int /\ clock' \in 0..MaxClock /\ clock' = clock + 1
    BY TypeOKParts, AccountsAssumption DEF AcctTick
  <1>2. ASSUME NEW r \in Holder PROVE RowMoves(r)
    <2>1. account[r] \in AccountRow /\ account'[r] = account[r]
      BY TypeOKParts DEF AcctTick
    <2>2. account[r].until \in Int
      BY <2>1, Numbers DEF AccountRow
    <2>3. account[r].until > clock + 1 => account[r].until > clock
      BY <1>1, <2>2
    <2>4. Suspended(account[r])' => Suspended(account[r])
      BY <1>1, <2>1, <2>3 DEF Suspended, IsSuspended
    <2>. QED  BY <2>1, <2>4, RowStill
  <1>3. \A l \in Link : LinkMoves(l)
    BY LinkStill DEF AcctTick
  <1>4. Moving
    BY <1>1, <1>2, <1>3, TypeOKParts DEF Moving, AcctTick
  <1>5. request' \in [Request -> RequestType] /\ \A q \in Request : RequestOK(q)'
    BY <1>4, RequestsRest DEF AcctTick
  <1>6. session' \subseteq Session /\ \A s \in session' : SessionOK(s)'
    BY <1>4, SessionsRest DEF AcctTick
  <1>7. (\A l \in Link : LinkOK(l)') /\ (\A k, l \in Link : Withdrawn(k, l)')
    BY <1>4, LinksRest DEF AcctTick
  <1>. QED  BY <1>4, <1>5, <1>6, <1>7, Together

LEMMA ReadingKeeps ==
  ASSUME AcctTypeOK, AcctInv, NEW q \in Request, NEW j \in RequestType,
         JobOK(j), Goes(q, j), OnlyRequest
  PROVE  AcctTypeOK' /\ AcctInv'
  <1>1. Moving
    BY Unmoved DEF OnlyRequest
  <1>2. request'[q] = j
    BY TypeOKParts DEF Goes
  <1>3. RequestOK(q)'
    BY <1>2 DEF OnlyRequest, RequestOK, JobOK, HasSeen, FromLink, Fresh, TypedHolds,
              Suspended
  <1>4. request' \in [Request -> RequestType] /\ \A x \in Request : RequestOK(x)'
    BY <1>1, <1>3, RequestsGo
  <1>5. session' \subseteq Session /\ \A s \in session' : SessionOK(s)'
    BY <1>1, SessionsRest DEF OnlyRequest
  <1>6. (\A l \in Link : LinkOK(l)') /\ (\A k, l \in Link : Withdrawn(k, l)')
    BY <1>1, LinksRest DEF OnlyRequest
  <1>. QED  BY <1>1, <1>4, <1>5, <1>6, Together

LEMMA DiesKeeps ==
  ASSUME AcctTypeOK, AcctInv, NEW q \in Request, Dies(q)
  PROVE  AcctTypeOK' /\ AcctInv'
  BY IdleTypes, IdleIsOK, ReadingKeeps DEF Dies, Ends

LEMMA StartsTypes ==
  ASSUME NEW r \in Holder, NEW pc \in Step
  PROVE  /\ Starts(r, pc) \in RequestType
         /\ Starts(r, pc).pc = pc /\ Starts(r, pc).reader = {r}
         /\ Starts(r, pc).seen = NotSeen
  <1>. DEFINE R == {r}
  <1>1. R \in SUBSET Holder
    OBVIOUS
  <1>2. Starts(r, pc) = [Idle EXCEPT !.pc = pc, !.reader = R]
    BY DEF Starts
  <1>. HIDE DEF R
  <1>3. Starts(r, pc) \in RequestType /\ Starts(r, pc).pc = pc
        /\ Starts(r, pc).reader = R /\ Starts(r, pc).seen = NotSeen
    BY <1>1, <1>2, IdleTypes DEF RequestType
  <1>. QED  BY <1>3 DEF R

LEMMA SeesTypes ==
  ASSUME NEW row \in AccountRow
  PROVE  /\ Sees(row) \in Seen
         /\ Sees(row).exists = (row.status # "none")
         /\ Sees(row).verified = row.verified
         /\ Sees(row).version = row.version
  <1>1. Lapsed(row) \in BOOLEAN /\ (row.status # "none") \in BOOLEAN
    BY DEF Lapsed, SuspensionLapsed
  <1>2. row.version \in 0..MaxVersion /\ row.verified \in BOOLEAN
    BY DEF AccountRow
  <1>. QED  BY <1>1, <1>2 DEF Sees, Seen

LEMMA SeeingTypes ==
  ASSUME AcctTypeOK, NEW r \in Holder, NEW pc \in Step
  PROVE  /\ Seeing(r, pc) \in RequestType
         /\ Seeing(r, pc).pc = pc /\ Seeing(r, pc).reader = {r}
         /\ Seeing(r, pc).seen = Sees(account[r])
         /\ Seeing(r, pc).typed = NoPassword
  <1>. DEFINE n == Sees(account[r])
  <1>1. n \in Seen
    BY SeesTypes, TypeOKParts
  <1>2. Seeing(r, pc) = [Starts(r, pc) EXCEPT !.seen = n]
    BY DEF Seeing
  <1>3. Starts(r, pc).typed = NoPassword
    BY IdleTypes DEF Starts, RequestType
  <1>. HIDE DEF n
  <1>4. /\ Seeing(r, pc) \in RequestType
        /\ Seeing(r, pc).pc = pc /\ Seeing(r, pc).reader = {r}
        /\ Seeing(r, pc).seen = n
        /\ Seeing(r, pc).typed = NoPassword
    BY <1>1, <1>2, <1>3, StartsTypes DEF RequestType
  <1>. QED  BY <1>4 DEF n

(* What an account not suspended gives to a request that reads it.         *)
LEMMA SeenIsFresh ==
  ASSUME AcctTypeOK, NEW r \in Holder, ~Suspended(account[r])
  PROVE  Fresh(r, Sees(account[r]).version)
  <1>1. account[r] \in AccountRow
    BY TypeOKParts
  <1>2. account[r].version \in Int
    BY <1>1, Numbers DEF AccountRow
  <1>3. account[r].version <= account[r].version
    BY <1>2
  <1>. QED  BY <1>1, <1>3, SeesTypes DEF Fresh

LEMMA PlainJobOK ==
  ASSUME NEW r \in Holder, NEW j \in RequestType, j.reader = {r},
         account[r].status # "none" \/ j.pc = "register",
         j.pc \notin {"login", "tidy", "unsuspend", "oauth", "verify"} \cup Kind
  PROVE  JobOK(j)
  BY DEF JobOK, HasSeen, FromLink

LEMMA SeeingJobOK ==
  ASSUME AcctTypeOK, NEW r \in Holder, NEW j \in RequestType, j.reader = {r},
         j.seen = Sees(account[r]),
         j.pc \in {"login", "tidy", "unsuspend", "oauth"},
         account[r].status # "none" \/ j.pc = "oauth",
         j.pc \in {"login", "oauth"} /\ account[r].status # "none" => ~Suspended(account[r]),
         j.pc = "login" => j.typed = NoPassword \/ j.typed = account[r].password
  PROVE  JobOK(j)
  <1>1. account[r] \in AccountRow
    BY TypeOKParts
  <1>2. j.seen.exists = (account[r].status # "none") /\ j.seen.verified = account[r].verified
        /\ j.seen.version = account[r].version
    BY <1>1, SeesTypes
  <1>3. ASSUME HasSeen(j) PROVE account[r].status # "none"
    BY <1>2, <1>3 DEF HasSeen
  <1>4. ASSUME HasSeen(j), j.pc \in {"login", "oauth"}
        PROVE  Fresh(r, j.seen.version)
    BY <1>3, <1>4, SeenIsFresh
  <1>5. j.pc = "login" => TypedHolds(r, j.seen.version, j.typed)
    BY <1>2 DEF TypedHolds
  <1>6. ~FromLink(j)
    BY DEF FromLink, Kind
  <1>. QED  BY <1>2, <1>3, <1>4, <1>5, <1>6 DEF JobOK

LEMMA ReadForRegisterKeeps ==
  ASSUME AcctTypeOK, AcctInv, NEW q \in Request, NEW r \in Holder, NEW p \in Password,
         ReadForRegister(q, r, p)
  PROVE  AcctTypeOK' /\ AcctInv'
  <1>. DEFINE j == [Starts(r, "register") EXCEPT !.typed = p]
  <1>1. j \in RequestType /\ j.pc = "register" /\ j.reader = {r}
    BY StartsTypes DEF RequestType, Step
  <1>2. Goes(q, j) /\ OnlyRequest
    BY DEF ReadForRegister, Begins
  <1>. HIDE DEF j
  <1>3. JobOK(j)
    BY <1>1, PlainJobOK DEF Kind
  <1>. QED  BY <1>1, <1>2, <1>3, ReadingKeeps

LEMMA AskingForLinkKeeps ==
  ASSUME AcctTypeOK, AcctInv, NEW q \in Request, NEW r \in Holder,
         ReadForResend(q, r) \/ ReadForForgot(q, r)
  PROVE  AcctTypeOK' /\ AcctInv'
  <1>. PICK pc \in {"issue_verification", "issue_reset"} :
         Goes(q, Starts(r, pc)) /\ OnlyRequest /\ account[r].status # "none"
    BY DEF ReadForResend, ReadForForgot, Begins, Known
  <1>1. pc \in Step
    BY DEF Step
  <1>2. JobOK(Starts(r, pc))
    BY <1>1, StartsTypes, PlainJobOK DEF Kind
  <1>. QED  BY <1>1, <1>2, StartsTypes, ReadingKeeps

LEMMA OpenLinkKeeps ==
  ASSUME AcctTypeOK, AcctInv, NEW q \in Request, NEW l \in Link, NEW kind \in Kind,
         NEW p \in Password \cup {NoPassword}, OpenLink(q, l, kind, p)
  PROVE  AcctTypeOK' /\ AcctInv'
  <1>. DEFINE R == link[l].reader
              L == {l}
              j == [Idle EXCEPT !.pc = kind, !.reader = R, !.link = L, !.typed = p]
  <1>1. link[l] \in LinkType /\ link[l].row # "none" /\ link[l].kind = kind
    BY TypeOKParts DEF OpenLink, Works
  <1>2. PICK r \in Holder : R = {r} /\ account[r].status # "none"
    BY <1>1 DEF AcctInv, LinkOK
  <1>3. R \in SUBSET Holder /\ L \in SUBSET Link /\ kind \in Step
    BY <1>1 DEF LinkType, Step
  <1>4. Goes(q, j) /\ OnlyRequest
    BY DEF OpenLink, Begins
  <1>5. j \in RequestType /\ j.pc = kind /\ j.reader = R /\ j.link = L
    <2>. HIDE DEF R, L
    <2>. QED  BY <1>3, IdleTypes DEF RequestType
  <1>6. kind # "verify" /\ kind \notin {"login", "tidy", "unsuspend", "oauth"}
    BY DEF Kind
  <1>7. JobOK(j)
    <2>1. link[l].kind = KindOf(kind) /\ link[l].reader = R
      BY <1>1, <1>6 DEF KindOf
    <2>. HIDE DEF j, R
    <2>. QED  BY <1>1, <1>2, <1>5, <1>6, <2>1 DEF JobOK
  <1>. HIDE DEF j
  <1>. QED  BY <1>4, <1>5, <1>7, ReadingKeeps

LEMMA ReadForVerifyKeeps ==
  ASSUME AcctTypeOK, AcctInv, NEW q \in Request, ReadForVerify(q)
  PROVE  AcctTypeOK' /\ AcctInv'
  <1>. DEFINE i == request[q]
  <1>1. i \in RequestType /\ JobOK(i) /\ i.pc = "VERIFICACAO_EMAIL"
    BY TypeOKParts DEF AcctInv, RequestOK, ReadForVerify, At
  <1>2. PICK r \in i.reader :
          Goes(q, [i EXCEPT !.pc = "verify", !.seen = Sees(account[r])])
    BY DEF ReadForVerify
  <1>3. OnlyRequest
    BY DEF ReadForVerify
  <1>. DEFINE n == Sees(account[r])
  <1>4. r \in Holder /\ n \in Seen
    BY <1>1, TypeOKParts, SeesTypes DEF RequestType
  <1>. HIDE DEF i, n
  <1>. DEFINE j == [i EXCEPT !.pc = "verify", !.seen = n]
  <1>5. j \in RequestType /\ j.pc = "verify" /\ j.reader = i.reader /\ j.link = i.link
    BY <1>1, <1>4 DEF RequestType, Step
  <1>6. Goes(q, j)
    BY <1>2 DEF i, n
  <1>. HIDE DEF j
  <1>7. HasSeen(i) /\ FromLink(i) /\ KindOf(i.pc) = KindOf(j.pc)
    BY <1>1, <1>5 DEF HasSeen, FromLink, Kind, KindOf
  <1>8. JobOK(j)
    BY <1>1, <1>5, <1>7 DEF JobOK
  <1>. QED  BY <1>3, <1>5, <1>6, <1>8, ReadingKeeps

LEMMA ReadForLoginKeeps ==
  ASSUME AcctTypeOK, AcctInv, NEW q \in Request, NEW r \in Holder, NEW p \in Password,
         ReadForLogin(q, r, p)
  PROVE  AcctTypeOK' /\ AcctInv'
  <1>. DEFINE j == [Seeing(r, "login") EXCEPT !.typed = p]
  <1>1. j \in RequestType /\ j.pc = "login" /\ j.reader = {r} /\ j.typed = p
        /\ j.seen = Sees(account[r])
    BY SeeingTypes DEF RequestType, Step
  <1>2. Goes(q, j) /\ OnlyRequest /\ account[r].status # "none"
        /\ ~Suspended(account[r]) /\ p = account[r].password
    BY DEF ReadForLogin, Begins, Known
  <1>. HIDE DEF j
  <1>3. JobOK(j)
    BY <1>1, <1>2, SeeingJobOK
  <1>. QED  BY <1>1, <1>2, <1>3, ReadingKeeps

LEMMA SessionReader ==
  ASSUME AcctTypeOK, AcctInv, NEW s \in session
  PROVE  s.reader \in Holder /\ account[s.reader].status # "none"
  BY TypeOKParts DEF AcctInv, SessionOK, Session

LEMMA ReadForChangeKeeps ==
  ASSUME AcctTypeOK, AcctInv, NEW q \in Request, NEW s \in session, NEW p \in Password,
         ReadForChange(q, s, p)
  PROVE  AcctTypeOK' /\ AcctInv'
  <1>. DEFINE r == s.reader
              j == [Starts(r, "change") EXCEPT !.typed = p]
  <1>1. r \in Holder /\ account[r].status # "none"
    BY SessionReader
  <1>2. Goes(q, j) /\ OnlyRequest
    BY DEF ReadForChange, Begins
  <1>3. j \in RequestType /\ j.pc = "change" /\ j.reader = {r}
    <2>. HIDE DEF r
    <2>. QED  BY <1>1, StartsTypes DEF RequestType, Step
  <1>. HIDE DEF j, r
  <1>4. JobOK(j)
    BY <1>1, <1>3, PlainJobOK DEF Kind
  <1>. QED  BY <1>2, <1>3, <1>4, ReadingKeeps

LEMMA SeeLapseKeeps ==
  ASSUME AcctTypeOK, AcctInv, NEW q \in Request, NEW s \in session, SeeLapse(q, s)
  PROVE  AcctTypeOK' /\ AcctInv'
  <1>. DEFINE r == s.reader
              j == Seeing(r, "tidy")
  <1>1. r \in Holder /\ account[r].status # "none"
    BY SessionReader
  <1>2. Goes(q, j) /\ OnlyRequest
    BY DEF SeeLapse, Begins
  <1>3. j \in RequestType /\ j.pc = "tidy" /\ j.reader = {r} /\ j.seen = Sees(account[r])
    <2>. HIDE DEF r
    <2>. QED  BY <1>1, SeeingTypes DEF Step
  <1>. HIDE DEF j, r
  <1>4. JobOK(j)
    BY <1>1, <1>3, SeeingJobOK
  <1>. QED  BY <1>2, <1>3, <1>4, ReadingKeeps

LEMMA ReadIdentityKeeps ==
  ASSUME AcctTypeOK, AcctInv, NEW q \in Request, NEW r \in Holder, NEW from \in Provider,
         ReadIdentity(q, r, from)
  PROVE  AcctTypeOK' /\ AcctInv'
  <1>. DEFINE j == Seeing(r, "login")
  <1>1. j \in RequestType /\ j.pc = "login" /\ j.reader = {r} /\ j.seen = Sees(account[r])
        /\ j.typed = NoPassword
    BY SeeingTypes DEF Step
  <1>2. Goes(q, j) /\ OnlyRequest /\ ~Suspended(account[r])
        /\ account[r].status # "none"
    BY DEF ReadIdentity, Begins, AcctInv, NobodyIsUnlinked
  <1>. HIDE DEF j
  <1>3. JobOK(j)
    BY <1>1, <1>2, SeeingJobOK
  <1>. QED  BY <1>1, <1>2, <1>3, ReadingKeeps

LEMMA ReadByAddressKeeps ==
  ASSUME AcctTypeOK, AcctInv, NEW q \in Request, NEW r \in Holder, NEW from \in Provider,
         NEW trusted \in BOOLEAN, ReadByAddress(q, r, from, trusted)
  PROVE  AcctTypeOK' /\ AcctInv'
  <1>. DEFINE w == {from}
              j == [Seeing(r, "oauth") EXCEPT !.with = w, !.trusted = trusted]
  <1>1. w \in SUBSET Provider
    OBVIOUS
  <1>2. Goes(q, j) /\ OnlyRequest /\ (account[r].status # "none" => ~Suspended(account[r]))
    BY DEF ReadByAddress, Begins
  <1>3. j \in RequestType /\ j.pc = "oauth" /\ j.reader = {r} /\ j.seen = Sees(account[r])
    <2>. DEFINE n == Seeing(r, "oauth")
    <2>1. n \in RequestType /\ n.pc = "oauth" /\ n.reader = {r}
          /\ n.seen = Sees(account[r])
      BY SeeingTypes DEF Step
    <2>. HIDE DEF w, n
    <2>2. [n EXCEPT !.with = w, !.trusted = trusted] \in RequestType
      BY <1>1, <2>1 DEF RequestType
    <2>3. /\ [n EXCEPT !.with = w, !.trusted = trusted].pc = n.pc
          /\ [n EXCEPT !.with = w, !.trusted = trusted].reader = n.reader
          /\ [n EXCEPT !.with = w, !.trusted = trusted].seen = n.seen
      BY <2>1 DEF RequestType
    <2>. QED  BY <2>1, <2>2, <2>3 DEF n
  <1>. HIDE DEF j
  <1>4. JobOK(j)
    BY <1>2, <1>3, SeeingJobOK
  <1>. QED  BY <1>2, <1>3, <1>4, ReadingKeeps

LEMMA ReadForSuspendKeeps ==
  ASSUME AcctTypeOK, AcctInv, NEW q \in Request, NEW r \in Holder, NEW d \in Duration,
         ReadForSuspend(q, r, d)
  PROVE  AcctTypeOK' /\ AcctInv'
  <1>. DEFINE n == SuspensionEndsAt(d, clock, Term, 2 * Term)
              j == [Starts(r, "suspend") EXCEPT !.until = n]
  <1>1. n \in AccountDate
    <2>1. clock \in 0..MaxClock
      BY TypeOKParts
    <2>2. clock + Term \in AccountDate /\ clock + 2 * Term \in AccountDate
          /\ NoDate \in AccountDate
      BY <2>1, Numbers
    <2>. QED  BY <2>2 DEF SuspensionEndsAt
  <1>2. Goes(q, j) /\ OnlyRequest /\ account[r].status # "none"
    BY DEF ReadForSuspend, Begins
  <1>3. j \in RequestType /\ j.pc = "suspend" /\ j.reader = {r}
    <2>. HIDE DEF n
    <2>. QED  BY <1>1, StartsTypes DEF RequestType, Step
  <1>. HIDE DEF j
  <1>4. JobOK(j)
    BY <1>2, <1>3, PlainJobOK DEF Kind
  <1>. QED  BY <1>2, <1>3, <1>4, ReadingKeeps

LEMMA ReadForUnsuspendKeeps ==
  ASSUME AcctTypeOK, AcctInv, NEW q \in Request, NEW r \in Holder, ReadForUnsuspend(q, r)
  PROVE  AcctTypeOK' /\ AcctInv'
  <1>. DEFINE j == Seeing(r, "unsuspend")
  <1>1. j \in RequestType /\ j.pc = "unsuspend" /\ j.reader = {r}
        /\ j.seen = Sees(account[r])
    BY SeeingTypes DEF Step
  <1>2. Goes(q, j) /\ OnlyRequest /\ account[r].status # "none"
    BY DEF ReadForUnsuspend, Begins
  <1>. HIDE DEF j
  <1>3. JobOK(j)
    BY <1>1, <1>2, SeeingJobOK
  <1>. QED  BY <1>1, <1>2, <1>3, ReadingKeeps

-----------------------------------------------------------------------------
(* The writes of an account, by id alone.                                  *)

MayBecome(old, new) ==
  /\ new.status # "none"
  /\ old.status # "none" =>
       /\ old.version <= new.version
       /\ new.version = old.version =>
            /\ new.password = old.password
            /\ Suspended(new) => Suspended(old)
       /\ old.verified \/ old.erased => new.verified \/ new.erased
  /\ new.status = "ATIVO" /\ ~new.erased => new.verified

LEMMA OneAccount ==
  ASSUME AcctTypeOK, AcctInv, NEW r \in Holder, NEW row \in AccountRow,
         Update(r, row), clock' = clock, MayBecome(account[r], row)
  PROVE  /\ clock' \in 0..MaxClock
         /\ account' \in [Holder -> AccountRow]
         /\ account'[r] = row
         /\ \A x \in Holder : RowMoves(x)
  <1>1. account' \in [Holder -> AccountRow] /\ account'[r] = row /\ clock' \in 0..MaxClock
    BY TypeOKParts DEF Update
  <1>2. RowMoves(r)
    BY <1>1 DEF RowMoves, MayBecome, Suspended
  <1>3. ASSUME NEW x \in Holder, x # r PROVE RowMoves(x)
    <2>1. account'[x] = account[x]
      BY <1>3, TypeOKParts DEF Update
    <2>. QED  BY <2>1, RowStill DEF Suspended
  <1>. QED  BY <1>1, <1>2, <1>3

LEMMA LinksUnmoved ==
  ASSUME AcctTypeOK, link' = link
  PROVE  link' \in [Link -> LinkType] /\ \A l \in Link : LinkMoves(l)
  BY LinkStill, TypeOKParts

(* An account is written and the request ends.                             *)
LEMMA WriteKeeps ==
  ASSUME AcctTypeOK, AcctInv, NEW r \in Holder,
         NEW row \in AccountRow, Update(r, row), MayBecome(account[r], row),
         request' = request \/ (\E q \in Request : Ends(q)), OnlyAccount
  PROVE  AcctTypeOK' /\ AcctInv'
  <1>1. Moving
    BY OneAccount, LinksUnmoved DEF OnlyAccount, Moving
  <1>2. request' \in [Request -> RequestType] /\ \A x \in Request : RequestOK(x)'
    BY <1>1, RequestsEnd, RequestsRest
  <1>3. session' \subseteq Session /\ \A s \in session' : SessionOK(s)'
    BY <1>1, SessionsRest DEF OnlyAccount
  <1>4. (\A l \in Link : LinkOK(l)') /\ (\A k, l \in Link : Withdrawn(k, l)')
    BY <1>1, LinksRest DEF OnlyAccount
  <1>. QED  BY <1>1, <1>2, <1>3, <1>4, Together

(* An account is written and a browser gets a token.                       *)
LEMMA SignedKeeps ==
  ASSUME AcctTypeOK, AcctInv, NEW q \in Request, NEW r \in Holder,
         NEW row \in AccountRow, Update(r, row), MayBecome(account[r], row),
         NEW by \in Password \cup {NoPassword}, NEW version \in 0..(MaxVersion + 1),
         Signs(r, by, version), Ends(q), UNCHANGED <<clock, link>>,
         version <= row.version,
         version = row.version => ~Suspended(row) /\ (by # NoPassword => by = row.password)
  PROVE  AcctTypeOK' /\ AcctInv'
  <1>0. clock' = clock /\ link' = link
    OBVIOUS
  <1>1. Moving /\ account'[r] = row
    BY <1>0, OneAccount, LinksUnmoved DEF Moving
  <1>2. request' \in [Request -> RequestType] /\ \A x \in Request : RequestOK(x)'
    BY <1>1, RequestsEnd
  <1>. DEFINE new == [reader |-> r, by |-> by, version |-> version]
  <1>3. new \in Session /\ session' = session \cup {new}
        /\ new.reader = r /\ new.by = by /\ new.version = version
    BY DEF Session, Signs
  <1>4. SessionOK(new)'
    <2>1. ~Suspended(row) => (version = row.version => ~Suspended(account[r])')
      BY <1>0, <1>1 DEF Suspended
    <2>2. row.status # "none"
      BY DEF MayBecome
    <2>. QED  BY <1>1, <1>3, <2>1, <2>2 DEF SessionOK, Fresh, TypedHolds
  <1>5. \A s \in session : SessionOK(s)'
    BY <1>1, SessionStays
  <1>. HIDE DEF new
  <1>6. session' \subseteq Session /\ \A s \in session' : SessionOK(s)'
    BY <1>3, <1>4, <1>5, TypeOKParts
  <1>7. (\A l \in Link : LinkOK(l)') /\ (\A k, l \in Link : Withdrawn(k, l)')
    BY <1>0, <1>1, LinksRest
  <1>. QED  BY <1>1, <1>2, <1>6, <1>7, Together

(* What each of the writes makes of a row.                                 *)

LEMMA RowNumbers ==
  ASSUME NEW row \in AccountRow
  PROVE  /\ row.version \in 0..MaxVersion /\ row.version \in Int
         /\ row.version <= row.version
  <1>1. row.version \in 0..MaxVersion /\ row.version \in Int
    BY Numbers DEF AccountRow
  <1>. QED  BY <1>1

LEMMA NextVersion ==
  ASSUME NEW row \in AccountRow, row.version < MaxVersion
  PROVE  /\ row.version + 1 \in 0..MaxVersion
         /\ row.version <= row.version + 1 /\ row.version # row.version + 1
  BY RowNumbers, Numbers

LEMMA NewAccountStep ==
  ASSUME NEW old \in AccountRow, old.status = "none",
         NEW p \in Password \cup {NoPassword}, NEW v \in BOOLEAN,
         NEW i \in SUBSET Provider
  PROVE  /\ NewAccount(p, v, i) \in AccountRow
         /\ NewAccount(p, v, i).version = 0
         /\ MayBecome(old, NewAccount(p, v, i)) /\ ~Suspended(NewAccount(p, v, i))
  <1>. DEFINE st == StatusAfterLapse(v)
              z == 0
              new == NewAccount(p, v, i)
  <1>1. st \in {"ATIVO", "PENDENTE_VERIFICACAO"} /\ (st = "ATIVO" => v)
    BY DEF StatusAfterLapse
  <1>2. new = [NoAccount EXCEPT !.password = p, !.verified = v, !.identities = i,
                                !.status = st]
    BY DEF NewAccount
  <1>3. NoAccount.version = z
    BY DEF NoAccount
  <1>. HIDE DEF st, new, z
  <1>4. new \in AccountRow /\ new.status = st /\ new.verified = v /\ new.version = z
    BY <1>1, <1>2, <1>3, NoAccountTypes DEF AccountRow, Status
  <1>5. ~Suspended(new)
    BY <1>1, <1>4 DEF Suspended, IsSuspended
  <1>6. MayBecome(old, new)
    BY <1>1, <1>4 DEF MayBecome
  <1>. QED  BY <1>4, <1>5, <1>6 DEF new, z

LEMMA LapseStep ==
  ASSUME NEW old \in AccountRow, old.status # "none", NEW seen \in Seen,
         seen.verified => old.verified \/ old.erased,
         old.status = "ATIVO" /\ ~old.erased => old.verified
  PROVE  /\ LapseOver(old, seen) \in AccountRow
         /\ LapseOver(old, seen).version = old.version
         /\ LapseOver(old, seen).password = old.password
         /\ Suspended(LapseOver(old, seen)) => Suspended(old)
         /\ MayBecome(old, LapseOver(old, seen))
  <1>1. CASE ~seen.lapsed
    BY <1>1, RowNumbers DEF LapseOver, MayBecome
  <1>2. CASE seen.lapsed
    <2>. DEFINE st == StatusAfterLapse(seen.verified)
                n == NoDate
                new == LapseOver(old, seen)
    <2>1. st \in {"ATIVO", "PENDENTE_VERIFICACAO"} /\ (st = "ATIVO" => seen.verified)
      BY DEF StatusAfterLapse
    <2>2. new = [old EXCEPT !.status = st, !.until = n] /\ n \in AccountDate
      BY <1>2, Numbers DEF LapseOver
    <2>. HIDE DEF st, n, new
    <2>3. new \in AccountRow /\ new.status = st /\ new.version = old.version
          /\ new.password = old.password /\ new.verified = old.verified
          /\ new.erased = old.erased
      BY <2>1, <2>2 DEF AccountRow, Status
    <2>4. ~Suspended(new)
      BY <2>1, <2>3 DEF Suspended, IsSuspended
    <2>5. MayBecome(old, new)
      BY <2>1, <2>3, <2>4, RowNumbers DEF MayBecome
    <2>. QED  BY <2>3, <2>4, <2>5 DEF new
  <1>. QED  BY <1>1, <1>2

LEMMA LiftedStep ==
  ASSUME NEW old \in AccountRow, old.status # "none", NEW seen \in Seen,
         seen.verified => old.verified \/ old.erased
  PROVE  Lifted(old, seen) \in AccountRow /\ MayBecome(old, Lifted(old, seen))
  <1>. DEFINE st == StatusAfterLapse(seen.verified)
              n == NoDate
              new == Lifted(old, seen)
  <1>1. st \in {"ATIVO", "PENDENTE_VERIFICACAO"} /\ (st = "ATIVO" => seen.verified)
    BY DEF StatusAfterLapse
  <1>2. new = [old EXCEPT !.status = st, !.until = n] /\ n \in AccountDate
    BY Numbers DEF Lifted
  <1>. HIDE DEF st, n, new
  <1>3. new \in AccountRow /\ new.status = st /\ new.version = old.version
        /\ new.password = old.password /\ new.verified = old.verified
        /\ new.erased = old.erased
    BY <1>1, <1>2 DEF AccountRow, Status
  <1>4. ~Suspended(new)
    BY <1>1, <1>3 DEF Suspended, IsSuspended
  <1>5. MayBecome(old, new)
    BY <1>1, <1>3, <1>4, RowNumbers DEF MayBecome
  <1>. QED  BY <1>3, <1>5 DEF new

LEMMA VerifiedStep ==
  ASSUME NEW old \in AccountRow, NEW seen \in Seen
  PROVE  /\ VerifiedRow(old, seen) \in AccountRow
         /\ VerifiedRow(old, seen).version = old.version
         /\ ~Suspended(VerifiedRow(old, seen))
         /\ MayBecome(old, VerifiedRow(old, seen))
  <1>. DEFINE n == IF seen.lapsed THEN NoDate ELSE old.until
              new == VerifiedRow(old, seen)
  <1>1. n \in AccountDate
    BY Numbers DEF AccountRow
  <1>2. new = [old EXCEPT !.verified = TRUE, !.status = "ATIVO", !.until = n]
    BY DEF VerifiedRow, AccountRow
  <1>. HIDE DEF n, new
  <1>3. new \in AccountRow /\ new.status = "ATIVO" /\ new.version = old.version
        /\ new.password = old.password /\ new.verified
    BY <1>1, <1>2 DEF AccountRow, Status
  <1>4. ~Suspended(new)
    BY <1>3 DEF Suspended, IsSuspended
  <1>5. MayBecome(old, new)
    BY <1>3, <1>4, RowNumbers DEF MayBecome
  <1>. QED  BY <1>3, <1>4, <1>5 DEF new

LEMMA NewPasswordStep ==
  ASSUME NEW old \in AccountRow, old.status # "none", old.version < MaxVersion,
         NEW p \in Password \cup {NoPassword},
         old.status = "ATIVO" /\ ~old.erased => old.verified
  PROVE  /\ NewPassword(old, p) \in AccountRow
         /\ MayBecome(old, NewPassword(old, p))
         /\ [NewPassword(old, p) EXCEPT !.verified = TRUE] \in AccountRow
         /\ MayBecome(old, [NewPassword(old, p) EXCEPT !.verified = TRUE])
  <1>. DEFINE v == old.version + 1
              new == NewPassword(old, p)
              seen == [new EXCEPT !.verified = TRUE]
  <1>1. v \in 0..MaxVersion /\ old.version <= v /\ old.version # v
    BY NextVersion
  <1>2. new = [old EXCEPT !.password = p, !.version = v]
    BY DEF NewPassword, AccountRow
  <1>. HIDE DEF v, new
  <1>3. new \in AccountRow /\ new.version = v /\ new.status = old.status
        /\ new.verified = old.verified /\ new.erased = old.erased
    BY <1>1, <1>2 DEF AccountRow
  <1>4. seen \in AccountRow /\ seen.version = v /\ seen.status = old.status
        /\ seen.verified /\ seen.erased = old.erased
    BY <1>3 DEF AccountRow
  <1>. HIDE DEF seen
  <1>5. MayBecome(old, new) /\ MayBecome(old, seen)
    BY <1>1, <1>3, <1>4 DEF MayBecome
  <1>. QED  BY <1>3, <1>4, <1>5 DEF new, seen

LEMMA VersionStep ==
  ASSUME NEW old \in AccountRow, old.status # "none", old.version < MaxVersion,
         old.status = "ATIVO" /\ ~old.erased => old.verified
  PROVE  /\ [old EXCEPT !.version = @ + 1] \in AccountRow
         /\ MayBecome(old, [old EXCEPT !.version = @ + 1])
  <1>. DEFINE v == old.version + 1
              new == [old EXCEPT !.version = @ + 1]
  <1>1. v \in 0..MaxVersion /\ old.version <= v /\ old.version # v
    BY NextVersion
  <1>2. new = [old EXCEPT !.version = v]
    BY DEF AccountRow
  <1>. HIDE DEF v, new
  <1>3. new \in AccountRow /\ new.version = v /\ new.status = old.status
        /\ new.verified = old.verified /\ new.erased = old.erased
    BY <1>1, <1>2 DEF AccountRow
  <1>4. MayBecome(old, new)
    BY <1>1, <1>3 DEF MayBecome
  <1>. QED  BY <1>3, <1>4 DEF new

LEMMA SuspendedStep ==
  ASSUME NEW old \in AccountRow, old.version < MaxVersion, NEW until \in AccountDate
  PROVE  /\ SuspendedRow(old, until) \in AccountRow
         /\ MayBecome(old, SuspendedRow(old, until))
  <1>. DEFINE v == old.version + 1
              new == SuspendedRow(old, until)
  <1>1. v \in 0..MaxVersion /\ old.version <= v /\ old.version # v
    BY NextVersion
  <1>2. new = [old EXCEPT !.status = "SUSPENSO", !.until = until, !.version = v]
    BY DEF SuspendedRow, AccountRow
  <1>. HIDE DEF v, new
  <1>3. new \in AccountRow /\ new.version = v /\ new.status = "SUSPENSO"
        /\ new.verified = old.verified /\ new.erased = old.erased
    BY <1>1, <1>2 DEF AccountRow, Status
  <1>4. MayBecome(old, new)
    BY <1>1, <1>3 DEF MayBecome
  <1>. QED  BY <1>3, <1>4 DEF new

LEMMA ErasedStep ==
  ASSUME NEW old \in AccountRow, old.version < MaxVersion
  PROVE  ErasedAccount(old) \in AccountRow /\ MayBecome(old, ErasedAccount(old))
  <1>. DEFINE v == old.version + 1
              new == ErasedAccount(old)
  <1>1. v \in 0..MaxVersion /\ old.version <= v /\ old.version # v
    BY NextVersion
  <1>2. new = [NoAccount EXCEPT !.status = "ANONIMIZADO", !.version = v, !.erased = TRUE]
    BY DEF ErasedAccount
  <1>. HIDE DEF v, new
  <1>3. new \in AccountRow /\ new.version = v /\ new.status = "ANONIMIZADO" /\ new.erased
    BY <1>1, <1>2, NoAccountTypes DEF AccountRow, Status
  <1>4. MayBecome(old, new)
    BY <1>1, <1>3 DEF MayBecome
  <1>. QED  BY <1>3, <1>4 DEF new

LEMMA LinkedStep ==
  ASSUME NEW old \in AccountRow, old.status # "none", old.version < MaxVersion,
         NEW seen \in Seen, NEW with \in SUBSET Provider,
         old.status = "ATIVO" /\ ~old.erased => old.verified
  PROVE  /\ LinkedRow(old, seen, with) \in AccountRow
         /\ MayBecome(old, LinkedRow(old, seen, with))
         /\ seen.verified => /\ LinkedRow(old, seen, with).version = old.version
                             /\ Suspended(LinkedRow(old, seen, with)) => Suspended(old)
         /\ ~seen.verified => /\ LinkedRow(old, seen, with).version = old.version + 1
                              /\ ~Suspended(LinkedRow(old, seen, with))
  <1>. DEFINE v == old.version + 1
              i == old.identities \cup with
              new == LinkedRow(old, seen, with)
  <1>1. v \in 0..MaxVersion /\ old.version <= v /\ old.version # v
    BY NextVersion
  <1>2. i \in SUBSET Provider
    BY DEF AccountRow
  <1>3. CASE seen.verified
    <2>1. new = [old EXCEPT !.identities = i]
      BY <1>3 DEF LinkedRow, AccountRow
    <2>. HIDE DEF v, i, new
    <2>2. new \in AccountRow /\ new.version = old.version /\ new.status = old.status
          /\ new.password = old.password /\ new.until = old.until
          /\ new.verified = old.verified /\ new.erased = old.erased
      BY <1>2, <2>1 DEF AccountRow
    <2>3. Suspended(new) => Suspended(old)
      BY <2>2 DEF Suspended
    <2>4. MayBecome(old, new)
      BY <2>2, <2>3, RowNumbers DEF MayBecome
    <2>. QED  BY <1>3, <2>2, <2>3, <2>4 DEF new
  <1>4. CASE ~seen.verified
    <2>1. new = [old EXCEPT !.identities = i, !.verified = TRUE, !.status = "ATIVO",
                            !.password = NoPassword, !.version = v]
      BY <1>4 DEF LinkedRow, AccountRow
    <2>. HIDE DEF i, new
    <2>2. new \in AccountRow /\ new.version = v /\ new.status = "ATIVO" /\ new.verified
      <3>. HIDE DEF v
      <3>. QED  BY <1>1, <1>2, <2>1 DEF AccountRow, Status
    <2>3. ~Suspended(new)
      BY <2>2 DEF Suspended, IsSuspended
    <2>4. MayBecome(old, new)
      <3>. HIDE DEF v
      <3>. QED  BY <1>1, <2>2, <2>3 DEF MayBecome
    <2>. QED  BY <1>4, <2>2, <2>3, <2>4 DEF new
  <1>. QED  BY <1>3, <1>4

-----------------------------------------------------------------------------
(* The writing actions.                                                    *)

LEMMA RequestReads ==
  ASSUME AcctTypeOK, AcctInv, NEW q \in Request, NEW r \in request[q].reader
  PROVE  /\ r \in Holder /\ account[r] \in AccountRow
         /\ request[q] \in RequestType /\ request[q].seen \in Seen
         /\ request[q].typed \in Password \cup {NoPassword}
         /\ request[q].with \in SUBSET Provider /\ request[q].until \in AccountDate
         /\ request[q].trusted \in BOOLEAN
         /\ JobOK(request[q])
         /\ account[r].status = "ATIVO" /\ ~account[r].erased => account[r].verified
         /\ HasSeen(request[q]) => account[r].status # "none"
  <1>1. request[q] \in RequestType /\ JobOK(request[q])
    BY TypeOKParts DEF AcctInv, RequestOK
  <1>2. r \in Holder
    BY <1>1 DEF RequestType
  <1>3. account[r] \in AccountRow
    BY <1>2, TypeOKParts
  <1>4. account[r].status = "ATIVO" /\ ~account[r].erased => account[r].verified
    BY <1>2 DEF AcctInv, ActiveMeansConfirmed
  <1>5. HasSeen(request[q]) => account[r].status # "none"
    BY <1>1 DEF JobOK
  <1>. QED  BY <1>1, <1>2, <1>3, <1>4, <1>5 DEF RequestType

LEMMA ChangePasswordKeeps ==
  ASSUME AcctTypeOK, AcctInv, NEW q \in Request, ChangePassword(q)
  PROVE  AcctTypeOK' /\ AcctInv'
  <1>1. PICK r \in request[q].reader :
          /\ account[r].version < MaxVersion
          /\ Update(r, NewPassword(account[r], request[q].typed))
    BY DEF ChangePassword, PasswordChanged
  <1>2. HasSeen(request[q]) /\ Ends(q) /\ OnlyAccount
    BY DEF ChangePassword, At, HasSeen
  <1>. DEFINE row == NewPassword(account[r], request[q].typed)
  <1>3. r \in Holder /\ row \in AccountRow /\ MayBecome(account[r], row)
    BY <1>1, <1>2, RequestReads, NewPasswordStep
  <1>. HIDE DEF row
  <1>4. Update(r, row)
    BY <1>1 DEF row
  <1>. QED  BY <1>2, <1>3, <1>4, WriteKeeps

LEMMA TidyLapseKeeps ==
  ASSUME AcctTypeOK, AcctInv, NEW q \in Request, TidyLapse(q)
  PROVE  AcctTypeOK' /\ AcctInv'
  <1>1. PICK r \in request[q].reader :
          Update(r, LapseOver(account[r], request[q].seen))
    BY DEF TidyLapse
  <1>2. request[q].pc = "tidy" /\ HasSeen(request[q]) /\ Ends(q) /\ OnlyAccount
    BY DEF TidyLapse, At, HasSeen
  <1>. DEFINE row == LapseOver(account[r], request[q].seen)
  <1>3. request[q].seen.verified => account[r].verified \/ account[r].erased
    BY <1>2, RequestReads DEF JobOK
  <1>4. r \in Holder /\ row \in AccountRow /\ MayBecome(account[r], row)
    BY <1>2, <1>3, RequestReads, LapseStep
  <1>. HIDE DEF row
  <1>5. Update(r, row)
    BY <1>1 DEF row
  <1>. QED  BY <1>2, <1>4, <1>5, WriteKeeps

LEMMA SuspendKeeps ==
  ASSUME AcctTypeOK, AcctInv, NEW q \in Request, Suspend(q)
  PROVE  AcctTypeOK' /\ AcctInv'
  <1>1. PICK r \in request[q].reader :
          /\ account[r].version < MaxVersion
          /\ Update(r, SuspendedRow(account[r], request[q].until))
    BY DEF Suspend
  <1>2. Ends(q) /\ OnlyAccount
    BY DEF Suspend
  <1>. DEFINE row == SuspendedRow(account[r], request[q].until)
  <1>3. r \in Holder /\ row \in AccountRow /\ MayBecome(account[r], row)
    BY <1>1, RequestReads, SuspendedStep
  <1>. HIDE DEF row
  <1>4. Update(r, row)
    BY <1>1 DEF row
  <1>. QED  BY <1>2, <1>3, <1>4, WriteKeeps

LEMMA UnsuspendKeeps ==
  ASSUME AcctTypeOK, AcctInv, NEW q \in Request, Unsuspend(q)
  PROVE  AcctTypeOK' /\ AcctInv'
  <1>1. PICK r \in request[q].reader :
          Update(r, Lifted(account[r], request[q].seen))
    BY DEF Unsuspend
  <1>2. request[q].pc = "unsuspend" /\ HasSeen(request[q]) /\ Ends(q) /\ OnlyAccount
    BY DEF Unsuspend, At, HasSeen
  <1>. DEFINE row == Lifted(account[r], request[q].seen)
  <1>3. request[q].seen.verified => account[r].verified \/ account[r].erased
    BY <1>2, RequestReads DEF JobOK
  <1>4. r \in Holder /\ row \in AccountRow /\ MayBecome(account[r], row)
    BY <1>2, <1>3, RequestReads, LiftedStep
  <1>. HIDE DEF row
  <1>5. Update(r, row)
    BY <1>1 DEF row
  <1>. QED  BY <1>2, <1>4, <1>5, WriteKeeps

LEMMA LogoutAllKeeps ==
  ASSUME AcctTypeOK, AcctInv, NEW s \in session, LogoutAll(s)
  PROVE  AcctTypeOK' /\ AcctInv'
  <1>. DEFINE r == s.reader
              old == account[r]
              row == [old EXCEPT !.version = @ + 1]
  <1>1. r \in Holder /\ old.status # "none" /\ old \in AccountRow
    BY SessionReader, TypeOKParts
  <1>2. old.version < MaxVersion /\ Update(r, row) /\ request' = request /\ OnlyAccount
    BY DEF LogoutAll
  <1>3. old.status = "ATIVO" /\ ~old.erased => old.verified
    BY <1>1 DEF AcctInv, ActiveMeansConfirmed
  <1>4. row \in AccountRow /\ MayBecome(old, row)
    <2>. HIDE DEF old
    <2>. QED  BY <1>1, <1>2, <1>3, VersionStep
  <1>5. MayBecome(account[r], row)
    BY <1>4
  <1>. HIDE DEF row, old, r
  <1>. QED  BY <1>1, <1>2, <1>4, <1>5, WriteKeeps

(* A link is used or withdrawn: nothing else of it changes.                *)
OnlyMarks ==
  /\ link' \in [Link -> LinkType]
  /\ \A x \in Link : /\ link'[x].kind = link[x].kind
                     /\ link'[x].reader = link[x].reader
                     /\ link'[x].after = link[x].after
                     /\ link'[x].row = "none" <=> link[x].row = "none"

LEMMA MarksMove ==
  ASSUME OnlyMarks
  PROVE  link' \in [Link -> LinkType] /\ \A x \in Link : LinkMoves(x)
  BY DEF OnlyMarks, LinkMoves

LEMMA MarkedLinks ==
  ASSUME AcctTypeOK, AcctInv, Moving, OnlyMarks
  PROVE  \A x \in Link : LinkOK(x)'
  <1>1. ASSUME NEW x \in Link PROVE LinkOK(x)'
    <2>1. CASE link[x].row # "none"
      BY <2>1, LinkStays
    <2>2. CASE link[x].row = "none"
      BY <2>2 DEF OnlyMarks, LinkOK
    <2>. QED  BY <2>1, <2>2
  <1>. QED  BY <1>1

(* Nothing becomes used but links of another kind: the order of resets is  *)
(* as it was.                                                              *)
LEMMA OrderStays ==
  ASSUME AcctTypeOK, AcctInv, OnlyMarks,
         \A x \in Link : link[x].kind = "REPOR_PASSWORD" =>
           link'[x].row = link[x].row \/ link'[x].row = "deleted"
  PROVE  \A k, x \in Link : Withdrawn(k, x)'
  <1>1. ASSUME NEW k \in Link, NEW x \in Link PROVE Withdrawn(k, x)'
    <2>1. Withdrawn(k, x)
      BY DEF AcctInv
    <2>. QED  BY <2>1 DEF OnlyMarks, Withdrawn, ResetsOf
  <1>. QED  BY <1>1

LEMMA SpendMarks ==
  ASSUME AcctTypeOK, NEW l \in Link, Spend(l)
  PROVE  OnlyMarks /\ \A x \in Link : x # l => link'[x].row = link[x].row
  <1>1. link[l] \in LinkType /\ link[l].row # "none"
    BY TypeOKParts DEF Spend
  <1>2. ASSUME NEW x \in Link
        PROVE  /\ link'[x] \in LinkType
               /\ link'[x].kind = link[x].kind
               /\ link'[x].reader = link[x].reader
               /\ link'[x].after = link[x].after
               /\ link'[x].row = "none" <=> link[x].row = "none"
               /\ x # l => link'[x].row = link[x].row
    <2>1. link[x] \in LinkType
      BY TypeOKParts
    <2>2. CASE x = l
      <3>1. link'[x] = [link[x] EXCEPT !.row = "used"]
        BY <2>2, TypeOKParts DEF Spend
      <3>. QED  BY <1>1, <2>1, <2>2, <3>1 DEF LinkType
    <2>3. CASE x # l
      BY <2>1, <2>3, TypeOKParts DEF Spend
    <2>. QED  BY <2>2, <2>3
  <1>3. link' \in [Link -> LinkType]
    BY <1>2, TypeOKParts DEF Spend
  <1>. QED  BY <1>2, <1>3 DEF OnlyMarks

(* The link a request came by.                                             *)
LEMMA LinkOfRequest ==
  ASSUME AcctTypeOK, AcctInv, NEW q \in Request, FromLink(request[q]),
         NEW r \in request[q].reader, NEW l \in request[q].link
  PROVE  /\ l \in Link /\ link[l].row # "none"
         /\ request[q].link = {l}
         /\ link[l].kind = KindOf(request[q].pc)
         /\ link[l].reader = {r} /\ r \in Holder /\ account[r].status # "none"
  <1>1. JobOK(request[q])
    BY DEF AcctInv, RequestOK
  <1>2. l \in Link /\ link[l].row # "none" /\ request[q].link = {l}
        /\ link[l].kind = KindOf(request[q].pc) /\ link[l].reader = request[q].reader
    BY <1>1 DEF JobOK
  <1>3. PICK x \in Holder : link[l].reader = {x} /\ account[x].status # "none"
    BY <1>2 DEF AcctInv, LinkOK
  <1>. QED  BY <1>2, <1>3

LEMMA VerifyEmailKeeps ==
  ASSUME AcctTypeOK, AcctInv, NEW q \in Request, VerifyEmail(q)
  PROVE  AcctTypeOK' /\ AcctInv'
  <1>1. request[q].pc = "verify" /\ FromLink(request[q]) /\ Ends(q) /\ clock' = clock
    BY DEF VerifyEmail, At, FromLink
  <1>2. PICK r \in request[q].reader :
          /\ Update(r, VerifiedRow(account[r], request[q].seen))
          /\ Signs(r, NoPassword, account[r].version)
    BY DEF VerifyEmail
  <1>3. PICK l \in request[q].link : Spend(l)
    BY DEF VerifyEmail
  <1>4. l \in Link /\ link[l].kind = "VERIFICACAO_EMAIL"
    BY <1>1, LinkOfRequest DEF KindOf
  <1>. PICK v \in 0..(MaxVersion + 1) : v = account[r].version
    BY RequestReads, RowNumbers, Numbers
  <1>. DEFINE row == VerifiedRow(account[r], request[q].seen)
              new == [reader |-> r, by |-> NoPassword, version |-> v]
  <1>5. /\ r \in Holder /\ row \in AccountRow /\ MayBecome(account[r], row)
        /\ row.version = v /\ ~Suspended(row) /\ v <= v
    BY RequestReads, VerifiedStep, RowNumbers
  <1>. HIDE DEF row
  <1>6. Update(r, row)
    BY <1>2 DEF row
  <1>7. OnlyMarks /\ \A x \in Link : x # l => link'[x].row = link[x].row
    BY <1>3, <1>4, SpendMarks
  <1>8. Moving /\ account'[r] = row
    BY <1>1, <1>5, <1>6, <1>7, OneAccount, MarksMove DEF Moving
  <1>9. request' \in [Request -> RequestType] /\ \A x \in Request : RequestOK(x)'
    BY <1>1, <1>8, RequestsEnd
  <1>10. \A x \in Link : LinkOK(x)'
    BY <1>7, <1>8, MarkedLinks
  <1>11. \A k, x \in Link : Withdrawn(k, x)'
    BY <1>4, <1>7, OrderStays
  <1>12. SessionOK(new)'
    <2>1. ~Suspended(account[r])'
      BY <1>1, <1>5, <1>8 DEF Suspended
    <2>2. row.status # "none"
      BY <1>5 DEF MayBecome
    <2>. QED  BY <1>5, <1>8, <2>1, <2>2 DEF SessionOK, Fresh, TypedHolds
  <1>13. new \in Session /\ session' = session \cup {new}
    BY <1>2, <1>5 DEF Session, Signs
  <1>14. \A s \in session : SessionOK(s)'
    BY <1>8, SessionStays
  <1>. HIDE DEF new
  <1>15. session' \subseteq Session /\ \A s \in session' : SessionOK(s)'
    BY <1>12, <1>13, <1>14, TypeOKParts
  <1>. QED  BY <1>8, <1>9, <1>10, <1>11, <1>15, Together

LEMMA ResetMarks ==
  ASSUME AcctTypeOK, NEW l \in Link, NEW r \in Holder, link[l].row # "none",
         link' = AfterReset(r, {l})
  PROVE  /\ OnlyMarks
         /\ \A x \in Link :
              link'[x].row =
                IF x = l THEN "used"
                ELSE IF /\ link[x].row = "unused"
                        /\ link[x].kind = "REPOR_PASSWORD"
                        /\ link[x].reader = {r}
                     THEN "deleted" ELSE link[x].row
  <1>1. ASSUME NEW x \in Link
        PROVE  /\ link'[x] \in LinkType
               /\ link'[x].kind = link[x].kind
               /\ link'[x].reader = link[x].reader
               /\ link'[x].after = link[x].after
               /\ link'[x].row = "none" <=> link[x].row = "none"
               /\ link'[x].row =
                    IF x = l THEN "used"
                    ELSE IF /\ link[x].row = "unused"
                            /\ link[x].kind = "REPOR_PASSWORD"
                            /\ link[x].reader = {r}
                         THEN "deleted" ELSE link[x].row
    <2>1. link[x] \in LinkType
      BY TypeOKParts
    <2>2. CASE x = l
      <3>1. link'[x] = [link[x] EXCEPT !.row = "used"]
        BY <2>2 DEF AfterReset
      <3>. QED  BY <2>1, <2>2, <3>1 DEF LinkType
    <2>3. CASE /\ x # l /\ link[x].row = "unused"
               /\ link[x].kind = "REPOR_PASSWORD"
               /\ link[x].reader = {r}
      <3>1. link'[x] = [link[x] EXCEPT !.row = "deleted"]
        BY <2>3 DEF AfterReset
      <3>. QED  BY <2>1, <2>3, <3>1 DEF LinkType
    <2>4. CASE x # l /\ ~(/\ link[x].row = "unused"
                          /\ link[x].kind = "REPOR_PASSWORD"
                          /\ link[x].reader = {r})
      <3>1. link'[x] = link[x]
        BY <2>4 DEF AfterReset
      <3>. QED  BY <2>1, <2>4, <3>1
    <2>. QED  BY <2>2, <2>3, <2>4
  <1>2. link' \in [Link -> LinkType]
    BY <1>1 DEF AfterReset
  <1>. QED  BY <1>1, <1>2 DEF OnlyMarks

LEMMA ResetOrders ==
  ASSUME AcctTypeOK, AcctInv, NEW l \in Link, NEW r \in Holder,
         link[l].row \in {"unused", "used"}, link[l].kind = "REPOR_PASSWORD",
         link[l].reader = {r}, link' = AfterReset(r, {l})
  PROVE  \A k, x \in Link : Withdrawn(k, x)'
  <1>1. ASSUME NEW k \in Link, NEW x \in Link, ResetsOf(k, x), link'[k].row = "used"
        PROVE  /\ link'[x].row = "unused" => k \in link[x].after
               /\ link'[x].row = "used" => k \in link[x].after \/ x \in link[k].after
    <2>1. Withdrawn(k, x) /\ Withdrawn(x, k) /\ ResetsOf(x, k)
      BY <1>1 DEF AcctInv, ResetsOf
    <2>2. k = l \/ link[k].row = "used"
      BY <1>1, ResetMarks
    <2>3. ASSUME link'[x].row = "unused" PROVE k \in link[x].after
      <3>1. x # l /\ link[x].row = "unused"
            /\ ~(link[x].kind = "REPOR_PASSWORD" /\ link[x].reader = {r})
        <4>1. \A y \in Link :
                link'[y].row =
                  IF y = l THEN "used"
                  ELSE IF /\ link[y].row = "unused"
                          /\ link[y].kind = "REPOR_PASSWORD"
                          /\ link[y].reader = {r}
                       THEN "deleted" ELSE link[y].row
          BY ResetMarks
        <4>2. x # l
          BY <2>3, <4>1
        <4>. QED  BY <2>3, <4>1, <4>2
      <3>2. link[k].row = "used"
        BY <1>1, <2>2, <3>1 DEF ResetsOf
      <3>. QED  BY <1>1, <2>1, <3>1, <3>2 DEF Withdrawn
    <2>4. ASSUME link'[x].row = "used"
          PROVE  k \in link[x].after \/ x \in link[k].after
      <3>1. x = l \/ link[x].row = "used"
        BY <2>4, ResetMarks
      <3>2. k # x
        BY <1>1 DEF ResetsOf
      <3>. QED  BY <1>1, <2>1, <2>2, <3>1, <3>2 DEF Withdrawn
    <2>. QED  BY <2>3, <2>4
  <1>2. OnlyMarks
    BY ResetMarks
  <1>3. ASSUME NEW k \in Link, NEW x \in Link PROVE Withdrawn(k, x)'
    <2>1. link'[x].after = link[x].after /\ link'[k].after = link[k].after
          /\ (ResetsOf(k, x)' <=> ResetsOf(k, x))
      BY <1>2 DEF OnlyMarks, ResetsOf
    <2>. QED  BY <1>1, <2>1 DEF Withdrawn
  <1>. QED  BY <1>3

LEMMA ResetPasswordKeeps ==
  ASSUME AcctTypeOK, AcctInv, NEW q \in Request, ResetPassword(q)
  PROVE  AcctTypeOK' /\ AcctInv'
  <1>1. request[q].pc = "REPOR_PASSWORD" /\ FromLink(request[q]) /\ HasSeen(request[q])
        /\ Ends(q) /\ clock' = clock /\ session' = session
        /\ \A l \in request[q].link : link[l].row \in {"unused", "used"}
    BY DEF ResetPassword, At, FromLink, HasSeen, Kind
  <1>2. PICK r \in request[q].reader :
          /\ account[r].version < MaxVersion
          /\ Update(r, [NewPassword(account[r], request[q].typed) EXCEPT !.verified = TRUE])
          /\ link' = AfterReset(r, request[q].link)
    BY DEF ResetPassword
  <1>3. JobOK(request[q])
    BY RequestReads
  <1>4. PICK l \in Link : request[q].link = {l}
    BY <1>1, <1>3 DEF JobOK
  <1>5. link[l].kind = "REPOR_PASSWORD" /\ link[l].reader = {r} /\ link[l].row # "none"
        /\ r \in Holder /\ link[l].row \in {"unused", "used"} /\ link' = AfterReset(r, {l})
    BY <1>1, <1>2, <1>4, LinkOfRequest DEF KindOf
  <1>. DEFINE row == [NewPassword(account[r], request[q].typed) EXCEPT !.verified = TRUE]
  <1>6. row \in AccountRow /\ MayBecome(account[r], row)
    BY <1>1, <1>2, RequestReads, NewPasswordStep
  <1>. HIDE DEF row
  <1>7. Update(r, row)
    BY <1>2 DEF row
  <1>8. OnlyMarks
    BY <1>5, ResetMarks
  <1>9. Moving
    BY <1>1, <1>5, <1>6, <1>7, <1>8, OneAccount, MarksMove DEF Moving
  <1>10. request' \in [Request -> RequestType] /\ \A x \in Request : RequestOK(x)'
    BY <1>1, <1>9, RequestsEnd
  <1>11. \A x \in Link : LinkOK(x)'
    BY <1>8, <1>9, MarkedLinks
  <1>12. \A k, x \in Link : Withdrawn(k, x)'
    BY <1>5, ResetOrders
  <1>13. session' \subseteq Session /\ \A s \in session' : SessionOK(s)'
    BY <1>1, <1>9, SessionsRest
  <1>. QED  BY <1>9, <1>10, <1>11, <1>12, <1>13, Together

LEMMA CreateAccountKeeps ==
  ASSUME AcctTypeOK, AcctInv, NEW q \in Request, CreateAccount(q)
  PROVE  AcctTypeOK' /\ AcctInv'
  <1>. DEFINE i == request[q]
  <1>1. PICK r \in i.reader :
          account[r].status = "none" /\ Update(r, NewAccount(i.typed, FALSE, {}))
    BY DEF CreateAccount
  <1>2. i.pc = "register" /\ OnlyAccount
        /\ Goes(q, [i EXCEPT !.pc = "issue_verification"])
    BY DEF CreateAccount, At
  <1>. DEFINE row == NewAccount(i.typed, FALSE, {})
  <1>3. i \in RequestType /\ r \in Holder /\ account[r] \in AccountRow
        /\ i.typed \in Password \cup {NoPassword} /\ {} \in SUBSET Provider
    BY RequestReads
  <1>4. row \in AccountRow /\ MayBecome(account[r], row)
    BY <1>1, <1>3, NewAccountStep
  <1>. HIDE DEF row
  <1>5. Update(r, row)
    BY <1>1 DEF row
  <1>6. Moving /\ account'[r] = row
    BY <1>2, <1>3, <1>4, <1>5, OneAccount, LinksUnmoved DEF OnlyAccount, Moving
  <1>. PICK j \in RequestType : j = [i EXCEPT !.pc = "issue_verification"]
    BY <1>3 DEF RequestType, Step
  <1>7. j.pc = "issue_verification" /\ j.reader = i.reader /\ Goes(q, j)
        /\ request'[q] = j
    BY <1>2, <1>3, TypeOKParts DEF RequestType, Goes
  <1>8. JobOK(i) /\ ~FromLink(j) /\ j.pc \notin {"login", "oauth", "tidy", "unsuspend"}
    BY <1>7, RequestReads DEF FromLink, Kind
  <1>9. \A x \in j.reader : account'[x].status # "none"
    BY <1>4, <1>6, <1>7, <1>8 DEF JobOK, MayBecome
  <1>. HIDE DEF i
  <1>10. RequestOK(q)'
    BY <1>7, <1>8, <1>9 DEF RequestOK, JobOK, FromLink
  <1>11. request' \in [Request -> RequestType] /\ \A x \in Request : RequestOK(x)'
    BY <1>6, <1>7, <1>10, RequestsGo
  <1>12. session' \subseteq Session /\ \A s \in session' : SessionOK(s)'
    BY <1>2, <1>6, SessionsRest DEF OnlyAccount
  <1>13. (\A l \in Link : LinkOK(l)') /\ (\A k, l \in Link : Withdrawn(k, l)')
    BY <1>2, <1>6, LinksRest DEF OnlyAccount
  <1>. QED  BY <1>6, <1>11, <1>12, <1>13, Together

LEMMA LoginKeeps ==
  ASSUME AcctTypeOK, AcctInv, NEW q \in Request, Login(q)
  PROVE  AcctTypeOK' /\ AcctInv'
  <1>. DEFINE i == request[q]
              v == i.seen.version
  <1>1. PICK r \in i.reader :
          /\ Update(r, LapseOver(account[r], i.seen))
          /\ Signs(r, i.typed, v)
    BY DEF Login
  <1>2. i.pc = "login" /\ Ends(q) /\ UNCHANGED <<clock, link>> /\ HasSeen(i)
    BY DEF Login, At, HasSeen
  <1>. DEFINE row == LapseOver(account[r], i.seen)
  <1>3. i \in RequestType /\ r \in Holder /\ account[r] \in AccountRow /\ JobOK(i)
        /\ i.typed \in Password \cup {NoPassword} /\ i.seen \in Seen
        /\ account[r].status # "none"
        /\ (account[r].status = "ATIVO" /\ ~account[r].erased => account[r].verified)
    BY <1>2, RequestReads
  <1>. HIDE DEF i
  <1>4. Fresh(r, v) /\ TypedHolds(r, v, i.typed) /\ v \in 0..(MaxVersion + 1)
        /\ (i.seen.verified => account[r].verified \/ account[r].erased)
    BY <1>2, <1>3, SeenVersion DEF JobOK
  <1>5. /\ row \in AccountRow /\ MayBecome(account[r], row)
        /\ row.version = account[r].version /\ row.password = account[r].password
        /\ (Suspended(row) => Suspended(account[r]))
    BY <1>3, <1>4, LapseStep
  <1>. HIDE DEF row
  <1>6. Update(r, row)
    BY <1>1 DEF row
  <1>7. /\ v <= row.version
        /\ v = row.version => ~Suspended(row) /\ (i.typed # NoPassword => i.typed = row.password)
    BY <1>4, <1>5 DEF Fresh, TypedHolds
  <1>. HIDE DEF v
  <1>. QED  BY <1>1, <1>2, <1>3, <1>4, <1>5, <1>6, <1>7, SignedKeeps

LEMMA LinkIdentityKeeps ==
  ASSUME AcctTypeOK, AcctInv, NEW q \in Request, LinkIdentity(q)
  PROVE  AcctTypeOK' /\ AcctInv'
  <1>. DEFINE i == request[q]
              v == IF i.seen.verified THEN i.seen.version ELSE i.seen.version + 1
  <1>1. PICK r \in i.reader :
          /\ account[r].version < MaxVersion
          /\ Update(r, LinkedRow(account[r], i.seen, i.with))
          /\ Signs(r, NoPassword, v)
    BY DEF LinkIdentity
  <1>2. i.pc = "oauth" /\ Ends(q) /\ UNCHANGED <<clock, link>> /\ HasSeen(i)
    BY DEF LinkIdentity, At, HasSeen
  <1>. DEFINE row == LinkedRow(account[r], i.seen, i.with)
  <1>3. i \in RequestType /\ r \in Holder /\ account[r] \in AccountRow /\ JobOK(i)
        /\ i.with \in SUBSET Provider /\ i.seen \in Seen
        /\ account[r].status # "none"
        /\ (account[r].status = "ATIVO" /\ ~account[r].erased => account[r].verified)
    BY <1>2, RequestReads
  <1>. HIDE DEF i
  <1>4. Fresh(r, i.seen.version) /\ i.seen.version \in 0..MaxVersion
        /\ i.seen.version \in 0..(MaxVersion + 1)
    BY <1>2, <1>3, SeenVersion DEF JobOK
  <1>5. /\ row \in AccountRow /\ MayBecome(account[r], row)
        /\ i.seen.verified => /\ row.version = account[r].version
                              /\ Suspended(row) => Suspended(account[r])
        /\ ~i.seen.verified => /\ row.version = account[r].version + 1
                               /\ ~Suspended(row)
    BY <1>1, <1>3, LinkedStep
  <1>. HIDE DEF row
  <1>6. Update(r, row)
    BY <1>1 DEF row
  <1>7. v \in 0..(MaxVersion + 1) /\ v <= row.version /\ (v = row.version => ~Suspended(row))
    <2>1. CASE i.seen.verified
      BY <2>1, <1>4, <1>5 DEF Fresh
    <2>2. CASE ~i.seen.verified
      <3>1. v = i.seen.version + 1 /\ v \in 0..(MaxVersion + 1)
        BY <2>2, <1>4, Numbers
      <3>2. i.seen.version \in Int /\ account[r].version \in Int
            /\ i.seen.version <= account[r].version
        BY <1>3, <1>4, RowNumbers, Numbers DEF Fresh
      <3>3. v <= account[r].version + 1
        BY <3>1, <3>2
      <3>. QED  BY <2>2, <3>1, <3>3, <1>5
    <2>. QED  BY <2>1, <2>2
  <1>. HIDE DEF v
  <1>8. NoPassword \in Password \cup {NoPassword}
    OBVIOUS
  <1>. QED  BY <1>1, <1>2, <1>3, <1>5, <1>6, <1>7, <1>8, SignedKeeps

LEMMA CreateByIdentityKeeps ==
  ASSUME AcctTypeOK, AcctInv, NEW q \in Request, CreateByIdentity(q)
  PROVE  AcctTypeOK' /\ AcctInv'
  <1>. DEFINE i == request[q]
              z == 0
  <1>1. PICK r \in i.reader :
          /\ account[r].status = "none"
          /\ Update(r, NewAccount(NoPassword, i.trusted, i.with))
          /\ Signs(r, NoPassword, z)
    BY DEF CreateByIdentity
  <1>2. Ends(q) /\ UNCHANGED <<clock, link>>
    BY DEF CreateByIdentity
  <1>. DEFINE row == NewAccount(NoPassword, i.trusted, i.with)
  <1>3. r \in Holder /\ account[r] \in AccountRow /\ i.with \in SUBSET Provider
        /\ i.trusted \in BOOLEAN /\ NoPassword \in Password \cup {NoPassword}
    BY RequestReads
  <1>4. row \in AccountRow /\ row.version = 0 /\ MayBecome(account[r], row)
        /\ ~Suspended(row)
    BY <1>1, <1>3, NewAccountStep
  <1>. HIDE DEF row
  <1>5. Update(r, row)
    BY <1>1 DEF row
  <1>6. z \in 0..(MaxVersion + 1) /\ z <= row.version
    BY <1>4, Numbers
  <1>. HIDE DEF z
  <1>. QED  BY <1>1, <1>2, <1>3, <1>4, <1>5, <1>6, SignedKeeps

LEMMA ForgetSessionKeeps ==
  ASSUME AcctTypeOK, AcctInv, NEW s \in session, ForgetSession(s)
  PROVE  AcctTypeOK' /\ AcctInv'
  <1>1. Moving
    BY Unmoved DEF ForgetSession
  <1>2. request' \in [Request -> RequestType] /\ \A x \in Request : RequestOK(x)'
    BY <1>1, RequestsRest DEF ForgetSession
  <1>3. session' \subseteq Session /\ \A x \in session' : SessionOK(x)'
    BY <1>1, SessionsRest DEF ForgetSession
  <1>4. (\A l \in Link : LinkOK(l)') /\ (\A k, l \in Link : Withdrawn(k, l)')
    BY <1>1, LinksRest DEF ForgetSession
  <1>. QED  BY <1>1, <1>2, <1>3, <1>4, Together

LEMMA IssuedOrder ==
  ASSUME AcctTypeOK, AcctInv, NEW l \in Link, NEW r \in Holder, NEW kind \in Kind,
         NEW n \in LinkType, n.row = "unused", n.reader = {r}, n.kind = kind,
         n.after = UsedResets(r), link' = [link EXCEPT ![l] = n]
  PROVE  \A k, x \in Link : Withdrawn(k, x)'
  <1>1. \A x \in Link : link'[x] = IF x = l THEN n ELSE link[x]
    BY TypeOKParts
  <1>2. ASSUME NEW k \in Link, NEW x \in Link PROVE Withdrawn(k, x)'
    <2>1. Withdrawn(k, x)
      BY DEF AcctInv
    <2>2. CASE k = l
      <3>1. link'[k].row = "unused"
        BY <1>1, <2>2
      <3>. QED  BY <3>1 DEF Withdrawn
    <2>3. CASE k # l /\ x # l
      BY <1>1, <2>1, <2>3 DEF Withdrawn, ResetsOf
    <2>4. CASE k # l /\ x = l
      <3>1. link'[x] = n /\ link'[k] = link[k]
        BY <1>1, <2>4
      <3>2. ASSUME link[k].row = "used", link[k].kind = "REPOR_PASSWORD",
                   link[k].reader = {r}
            PROVE  k \in n.after
        BY <3>2 DEF UsedResets
      <3>. QED  BY <3>1, <3>2 DEF Withdrawn, ResetsOf
    <2>. QED  BY <2>2, <2>3, <2>4
  <1>. QED  BY <1>2

LEMMA IssueKeeps ==
  ASSUME AcctTypeOK, AcctInv, NEW q \in Request, NEW l \in Link, NEW kind \in Kind,
         IssueEmailToken(q, l, kind)
  PROVE  AcctTypeOK' /\ AcctInv'
  <1>. DEFINE R(r) == {r}
              e == clock + LinkLife
              a(r) == UsedResets(r)
  <1>1. PICK r \in request[q].reader :
          link' = [link EXCEPT ![l] = [row |-> "unused", reader |-> R(r), kind |-> kind,
                                       expires |-> e, after |-> a(r)]]
    BY DEF IssueEmailToken
  <1>2. request[q].pc = Issue[kind] /\ link[l].row = "none" /\ Ends(q)
        /\ UNCHANGED <<clock, account, session>>
    BY DEF IssueEmailToken, At
  <1>3. HasSeen(request[q])
    <2>1. Issue[kind] \in {"issue_verification", "issue_reset"}
      BY DEF Issue, Kind
    <2>. QED  BY <1>2, <2>1 DEF HasSeen
  <1>4. r \in Holder /\ account[r].status # "none"
    BY <1>3, RequestReads
  <1>5. R(r) \in SUBSET Holder /\ a(r) \in SUBSET Link /\ e \in AccountDate
    <2>1. clock \in 0..MaxClock
      BY TypeOKParts
    <2>. QED  BY <1>4, <2>1, Numbers DEF UsedResets
  <1>. DEFINE n == [row |-> "unused", reader |-> R(r), kind |-> kind,
                    expires |-> e, after |-> a(r)]
  <1>6. n \in LinkType /\ n.row = "unused" /\ n.reader = R(r) /\ n.kind = kind
        /\ n.after = a(r) /\ link' = [link EXCEPT ![l] = n]
    <2>. HIDE DEF R, e, a
    <2>. QED  BY <1>1, <1>5 DEF LinkType
  <1>. HIDE DEF n
  <1>7. \A k, x \in Link : Withdrawn(k, x)'
    BY <1>4, <1>6, IssuedOrder
  <1>8. link' \in [Link -> LinkType]
        /\ \A x \in Link : link'[x] = IF x = l THEN n ELSE link[x]
    BY <1>6, TypeOKParts
  <1>9. \A x \in Link : LinkMoves(x)
    BY <1>2, <1>8 DEF LinkMoves
  <1>10. \A x \in Holder : RowMoves(x)
    <2>1. ASSUME NEW x \in Holder PROVE RowMoves(x)
      BY <1>2, RowStill DEF Suspended
    <2>. QED  BY <2>1
  <1>11. Moving
    BY <1>2, <1>8, <1>9, <1>10, TypeOKParts DEF Moving
  <1>12. ASSUME NEW x \in Link PROVE LinkOK(x)'
    <2>1. CASE x = l
      <3>1. link'[x].reader = {r} /\ account'[r].status # "none"
        BY <1>2, <1>4, <1>6, <1>8, <2>1
      <3>. QED  BY <1>4, <3>1 DEF LinkOK
    <2>2. CASE x # l
      <3>1. CASE link[x].row # "none"
        BY <1>11, <3>1, LinkStays
      <3>2. CASE link[x].row = "none"
        BY <1>8, <2>2, <3>2 DEF LinkOK
      <3>. QED  BY <3>1, <3>2
    <2>. QED  BY <2>1, <2>2
  <1>13. request' \in [Request -> RequestType] /\ \A x \in Request : RequestOK(x)'
    BY <1>2, <1>11, RequestsEnd
  <1>14. session' \subseteq Session /\ \A s \in session' : SessionOK(s)'
    BY <1>2, <1>11, SessionsRest
  <1>. QED  BY <1>7, <1>11, <1>12, <1>13, <1>14, Together

LEMMA EraseMarks ==
  ASSUME AcctTypeOK, AcctInv, NEW r \in Holder,
         link' = [l \in Link |-> IF link[l].reader = {r}
                                 THEN [link[l] EXCEPT !.row = "deleted"]
                                 ELSE link[l]]
  PROVE  /\ link' \in [Link -> LinkType]
         /\ \A x \in Link :
              /\ link'[x].kind = link[x].kind
              /\ link'[x].reader = link[x].reader
              /\ link'[x].after = link[x].after
              /\ link'[x].row = link[x].row \/ link'[x].row = "deleted"
              /\ link[x].reader # {r} => link'[x].row = link[x].row
  <1>1. ASSUME NEW x \in Link
        PROVE  /\ link'[x] \in LinkType
               /\ link'[x].kind = link[x].kind
               /\ link'[x].reader = link[x].reader
               /\ link'[x].after = link[x].after
               /\ link'[x].row = link[x].row \/ link'[x].row = "deleted"
               /\ link[x].reader # {r} => link'[x].row = link[x].row
    <2>1. link[x] \in LinkType
      BY TypeOKParts
    <2>2. CASE link[x].reader = {r}
      <3>1. link'[x] = [link[x] EXCEPT !.row = "deleted"]
        BY <2>2
      <3>. QED  BY <2>1, <2>2, <3>1 DEF LinkType
    <2>3. CASE link[x].reader # {r}
      <3>1. link'[x] = link[x]
        BY <2>3
      <3>. QED  BY <2>1, <3>1
    <2>. QED  BY <2>2, <2>3
  <1>2. link' \in [Link -> LinkType]
    BY <1>1
  <1>. QED  BY <1>1, <1>2

LEMMA AnonymiseKeeps ==
  ASSUME AcctTypeOK, AcctInv, NEW s \in session, Anonymise(s)
  PROVE  AcctTypeOK' /\ AcctInv'
  <1>. PICK r \in Holder : r = s.reader /\ account[r].status # "none"
    BY SessionReader
  <1>. DEFINE old == account[r]
              row == ErasedAccount(old)
  <1>1. old \in AccountRow
    BY TypeOKParts
  <1>2. /\ old.version < MaxVersion /\ Update(r, row)
        /\ link' = [l \in Link |-> IF link[l].reader = {r}
                                   THEN [link[l] EXCEPT !.row = "deleted"]
                                   ELSE link[l]]
        /\ clock' = clock /\ session' = session /\ request' = request
    BY DEF Anonymise
  <1>3. row \in AccountRow /\ MayBecome(old, row)
    BY <1>1, <1>2, ErasedStep
  <1>. HIDE DEF row
  <1>4. link' \in [Link -> LinkType]
        /\ \A x \in Link :
              /\ link'[x].kind = link[x].kind
              /\ link'[x].reader = link[x].reader
              /\ link'[x].after = link[x].after
              /\ link'[x].row = link[x].row \/ link'[x].row = "deleted"
              /\ link[x].reader # {r} => link'[x].row = link[x].row
    BY <1>2, EraseMarks
  <1>5. \A x \in Link : LinkMoves(x)
    BY <1>4 DEF LinkMoves
  <1>6. Moving
    BY <1>2, <1>3, <1>4, <1>5, OneAccount DEF Moving
  <1>7. ASSUME NEW x \in Link PROVE LinkOK(x)'
    <2>1. CASE link[x].row # "none"
      BY <1>6, <2>1, LinkStays
    <2>2. CASE link[x].row = "none" /\ link[x].reader # {r}
      BY <1>4, <2>2 DEF LinkOK
    <2>3. CASE link[x].reader = {r}
      <3>1. account'[r].status # "none"
        BY <1>6 DEF Moving, RowMoves
      <3>. QED  BY <1>4, <2>3, <3>1 DEF LinkOK
    <2>. QED  BY <2>1, <2>2, <2>3
  <1>8. ASSUME NEW k \in Link, NEW x \in Link PROVE Withdrawn(k, x)'
    <2>1. Withdrawn(k, x)
      BY DEF AcctInv
    <2>. QED  BY <1>4, <2>1 DEF Withdrawn, ResetsOf
  <1>9. request' \in [Request -> RequestType] /\ \A x \in Request : RequestOK(x)'
    BY <1>2, <1>6, RequestsRest
  <1>10. session' \subseteq Session /\ \A x \in session' : SessionOK(x)'
    BY <1>2, <1>6, SessionsRest
  <1>. QED  BY <1>6, <1>7, <1>8, <1>9, <1>10, Together

-----------------------------------------------------------------------------
(* Every step, and the theorems.                                           *)

LEMMA MailKeeps ==
  ASSUME AcctTypeOK, AcctInv, MailNext
  PROVE  AcctTypeOK' /\ AcctInv'
  <1>. PICK q \in Request :
         \/ \E r \in Holder, p \in Password : ReadForRegister(q, r, p)
         \/ CreateAccount(q)
         \/ \E r \in Holder : ReadForResend(q, r) \/ ReadForForgot(q, r)
         \/ \E l \in Link, kind \in Kind :
              \/ IssueEmailToken(q, l, kind)
              \/ \E p \in Password \cup {NoPassword} : OpenLink(q, l, kind, p)
         \/ ReadForVerify(q) \/ VerifyEmail(q) \/ ResetPassword(q)
    BY DEF MailNext
  <1>1. CASE \E r \in Holder, p \in Password : ReadForRegister(q, r, p)
    BY <1>1, ReadForRegisterKeeps
  <1>2. CASE CreateAccount(q)
    BY <1>2, CreateAccountKeeps
  <1>3. CASE \E r \in Holder : ReadForResend(q, r) \/ ReadForForgot(q, r)
    BY <1>3, AskingForLinkKeeps
  <1>4. CASE \E l \in Link, kind \in Kind : IssueEmailToken(q, l, kind)
    BY <1>4, IssueKeeps
  <1>5. CASE \E l \in Link, kind \in Kind, p \in Password \cup {NoPassword} :
               OpenLink(q, l, kind, p)
    BY <1>5, OpenLinkKeeps
  <1>6. CASE ReadForVerify(q)
    BY <1>6, ReadForVerifyKeeps
  <1>7. CASE VerifyEmail(q)
    BY <1>7, VerifyEmailKeeps
  <1>8. CASE ResetPassword(q)
    BY <1>8, ResetPasswordKeeps
  <1>. QED  BY <1>1, <1>2, <1>3, <1>4, <1>5, <1>6, <1>7, <1>8

LEMMA SessionKeeps ==
  ASSUME AcctTypeOK, AcctInv, SessionNext
  PROVE  AcctTypeOK' /\ AcctInv'
  <1>1. ASSUME NEW q \in Request, NEW r \in Holder, NEW p \in Password,
               ReadForLogin(q, r, p)
        PROVE  AcctTypeOK' /\ AcctInv'
    BY <1>1, ReadForLoginKeeps
  <1>2. ASSUME NEW q \in Request, NEW r \in Holder, NEW from \in Provider,
               \/ ReadIdentity(q, r, from)
               \/ \E trusted \in BOOLEAN : ReadByAddress(q, r, from, trusted)
        PROVE  AcctTypeOK' /\ AcctInv'
    BY <1>2, ReadIdentityKeeps, ReadByAddressKeeps
  <1>3. ASSUME NEW q \in Request, Login(q) \/ LinkIdentity(q) \/ CreateByIdentity(q)
        PROVE  AcctTypeOK' /\ AcctInv'
    BY <1>3, LoginKeeps, LinkIdentityKeeps, CreateByIdentityKeeps
  <1>4. ASSUME NEW q \in Request, NEW s \in session,
               (\E p \in Password : ReadForChange(q, s, p)) \/ SeeLapse(q, s)
        PROVE  AcctTypeOK' /\ AcctInv'
    BY <1>4, ReadForChangeKeeps, SeeLapseKeeps
  <1>5. ASSUME NEW q \in Request, ChangePassword(q) \/ TidyLapse(q)
        PROVE  AcctTypeOK' /\ AcctInv'
    BY <1>5, ChangePasswordKeeps, TidyLapseKeeps
  <1>6. ASSUME NEW s \in session, LogoutAll(s) \/ ForgetSession(s) \/ Anonymise(s)
        PROVE  AcctTypeOK' /\ AcctInv'
    BY <1>6, LogoutAllKeeps, ForgetSessionKeeps, AnonymiseKeeps
  <1>. QED  BY <1>1, <1>2, <1>3, <1>4, <1>5, <1>6 DEF SessionNext

LEMMA NewsroomKeeps ==
  ASSUME AcctTypeOK, AcctInv, NewsroomNext
  PROVE  AcctTypeOK' /\ AcctInv'
  BY ReadForSuspendKeeps, ReadForUnsuspendKeeps, SuspendKeeps, UnsuspendKeeps
     DEF NewsroomNext

LEMMA AcctStays ==
  AcctTypeOK /\ AcctInv /\ [AcctNext]_avars => AcctTypeOK' /\ AcctInv'
  <1>. SUFFICES ASSUME AcctTypeOK, AcctInv, [AcctNext]_avars
                PROVE  AcctTypeOK' /\ AcctInv'
    OBVIOUS
  <1>1. CASE AcctTick
    BY <1>1, TickKeeps
  <1>2. CASE MailNext
    BY <1>2, MailKeeps
  <1>3. CASE SessionNext
    BY <1>3, SessionKeeps
  <1>4. CASE NewsroomNext
    BY <1>4, NewsroomKeeps
  <1>5. ASSUME NEW q \in Request, Dies(q)
        PROVE  AcctTypeOK' /\ AcctInv'
    BY <1>5, DiesKeeps
  <1>6. CASE UNCHANGED avars
    <2>1. Moving /\ request' = request /\ session' = session /\ link' = link
      BY <1>6, Unmoved DEF avars
    <2>. QED  BY <2>1, RequestsRest, SessionsRest, LinksRest, Together
  <1>. QED  BY <1>1, <1>2, <1>3, <1>4, <1>5, <1>6 DEF AcctNext

(* Accounts, links, sessions and requests keep their types: the token      *)
(* version never leaves its range, and every date is one the code writes.  *)
THEOREM AccountTypes == AcctSpec => []AcctTypeOK
  <1>1. AcctInit => AcctTypeOK /\ AcctInv
    BY AcctBegins
  <1>2. AcctTypeOK /\ AcctInv /\ [AcctNext]_avars => AcctTypeOK' /\ AcctInv'
    BY AcctStays
  <1>. QED  BY <1>1, <1>2, PTL DEF AcctSpec

(* The inductive invariant holds of every behaviour.                       *)
LEMMA AccountsHold == AcctSpec => [](AcctTypeOK /\ AcctInv)
  <1>1. AcctInit => AcctTypeOK /\ AcctInv
    BY AcctBegins
  <1>2. AcctTypeOK /\ AcctInv /\ [AcctNext]_avars => AcctTypeOK' /\ AcctInv'
    BY AcctStays
  <1>. QED  BY <1>1, <1>2, PTL DEF AcctSpec

(* A session opened with a password that was changed or reset since is     *)
(* refused by the guard, whatever sign-in was under way at the change.     *)
THEOREM ChangedPasswordsAreDead == AcctSpec => []OldPasswordOpensNothing
  <1>1. AcctTypeOK /\ AcctInv => OldPasswordOpensNothing
    BY DEF AcctInv, SessionOK, TypedHolds, OldPasswordOpensNothing, Accepts
  <1>. QED  BY <1>1, AccountsHold, PTL

(* A reset withdraws every other reset link of the account, those opened   *)
(* at the same moment included.                                            *)
THEOREM ResetsAreExclusive == AcctSpec => []ResetWithdrawsOthers
  <1>1. ASSUME AcctTypeOK, AcctInv PROVE ResetWithdrawsOthers
    <2>1. ASSUME NEW k \in Link, NEW l \in Link,
                 k \in UNION {UsedResets(r) : r \in Holder},
                 l \in UNION {UsedResets(r) : r \in Holder},
                 k # l, link[k].reader = link[l].reader
          PROVE  k \in link[l].after \/ l \in link[k].after
      <3>1. link[k].row = "used" /\ link[k].kind = "REPOR_PASSWORD"
            /\ link[l].row = "used" /\ link[l].kind = "REPOR_PASSWORD"
        BY <2>1 DEF UsedResets
      <3>2. Withdrawn(k, l)
        BY <1>1 DEF AcctInv
      <3>. QED  BY <2>1, <3>1, <3>2 DEF Withdrawn, ResetsOf
    <2>. QED  BY <2>1 DEF ResetWithdrawsOthers
  <1>. QED  BY <1>1, AccountsHold, PTL

(* No token in the wild has the version of an account that is suspended:   *)
(* none comes back to life when the suspension ends.                       *)
THEOREM BansStrandTokens == AcctSpec => []SuspensionStrandsSessions
  <1>1. AcctTypeOK /\ AcctInv => SuspensionStrandsSessions
    BY DEF AcctInv, SessionOK, Fresh, SuspensionStrandsSessions
  <1>. QED  BY <1>1, AccountsHold, PTL

(* An account is active only with its address confirmed, whatever stale    *)
(* row a lapse or a lifted suspension was written from.                    *)
THEOREM ActiveAreConfirmed == AcctSpec => []ActiveMeansConfirmed
  <1>1. AcctTypeOK /\ AcctInv => ActiveMeansConfirmed
    BY DEF AcctInv
  <1>. QED  BY <1>1, AccountsHold, PTL
=============================================================================
