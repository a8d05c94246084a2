--------------------------- MODULE ReaderAccounts ---------------------------
(***************************************************************************)
(* The account of a reader: backend/src/reader-auth (the service, its      *)
(* guard and oauth/oauth.service.ts) and the suspensions of                *)
(* readers.service.ts, without the moderation history it logs.             *)
(*                                                                         *)
(* A step is what a request does between two awaits.  A request carries    *)
(* the row it has read; the writes are by id alone.  An address whose      *)
(* account was erased is free: the next account there is another Reader.   *)
(***************************************************************************)
EXTENDS ReaderRules, FiniteSets

CONSTANTS
  Holder,     \* accounts, each with its address
  Password,   \* what a reader may type
  NoPassword, \* a null password: a social account
  Link,       \* bound: links sent by mail
  Request,    \* bound: requests under way
  Provider,   \* the social networks
  Strict,     \* those never linked to an account with a password: FACEBOOK
  Duration,   \* bound: the suspensions the newsroom gives
  Term,       \* the length of the shortest, half that of the next
  LinkLife,   \* how long a link works
  MaxClock,    \* bound: how far the clock goes
  MaxVersion, \* bound: how far tokenVersion goes
  MaxSessions \* bound: browsers with a session

ASSUME AccountsAssumption ==
  /\ NoPassword \notin Password
  /\ Strict \subseteq Provider
  /\ Duration \subseteq Durations
  /\ Term \in Nat /\ LinkLife \in Nat
  /\ MaxClock \in Nat /\ MaxVersion \in Nat /\ MaxSessions \in Nat

VARIABLES
  clock,       \* the clock
  account,   \* the Reader rows
  link,      \* the EmailToken rows, and when they were issued
  session,   \* the session tokens in readers' browsers
  request    \* the requests under way

avars == <<clock, account, link, session, request>>

-----------------------------------------------------------------------------
AccountDate == 0..(MaxClock + 2 * Term + LinkLife) \cup {NoDate}
Status == {"none", "PENDENTE_VERIFICACAO", "ATIVO", "SUSPENSO", "ANONIMIZADO"}
Kind == {"VERIFICACAO_EMAIL", "REPOR_PASSWORD"}

NoAccount == [status |-> "none", until |-> NoDate, verified |-> FALSE,
              password |-> NoPassword, version |-> 0, identities |-> {},
              erased |-> FALSE]
(* What the writes use of the row a request has read.                      *)
NotSeen == [exists |-> FALSE, verified |-> FALSE, version |-> 0,
            lapsed |-> FALSE]
NotIssued == [row |-> "none", reader |-> {}, kind |-> "VERIFICACAO_EMAIL",
              expires |-> 0, after |-> {}]
Idle == [pc |-> "idle", reader |-> {}, seen |-> NotSeen, link |-> {},
         typed |-> NoPassword, with |-> {}, trusted |-> FALSE,
         until |-> NoDate]

Suspended(row) == IsSuspended(row.status, row.until, clock)
Lapsed(row) == SuspensionLapsed(row.status, row.until, clock)
Sees(row) == [exists |-> row.status # "none", verified |-> row.verified,
              version |-> row.version, lapsed |-> Lapsed(row)]

(* lapseData, written over whatever the row has become.                    *)
LapseOver(row, seen) ==
  IF seen.lapsed
  THEN [row EXCEPT !.status = StatusAfterLapse(seen.verified),
                   !.until = NoDate]
  ELSE row

(* An account somebody can still name: erasing takes its address.          *)
Known(r) == account[r].status # "none" /\ ~account[r].erased

(* The guard lets this session in.                                         *)
Accepts(row, s) ==
  /\ s.version = row.version
  /\ row.status \notin {"none", "ANONIMIZADO"}
  /\ ~Suspended(row)

-----------------------------------------------------------------------------
AcctInit ==
  /\ clock = 0
  /\ account = [r \in Holder |-> NoAccount]
  /\ link = [l \in Link |-> NotIssued]
  /\ session = {}
  /\ request = [q \in Request |-> Idle]

AcctTick ==
  /\ clock < MaxClock
  /\ clock' = clock + 1
  /\ UNCHANGED <<account, link, session, request>>

(* How requests begin, go on and end.                                      *)
Goes(q, to) == request' = [request EXCEPT ![q] = to]
Ends(q) == Goes(q, Idle)
Starts(r, pc) == [Idle EXCEPT !.pc = pc, !.reader = {r}]
Seeing(r, pc) == [Starts(r, pc) EXCEPT !.seen = Sees(account[r])]
OnlyRequest == UNCHANGED <<clock, account, link, session>>
Begins(q, to) == request[q].pc = "idle" /\ Goes(q, to) /\ OnlyRequest
At(q, pc) == request[q].pc = pc
OnlyAccount == UNCHANGED <<clock, link, session>>
Update(r, row) == account' = [account EXCEPT ![r] = row]

(* A session token goes to a browser.                                      *)
Signs(r, by, version) ==
  /\ session' = session \cup {[reader |-> r, by |-> by, version |-> version]}
  /\ Cardinality(session') <= MaxSessions

(* A request dies, or is refused by the database.                          *)
Dies(q) ==
  /\ request[q].pc # "idle"
  /\ Ends(q)
  /\ OnlyRequest

-----------------------------------------------------------------------------
(* Registration, and the links sent by mail.                               *)

ReadForRegister(q, r, p) ==
  /\ account[r].status = "none"
  /\ Begins(q, [Starts(r, "register") EXCEPT !.typed = p])

(* Mutant: a status the schema does not have.                              *)
NewAccountNamed(password, verified, identities) ==
  [NoAccount EXCEPT !.password = password, !.verified = verified,
     !.identities = identities,
     !.status = IF verified THEN "ATIVO" ELSE "PENDENTE"]

NewAccount(password, verified, identities) ==
  [NoAccount EXCEPT !.password = password, !.verified = verified,
     !.identities = identities, !.status = StatusAfterLapse(verified)]

(* The address is unique: of two requests, the second fails (Dies).        *)
CreateAccount(q) ==
  /\ At(q, "register")
  /\ \E r \in request[q].reader :
       /\ account[r].status = "none"
       /\ Update(r, NewAccount(request[q].typed, FALSE, {}))
  /\ Goes(q, [request[q] EXCEPT !.pc = "issue_verification"])
  /\ OnlyAccount

(* resendVerification.                                                     *)
ReadForResend(q, r) ==
  /\ Known(r)
  /\ ~account[r].verified
  /\ Begins(q, Starts(r, "issue_verification"))

(* forgotPassword.                                                         *)
ReadForForgot(q, r) ==
  /\ Known(r)
  /\ ~Suspended(account[r])
  /\ account[r].password # NoPassword
  /\ Begins(q, Starts(r, "issue_reset"))

UsedResets(r) == {l \in Link : /\ link[l].row = "used"
                               /\ link[l].kind = "REPOR_PASSWORD"
                               /\ link[l].reader = {r}}

(* issueEmailToken, and the mail.                                          *)
Issue == [VERIFICACAO_EMAIL |-> "issue_verification",
          REPOR_PASSWORD |-> "issue_reset"]

IssueEmailToken(q, l, kind) ==
  /\ At(q, Issue[kind])
  /\ link[l].row = "none"
  /\ \E r \in request[q].reader :
       link' = [link EXCEPT ![l] =
                  [row |-> "unused", reader |-> {r}, kind |-> kind,
                   expires |-> clock + LinkLife, after |-> UsedResets(r)]]
  /\ Ends(q)
  /\ UNCHANGED <<clock, account, session>>

(* A link is opened: the row must be unused and in time.                   *)
Works(l, kind) == /\ link[l].row = "unused"
                  /\ link[l].kind = kind
                  /\ link[l].expires >= clock

OpenLink(q, l, kind, p) ==
  /\ Works(l, kind)
  /\ (p = NoPassword) = (kind = "VERIFICACAO_EMAIL")
  /\ Begins(q, [Idle EXCEPT !.pc = kind, !.reader = link[l].reader,
                            !.link = {l}, !.typed = p])

(* verifyEmail checks the account before it writes ...                     *)
ReadForVerify(q) ==
  /\ At(q, "VERIFICACAO_EMAIL")
  /\ \E r \in request[q].reader :
       /\ account[r].status # "ANONIMIZADO"
       /\ ~Suspended(account[r])
       /\ Goes(q, [request[q] EXCEPT !.pc = "verify", !.seen = Sees(account[r])])
  /\ OnlyRequest

(* ... and the transaction marks the link, unless erasing deleted it.      *)
VerifiedRow(row, seen) ==
  [row EXCEPT !.verified = TRUE, !.status = "ATIVO",
              !.until = IF seen.lapsed THEN NoDate ELSE @]

Spend(l) == /\ link[l].row \in {"unused", "used"}
            /\ link' = [link EXCEPT ![l].row = "used"]

VerifyEmail(q) ==
  /\ At(q, "verify")
  /\ \E l \in request[q].link : Spend(l)
  /\ \E r \in request[q].reader :
       /\ Update(r, VerifiedRow(account[r], request[q].seen))
       /\ Signs(r, NoPassword, account[r].version)
  /\ Ends(q)
  /\ UNCHANGED clock

(* resetPassword: one transaction.                                         *)
NewPassword(row, p) ==
  [row EXCEPT !.password = p, !.version = @ + 1]

(* Mutant: the other links stay.                                           *)
AfterResetAlone(r, used) ==
  [l \in Link |-> IF l \in used THEN [link[l] EXCEPT !.row = "used"]
                  ELSE link[l]]

AfterReset(r, used) ==
  [l \in Link |->
     IF l \in used THEN [link[l] EXCEPT !.row = "used"]
     ELSE IF /\ link[l].row = "unused"
             /\ link[l].kind = "REPOR_PASSWORD"
             /\ link[l].reader = {r}
     THEN [link[l] EXCEPT !.row = "deleted"]
     ELSE link[l]]

ResetPassword(q) ==
  /\ At(q, "REPOR_PASSWORD")
  /\ \A l \in request[q].link : link[l].row \in {"unused", "used"}
  /\ \E r \in request[q].reader :
       /\ account[r].version < MaxVersion
       /\ Update(r, [NewPassword(account[r], request[q].typed) EXCEPT
                       !.verified = TRUE])
       /\ link' = AfterReset(r, request[q].link)
  /\ Ends(q)
  /\ UNCHANGED <<clock, session>>

-----------------------------------------------------------------------------
(* Signing in, and what a reader does once in.                             *)

ReadForLogin(q, r, p) ==
  /\ Known(r)
  /\ account[r].status # "ANONIMIZADO"
  /\ account[r].password = p
  /\ ~Suspended(account[r])
  /\ Begins(q, [Seeing(r, "login") EXCEPT !.typed = p])

(* The update and the signature; the version is the one that was read.     *)
Login(q) ==
  /\ At(q, "login")
  /\ \E r \in request[q].reader :
       /\ Update(r, LapseOver(account[r], request[q].seen))
       /\ Signs(r, request[q].typed, request[q].seen.version)
  /\ Ends(q)
  /\ UNCHANGED <<clock, link>>

(* changePassword checks the current one, then writes.                     *)
ReadForChange(q, s, p) ==
  /\ s \in session
  /\ Accepts(account[s.reader], s)
  /\ account[s.reader].password # NoPassword
  /\ Begins(q, [Starts(s.reader, "change") EXCEPT !.typed = p])

(* Mutant: the sessions stay.                                              *)
ChangedQuietly(row, p) == [row EXCEPT !.password = p]
PasswordChanged(row, p) == NewPassword(row, p)

ChangePassword(q) ==
  /\ At(q, "change")
  /\ \E r \in request[q].reader :
       /\ account[r].version < MaxVersion
       /\ Update(r, PasswordChanged(account[r], request[q].typed))
  /\ Ends(q)
  /\ OnlyAccount

LogoutAll(s) ==
  /\ s \in session
  /\ Accepts(account[s.reader], s)
  /\ account[s.reader].version < MaxVersion
  /\ Update(s.reader, [account[s.reader] EXCEPT !.version = @ + 1])
  /\ UNCHANGED request /\ OnlyAccount

(* The guard, on any request of a reader whose suspension has ended.       *)
SeeLapse(q, s) ==
  /\ s \in session
  /\ Accepts(account[s.reader], s)
  /\ Lapsed(account[s.reader])
  /\ Begins(q, Seeing(s.reader, "tidy"))

TidyLapse(q) ==
  /\ At(q, "tidy")
  /\ \E r \in request[q].reader :
       Update(r, LapseOver(account[r], request[q].seen))
  /\ Ends(q)
  /\ OnlyAccount

(* A cookie is thrown away, or runs out.                                   *)
ForgetSession(s) ==
  /\ s \in session
  /\ session' = session \ {s}
  /\ UNCHANGED <<clock, account, link, request>>

-----------------------------------------------------------------------------
(* OAuthService.signIn.                                                    *)

ReadIdentity(q, r, from) ==
  /\ from \in account[r].identities
  /\ account[r].status # "ANONIMIZADO"
  /\ ~Suspended(account[r])
  /\ Begins(q, Seeing(r, "login"))

(* mayAutoLink.                                                            *)
MayAutoLink(from, trusted, row) ==
  IF from \in Strict THEN row.password = NoPassword ELSE trusted

ReadByAddress(q, r, from, trusted) ==
  /\ from \notin account[r].identities
  /\ \/ account[r].status = "none"
     \/ /\ Known(r)
        /\ ~Suspended(account[r])
        /\ MayAutoLink(from, trusted, account[r])
  /\ Begins(q, [Seeing(r, "oauth") EXCEPT !.with = {from},
                                             !.trusted = trusted])

(* An address that was never confirmed is confirmed by the network, and    *)
(* what was set up before goes.                                            *)
LinkedRow(row, seen, with) ==
  IF seen.verified
  THEN [row EXCEPT !.identities = @ \cup with]
  ELSE [row EXCEPT !.identities = @ \cup with, !.verified = TRUE,
          !.status = "ATIVO", !.password = NoPassword, !.version = @ + 1]

LinkIdentity(q) ==
  /\ At(q, "oauth")
  /\ request[q].seen.exists
  /\ \E r \in request[q].reader :
       LET seen == request[q].seen IN
       /\ request[q].with \cap account[r].identities = {}
       /\ account[r].version < MaxVersion
       /\ Update(r, LinkedRow(account[r], seen, request[q].with))
       /\ Signs(r, NoPassword, IF seen.verified THEN seen.version
                               ELSE seen.version + 1)
  /\ Ends(q)
  /\ UNCHANGED <<clock, link>>

CreateByIdentity(q) ==
  /\ At(q, "oauth")
  /\ \E r \in request[q].reader :
       /\ account[r].status = "none"
       /\ Update(r, NewAccount(NoPassword, request[q].trusted,
                               request[q].with))
       /\ Signs(r, NoPassword, 0)
  /\ Ends(q)
  /\ UNCHANGED <<clock, link>>

-----------------------------------------------------------------------------
(* The newsroom: suspend, unsuspend.                                       *)

ReadForSuspend(q, r, duration) ==
  /\ account[r].status \notin {"none", "ANONIMIZADO"}
  /\ Begins(q, [Starts(r, "suspend") EXCEPT
       !.until = SuspensionEndsAt(duration, clock, Term, 2 * Term)])

(* Mutant: the sessions stay.                                              *)
SuspendedQuietly(row, until) ==
  [row EXCEPT !.status = "SUSPENSO", !.until = until]
SuspendedRow(row, until) ==
  [row EXCEPT !.status = "SUSPENSO", !.until = until, !.version = @ + 1]

Suspend(q) ==
  /\ At(q, "suspend")
  /\ \E r \in request[q].reader :
       /\ account[r].version < MaxVersion
       /\ Update(r, SuspendedRow(account[r], request[q].until))
  /\ Ends(q)
  /\ OnlyAccount

ReadForUnsuspend(q, r) ==
  /\ account[r].status = "SUSPENSO"
  /\ Begins(q, Seeing(r, "unsuspend"))

(* Mutant: lifting the suspension confirms the address.                    *)
LiftedActive(row, seen) == [row EXCEPT !.status = "ATIVO", !.until = NoDate]
Lifted(row, seen) ==
  [row EXCEPT !.status = StatusAfterLapse(seen.verified), !.until = NoDate]

Unsuspend(q) ==
  /\ At(q, "unsuspend")
  /\ \E r \in request[q].reader :
       Update(r, Lifted(account[r], request[q].seen))
  /\ Ends(q)
  /\ OnlyAccount

(* anonymise: one transaction, at the reader's request.                    *)
ErasedAccount(row) == [NoAccount EXCEPT !.status = "ANONIMIZADO",
                     !.version = row.version + 1, !.erased = TRUE]

Anonymise(s) ==
  /\ s \in session
  /\ Accepts(account[s.reader], s)
  /\ account[s.reader].version < MaxVersion
  /\ Update(s.reader, ErasedAccount(account[s.reader]))
  /\ link' = [l \in Link |-> IF link[l].reader = {s.reader}
                             THEN [link[l] EXCEPT !.row = "deleted"]
                             ELSE link[l]]
  /\ UNCHANGED <<clock, session, request>>

-----------------------------------------------------------------------------
MailNext ==
  \E q \in Request :
    \/ \E r \in Holder, p \in Password : ReadForRegister(q, r, p)
    \/ CreateAccount(q)
    \/ \E r \in Holder : ReadForResend(q, r) \/ ReadForForgot(q, r)
    \/ \E l \in Link, kind \in Kind :
         \/ IssueEmailToken(q, l, kind)
         \/ \E p \in Password \cup {NoPassword} : OpenLink(q, l, kind, p)
    \/ ReadForVerify(q) \/ VerifyEmail(q) \/ ResetPassword(q)

SessionNext ==
  \/ \E q \in Request :
       \/ \E r \in Holder, p \in Password : ReadForLogin(q, r, p)
       \/ \E r \in Holder, from \in Provider :
            \/ ReadIdentity(q, r, from)
            \/ \E trusted \in BOOLEAN : ReadByAddress(q, r, from, trusted)
       \/ Login(q) \/ LinkIdentity(q) \/ CreateByIdentity(q)
       \/ \E s \in session :
            \/ \E p \in Password : ReadForChange(q, s, p)
            \/ SeeLapse(q, s)
       \/ ChangePassword(q) \/ TidyLapse(q)
  \/ \E s \in session : LogoutAll(s) \/ ForgetSession(s) \/ Anonymise(s)

NewsroomNext ==
  \E q \in Request :
    \/ \E r \in Holder, d \in Duration : ReadForSuspend(q, r, d)
    \/ \E r \in Holder : ReadForUnsuspend(q, r)
    \/ Suspend(q) \/ Unsuspend(q)

AcctNext ==
  \/ AcctTick
  \/ MailNext
  \/ SessionNext
  \/ NewsroomNext
  \/ \E q \in Request : Dies(q)

AcctSpec == AcctInit /\ [][AcctNext]_avars

-----------------------------------------------------------------------------
(* Correctness.                                                            *)

AccountRow == [status : Status, until : AccountDate, verified : BOOLEAN,
        password : Password \cup {NoPassword}, version : 0..MaxVersion,
        identities : SUBSET Provider, erased : BOOLEAN]
Seen == [exists : BOOLEAN, verified : BOOLEAN, version : 0..MaxVersion,
         lapsed : BOOLEAN]
Session == [reader : Holder, by : Password \cup {NoPassword},
            version : 0..(MaxVersion + 1)]
Step == {"idle", "register", "verify", "login", "change", "tidy", "oauth",
         "suspend", "unsuspend", "issue_verification",
         "issue_reset"} \cup Kind

(* The rows, links, sessions and requests are what the schema allows.      *)
AcctTypeOK ==
  /\ clock \in 0..MaxClock
  /\ account \in [Holder -> AccountRow]
  /\ link \in [Link -> [row : {"none", "unused", "used", "deleted"},
                        reader : SUBSET Holder, kind : Kind, expires : AccountDate,
                        after : SUBSET Link]]
  /\ session \subseteq Session
  /\ request \in [Request -> [pc : Step, reader : SUBSET Holder, seen : Seen,
                    link : SUBSET Link, typed : Password \cup {NoPassword},
                    with : SUBSET Provider, trusted : BOOLEAN, until : AccountDate]]

(* A session that still works was not opened with a password that has been *)
(* changed or reset since, even when the sign-in read the row first and    *)
(* was signed after the change.                                            *)
OldPasswordOpensNothing ==
  \A s \in session :
    /\ Accepts(account[s.reader], s)
    /\ s.by # NoPassword
    => s.by = account[s.reader].password

(* Of two reset links that were both used, the later one was asked for     *)
(* after the earlier one was used: a reset withdraws every other link,     *)
(* those being opened at the same moment included.                         *)
ResetWithdrawsOthers ==
  \A k, l \in Link :
    LET used == UNION {UsedResets(r) : r \in Holder} IN
    /\ k \in used /\ l \in used /\ k # l
    /\ link[k].reader = link[l].reader
    => k \in link[l].after \/ l \in link[k].after

(* "The ban starts now": no session in the wild has the version of a       *)
(* suspended account, so none comes back to life when the suspension ends; *)
(* a sign-in that was under way when the suspension fell included.         *)
SuspensionStrandsSessions ==
  \A s \in session :
    Suspended(account[s.reader]) => s.version # account[s.reader].version

(* An active account has a confirmed address: being suspended and let out, *)
(* or a lapse tidied away on what was read before, never does the          *)
(* confirming.                                                             *)
ActiveMeansConfirmed ==
  \A r \in Holder :
    account[r].status = "ATIVO" /\ ~account[r].erased => account[r].verified

-----------------------------------------------------------------------------
(* What the comments say of the program, and the code does not do.         *)

(* verifyEmail "throws on a re-used or already-verified one": the link     *)
(* that confirms an address, and sends the welcome mail, is one per        *)
(* account.                                                                *)
ConfirmedOnce ==
  \A k, l \in Link :
    /\ link[k].row = "used" /\ link[l].row = "used"
    /\ link[k].kind = "VERIFICACAO_EMAIL" /\ link[l].kind = link[k].kind
    /\ link[k].reader = link[l].reader
    => k = l

(* An old link is no "way out of a ban": only the newsroom lifts a running *)
(* suspension.                                                             *)
SuspensionHolds ==
  [][\A r \in Holder :
       Suspended(account[r]) /\ account'[r].status \in
         {"ATIVO", "PENDENTE_VERIFICACAO"}
       => \E q \in Request : Unsuspend(q)]_avars

(* Nothing undoes "an erasure we are obliged to honour".                   *)
ErasedStaysErased ==
  \A r \in Holder : account[r].erased => account[r].status = "ANONIMIZADO"
=============================================================================
