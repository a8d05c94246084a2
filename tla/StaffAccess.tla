---------------------------- MODULE StaffAccess ----------------------------
(***************************************************************************)
(* The newsroom's own accounts: backend/src/users (invitations, roles,     *)
(* suspensions, passwords), backend/src/auth (the session tokens and the   *)
(* two guards) and backend/src/rbac (what each role may do).               *)
(*                                                                         *)
(* A request passes the guards, reads the account it is about, and writes  *)
(* it by id: three moments, with the work of others in between.            *)
(***************************************************************************)
EXTENDS Integers, FiniteSets

CONSTANTS
  Member,      \* bound: the accounts there can be
  Founder,     \* the SUPER_ADMIN the first boot creates
  Role,        \* bound: the roles in use
  Staffed,     \* bound: the roles the others may have at first
  Call,        \* bound: requests under way at a time
  MatrixRole,  \* bound: the roles whose row of the matrix is looked at
  Offered,     \* bound: what a SUPER_ADMIN submits for a role
  MaxPassword, \* bound: the passwords an account has one after another
  MaxTokens,   \* bound: browsers with a session
  MaxWrites    \* bound: changes to accounts and to the matrix

Operation == {"invite", "changeRole", "setActive", "resetPassword", "remove"}

ASSUME StaffAssumption ==
  /\ Founder \in Member
  /\ "SUPER_ADMIN" \in Role
  /\ Role \subseteq {"SUPER_ADMIN", "EDITOR_CHEFE", "EDITOR", "COLUNISTA", "REVISOR",
                     "MODERADOR", "ANALISTA"}
  /\ Staffed \subseteq Role \ {"SUPER_ADMIN"}
  /\ MatrixRole \subseteq Role \ {"SUPER_ADMIN"}
  /\ Offered \subseteq SUBSET Operation
  /\ MaxPassword \in Nat /\ MaxTokens \in Nat /\ MaxWrites \in Nat

VARIABLES
  member,     \* the User rows
  matrix,     \* the RolePermissions rows; NoList where there is none
  token,      \* the tokens in browsers, and the password they were given for
  call,       \* the requests under way
  writes,     \* bound: the changes so far
  decided,    \* history: what was last decided a role may do
  superActed, \* history: a SUPER_ADMIN has done something
  overlapped  \* history: a request wrote an account whose role was no longer
              \* the one it had read

pvars == <<member, matrix, token, call, writes, decided, superActed, overlapped>>

-----------------------------------------------------------------------------
(* rbac.constants.                                                         *)

Assignable ==
  [r \in Role |-> CASE r = "SUPER_ADMIN" -> Role
                    [] r = "EDITOR_CHEFE" -> Role \ {"SUPER_ADMIN"}
                    [] r = "EDITOR" -> Role \cap {"COLUNISTA"}
                    [] OTHER -> {}]
CanManage(rank, role) == rank = "SUPER_ADMIN" \/ role \in Assignable[rank]

Default(r) ==
  CASE r = "EDITOR_CHEFE" -> Operation
    [] r = "MODERADOR" -> {"setActive"}
    [] OTHER -> {}
NoList == {"no row"}
InForce(r) ==
  IF r = "SUPER_ADMIN" THEN Operation
  ELSE IF r \notin MatrixRole \/ matrix[r] = NoList THEN Default(r) ELSE matrix[r]

-----------------------------------------------------------------------------
Account(role) == [there |-> "yes", role |-> role, active |-> TRUE,
                  password |-> 1, version |-> 0]
Nobody == [there |-> "not yet", role |-> "SUPER_ADMIN", active |-> FALSE,
           password |-> 0, version |-> 0]
NoCall == [pc |-> "idle", op |-> "invite", actor |-> Founder, rank |-> "SUPER_ADMIN",
           target |-> Founder, seen |-> "SUPER_ADMIN", role |-> "SUPER_ADMIN",
           active |-> FALSE, typed |-> 0, version |-> 0]

StaffInit ==
  /\ \E row \in [Member \ {Founder} -> {Nobody} \cup {Account(r) : r \in Staffed}] :
       member = [m \in Member |-> IF m = Founder THEN Account("SUPER_ADMIN") ELSE row[m]]
  /\ matrix = [r \in MatrixRole |-> NoList]
  /\ token = {}
  /\ call = [q \in Call |-> NoCall]
  /\ writes = 0
  /\ decided = [r \in MatrixRole |-> Default(r)]
  /\ superActed = FALSE
  /\ overlapped = FALSE

OnStaff(m) == member[m].there = "yes"
CallIs(q, to) == call' = [call EXCEPT ![q] = to]
CallLeftDone(q) == CallIs(q, [NoCall EXCEPT !.pc = "done"])
Ended(q) == CallIs(q, NoCall)
OnlyCall == UNCHANGED <<member, matrix, token, writes, decided, superActed, overlapped>>

-----------------------------------------------------------------------------
(* login: the row is read and the password compared, then a token signed   *)
(* with what was read.  (The lock on failures: see LoginLock.)             *)

StartLogin(q, m) ==
  /\ call[q].pc = "idle"
  /\ OnStaff(m) /\ member[m].active
  /\ CallIs(q, [NoCall EXCEPT !.pc = "sign", !.actor = m, !.typed = member[m].password,
                              !.version = member[m].version])
  /\ OnlyCall

Sign(q) ==
  /\ call[q].pc = "sign"
  /\ token' = token \cup {[member |-> call[q].actor, by |-> call[q].typed,
                           version |-> call[q].version]}
  /\ Cardinality(token') <= MaxTokens
  /\ Ended(q)
  /\ UNCHANGED <<member, matrix, writes, decided, superActed, overlapped>>

ForgetToken(t) ==
  /\ t \in token
  /\ token' = token \ {t}
  /\ UNCHANGED <<member, matrix, call, writes, decided, superActed, overlapped>>

(* resolveSession.  (Mutant: the version is not looked at.)                *)
ResolvedByAccount(t) == OnStaff(t.member) /\ member[t.member].active
Resolved(t) ==
  /\ OnStaff(t.member) /\ member[t.member].active
  /\ member[t.member].version = t.version

(* The guards let a request on an account in, and what the service refuses *)
(* before it reads anything does not get further.                          *)
Enter(q, t, op) ==
  /\ call[q].pc = "idle"
  /\ t \in token /\ Resolved(t)
  /\ op \in InForce(member[t.member].role)
  /\ \E m \in Member, r \in Role, b \in BOOLEAN :
       /\ op = "invite" => m = t.member
       /\ op \in {"resetPassword", "remove"} => m # t.member
       /\ op \in {"invite", "changeRole"} => r \in Assignable[member[t.member].role]
       /\ op \in {"invite", "changeRole"} \/ r = "SUPER_ADMIN"
       /\ b = (op = "setActive" /\ ~member[m].active)
       /\ CallIs(q, [NoCall EXCEPT !.pc = "read", !.op = op, !.actor = t.member,
                       !.rank = member[t.member].role, !.target = m, !.role = r,
                       !.active = b])
  /\ OnlyCall

-----------------------------------------------------------------------------
(* assertMayActOn.  (Mutants: as it was when each of its halves was        *)
(* missing.)                                                               *)
MayActOnPeers(rank, actor, target, role) == CanManage(rank, role)
MayActOnEqualRank(rank, actor, target, role) ==
  role = rank /\ rank # "SUPER_ADMIN" => target = actor
MayActOn(rank, actor, target, role) ==
  /\ CanManage(rank, role)
  /\ role = rank /\ rank # "SUPER_ADMIN" => target = actor

ReadTarget(q) ==
  LET c == call[q] role == member[c.target].role IN
  /\ c.pc = "read"
  /\ call' = [call EXCEPT ![q] =
       IF c.op = "invite" \/ (OnStaff(c.target) /\ MayActOn(c.rank, c.actor, c.target, role))
       THEN [c EXCEPT !.pc = "write", !.seen = IF c.op = "invite" THEN c.seen ELSE role]
       ELSE NoCall]
  /\ OnlyCall

Counted == writes < MaxWrites /\ writes' = writes + 1
Writes(q) ==
  /\ call[q].pc = "write"
  /\ Counted
  /\ Ended(q)
  /\ superActed' = (superActed \/ call[q].rank = "SUPER_ADMIN")
  /\ UNCHANGED <<matrix, token, decided>>
OnTarget(q) ==
  /\ Writes(q)
  /\ OnStaff(call[q].target)
  /\ overlapped' = (overlapped \/ member[call[q].target].role # call[q].seen)

Invite(q, m) ==
  /\ call[q].op = "invite"
  /\ Writes(q)
  /\ member[m] = Nobody
  /\ member' = [member EXCEPT ![m] = Account(call[q].role)]
  /\ UNCHANGED overlapped

ChangeRole(q) ==
  /\ call[q].op = "changeRole"
  /\ OnTarget(q)
  /\ member' = [member EXCEPT ![call[q].target].role = call[q].role]

SetActive(q) ==
  /\ call[q].op = "setActive"
  /\ OnTarget(q)
  /\ member' = [member EXCEPT ![call[q].target].active = call[q].active]

(* Mutant: the sessions go on.                                             *)
NewPasswordOnly(row) == [row EXCEPT !.password = row.password + 1]
NewPassword(row) ==
  [row EXCEPT !.password = row.password + 1, !.version = row.version + 1]

ResetPassword(q) ==
  /\ call[q].op = "resetPassword"
  /\ OnTarget(q)
  /\ member[call[q].target].password < MaxPassword
  /\ member' = [member EXCEPT ![call[q].target] = NewPassword(@)]

(* An account with articles stays; those of the model have none.           *)
RemoveMember(q) ==
  /\ call[q].op = "remove"
  /\ OnTarget(q)
  /\ member' = [member EXCEPT ![call[q].target] = [Nobody EXCEPT !.there = "no more"]]

(* The row is gone, the database refuses, or the process dies.             *)
Fails(q) ==
  /\ call[q].pc # "idle"
  /\ Ended(q)
  /\ OnlyCall

-----------------------------------------------------------------------------
(* changeOwnPassword: whoever has the session types the password they have.*)

StartOwnPassword(q, t) ==
  /\ call[q].pc = "idle"
  /\ t \in token /\ Resolved(t)
  /\ CallIs(q, [NoCall EXCEPT !.pc = "compare", !.actor = t.member, !.typed = t.by,
                              !.rank = member[t.member].role])
  /\ OnlyCall

Compare(q) ==
  LET c == call[q] IN
  /\ c.pc = "compare"
  /\ call' = [call EXCEPT ![q] =
       IF OnStaff(c.actor) /\ member[c.actor].password = c.typed
       THEN [c EXCEPT !.pc = "own"] ELSE NoCall]
  /\ OnlyCall

OwnPassword(q) ==
  LET c == call[q] IN
  /\ c.pc = "own"
  /\ OnStaff(c.actor)
  /\ member[c.actor].password < MaxPassword
  /\ Counted
  /\ member' = [member EXCEPT ![c.actor] = NewPassword(@)]
  /\ superActed' = (superActed \/ c.rank = "SUPER_ADMIN")
  /\ Ended(q)
  /\ UNCHANGED <<matrix, token, decided, overlapped>>

-----------------------------------------------------------------------------
(* The matrix: a SUPER_ADMIN submits a role's list; every boot creates the *)
(* rows that are missing, as far as it gets.                               *)

UpdateMatrix(t, r, list) ==
  /\ t \in token /\ Resolved(t)
  /\ member[t.member].role = "SUPER_ADMIN"
  /\ InForce(r) # list
  /\ Counted
  /\ matrix' = [matrix EXCEPT ![r] = list]
  /\ decided' = [decided EXCEPT ![r] = list]
  /\ superActed' = TRUE
  /\ UNCHANGED <<member, token, call, overlapped>>

(* Mutant: a row that lacks defaults is filled up again, as it once was.   *)
ProvisionedAgain(r) ==
  IF matrix[r] = NoList THEN Default(r) ELSE matrix[r] \cup Default(r)
Provisioned(r) == IF matrix[r] = NoList THEN Default(r) ELSE matrix[r]

Boot ==
  /\ \E done \in SUBSET MatrixRole :
       matrix' = [r \in MatrixRole |-> IF r \in done THEN Provisioned(r) ELSE matrix[r]]
  /\ call' = [q \in Call |-> NoCall]
  /\ UNCHANGED <<member, token, writes, decided, superActed, overlapped>>

-----------------------------------------------------------------------------
StaffNext ==
  \/ \E q \in Call :
       \/ \E m \in Member : StartLogin(q, m) \/ Invite(q, m)
       \/ \E t \in token : StartOwnPassword(q, t) \/ \E op \in Operation : Enter(q, t, op)
       \/ Sign(q) \/ ReadTarget(q) \/ ChangeRole(q) \/ SetActive(q) \/ ResetPassword(q)
       \/ RemoveMember(q) \/ Compare(q) \/ OwnPassword(q) \/ Fails(q)
  \/ \E t \in token :
       ForgetToken(t) \/ \E r \in MatrixRole, list \in Offered : UpdateMatrix(t, r, list)
  \/ Boot

StaffSpec == StaffInit /\ [][StaffNext]_pvars

-----------------------------------------------------------------------------
AccountType == [there : {"not yet", "yes", "no more"}, role : Role, active : BOOLEAN,
                password : Nat, version : Nat]
TokenType == [member : Member, by : Nat, version : Nat]
CallType == [pc : {"idle", "sign", "read", "write", "compare", "own"}, op : Operation,
             actor : Member, rank : Role, target : Member, seen : Role, role : Role,
             active : BOOLEAN, typed : Nat, version : Nat]

(* The types.                                                              *)
StaffTypeOK ==
  /\ member \in [Member -> AccountType]
  /\ matrix \in [MatrixRole -> (SUBSET Operation) \cup {NoList}]
  /\ token \subseteq TokenType
  /\ call \in [Call -> CallType]
  /\ decided \in [MatrixRole -> SUBSET Operation]
  /\ writes \in 0..MaxWrites
  /\ superActed \in BOOLEAN /\ overlapped \in BOOLEAN

(* A session the guard lets in was given for the password now in force:    *)
(* logins that overlap a change, and resets by others, included.           *)
TokenMatchesPassword ==
  \A t \in token : Resolved(t) => t.by = member[t.member].password

(* As long as no SUPER_ADMIN does anything, and no account changes its     *)
(* role under a request, nobody becomes one, and the one there is stays as *)
(* it was, however the others invite, promote and suspend each other.      *)
OnlySupersMakeSupers ==
  ~superActed /\ ~overlapped =>
    /\ member[Founder] = Account("SUPER_ADMIN")
    /\ \A m \in Member \ {Founder} : OnStaff(m) => member[m].role # "SUPER_ADMIN"

(* What a role may do is what was decided last, through every restart.     *)
DecisionsLast == \A r \in MatrixRole : InForce(r) = decided[r]

(* An account changes by its owner's doing, or by somebody's whose rank is *)
(* above the one it has now; or its role changed under the request.        *)
Above(rank, role) ==
  rank = "SUPER_ADMIN" \/ (role # rank /\ role \in Assignable[rank])
RankShields ==
  [][\A m \in Member :
       OnStaff(m) /\ member'[m] # member[m] =>
         \E q \in Call :
           /\ call[q].pc \in {"write", "own"} /\ call'[q].pc = "idle"
           /\ \/ call[q].actor = m
              \/ Above(call[q].rank, member[m].role)
              \/ overlapped']_pvars
=============================================================================
