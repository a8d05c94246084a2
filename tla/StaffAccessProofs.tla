------------------------- MODULE StaffAccessProofs -------------------------
(***************************************************************************)
(* What StaffAccess promises for any accounts, roles and matrices, and any *)
(* number of overlapping requests, restarts and sessions.                  *)
(***************************************************************************)
EXTENDS StaffAccess, TLAPS

(* The parts of the assumption, one fact each.                             *)
LEMMA RoleFacts ==
  /\ Founder \in Member
  /\ "SUPER_ADMIN" \in Role
  /\ Role \subseteq {"SUPER_ADMIN", "EDITOR_CHEFE", "EDITOR", "COLUNISTA", "REVISOR",
                     "MODERADOR", "ANALISTA"}
  /\ Staffed \subseteq Role \ {"SUPER_ADMIN"}
  /\ MatrixRole \subseteq Role \ {"SUPER_ADMIN"}
  BY StaffAssumption
LEMMA OfferedFacts == \A list \in Offered : list \in SUBSET Operation
  BY StaffAssumption
LEMMA BoundFacts == MaxWrites \in Nat
  BY StaffAssumption

-----------------------------------------------------------------------------
(* Types, one action at a time.                                            *)

LEMMA AccountTypes ==
  ASSUME NEW r \in Role
  PROVE  Account(r) \in AccountType
  BY DEF Account, AccountType

LEMMA NobodyTypes ==
  /\ Nobody \in AccountType /\ Nobody.there = "not yet"
  /\ [Nobody EXCEPT !.there = "no more"] \in AccountType
  BY RoleFacts DEF Nobody, AccountType

LEMMA NoCallTypes == NoCall \in CallType
  BY RoleFacts DEF NoCall, CallType, Operation

(* Only the roles a rank may give out are assignable, and never the top    *)
(* one by anybody below it.                                                *)
LEMMA AssignableRoles ==
  ASSUME NEW rank \in Role
  PROVE  /\ Assignable[rank] \subseteq Role
         /\ rank # "SUPER_ADMIN" => "SUPER_ADMIN" \notin Assignable[rank]
  BY DEF Assignable

LEMMA DefaultTypes ==
  ASSUME NEW r
  PROVE  Default(r) \in SUBSET Operation
  BY DEF Default, Operation

(* No list of operations is the absent row.                                *)
LEMMA NoListIsNoList ==
  ASSUME NEW list \in SUBSET Operation
  PROVE  list # NoList
  BY DEF Operation, NoList

LEMMA InitTypes == StaffInit => StaffTypeOK
  <1>. SUFFICES ASSUME StaffInit PROVE StaffTypeOK
    OBVIOUS
  <1>1. PICK row \in [Member \ {Founder} -> {Nobody} \cup {Account(r) : r \in Staffed}] :
          member = [m \in Member |-> IF m = Founder THEN Account("SUPER_ADMIN") ELSE row[m]]
    BY DEF StaffInit
  <1>2. ASSUME NEW m \in Member
        PROVE  member[m] \in AccountType
    <2>1. CASE m = Founder
      BY <2>1, <1>1, RoleFacts, AccountTypes
    <2>2. CASE m # Founder
      <3>1. row[m] = Nobody \/ \E r \in Staffed : row[m] = Account(r)
        BY <2>2, <1>1
      <3>. QED  BY <3>1, <2>2, <1>1, RoleFacts, AccountTypes, NobodyTypes
    <2>. QED  BY <2>1, <2>2
  <1>3. member \in [Member -> AccountType]
    BY <1>1, <1>2
  <1>4. matrix \in [MatrixRole -> (SUBSET Operation) \cup {NoList}]
    BY DEF StaffInit
  <1>7. /\ token \subseteq TokenType
        /\ superActed \in BOOLEAN /\ overlapped \in BOOLEAN
    BY DEF StaffInit
  <1>8. writes \in 0..MaxWrites
    <2>1. writes = 0
      BY DEF StaffInit
    <2>. QED  BY <2>1, BoundFacts
  <1>5. call \in [Call -> CallType]
    BY NoCallTypes DEF StaffInit
  <1>6. decided \in [MatrixRole -> SUBSET Operation]
    BY DefaultTypes DEF StaffInit
  <1>. QED  BY <1>3, <1>4, <1>5, <1>6, <1>7, <1>8 DEF StaffTypeOK

(* A request moved on, and nothing else.                                   *)
LEMMA OneCallTypes ==
  ASSUME StaffTypeOK, NEW q \in Call, NEW to \in CallType, CallIs(q, to)
  PROVE  call' \in [Call -> CallType]
  BY DEF StaffTypeOK, CallIs

LEMMA OnlyCallTypes ==
  ASSUME StaffTypeOK, OnlyCall, call' \in [Call -> CallType]
  PROVE  StaffTypeOK'
  BY DEF StaffTypeOK, OnlyCall

LEMMA StartLoginTypes ==
  ASSUME StaffTypeOK, NEW q \in Call, NEW m \in Member, StartLogin(q, m)
  PROVE  StaffTypeOK'
  <1>1. member[m] \in AccountType
    BY DEF StaffTypeOK
  <1>2. [NoCall EXCEPT !.pc = "sign", !.actor = m, !.typed = member[m].password,
                       !.version = member[m].version] \in CallType
    BY <1>1, NoCallTypes DEF CallType, AccountType
  <1>3. call' \in [Call -> CallType]
    BY <1>2, OneCallTypes DEF StartLogin
  <1>. QED  BY <1>3, OnlyCallTypes DEF StartLogin

LEMMA EnterTypes ==
  ASSUME StaffTypeOK, NEW q \in Call, NEW t \in token, NEW op \in Operation, Enter(q, t, op)
  PROVE  StaffTypeOK'
  <1>1. PICK m \in Member, r \in Role, b \in BOOLEAN :
          CallIs(q, [NoCall EXCEPT !.pc = "read", !.op = op, !.actor = t.member,
                       !.rank = member[t.member].role, !.target = m, !.role = r,
                       !.active = b])
    BY DEF Enter
  <1>2. t.member \in Member /\ member[t.member] \in AccountType
    BY DEF StaffTypeOK, TokenType
  <1>3. [NoCall EXCEPT !.pc = "read", !.op = op, !.actor = t.member,
                       !.rank = member[t.member].role, !.target = m, !.role = r,
                       !.active = b] \in CallType
    BY <1>2, NoCallTypes DEF CallType, AccountType
  <1>4. call' \in [Call -> CallType]
    BY <1>1, <1>3, OneCallTypes
  <1>. QED  BY <1>4, OnlyCallTypes DEF Enter

LEMMA ReadTargetTypes ==
  ASSUME StaffTypeOK, NEW q \in Call, ReadTarget(q)
  PROVE  StaffTypeOK'
  <1>. DEFINE c == call[q]
              role == member[c.target].role
              seen == IF c.op = "invite" THEN c.seen ELSE role
  <1>1. c \in CallType
    BY DEF StaffTypeOK
  <1>2. role \in Role
    BY <1>1 DEF StaffTypeOK, CallType, AccountType
  <1>3. [c EXCEPT !.pc = "write", !.seen = seen] \in CallType
    BY <1>1, <1>2 DEF CallType
  <1>4. call'[q] \in CallType
    BY <1>1, <1>3, NoCallTypes DEF ReadTarget, StaffTypeOK
  <1>5. call' \in [Call -> CallType]
    BY <1>4 DEF ReadTarget, StaffTypeOK
  <1>. QED  BY <1>5, OnlyCallTypes DEF ReadTarget

LEMMA StartOwnPasswordTypes ==
  ASSUME StaffTypeOK, NEW q \in Call, NEW t \in token, StartOwnPassword(q, t)
  PROVE  StaffTypeOK'
  <1>1. t \in TokenType /\ member[t.member] \in AccountType
    BY DEF StaffTypeOK, TokenType
  <1>2. [NoCall EXCEPT !.pc = "compare", !.actor = t.member, !.typed = t.by,
                       !.rank = member[t.member].role] \in CallType
    BY <1>1, NoCallTypes DEF CallType, AccountType, TokenType
  <1>3. call' \in [Call -> CallType]
    BY <1>2, OneCallTypes DEF StartOwnPassword
  <1>. QED  BY <1>3, OnlyCallTypes DEF StartOwnPassword

LEMMA CompareTypes ==
  ASSUME StaffTypeOK, NEW q \in Call, Compare(q)
  PROVE  StaffTypeOK'
  <1>1. call[q] \in CallType
    BY DEF StaffTypeOK
  <1>2. [call[q] EXCEPT !.pc = "own"] \in CallType
    BY <1>1 DEF CallType
  <1>3. call' \in [Call -> CallType]
    BY <1>2, NoCallTypes DEF Compare, StaffTypeOK
  <1>. QED  BY <1>3, OnlyCallTypes DEF Compare

LEMMA SignTypes ==
  ASSUME StaffTypeOK, NEW q \in Call, Sign(q)
  PROVE  StaffTypeOK'
  <1>1. call[q] \in CallType
    BY DEF StaffTypeOK
  <1>2. token' \subseteq TokenType
    BY <1>1 DEF Sign, StaffTypeOK, CallType, TokenType
  <1>3. call' \in [Call -> CallType]
    BY NoCallTypes, OneCallTypes DEF Sign, Ended
  <1>. QED  BY <1>2, <1>3 DEF Sign, StaffTypeOK

(* The account a write changes, and what it leaves there.                  *)
LEMMA WriteTypes ==
  ASSUME StaffTypeOK, NEW q \in Call, NEW m \in Member, NEW row \in AccountType,
         member' = [member EXCEPT ![m] = row], Counted, Ended(q),
         superActed' \in BOOLEAN, overlapped' \in BOOLEAN,
         UNCHANGED <<matrix, token, decided>>
  PROVE  StaffTypeOK'
  <1>1. call' \in [Call -> CallType]
    BY NoCallTypes, OneCallTypes DEF Ended
  <1>2. writes' \in 0..MaxWrites
    BY BoundFacts DEF Counted, StaffTypeOK
  <1>. QED  BY <1>1, <1>2 DEF StaffTypeOK

LEMMA NewPasswordTypes ==
  ASSUME NEW row \in AccountType
  PROVE  /\ NewPassword(row) \in AccountType
         /\ NewPassword(row) = [row EXCEPT !.password = row.password + 1,
                                           !.version = row.version + 1]
  <1>1. row.password + 1 \in Nat /\ row.version + 1 \in Nat
    <2>1. row.password \in Nat /\ row.version \in Nat
      BY DEF AccountType
    <2>. QED  BY <2>1
  <1>. QED  BY <1>1 DEF NewPassword, AccountType

LEMMA InviteTypes ==
  ASSUME StaffTypeOK, NEW q \in Call, NEW m \in Member, Invite(q, m)
  PROVE  StaffTypeOK'
  <1>1. call[q].role \in Role
    BY DEF StaffTypeOK, CallType
  <1>2. superActed' \in BOOLEAN /\ overlapped' \in BOOLEAN
    BY DEF Invite, Writes, StaffTypeOK
  <1>. QED  BY <1>1, <1>2, AccountTypes, WriteTypes DEF Invite, Writes

(* The target of a write is an account, and what is written there another. *)
LEMMA OnTargetTypes ==
  ASSUME StaffTypeOK, NEW q \in Call, OnTarget(q),
         NEW row \in AccountType, member' = [member EXCEPT ![call[q].target] = row]
  PROVE  StaffTypeOK'
  <1>1. call[q].target \in Member
    BY DEF StaffTypeOK, CallType
  <1>2. superActed' \in BOOLEAN /\ overlapped' \in BOOLEAN
    BY DEF OnTarget, Writes, StaffTypeOK
  <1>. QED  BY <1>1, <1>2, WriteTypes DEF OnTarget, Writes

(* What each of the writes to a target leaves there.                       *)
LEMMA TargetRows ==
  ASSUME StaffTypeOK, NEW q \in Call,
         ChangeRole(q) \/ SetActive(q) \/ ResetPassword(q) \/ RemoveMember(q)
  PROVE  /\ OnTarget(q)
         /\ call[q].target \in Member /\ member[call[q].target] \in AccountType
         /\ \E row \in AccountType :
              /\ member' = [member EXCEPT ![call[q].target] = row]
              /\ \/ /\ call[q].op = "changeRole"
                    /\ row = [member[call[q].target] EXCEPT !.role = call[q].role]
                 \/ row = [member[call[q].target] EXCEPT !.active = call[q].active]
                 \/ row = NewPassword(member[call[q].target])
                 \/ row = [Nobody EXCEPT !.there = "no more"]
              /\ call[q].op # "invite"
  <1>1. /\ call[q].target \in Member /\ member[call[q].target] \in AccountType
        /\ call[q].role \in Role /\ call[q].active \in BOOLEAN
    BY DEF StaffTypeOK, CallType
  <1>2. CASE ChangeRole(q)
    <2>1. [member[call[q].target] EXCEPT !.role = call[q].role] \in AccountType
      BY <1>1 DEF AccountType
    <2>. QED  BY <2>1, <1>1, <1>2 DEF ChangeRole
  <1>3. CASE SetActive(q)
    <2>1. [member[call[q].target] EXCEPT !.active = call[q].active] \in AccountType
      BY <1>1 DEF AccountType
    <2>. QED  BY <2>1, <1>1, <1>3 DEF SetActive
  <1>4. CASE ResetPassword(q)
    BY <1>1, <1>4, NewPasswordTypes DEF ResetPassword
  <1>5. CASE RemoveMember(q)
    BY <1>1, <1>5, NobodyTypes DEF RemoveMember
  <1>. QED  BY <1>2, <1>3, <1>4, <1>5

LEMMA OwnPasswordTypes ==
  ASSUME StaffTypeOK, NEW q \in Call, OwnPassword(q)
  PROVE  StaffTypeOK'
  <1>1. call[q].actor \in Member /\ member[call[q].actor] \in AccountType
    BY DEF StaffTypeOK, CallType
  <1>2. superActed' \in BOOLEAN /\ overlapped' \in BOOLEAN
    BY DEF OwnPassword, StaffTypeOK
  <1>. QED  BY <1>1, <1>2, NewPasswordTypes, WriteTypes DEF OwnPassword

LEMMA UpdateMatrixTypes ==
  ASSUME StaffTypeOK, NEW t \in token, NEW r \in MatrixRole, NEW list \in Offered,
         UpdateMatrix(t, r, list)
  PROVE  StaffTypeOK'
  <1>1. list \in SUBSET Operation
    BY OfferedFacts
  <1>2. writes' \in 0..MaxWrites
    BY BoundFacts DEF UpdateMatrix, Counted, StaffTypeOK
  <1>3. /\ matrix' \in [MatrixRole -> (SUBSET Operation) \cup {NoList}]
        /\ decided' \in [MatrixRole -> SUBSET Operation]
    BY <1>1 DEF UpdateMatrix, StaffTypeOK
  <1>. QED  BY <1>2, <1>3 DEF UpdateMatrix, StaffTypeOK

LEMMA BootTypes ==
  ASSUME StaffTypeOK, Boot
  PROVE  StaffTypeOK'
  <1>1. PICK done \in SUBSET MatrixRole :
          matrix' = [r \in MatrixRole |-> IF r \in done THEN Provisioned(r) ELSE matrix[r]]
    BY DEF Boot
  <1>2. ASSUME NEW r \in MatrixRole
        PROVE  matrix'[r] \in (SUBSET Operation) \cup {NoList}
    BY <1>1, DefaultTypes DEF Provisioned, StaffTypeOK
  <1>3. matrix' \in [MatrixRole -> (SUBSET Operation) \cup {NoList}]
    BY <1>1, <1>2
  <1>4. call' \in [Call -> CallType]
    BY NoCallTypes DEF Boot
  <1>. QED  BY <1>3, <1>4 DEF Boot, StaffTypeOK

LEMMA FailsTypes ==
  ASSUME StaffTypeOK, NEW q \in Call, Fails(q)
  PROVE  StaffTypeOK'
  BY NoCallTypes, OneCallTypes, OnlyCallTypes DEF Fails, Ended

LEMMA ForgetTokenTypes ==
  ASSUME StaffTypeOK, NEW t \in token, ForgetToken(t)
  PROVE  StaffTypeOK'
  BY DEF ForgetToken, StaffTypeOK

LEMMA NextTypes == StaffTypeOK /\ [StaffNext]_pvars => StaffTypeOK'
  <1>. SUFFICES ASSUME StaffTypeOK, [StaffNext]_pvars
                PROVE  StaffTypeOK'
    OBVIOUS
  <1>1. ASSUME NEW q \in Call,
               ChangeRole(q) \/ SetActive(q) \/ ResetPassword(q) \/ RemoveMember(q)
        PROVE  StaffTypeOK'
    BY <1>1, TargetRows, OnTargetTypes
  <1>2. CASE UNCHANGED pvars
    BY <1>2 DEF pvars, StaffTypeOK
  <1>. QED  BY <1>1, <1>2, StartLoginTypes, InviteTypes, StartOwnPasswordTypes,
               EnterTypes, SignTypes, ReadTargetTypes, CompareTypes, OwnPasswordTypes,
               FailsTypes, ForgetTokenTypes, UpdateMatrixTypes, BootTypes
            DEF StaffNext

(* The types hold in every state.                                          *)
THEOREM StaffTypes == StaffSpec => []StaffTypeOK
  BY InitTypes, NextTypes, PTL DEF StaffSpec

-----------------------------------------------------------------------------
(* The matrix.                                                             *)

LEMMA DecisionsInit == StaffInit => DecisionsLast
  <1>. SUFFICES ASSUME StaffInit, NEW r \in MatrixRole
                PROVE  InForce(r) = decided[r]
    BY DEF DecisionsLast
  <1>1. r # "SUPER_ADMIN"
    BY RoleFacts
  <1>. QED  BY <1>1 DEF StaffInit, InForce

LEMMA DecisionsStep == StaffTypeOK /\ DecisionsLast /\ [StaffNext]_pvars => DecisionsLast'
  <1>. SUFFICES ASSUME StaffTypeOK, DecisionsLast, [StaffNext]_pvars, NEW r \in MatrixRole
                PROVE  InForce(r)' = decided'[r]
    BY DEF DecisionsLast
  <1>0. /\ r # "SUPER_ADMIN"
        /\ InForce(r) = decided[r]
    BY RoleFacts DEF DecisionsLast
  <1>1. CASE UNCHANGED <<matrix, decided>>
    BY <1>0, <1>1 DEF InForce
  <1>2. ASSUME NEW t \in token, NEW x \in MatrixRole, NEW list \in Offered,
               UpdateMatrix(t, x, list)
        PROVE  InForce(r)' = decided'[r]
    <2>1. list # NoList
      BY OfferedFacts, NoListIsNoList
    <2>2. CASE x = r
      BY <2>1, <2>2, <1>0, <1>2 DEF UpdateMatrix, InForce, StaffTypeOK
    <2>3. CASE x # r
      BY <2>3, <1>0, <1>2 DEF UpdateMatrix, InForce, StaffTypeOK
    <2>. QED  BY <2>2, <2>3
  <1>3. CASE Boot
    <2>1. decided' = decided
      BY <1>3 DEF Boot
    <2>2. matrix'[r] = matrix[r] \/ matrix'[r] = Provisioned(r)
      BY <1>3 DEF Boot
    <2>3. Default(r) # NoList
      BY DefaultTypes, NoListIsNoList
    <2>. QED  BY <2>1, <2>2, <2>3, <1>0 DEF InForce, Provisioned
  <1>4. ASSUME NEW q \in Call, NEW m \in Member, StartLogin(q, m) \/ Invite(q, m)
        PROVE  UNCHANGED <<matrix, decided>>
    BY <1>4 DEF StartLogin, Invite, OnlyCall, Writes
  <1>5. ASSUME NEW q \in Call, NEW t \in token,
               StartOwnPassword(q, t) \/ \E op \in Operation : Enter(q, t, op)
        PROVE  UNCHANGED <<matrix, decided>>
    BY <1>5 DEF StartOwnPassword, Enter, OnlyCall
  <1>6. ASSUME NEW q \in Call, Sign(q) \/ ReadTarget(q) \/ Compare(q) \/ Fails(q)
        PROVE  UNCHANGED <<matrix, decided>>
    BY <1>6 DEF Sign, ReadTarget, Compare, Fails, OnlyCall
  <1>7. ASSUME NEW q \in Call,
               \/ ChangeRole(q) \/ SetActive(q) \/ ResetPassword(q)
               \/ RemoveMember(q) \/ OwnPassword(q)
        PROVE  UNCHANGED <<matrix, decided>>
    BY <1>7 DEF ChangeRole, SetActive, ResetPassword, RemoveMember, OwnPassword, OnTarget,
                Writes
  <1>8. ASSUME NEW t \in token, ForgetToken(t)
        PROVE  UNCHANGED <<matrix, decided>>
    BY <1>8 DEF ForgetToken
  <1>. QED  BY <1>1, <1>2, <1>3, <1>4, <1>5, <1>6, <1>7, <1>8 DEF StaffNext, pvars

(* A role may do what was decided for it last: no restart and no boot that *)
(* fills in missing rows (rbac.service.ts) gives back what was taken away. *)
THEOREM DecisionsStand == StaffSpec => []DecisionsLast
  BY StaffTypes, DecisionsInit, DecisionsStep, PTL DEF StaffSpec

-----------------------------------------------------------------------------
(* What a step does to one account, one request and the tokens.            *)

(* What a request carries is what the guard and assertMayActOn let through.*)
GrantedTo(c) ==
  /\ c.pc \in {"read", "write"} /\ c.op \in {"invite", "changeRole"} =>
       c.role \in Assignable[c.rank]
  /\ c.pc = "write" /\ c.op # "invite" => MayActOn(c.rank, c.actor, c.target, c.seen)
Granted == \A q \in Call : GrantedTo(call[q])

(* A version seen in a row goes with one password, for good.               *)
GoesWith(row, by, version) ==
  /\ row.there # "not yet"
  /\ row.there = "yes" =>
       /\ version <= row.version
       /\ version = row.version => by = row.password

Sessions ==
  /\ \A t \in token : GoesWith(member[t.member], t.by, t.version)
  /\ \A q \in Call :
       call[q].pc = "sign" =>
         GoesWith(member[call[q].actor], call[q].typed, call[q].version)

LEMMA NoCallGranted == GrantedTo(NoCall)
  BY DEF GrantedTo, NoCall

LEMMA GrantedInit == StaffInit => Granted
  BY NoCallGranted DEF StaffInit, Granted

LEMMA OneCallGranted ==
  ASSUME Granted, StaffTypeOK, NEW q \in Call, NEW to, GrantedTo(to), CallIs(q, to)
  PROVE  Granted'
  BY DEF Granted, CallIs, StaffTypeOK

LEMMA StartGranted ==
  ASSUME Granted, StaffTypeOK, NEW q \in Call,
         \/ \E m \in Member : StartLogin(q, m)
         \/ \E t \in token : StartOwnPassword(q, t)
  PROVE  Granted'
  <1>1. ASSUME NEW m \in Member, StartLogin(q, m)
        PROVE  Granted'
    <2>. DEFINE to == [NoCall EXCEPT !.pc = "sign", !.actor = m,
                         !.typed = member[m].password, !.version = member[m].version]
    <2>1. to.pc = "sign"
      BY DEF NoCall
    <2>2. GrantedTo(to)
      BY <2>1 DEF GrantedTo
    <2>. QED  BY <1>1, <2>2, OneCallGranted DEF StartLogin
  <1>2. ASSUME NEW t \in token, StartOwnPassword(q, t)
        PROVE  Granted'
    <2>. DEFINE to == [NoCall EXCEPT !.pc = "compare", !.actor = t.member, !.typed = t.by,
                         !.rank = member[t.member].role]
    <2>1. to.pc = "compare"
      BY DEF NoCall
    <2>2. GrantedTo(to)
      BY <2>1 DEF GrantedTo
    <2>. QED  BY <1>2, <2>2, OneCallGranted DEF StartOwnPassword
  <1>. QED  BY <1>1, <1>2

LEMMA EnterGranted ==
  ASSUME Granted, StaffTypeOK, NEW q \in Call, NEW t \in token, NEW op \in Operation,
         Enter(q, t, op)
  PROVE  Granted'
  <1>1. PICK m \in Member, r \in Role, b \in BOOLEAN :
          /\ op \in {"invite", "changeRole"} => r \in Assignable[member[t.member].role]
          /\ CallIs(q, [NoCall EXCEPT !.pc = "read", !.op = op, !.actor = t.member,
                          !.rank = member[t.member].role, !.target = m, !.role = r,
                          !.active = b])
    BY DEF Enter
  <1>. DEFINE to == [NoCall EXCEPT !.pc = "read", !.op = op, !.actor = t.member,
                       !.rank = member[t.member].role, !.target = m, !.role = r,
                       !.active = b]
  <1>2. to.pc = "read" /\ to.op = op /\ to.rank = member[t.member].role /\ to.role = r
    BY DEF NoCall
  <1>3. GrantedTo(to)
    BY <1>1, <1>2 DEF GrantedTo
  <1>. QED  BY <1>1, <1>3, OneCallGranted

LEMMA ReadTargetGranted ==
  ASSUME Granted, StaffTypeOK, NEW q \in Call, ReadTarget(q)
  PROVE  Granted'
  <1>. DEFINE c == call[q]
              role == member[c.target].role
  <1>1. c \in CallType /\ GrantedTo(c) /\ c.pc = "read"
    BY DEF StaffTypeOK, Granted, ReadTarget
  <1>2. CASE c.op = "invite"
    <2>1. /\ CallIs(q, [c EXCEPT !.pc = "write", !.seen = c.seen])
      BY <1>2 DEF ReadTarget, CallIs
    <2>2. GrantedTo([c EXCEPT !.pc = "write", !.seen = c.seen])
      BY <1>1, <1>2 DEF GrantedTo, CallType
    <2>. QED  BY <2>1, <2>2, OneCallGranted
  <1>3. CASE c.op # "invite" /\ OnStaff(c.target) /\ MayActOn(c.rank, c.actor, c.target, role)
    <2>. DEFINE to == [c EXCEPT !.pc = "write", !.seen = role]
    <2>1. CallIs(q, to)
      BY <1>3 DEF ReadTarget, CallIs
    <2>2. /\ to.pc = "write" /\ to.op = c.op /\ to.rank = c.rank /\ to.actor = c.actor
          /\ to.target = c.target /\ to.seen = role /\ to.role = c.role
      BY <1>1 DEF CallType
    <2>3. GrantedTo(to)
      BY <1>1, <1>3, <2>2 DEF GrantedTo
    <2>. QED  BY <2>1, <2>3, OneCallGranted
  <1>4. CASE c.op # "invite" /\ ~(OnStaff(c.target) /\ MayActOn(c.rank, c.actor, c.target, role))
    BY <1>4, NoCallGranted, OneCallGranted DEF ReadTarget, CallIs
  <1>. QED  BY <1>2, <1>3, <1>4

LEMMA CompareGranted ==
  ASSUME Granted, StaffTypeOK, NEW q \in Call, Compare(q)
  PROVE  Granted'
  <1>1. GrantedTo([call[q] EXCEPT !.pc = "own"])
    BY DEF GrantedTo, StaffTypeOK, CallType
  <1>. QED  BY <1>1, NoCallGranted, OneCallGranted DEF Compare, CallIs

(* Every other action ends a request or leaves them all alone.             *)
LEMMA OthersEnd ==
  ASSUME NEW q \in Call,
         \/ \E m \in Member : Invite(q, m)
         \/ Sign(q) \/ ChangeRole(q) \/ SetActive(q) \/ ResetPassword(q)
         \/ RemoveMember(q) \/ OwnPassword(q) \/ Fails(q)
  PROVE  CallIs(q, NoCall)
  BY DEF Invite, Writes, OnTarget, Sign, ChangeRole, SetActive, ResetPassword,
         RemoveMember, OwnPassword, Fails, Ended

LEMMA GrantedStep == StaffTypeOK /\ Granted /\ [StaffNext]_pvars => Granted'
  <1>. SUFFICES ASSUME StaffTypeOK, Granted, [StaffNext]_pvars
                PROVE  Granted'
    OBVIOUS
  <1>1. CASE Boot
    BY <1>1, NoCallGranted DEF Boot, Granted
  <1>2. CASE UNCHANGED call
    BY <1>2 DEF Granted
  <1>. QED  BY <1>1, <1>2, StartGranted, EnterGranted, ReadTargetGranted, CompareGranted,
               OthersEnd, NoCallGranted, OneCallGranted
            DEF StaffNext, pvars, ForgetToken, UpdateMatrix

-----------------------------------------------------------------------------
(* Sessions and passwords.                                                 *)

(* What one step may do to an account: nothing, open it where there was    *)
(* none, end it, or keep its password and version or move both on.         *)
RowStep(m) ==
  \/ member'[m].there = member[m].there
     /\ member'[m].password = member[m].password
     /\ member'[m].version = member[m].version
  \/ member[m].there = "not yet"
  \/ member'[m].there = "no more"
  \/ member'[m].there = member[m].there
     /\ member'[m].version = member[m].version + 1

LEMMA NewPasswordRow ==
  ASSUME NEW row \in AccountType
  PROVE  /\ NewPassword(row).there = row.there
         /\ NewPassword(row).role = row.role
         /\ NewPassword(row).version = row.version + 1
  <1>. DEFINE p == row.password + 1
              v == row.version + 1
  <1>1. NewPassword(row) = [row EXCEPT !.password = p, !.version = v]
    BY DEF NewPassword
  <1>. HIDE DEF p, v
  <1>2. /\ NewPassword(row).there = row.there /\ NewPassword(row).role = row.role
        /\ NewPassword(row).version = v
    BY <1>1 DEF AccountType
  <1>. QED  BY <1>2 DEF v

LEMMA RowSteps ==
  ASSUME StaffTypeOK, [StaffNext]_pvars, NEW m \in Member
  PROVE  RowStep(m)
  <1>0. member[m] \in AccountType
    BY DEF StaffTypeOK
  <1>1. CASE UNCHANGED member
    BY <1>1 DEF RowStep
  <1>2. ASSUME NEW q \in Call, NEW x \in Member, Invite(q, x)
        PROVE  RowStep(m)
    <2>1. CASE m = x
      <3>1. member[m] = Nobody
        BY <1>2, <2>1 DEF Invite
      <3>2. member[m].there = "not yet"
        BY <3>1, NobodyTypes
      <3>. QED  BY <3>2 DEF RowStep
    <2>2. CASE m # x
      BY <1>2, <2>2 DEF Invite, RowStep, StaffTypeOK
    <2>. QED  BY <2>1, <2>2
  <1>3. ASSUME NEW q \in Call,
               ChangeRole(q) \/ SetActive(q) \/ ResetPassword(q) \/ RemoveMember(q)
        PROVE  RowStep(m)
    <2>1. PICK row \in AccountType :
            /\ member' = [member EXCEPT ![call[q].target] = row]
            /\ \/ row = [member[call[q].target] EXCEPT !.role = call[q].role]
               \/ row = [member[call[q].target] EXCEPT !.active = call[q].active]
               \/ row = NewPassword(member[call[q].target])
               \/ row = [Nobody EXCEPT !.there = "no more"]
      BY <1>3, TargetRows
    <2>2. CASE m # call[q].target
      BY <2>1, <2>2 DEF StaffTypeOK, RowStep
    <2>3. CASE m = call[q].target
      <3>1. member'[m] = row
        BY <2>1, <2>3 DEF StaffTypeOK
      <3>2. CASE row = NewPassword(member[m])
        BY <3>1, <3>2, <1>0, NewPasswordRow DEF RowStep
      <3>3. CASE row = [member[m] EXCEPT !.role = call[q].role]
        BY <3>1, <3>3, <1>0 DEF RowStep, AccountType
      <3>4. CASE row = [member[m] EXCEPT !.active = call[q].active]
        BY <3>1, <3>4, <1>0 DEF RowStep, AccountType
      <3>5. CASE row = [Nobody EXCEPT !.there = "no more"]
        BY <3>1, <3>5 DEF RowStep, Nobody
      <3>. QED  BY <2>1, <2>3, <3>2, <3>3, <3>4, <3>5
    <2>. QED  BY <2>2, <2>3
  <1>4. ASSUME NEW q \in Call, OwnPassword(q)
        PROVE  RowStep(m)
    <2>1. CASE m # call[q].actor
      BY <2>1, <1>4 DEF OwnPassword, StaffTypeOK, RowStep
    <2>2. CASE m = call[q].actor
      <3>1. member'[m] = NewPassword(member[m])
        BY <2>2, <1>4 DEF OwnPassword, StaffTypeOK
      <3>. QED  BY <3>1, <1>0, NewPasswordRow DEF RowStep
    <2>. QED  BY <2>1, <2>2
  <1>. QED  BY <1>1, <1>2, <1>3, <1>4
            DEF StaffNext, pvars, StartLogin, OnlyCall, Sign, Enter, ReadTarget, Fails,
                StartOwnPassword, Compare, ForgetToken, UpdateMatrix, Boot

LEMMA BelowTheNext ==
  ASSUME NEW v \in Nat, NEW w \in Nat, v <= w
  PROVE  v <= w + 1 /\ v # w + 1
  OBVIOUS

(* Once a version and a password belong together they do for good.         *)
LEMMA GoesWithStays ==
  ASSUME StaffTypeOK, StaffTypeOK', NEW m \in Member, RowStep(m), NEW by \in Nat,
         NEW version \in Nat, GoesWith(member[m], by, version)
  PROVE  GoesWith(member'[m], by, version)
  <1>1. /\ member[m].version \in Nat /\ member'[m].version \in Nat
        /\ member'[m].there \in {"not yet", "yes", "no more"}
        /\ member[m].there \in {"yes", "no more"}
    BY DEF StaffTypeOK, AccountType, GoesWith
  <1>2. CASE /\ member'[m].there = member[m].there
             /\ member'[m].password = member[m].password
             /\ member'[m].version = member[m].version
    BY <1>2 DEF GoesWith
  <1>3. CASE member'[m].there = "no more"
    BY <1>3 DEF GoesWith
  <1>4. CASE /\ member'[m].there = member[m].there
             /\ member'[m].version = member[m].version + 1
    <2>1. CASE member[m].there = "yes"
      <3>1. version <= member[m].version
        BY <2>1 DEF GoesWith
      <3>2. version <= member'[m].version /\ version # member'[m].version
        BY <3>1, <1>1, <1>4, BelowTheNext
      <3>. QED  BY <3>2, <1>1, <1>4 DEF GoesWith
    <2>2. CASE member[m].there # "yes"
      BY <2>2, <1>1, <1>4 DEF GoesWith
    <2>. QED  BY <2>1, <2>2
  <1>. QED  BY <1>1, <1>2, <1>3, <1>4 DEF RowStep

(* What one step may do to a request.                                      *)
LEMMA CallSteps ==
  ASSUME StaffTypeOK, [StaffNext]_pvars, NEW q \in Call
  PROVE  \/ call'[q] = call[q]
         \/ call'[q] = NoCall
         \/ \E m \in Member : StartLogin(q, m)
         \/ \E t \in token : StartOwnPassword(q, t)
         \/ \E t \in token, op \in Operation : Enter(q, t, op)
         \/ ReadTarget(q)
         \/ Compare(q)
  <1>1. ASSUME NEW x \in Call, NEW to, CallIs(x, to), x # q
        PROVE  call'[q] = call[q]
    BY <1>1 DEF CallIs, StaffTypeOK
  <1>2. ASSUME NEW x \in Call, CallIs(x, NoCall)
        PROVE  call'[q] = call[q] \/ call'[q] = NoCall
    BY <1>2 DEF CallIs, StaffTypeOK
  <1>3. ASSUME NEW x \in Call,
               \/ \E m \in Member : StartLogin(x, m)
               \/ \E t \in token : StartOwnPassword(x, t) \/ \E op \in Operation : Enter(x, t, op)
               \/ ReadTarget(x) \/ Compare(x)
        PROVE  \E to : CallIs(x, to)
    <2>1. ASSUME ReadTarget(x) \/ Compare(x)
          PROVE  \E to : CallIs(x, to)
      BY <2>1 DEF ReadTarget, Compare, CallIs
    <2>2. ASSUME NEW m \in Member, StartLogin(x, m)
          PROVE  \E to : CallIs(x, to)
      BY <2>2 DEF StartLogin
    <2>3. ASSUME NEW t \in token, StartOwnPassword(x, t)
          PROVE  \E to : CallIs(x, to)
      BY <2>3 DEF StartOwnPassword
    <2>4. ASSUME NEW t \in token, NEW op \in Operation, Enter(x, t, op)
          PROVE  \E to : CallIs(x, to)
      BY <2>4 DEF Enter
    <2>. QED  BY <1>3, <2>1, <2>2, <2>3, <2>4
  <1>4. CASE UNCHANGED call
    BY <1>4
  <1>5. CASE Boot
    BY <1>5 DEF Boot
  <1>. QED  BY <1>1, <1>2, <1>3, <1>4, <1>5, OthersEnd
            DEF StaffNext, pvars, ForgetToken, UpdateMatrix

LEMMA SessionsInit == StaffInit => Sessions
  BY DEF StaffInit, Sessions, NoCall

(* Only signing adds a session.                                            *)
LEMMA OnlySignAdds ==
  ASSUME [StaffNext]_pvars
  PROVE  token' \subseteq token \/ \E q \in Call : Sign(q)
  <1>1. ASSUME NEW q \in Call, NEW m \in Member, StartLogin(q, m) \/ Invite(q, m)
        PROVE  token' \subseteq token
    BY <1>1 DEF StartLogin, Invite, OnlyCall, Writes
  <1>2. ASSUME NEW q \in Call, NEW t \in token,
               StartOwnPassword(q, t) \/ \E op \in Operation : Enter(q, t, op)
        PROVE  token' \subseteq token
    BY <1>2 DEF StartOwnPassword, Enter, OnlyCall
  <1>3. ASSUME NEW q \in Call, ReadTarget(q) \/ Compare(q) \/ Fails(q)
        PROVE  token' \subseteq token
    BY <1>3 DEF ReadTarget, Compare, Fails, OnlyCall
  <1>4. ASSUME NEW q \in Call,
               \/ ChangeRole(q) \/ SetActive(q) \/ ResetPassword(q)
               \/ RemoveMember(q) \/ OwnPassword(q)
        PROVE  token' \subseteq token
    BY <1>4 DEF ChangeRole, SetActive, ResetPassword, RemoveMember, OwnPassword, OnTarget,
                Writes
  <1>5. ASSUME NEW t \in token,
               ForgetToken(t) \/ \E r \in MatrixRole, list \in Offered : UpdateMatrix(t, r, list)
        PROVE  token' \subseteq token
    BY <1>5 DEF ForgetToken, UpdateMatrix
  <1>6. CASE Boot \/ UNCHANGED pvars
    BY <1>6 DEF Boot, pvars
  <1>. QED  BY <1>1, <1>2, <1>3, <1>4, <1>5, <1>6 DEF StaffNext

LEMMA SessionsStep ==
  StaffTypeOK /\ StaffTypeOK' /\ Sessions /\ [StaffNext]_pvars => Sessions'
  <1>. SUFFICES ASSUME StaffTypeOK, StaffTypeOK', Sessions, [StaffNext]_pvars
                PROVE  Sessions'
    OBVIOUS
  <1>1. ASSUME NEW t \in token
        PROVE  GoesWith(member'[t.member], t.by, t.version)
    <2>1. t.member \in Member /\ t.by \in Nat /\ t.version \in Nat
      BY DEF StaffTypeOK, TokenType
    <2>2. GoesWith(member[t.member], t.by, t.version)
      BY DEF Sessions
    <2>. QED  BY <2>1, <2>2, RowSteps, GoesWithStays
  <1>2. ASSUME NEW q \in Call, call[q].pc = "sign"
        PROVE  GoesWith(member'[call[q].actor], call[q].typed, call[q].version)
    <2>1. call[q].actor \in Member /\ call[q].typed \in Nat /\ call[q].version \in Nat
      BY DEF StaffTypeOK, CallType
    <2>2. GoesWith(member[call[q].actor], call[q].typed, call[q].version)
      BY <1>2 DEF Sessions
    <2>. QED  BY <2>1, <2>2, RowSteps, GoesWithStays
  <1>3. ASSUME NEW t \in token', t \notin token
        PROVE  GoesWith(member'[t.member], t.by, t.version)
    <2>1. PICK q \in Call : Sign(q)
      BY <1>3, OnlySignAdds
    <2>2. t.member = call[q].actor /\ t.by = call[q].typed /\ t.version = call[q].version
      BY <1>3, <2>1 DEF Sign
    <2>. QED  BY <1>2, <2>1, <2>2 DEF Sign
  <1>4. ASSUME NEW q \in Call, call'[q].pc = "sign"
        PROVE  GoesWith(member'[call'[q].actor], call'[q].typed, call'[q].version)
    <2>1. CASE call'[q] = call[q]
      BY <2>1, <1>2, <1>4
    <2>2. ASSUME NEW m \in Member, StartLogin(q, m)
          PROVE  GoesWith(member'[call'[q].actor], call'[q].typed, call'[q].version)
      <3>. DEFINE to == [NoCall EXCEPT !.pc = "sign", !.actor = m,
                           !.typed = member[m].password, !.version = member[m].version]
      <3>1. to.actor = m /\ to.typed = member[m].password /\ to.version = member[m].version
        BY DEF NoCall
      <3>2. call'[q] = to /\ member' = member /\ OnStaff(m)
        BY <2>2 DEF StartLogin, CallIs, OnlyCall, StaffTypeOK
      <3>3. member[m].version \in Nat
        BY DEF StaffTypeOK, AccountType
      <3>4. member[m].version <= member[m].version
        BY <3>3
      <3>5. GoesWith(member[m], member[m].password, member[m].version)
        BY <3>2, <3>4 DEF GoesWith, OnStaff
      <3>. QED  BY <3>1, <3>2, <3>5
    <2>3. ASSUME \/ call'[q] = NoCall
                 \/ \E t \in token : StartOwnPassword(q, t)
                 \/ \E t \in token, op \in Operation : Enter(q, t, op)
                 \/ ReadTarget(q)
                 \/ Compare(q)
          PROVE  call'[q].pc # "sign"
      <3>1. NoCall.pc = "idle"
        BY DEF NoCall
      <3>2. ASSUME NEW t \in token, StartOwnPassword(q, t)
            PROVE  call'[q].pc = "compare"
        BY <3>2 DEF StartOwnPassword, CallIs, StaffTypeOK, NoCall
      <3>3. ASSUME NEW t \in token, NEW op \in Operation, Enter(q, t, op)
            PROVE  call'[q].pc = "read"
        BY <3>3 DEF Enter, CallIs, StaffTypeOK, NoCall
      <3>4. CASE ReadTarget(q)
        BY <3>1, <3>4 DEF ReadTarget, StaffTypeOK, CallType
      <3>5. CASE Compare(q)
        BY <3>1, <3>5 DEF Compare, StaffTypeOK, CallType
      <3>. QED  BY <2>3, <3>1, <3>2, <3>3, <3>4, <3>5
    <2>. QED  BY <1>4, <2>1, <2>2, <2>3, CallSteps
  <1>. QED  BY <1>1, <1>3, <1>4 DEF Sessions

LEMMA SessionsMatch == StaffTypeOK /\ Sessions => TokenMatchesPassword
  BY DEF Sessions, GoesWith, TokenMatchesPassword, Resolved, OnStaff

(* Every session the guard lets in was opened with the password in force,  *)
(* although the row is read before the password is compared and the token  *)
(* signed (auth.service.ts), and a reset may come in between.              *)
THEOREM SessionsAreOfThePassword == StaffSpec => []TokenMatchesPassword
  <1>1. StaffSpec => []Sessions
    BY StaffTypes, SessionsInit, SessionsStep, PTL DEF StaffSpec
  <1>. QED  BY <1>1, StaffTypes, SessionsMatch, PTL

-----------------------------------------------------------------------------
(* Ranks.                                                                  *)

(* What a request may write, it may by its rank or by being the owner's.   *)
LEMMA MayActMeans ==
  ASSUME NEW rank \in Role, NEW actor, NEW target, NEW role \in Role,
         MayActOn(rank, actor, target, role)
  PROVE  /\ actor = target \/ Above(rank, role)
         /\ rank = "SUPER_ADMIN" \/ role # "SUPER_ADMIN"
  BY AssignableRoles DEF MayActOn, CanManage, Above

(* A write to a target: who asked, by which rank, and what was seen.       *)
LEMMA TargetWrites ==
  ASSUME StaffTypeOK, Granted, NEW q \in Call,
         ChangeRole(q) \/ SetActive(q) \/ ResetPassword(q) \/ RemoveMember(q)
  PROVE  /\ call[q].pc = "write" /\ call[q].op # "invite" /\ call'[q].pc = "idle"
         /\ superActed' = (superActed \/ call[q].rank = "SUPER_ADMIN")
         /\ ~overlapped' => ~overlapped /\ member[call[q].target].role = call[q].seen
         /\ call[q].actor = call[q].target \/ Above(call[q].rank, call[q].seen)
         /\ call[q].rank = "SUPER_ADMIN" \/ call[q].seen # "SUPER_ADMIN"
         /\ \A m \in Member : m # call[q].target => member'[m] = member[m]
  <1>1. /\ OnTarget(q) /\ call[q].op # "invite"
        /\ \A m \in Member : m # call[q].target => member'[m] = member[m]
    BY TargetRows DEF StaffTypeOK
  <1>2. /\ call[q].pc = "write"
        /\ superActed' = (superActed \/ call[q].rank = "SUPER_ADMIN")
        /\ overlapped' = (overlapped \/ member[call[q].target].role # call[q].seen)
        /\ CallIs(q, NoCall)
    BY <1>1 DEF OnTarget, Writes, Ended
  <1>3. call'[q].pc = "idle"
    BY <1>2 DEF CallIs, StaffTypeOK, NoCall
  <1>4. MayActOn(call[q].rank, call[q].actor, call[q].target, call[q].seen)
    BY <1>1, <1>2 DEF Granted, GrantedTo
  <1>5. call[q].rank \in Role /\ call[q].seen \in Role
    BY DEF StaffTypeOK, CallType
  <1>6. /\ call[q].actor = call[q].target \/ Above(call[q].rank, call[q].seen)
        /\ call[q].rank = "SUPER_ADMIN" \/ call[q].seen # "SUPER_ADMIN"
    BY <1>4, <1>5, MayActMeans
  <1>7. ~overlapped' => ~overlapped /\ member[call[q].target].role = call[q].seen
    BY <1>2
  <1>. QED  BY <1>1, <1>2, <1>3, <1>6, <1>7

LEMMA InviteWrites ==
  ASSUME StaffTypeOK, Granted, NEW q \in Call, NEW x \in Member, Invite(q, x)
  PROVE  /\ ~OnStaff(x)
         /\ member'[x] = Account(call[q].role)
         /\ call[q].role \in Assignable[call[q].rank]
         /\ superActed' = (superActed \/ call[q].rank = "SUPER_ADMIN")
         /\ overlapped' = overlapped
         /\ \A m \in Member : m # x => member'[m] = member[m]
  <1>1. call[q].op = "invite" /\ call[q].pc = "write" /\ member[x] = Nobody
    BY DEF Invite, Writes
  <1>2. ~OnStaff(x)
    BY <1>1, NobodyTypes DEF OnStaff
  <1>3. call[q].role \in Assignable[call[q].rank]
    BY <1>1 DEF Granted, GrantedTo
  <1>. QED  BY <1>2, <1>3 DEF Invite, Writes, StaffTypeOK

LEMMA OwnWrites ==
  ASSUME StaffTypeOK, NEW q \in Call, OwnPassword(q)
  PROVE  /\ call[q].pc = "own" /\ call'[q].pc = "idle"
         /\ superActed' = (superActed \/ call[q].rank = "SUPER_ADMIN")
         /\ overlapped' = overlapped
         /\ call[q].actor \in Member
         /\ member'[call[q].actor] = NewPassword(member[call[q].actor])
         /\ \A m \in Member : m # call[q].actor => member'[m] = member[m]
  <1>1. call[q].actor \in Member
    BY DEF StaffTypeOK, CallType
  <1>2. call'[q].pc = "idle"
    BY DEF OwnPassword, Ended, CallIs, StaffTypeOK, NoCall
  <1>. QED  BY <1>1, <1>2 DEF OwnPassword, StaffTypeOK

(* Only these write accounts.                                              *)
LEMMA Writers ==
  ASSUME [StaffNext]_pvars, member' # member
  PROVE  \E q \in Call :
           \/ \E x \in Member : Invite(q, x)
           \/ ChangeRole(q) \/ SetActive(q) \/ ResetPassword(q) \/ RemoveMember(q)
           \/ OwnPassword(q)
  BY DEF StaffNext, pvars, StartLogin, OnlyCall, Sign, Enter, ReadTarget, Fails,
         StartOwnPassword, Compare, ForgetToken, UpdateMatrix, Boot

LEMMA RankStep ==
  ASSUME StaffTypeOK, Granted, [StaffNext]_pvars, NEW m \in Member, OnStaff(m),
         member'[m] # member[m]
  PROVE  \E q \in Call :
           /\ call[q].pc \in {"write", "own"} /\ call'[q].pc = "idle"
           /\ \/ call[q].actor = m
              \/ Above(call[q].rank, member[m].role)
              \/ overlapped'
  <1>1. PICK q \in Call :
           \/ \E x \in Member : Invite(q, x)
           \/ ChangeRole(q) \/ SetActive(q) \/ ResetPassword(q) \/ RemoveMember(q)
           \/ OwnPassword(q)
    BY Writers
  <1>2. ASSUME NEW x \in Member, Invite(q, x)
        PROVE  FALSE
    BY <1>2, InviteWrites
  <1>3. CASE ChangeRole(q) \/ SetActive(q) \/ ResetPassword(q) \/ RemoveMember(q)
    <2>1. m = call[q].target
      BY <1>3, TargetWrites
    <2>. QED  BY <2>1, <1>3, TargetWrites DEF StaffTypeOK
  <1>4. CASE OwnPassword(q)
    BY <1>4, OwnWrites
  <1>. QED  BY <1>1, <1>2, <1>3, <1>4

LEMMA GrantedAlways == StaffSpec => [](StaffTypeOK /\ Granted)
  BY StaffTypes, InitTypes, NextTypes, GrantedInit, GrantedStep, PTL DEF StaffSpec

(* An account changes only by its owner's doing or by somebody's of a      *)
(* higher rank than it has, unless its role was changed while the request  *)
(* was between assertMayActOn and its write (users.service.ts).            *)
THEOREM RanksShield == StaffSpec => RankShields
  <1>1. StaffTypeOK /\ Granted /\ [StaffNext]_pvars =>
          [\A m \in Member :
             OnStaff(m) /\ member'[m] # member[m] =>
               \E q \in Call :
                 /\ call[q].pc \in {"write", "own"} /\ call'[q].pc = "idle"
                 /\ \/ call[q].actor = m
                    \/ Above(call[q].rank, member[m].role)
                    \/ overlapped']_pvars
    BY RankStep
  <1>. QED  BY <1>1, GrantedAlways, PTL DEF StaffSpec, RankShields

(* The same of every write by itself, whatever overlapped before: only the *)
(* request whose own target changed its role in between is exempt.         *)
ShieldedUnlessStale ==
  [][\A m \in Member :
       OnStaff(m) /\ member'[m] # member[m] =>
         \E q \in Call :
           /\ call[q].pc \in {"write", "own"} /\ call'[q].pc = "idle"
           /\ \/ call[q].actor = m
              \/ Above(call[q].rank, member[m].role)
              \/ call[q].target = m /\ call[q].seen # member[m].role]_pvars

LEMMA ShieldStep ==
  ASSUME StaffTypeOK, Granted, [StaffNext]_pvars, NEW m \in Member, OnStaff(m),
         member'[m] # member[m]
  PROVE  \E q \in Call :
           /\ call[q].pc \in {"write", "own"} /\ call'[q].pc = "idle"
           /\ \/ call[q].actor = m
              \/ Above(call[q].rank, member[m].role)
              \/ call[q].target = m /\ call[q].seen # member[m].role
  <1>1. PICK q \in Call :
           \/ \E x \in Member : Invite(q, x)
           \/ ChangeRole(q) \/ SetActive(q) \/ ResetPassword(q) \/ RemoveMember(q)
           \/ OwnPassword(q)
    BY Writers
  <1>2. ASSUME NEW x \in Member, Invite(q, x)
        PROVE  FALSE
    BY <1>2, InviteWrites
  <1>3. CASE ChangeRole(q) \/ SetActive(q) \/ ResetPassword(q) \/ RemoveMember(q)
    <2>1. m = call[q].target
      BY <1>3, TargetWrites
    <2>. QED  BY <2>1, <1>3, TargetWrites
  <1>4. CASE OwnPassword(q)
    BY <1>4, OwnWrites
  <1>. QED  BY <1>1, <1>2, <1>3, <1>4

(* No write reaches an account of the actor's rank or above, except one    *)
(* whose target was given another role after assertMayActOn looked.        *)
THEOREM EveryWriteIsShielded == StaffSpec => ShieldedUnlessStale
  <1>1. StaffTypeOK /\ Granted /\ [StaffNext]_pvars =>
          [\A m \in Member :
             OnStaff(m) /\ member'[m] # member[m] =>
               \E q \in Call :
                 /\ call[q].pc \in {"write", "own"} /\ call'[q].pc = "idle"
                 /\ \/ call[q].actor = m
                    \/ Above(call[q].rank, member[m].role)
                    \/ call[q].target = m /\ call[q].seen # member[m].role]_pvars
    BY ShieldStep
  <1>. QED  BY <1>1, GrantedAlways, PTL DEF StaffSpec, ShieldedUnlessStale

(* While no SUPER_ADMIN has done anything, only the founder is one, and a  *)
(* password change under way in the founder's name is a SUPER_ADMIN's.     *)
FoundersOwn ==
  ~superActed /\ ~overlapped =>
    \A q \in Call : call[q].pc \in {"compare", "own"} /\ call[q].actor = Founder =>
                      call[q].rank = "SUPER_ADMIN"

LEMMA SupersInit == StaffInit => OnlySupersMakeSupers /\ FoundersOwn
  <1>. SUFFICES ASSUME StaffInit PROVE OnlySupersMakeSupers /\ FoundersOwn
    OBVIOUS
  <1>1. PICK row \in [Member \ {Founder} -> {Nobody} \cup {Account(r) : r \in Staffed}] :
          member = [m \in Member |-> IF m = Founder THEN Account("SUPER_ADMIN") ELSE row[m]]
    BY DEF StaffInit
  <1>2. member[Founder] = Account("SUPER_ADMIN")
    BY <1>1, RoleFacts
  <1>3. ASSUME NEW m \in Member \ {Founder}, OnStaff(m)
        PROVE  member[m].role # "SUPER_ADMIN"
    <2>1. member[m] = Nobody \/ \E r \in Staffed : member[m] = Account(r)
      BY <1>1
    <2>2. member[m] # Nobody
      BY <1>3, NobodyTypes DEF OnStaff
    <2>3. PICK r \in Staffed : member[m] = Account(r)
      BY <2>1, <2>2
    <2>4. Account(r).role = r
      BY DEF Account
    <2>. QED  BY <2>3, <2>4, RoleFacts
  <1>4. FoundersOwn
    BY DEF StaffInit, FoundersOwn, NoCall
  <1>. QED  BY <1>2, <1>3, <1>4 DEF OnlySupersMakeSupers

LEMMA FoundersOwnStep ==
  StaffTypeOK /\ OnlySupersMakeSupers /\ FoundersOwn /\ [StaffNext]_pvars
    /\ (superActed => superActed') /\ (overlapped => overlapped') => FoundersOwn'
  <1>. SUFFICES ASSUME StaffTypeOK, OnlySupersMakeSupers, FoundersOwn, [StaffNext]_pvars,
                       ~superActed, ~overlapped, NEW q \in Call,
                       call'[q].pc \in {"compare", "own"}, call'[q].actor = Founder
                PROVE  call'[q].rank = "SUPER_ADMIN"
    BY DEF FoundersOwn
  <1>1. member[Founder].role = "SUPER_ADMIN"
    BY DEF OnlySupersMakeSupers, Account
  <1>2. CASE call'[q] = call[q]
    BY <1>2 DEF FoundersOwn
  <1>3. CASE call'[q] = NoCall
    BY <1>3 DEF NoCall
  <1>4. ASSUME NEW m \in Member, StartLogin(q, m)
        PROVE  FALSE
    BY <1>4 DEF StartLogin, CallIs, StaffTypeOK, NoCall
  <1>5. ASSUME NEW t \in token, StartOwnPassword(q, t)
        PROVE  call'[q].rank = "SUPER_ADMIN"
    <2>. DEFINE to == [NoCall EXCEPT !.pc = "compare", !.actor = t.member, !.typed = t.by,
                         !.rank = member[t.member].role]
    <2>1. to.actor = t.member /\ to.rank = member[t.member].role
      BY DEF NoCall
    <2>2. call'[q] = to
      BY <1>5 DEF StartOwnPassword, CallIs, StaffTypeOK
    <2>. QED  BY <2>1, <2>2, <1>1
  <1>6. ASSUME NEW t \in token, NEW op \in Operation, Enter(q, t, op)
        PROVE  FALSE
    BY <1>6 DEF Enter, CallIs, StaffTypeOK, NoCall
  <1>7. CASE ReadTarget(q)
    BY <1>7 DEF ReadTarget, StaffTypeOK, CallType, NoCall
  <1>8. CASE Compare(q)
    <2>1. call'[q] = NoCall \/ call'[q] = [call[q] EXCEPT !.pc = "own"]
      BY <1>8 DEF Compare, StaffTypeOK
    <2>2. CASE call'[q] = [call[q] EXCEPT !.pc = "own"]
      <3>1. call[q].actor = call'[q].actor /\ call[q].rank = call'[q].rank
        BY <2>2 DEF StaffTypeOK, CallType
      <3>. QED  BY <3>1, <1>8 DEF Compare, FoundersOwn
    <2>. QED  BY <2>1, <2>2, <1>3
  <1>. QED  BY <1>2, <1>3, <1>4, <1>5, <1>6, <1>7, <1>8, CallSteps

LEMMA HistoriesLast ==
  ASSUME StaffTypeOK, [StaffNext]_pvars
  PROVE  (superActed => superActed') /\ (overlapped => overlapped')
  <1>1. CASE UNCHANGED <<superActed, overlapped>>
    BY <1>1
  <1>2. ASSUME NEW q \in Call, Writes(q)
        PROVE  superActed => superActed'
    BY <1>2 DEF Writes
  <1>3. ASSUME NEW q \in Call, NEW x \in Member, Invite(q, x)
        PROVE  Writes(q) /\ (overlapped => overlapped')
    BY <1>3 DEF Invite
  <1>4. ASSUME NEW q \in Call,
               ChangeRole(q) \/ SetActive(q) \/ ResetPassword(q) \/ RemoveMember(q)
        PROVE  Writes(q) /\ (overlapped => overlapped')
    BY <1>4 DEF OnTarget, ChangeRole, SetActive, ResetPassword, RemoveMember
  <1>5. ASSUME NEW q \in Call, OwnPassword(q)
        PROVE  (superActed => superActed') /\ (overlapped => overlapped')
    BY <1>5 DEF OwnPassword
  <1>6. ASSUME NEW t \in token, NEW r \in MatrixRole, NEW list \in Offered,
               UpdateMatrix(t, r, list)
        PROVE  (superActed => superActed') /\ (overlapped => overlapped')
    BY <1>6 DEF UpdateMatrix
  <1>. QED  BY <1>1, <1>2, <1>3, <1>4, <1>5, <1>6
            DEF StaffNext, pvars, StartLogin, OnlyCall, Sign, Enter, ReadTarget, Fails,
                StartOwnPassword, Compare, ForgetToken, Boot

LEMMA SupersStep ==
  StaffTypeOK /\ Granted /\ OnlySupersMakeSupers /\ FoundersOwn /\ [StaffNext]_pvars =>
    OnlySupersMakeSupers'
  <1>. SUFFICES ASSUME StaffTypeOK, Granted, OnlySupersMakeSupers, FoundersOwn,
                       [StaffNext]_pvars, ~superActed', ~overlapped'
                PROVE  /\ member'[Founder] = Account("SUPER_ADMIN")
                       /\ \A m \in Member \ {Founder} :
                            member'[m].there = "yes" => member'[m].role # "SUPER_ADMIN"
    BY DEF OnlySupersMakeSupers, OnStaff
  <1>1. /\ ~superActed /\ ~overlapped
        /\ member[Founder] = Account("SUPER_ADMIN")
        /\ \A m \in Member \ {Founder} :
             member[m].there = "yes" => member[m].role # "SUPER_ADMIN"
    BY HistoriesLast DEF OnlySupersMakeSupers, OnStaff
  <1>2. /\ member[Founder].role = "SUPER_ADMIN" /\ OnStaff(Founder) /\ Founder \in Member
    BY <1>1, RoleFacts DEF Account, OnStaff
  <1>3. CASE member' = member
    BY <1>1, <1>3
  <1>4. ASSUME NEW q \in Call, NEW x \in Member, Invite(q, x)
        PROVE  /\ member'[Founder] = member[Founder]
               /\ \A m \in Member \ {Founder} :
                    member'[m].there = "yes" => member'[m].role # "SUPER_ADMIN"
    <2>1. call[q].rank \in Role /\ call[q].rank # "SUPER_ADMIN"
      BY <1>4, InviteWrites DEF StaffTypeOK, CallType
    <2>2. call[q].role # "SUPER_ADMIN"
      BY <1>4, <2>1, InviteWrites, AssignableRoles
    <2>3. Account(call[q].role).role = call[q].role
      BY DEF Account
    <2>. QED  BY <1>1, <1>2, <1>4, <2>2, <2>3, InviteWrites
  <1>5. ASSUME NEW q \in Call,
               ChangeRole(q) \/ SetActive(q) \/ ResetPassword(q) \/ RemoveMember(q)
        PROVE  /\ member'[Founder] = member[Founder]
               /\ \A m \in Member \ {Founder} :
                    member'[m].there = "yes" => member'[m].role # "SUPER_ADMIN"
    <2>. DEFINE target == call[q].target
    <2>1. /\ call[q].rank # "SUPER_ADMIN" /\ member[target].role # "SUPER_ADMIN"
          /\ call[q].rank \in Role
      BY <1>5, TargetWrites DEF StaffTypeOK, CallType
    <2>2. target # Founder
      BY <2>1, <1>2
    <2>3. PICK row \in AccountType :
            /\ member' = [member EXCEPT ![target] = row]
            /\ \/ /\ call[q].op = "changeRole"
                  /\ row = [member[target] EXCEPT !.role = call[q].role]
               \/ row = [member[target] EXCEPT !.active = call[q].active]
               \/ row = NewPassword(member[target])
               \/ row = [Nobody EXCEPT !.there = "no more"]
      BY <1>5, TargetRows
    <2>4. target \in Member /\ member[target] \in AccountType
      BY <1>5, TargetRows
    <2>5. row.there = "yes" => row.role # "SUPER_ADMIN"
      <3>1. CASE call[q].op = "changeRole" /\ row = [member[target] EXCEPT !.role = call[q].role]
        <4>1. call[q].pc = "write"
          BY <1>5, TargetWrites
        <4>2. call[q].role \in Assignable[call[q].rank]
          BY <3>1, <4>1 DEF Granted, GrantedTo
        <4>3. row.role = call[q].role
          BY <3>1, <2>4 DEF AccountType
        <4>. QED  BY <4>2, <4>3, <2>1, AssignableRoles
      <3>2. CASE row = [member[target] EXCEPT !.active = call[q].active]
        BY <3>2, <2>1, <2>4 DEF AccountType
      <3>3. CASE row = NewPassword(member[target])
        BY <3>3, <2>1, <2>4, NewPasswordRow
      <3>4. CASE row = [Nobody EXCEPT !.there = "no more"]
        BY <3>4 DEF Nobody
      <3>. QED  BY <2>3, <3>1, <3>2, <3>3, <3>4
    <2>6. member'[target] = row
      BY <2>3, <2>4 DEF StaffTypeOK
    <2>. QED  BY <1>1, <1>2, <1>5, <2>2, <2>5, <2>6, TargetWrites
  <1>6. ASSUME NEW q \in Call, OwnPassword(q)
        PROVE  /\ member'[Founder] = member[Founder]
               /\ \A m \in Member \ {Founder} :
                    member'[m].there = "yes" => member'[m].role # "SUPER_ADMIN"
    <2>. DEFINE owner == call[q].actor
    <2>1. owner # Founder
      BY <1>1, <1>6, OwnWrites DEF FoundersOwn
    <2>2. member[owner] \in AccountType
      BY <1>6, OwnWrites DEF StaffTypeOK
    <2>3. /\ NewPassword(member[owner]).there = member[owner].there
          /\ NewPassword(member[owner]).role = member[owner].role
      BY <2>2, NewPasswordRow
    <2>. QED  BY <1>1, <1>2, <1>6, <2>1, <2>3, OwnWrites
  <1>. QED  BY <1>1, <1>3, <1>4, <1>5, <1>6, Writers

(* However the others invite, promote, suspend and remove each other, as   *)
(* long as no SUPER_ADMIN acts and no role changes under a request nobody  *)
(* becomes a SUPER_ADMIN and the first one stays as the boot made it.      *)
THEOREM SupersComeFromSupers == StaffSpec => []OnlySupersMakeSupers
  <1>1. OnlySupersMakeSupers /\ FoundersOwn /\ StaffTypeOK /\ Granted /\ [StaffNext]_pvars =>
          (OnlySupersMakeSupers /\ FoundersOwn)'
    BY HistoriesLast, FoundersOwnStep, SupersStep
  <1>. QED  BY <1>1, GrantedAlways, SupersInit, PTL DEF StaffSpec
=============================================================================
