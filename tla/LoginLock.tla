----------------------------- MODULE LoginLock -----------------------------
(***************************************************************************)
(* The lock on one e-mail's staff login: a counter in Redis that failures  *)
(* raise and a right password removes, and which the first failure makes   *)
(* expire.  Backend/src/auth: login-attempts.service and login().          *)
(*                                                                         *)
(* Every call to Redis or the database is a step of its own: it may fail,  *)
(* and the process may stop between two of them.                           *)
(***************************************************************************)
EXTENDS Integers, FiniteSets

CONSTANTS
  Attempt,      \* bound: logins under way at a time
  LowestLimit,  \* MIN_LOGIN_ATTEMPTS, scaled down
  UsualLimit,   \* DEFAULT_MAX_ATTEMPTS, scaled down
  HighestLimit, \* MAX_LOGIN_ATTEMPTS, scaled down
  Window,       \* LOCK_WINDOW_SECONDS, in the model's ticks
  CacheTime,    \* SETTING_CACHE_MS, in ticks
  MaxOutages    \* bound: failed calls and stopped processes

ASSUME LoginLockAssumption ==
  /\ LowestLimit \in Nat \ {0} /\ UsualLimit \in Nat /\ HighestLimit \in Nat
  /\ LowestLimit <= UsualLimit /\ UsualLimit <= HighestLimit
  /\ Window \in Nat \ {0} /\ CacheTime \in Nat /\ MaxOutages \in Nat
  /\ IsFiniteSet(Attempt)

VARIABLES
  failures, \* the value of login-fail:<e-mail>; 0 where there is no key
  expiry,   \* the ticks the key has left; 0 for a key that does not expire
  setting,  \* seguranca.maxLoginAttempts as stored; 0 while it was never saved
  cachedMax,\* the limit this process remembers, and for how many ticks more
  attempt,  \* the logins under way
  wrong,    \* history: wrong passwords compared since the key last went away
  stranded, \* history: a fault came between the counter and its expiry
  outages   \* bound: the outages so far

lvars == <<failures, expiry, setting, cachedMax, attempt, wrong, stranded, outages>>

Limits == LowestLimit..HighestLimit
Resting == [pc |-> "idle", read |-> 0]
LockInit ==
  /\ failures = 0 /\ expiry = 0 /\ setting = 0
  /\ cachedMax = [value |-> UsualLimit, left |-> 0]
  /\ attempt = [q \in Attempt |-> Resting]
  /\ wrong = 0 /\ stranded = FALSE /\ outages = 0

InForceLimit == IF setting \in Limits THEN setting ELSE UsualLimit
KeyGone ==
  /\ failures' = 0 /\ expiry' = 0 /\ wrong' = 0 /\ stranded' = FALSE

At(q, pc) == attempt[q].pc = pc
Goes(q, pc) == attempt' = [attempt EXCEPT ![q].pc = pc]
Leaves(q) == attempt' = [attempt EXCEPT ![q] = Resting]

-----------------------------------------------------------------------------
(* isLocked: the counter is read first, the limit after it.                *)

ReadFailures(q) ==
  /\ At(q, "idle")
  /\ attempt' = [attempt EXCEPT ![q] = [pc |-> "limit", read |-> failures]]
  /\ UNCHANGED <<failures, expiry, setting, cachedMax, wrong, stranded, outages>>

(* Mutant: one attempt too many.                                           *)
LockedPast(read, limit) == read > limit
LockedAt(read, limit) == read >= limit

ReadLimit(q) ==
  LET fresh == cachedMax.left > 0
      limit == IF fresh THEN cachedMax.value ELSE InForceLimit IN
  /\ At(q, "limit")
  /\ cachedMax' = IF fresh THEN cachedMax ELSE [value |-> limit, left |-> CacheTime]
  /\ IF LockedAt(attempt[q].read, limit)
     THEN Leaves(q)
     ELSE attempt' = [attempt EXCEPT ![q] = [pc |-> "compare", read |-> 0]]
  /\ UNCHANGED <<failures, expiry, setting, wrong, stranded, outages>>

(* login: the account and its password, right or wrong.                    *)
WrongPassword(q) ==
  /\ At(q, "compare")
  /\ wrong' = wrong + 1
  /\ Goes(q, "count")
  /\ UNCHANGED <<failures, expiry, setting, cachedMax, stranded, outages>>

RightPassword(q) ==
  /\ At(q, "compare")
  /\ Goes(q, "forget")
  /\ UNCHANGED <<failures, expiry, setting, cachedMax, wrong, stranded, outages>>

(* recordFailure.  (Mutant: the counter as it was before the increment.)   *)
FirstBefore(n) == n = 0
First(n) == n = 1

CountFailure(q) ==
  /\ At(q, "count")
  /\ failures' = failures + 1
  /\ IF First(failures') THEN Goes(q, "expire") ELSE Leaves(q)
  /\ UNCHANGED <<expiry, setting, cachedMax, wrong, stranded, outages>>

SetExpiry(q) ==
  /\ At(q, "expire")
  /\ expiry' = IF failures > 0 THEN Window ELSE 0
  /\ Leaves(q)
  /\ UNCHANGED <<failures, setting, cachedMax, wrong, stranded, outages>>

(* reset.                                                                  *)
Forget(q) ==
  /\ At(q, "forget")
  /\ KeyGone
  /\ Leaves(q)
  /\ UNCHANGED <<setting, cachedMax, outages>>

-----------------------------------------------------------------------------
(* Time, the setting, and outages.                                        *)

LockTick ==
  /\ IF expiry = 1 THEN KeyGone
     ELSE /\ expiry' = IF expiry > 0 THEN expiry - 1 ELSE 0
          /\ UNCHANGED <<failures, wrong, stranded>>
  /\ cachedMax' = IF cachedMax.left > 0 THEN [cachedMax EXCEPT !.left = @ - 1] ELSE cachedMax
  /\ UNCHANGED <<setting, attempt, outages>>

(* Settings > Seguranca.  (Mutant: any number is stored.)                  *)
StorableAny(n) == n \in Nat
Storable(n) == n \in Limits

PutSetting(n) ==
  /\ Storable(n)
  /\ setting' = n
  /\ UNCHANGED <<failures, expiry, cachedMax, attempt, wrong, stranded, outages>>

Faulty == outages < MaxOutages /\ outages' = outages + 1

(* A call that fails lets the login go on as if nothing was locked, and    *)
(* counts nothing.                                                         *)
CallFails(q) ==
  /\ attempt[q].pc \in {"limit", "count", "expire", "forget"}
  /\ Faulty
  /\ IF At(q, "limit") THEN Goes(q, "compare") ELSE Leaves(q)
  /\ stranded' = (stranded \/ (At(q, "expire") /\ failures > 0))
  /\ UNCHANGED <<failures, expiry, setting, cachedMax, wrong>>

LockRestart ==
  /\ Faulty
  /\ stranded' = (stranded \/ (failures > 0 /\ \E q \in Attempt : At(q, "expire")))
  /\ attempt' = [q \in Attempt |-> Resting]
  /\ cachedMax' = [value |-> UsualLimit, left |-> 0]
  /\ UNCHANGED <<failures, expiry, setting, wrong>>

-----------------------------------------------------------------------------
Proceeds(q) ==
  ReadLimit(q) \/ WrongPassword(q) \/ RightPassword(q) \/ CountFailure(q)
    \/ SetExpiry(q) \/ Forget(q)

LockNext ==
  \/ \E q \in Attempt : ReadFailures(q) \/ Proceeds(q) \/ CallFails(q)
  \/ LockTick
  \/ \E n \in 0..(HighestLimit + 1) : PutSetting(n)
  \/ LockRestart

(* Time passes, and a login that was begun is answered.                    *)
LockFairness == WF_lvars(LockTick) /\ \A q \in Attempt : WF_lvars(Proceeds(q))
LockSpec == LockInit /\ [][LockNext]_lvars
LockFairSpec == LockSpec /\ LockFairness

-----------------------------------------------------------------------------
(* The types: a limit outside the accepted range is never stored.          *)
LockTypeOK ==
  /\ failures \in Nat /\ wrong \in Nat
  /\ expiry \in 0..Window
  /\ setting \in {0} \cup Limits
  /\ cachedMax \in [value : Limits, left : 0..CacheTime]
  /\ attempt \in [Attempt -> [pc : {"idle", "limit", "compare", "count", "expire", "forget"},
                              read : Nat]]
  /\ stranded \in BOOLEAN
  /\ outages \in 0..MaxOutages

(* Without outages, a window sees at most the highest limit of wrong        *)
(* passwords, and those of logins that were let in together.               *)
GuessesAreBounded ==
  outages = 0 => wrong <= HighestLimit - 1 + Cardinality(Attempt)

(* A lock comes to an end, whatever its e-mail's visitors go on doing;     *)
(* except where a fault kept the counter from being given its expiry.      *)
Locked == failures >= InForceLimit
LockEnds == Locked ~> (~Locked \/ stranded)

(* As documented: the login of that e-mail is refused for 15 minutes.      *)
LockEndsAlways == Locked ~> ~Locked
=============================================================================
