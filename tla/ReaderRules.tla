----------------------------- MODULE ReaderRules -----------------------------
(***************************************************************************)
(* What dates decide about a reader: backend/src/reader-auth/reader-       *)
(* entitlement.ts and reader-suspension.ts, the dates billing.service.ts   *)
(* takes from a Stripe subscription, and the filters readers.service.ts    *)
(* gives the database.  Pure operators.                                    *)
(***************************************************************************)
EXTENDS Integers

NoDate == -1   \* a null date

-----------------------------------------------------------------------------
(* The plan.                                                               *)

PlanActive(plan, until, now) ==
  /\ plan # "GRATIS"
  /\ until = NoDate \/ until > now

EffectivePlan(plan, until, now) ==
  IF PlanActive(plan, until, now) THEN plan ELSE "GRATIS"

(* Mutant: a plan without an end has always lapsed.                        *)
PlanLapsedWithoutDate(plan, until, now) == plan # "GRATIS" /\ until <= now

(* The row still claims a plan whose date has passed.                      *)
PlanLapsed(plan, until, now) ==
  plan # "GRATIS" /\ until # NoDate /\ until <= now

-----------------------------------------------------------------------------
(* The suspension.                                                         *)

IsSuspended(status, until, now) ==
  status = "SUSPENSO" /\ (until = NoDate \/ until > now)

(* Mutant: off by one at the instant the suspension ends.                  *)
SuspensionLapsedAfter(status, until, now) ==
  status = "SUSPENSO" /\ until # NoDate /\ until < now

SuspensionLapsed(status, until, now) ==
  status = "SUSPENSO" /\ until # NoDate /\ until <= now

StatusAfterLapse(verified) ==
  IF verified THEN "ATIVO" ELSE "PENDENTE_VERIFICACAO"

Durations == {"DIAS_15", "DIAS_30", "PERMANENTE"}

(* The end of a suspension, with the two fixed terms as parameters.        *)
SuspensionEndsAt(duration, from, short, long) ==
  CASE duration = "DIAS_15" -> from + short
    [] duration = "DIAS_30" -> from + long
    [] OTHER -> NoDate

(* What the dialog proposes, given how many offences there were.           *)
SuggestedDuration(offences) ==
  CASE offences = 0 -> "DIAS_15"
    [] offences = 1 -> "DIAS_30"
    [] OTHER -> "PERMANENTE"

-----------------------------------------------------------------------------
(* A Stripe subscription's dates: flat is the old field, items the set of  *)
(* the items' ends, either may be missing.                                 *)

SubscriptionPeriodEnd(sub) ==
  LET ends == {d \in sub.items : d # NoDate} IN
  IF sub.flat # NoDate THEN sub.flat
  ELSE IF ends = {} THEN NoDate
  ELSE CHOOSE d \in ends : \A x \in ends : x <= d

(* Mutant: a scheduled end is ignored when the period's end is known.      *)
EntitledUntilPeriod(sub) ==
  LET end == SubscriptionPeriodEnd(sub) IN
  IF end = NoDate THEN sub.cancelAt ELSE end

EntitledUntil(sub) ==
  LET end == SubscriptionPeriodEnd(sub) IN
  IF end = NoDate THEN sub.cancelAt
  ELSE IF sub.cancelAt = NoDate THEN end
  ELSE IF sub.cancelAt < end THEN sub.cancelAt ELSE end

-----------------------------------------------------------------------------
(* The filters of the readers' list and of the dashboard.                  *)

ActivePlanWhere(row, now) ==
  row.plan = "PREMIUM" /\ (row.until = NoDate \/ row.until > now)

SuspendedNowWhere(row, now) ==
  row.status = "SUSPENSO" /\ (row.banned = NoDate \/ row.banned > now)

ExpiringWhere(row, now, horizon) ==
  /\ row.plan = "PREMIUM"
  /\ row.source = "MANUAL"
  /\ row.until > now
  /\ row.until <= now + horizon

CancelledWhere(row, now, days) ==
  row.canceledAt # NoDate /\ row.canceledAt >= now - days

CancelledInGraceWhere(row, now) ==
  /\ row.plan = "PREMIUM"
  /\ row.ending
  /\ row.canceledAt # NoDate
  /\ row.until > now
=============================================================================
