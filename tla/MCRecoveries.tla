----------------------------- MODULE MCRecoveries -----------------------------
(***************************************************************************)
(* Small instances of what ends well after a failure, side by side: a      *)
(* payment whose delivery died, and a login that was locked.  A run is of  *)
(* one part, and the other stays where it began.                           *)
(***************************************************************************)
EXTENDS PackagePurchases, LoginLock

CONSTANTS s1, x1, x2

Two == {x1, x2}

LiveKinds == {"completed_paid", "completed_free", "expired", "refund_total"}

VARIABLE part

recoveriesVars == <<vars, lvars, part>>

RecoveriesInit ==
  /\ part \in {"purchases", "lock"}
  /\ Init /\ LockInit
  /\ part = "purchases" \/ onSale = {}

Purchases(A) == part = "purchases" /\ A /\ UNCHANGED <<lvars, part>>
Lock(A) == part = "lock" /\ A /\ UNCHANGED <<vars, part>>

(* Of the newsroom's changes only the deletion, which alone can make a     *)
(* payment fail for good; the run purchases_admin has the others.          *)
Deletion == \E a \in Article : DeleteArticle(a)

RecoveriesNext ==
  \/ Purchases(TabNext \/ StripeNext \/ HookNext \/ Deletion \/ Die)
  \/ Purchases(\E p \in PurchaseId : Age(p))
  \/ Lock(LockNext)

(* Fairness and LockFairness: a behaviour is of one part for good, so that *)
(* weak fairness of one part's action and another's may be asked for as    *)
(* one condition, which TLC checks in less time.                           *)
RecoveriesFairness ==
  /\ \A x \in Worker : WF_recoveriesVars(Purchases(HookStep(x)) \/ Lock(Proceeds(x)))
  /\ WF_recoveriesVars(Lock(LockTick))
  /\ \A k \in Kinds, s \in Session :
       SF_recoveriesVars(Purchases(\E w \in Worker : Deliver(w, Ev(k, s))))

RecoveriesSpec ==
  RecoveriesInit /\ [][RecoveriesNext]_recoveriesVars /\ RecoveriesFairness
=============================================================================
