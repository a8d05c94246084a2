------------------------ MODULE PackageEntitlement -------------------------
(***************************************************************************)
(* What a purchase of a pacote promises, without Stripe, webhooks or       *)
(* requests: a purchase is opened, it either lapses or is held, what it    *)
(* holds is decided once and for all at that moment, and it is given up    *)
(* whole or not at all.  The only other thing that can shrink it is an     *)
(* article ceasing to exist.  PackagePurchases implements this.            *)
(***************************************************************************)
CONSTANTS Purchase, Article

VARIABLES stage,     \* where each purchase is in its life
          held       \* the articles each purchase lets its reader read

vars == <<stage, held>>

Stages == {"none", "open", "held", "over"}

Init ==
  /\ stage = [p \in Purchase |-> "none"]
  /\ held = [p \in Purchase |-> {}]

(* The reader starts a checkout: nothing is promised yet.                  *)
Begin(p) ==
  /\ stage[p] = "none"
  /\ stage' = [stage EXCEPT ![p] = "open"]
  /\ UNCHANGED held

(* Payment landed, or somebody gave the pacote away.                       *)
Grant(p, S) ==
  /\ stage[p] \in {"none", "open"}
  /\ stage' = [stage EXCEPT ![p] = "held"]
  /\ held' = [held EXCEPT ![p] = S]

(* The checkout was walked away from.                                      *)
Abandon(p) ==
  /\ stage[p] = "open"
  /\ stage' = [stage EXCEPT ![p] = "over"]
  /\ UNCHANGED held

(* Refund, lost dispute or a person's decision: everything goes back.      *)
TakeBack(p) ==
  /\ stage[p] = "held"
  /\ stage' = [stage EXCEPT ![p] = "over"]
  /\ held' = [held EXCEPT ![p] = {}]

(* An article is deleted from the site, for everybody.                     *)
Erase(a) ==
  /\ held' = [p \in Purchase |-> held[p] \ {a}]
  /\ UNCHANGED stage

Next ==
  \/ \E p \in Purchase : Begin(p) \/ Abandon(p) \/ TakeBack(p)
  \/ \E p \in Purchase, S \in SUBSET Article : Grant(p, S)
  \/ \E a \in Article : Erase(a)

Spec == Init /\ [][Next]_vars

(* Nothing is readable outside the time a purchase is held.                *)
NothingOutsideHeld == \A p \in Purchase : stage[p] # "held" => held[p] = {}
=============================================================================
