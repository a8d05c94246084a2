------------------------ MODULE MCPackagePurchases -------------------------
(***************************************************************************)
(* Small instances of PackagePurchases.  Readers, articles, sessions and   *)
(* requests of one kind are interchangeable.                               *)
(***************************************************************************)
EXTENDS PackagePurchases, TLC

CONSTANTS r1, k1, a1, a2, s1, s2, t1, t2, w1, w2, d1

InstantKinds == {"completed_paid", "expired"}
ReversalKinds == {"completed_paid", "refund_partial", "refund_total",
                  "dispute_created", "dispute_lost"}
HookKinds == {"completed_paid", "completed_unpaid", "async_succeeded"}
               \cup Refunds \cup {"dispute_created", "dispute_won"}
AdminKinds == {"completed_paid", "refund_total"}
TabKinds == {"completed_paid", "completed_free", "expired", "refund_total"}

(* Everything but the payments themselves comes without metadata.          *)
LaterKinds == {"expired"} \cup Refunds \cup Disputes

RequestSymmetry == Permutations(Tab) \cup Permutations(Worker)
                     \cup Permutations(Session)
=============================================================================
