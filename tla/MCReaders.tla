------------------------------ MODULE MCReaders ------------------------------
(***************************************************************************)
(* Small instances of what concerns a reader, side by side: a run is of    *)
(* one part, and the others stay where they began.                         *)
(***************************************************************************)
EXTENDS Subscriptions, ReaderAccounts, ReaderDigests, TLC

CONSTANTS r1, s1, s2, w1, t1, h1, p1, p2, l1, l2, q1, q2,
          politica, parlamento

FiledDeep == <<parlamento, politica>>
ReadersSymmetry ==
  Permutations(Password) \cup Permutations(Link) \cup Permutations(Request)

VARIABLE part

Parts == {"subscriptions", "accounts", "digests"}
Everyone == [r \in Follower |-> [cadence |-> CHOOSE c \in Cadence : TRUE,
                                 cats |-> [c \in Category |-> "on"]]]

Init ==
  /\ part \in Parts
  /\ SubsInit /\ AcctInit /\ DigestInit
  /\ part = "digests" \/ wishes = Everyone

Next ==
  /\ UNCHANGED part
  /\ \/ part = "subscriptions" /\ SubsNext /\ UNCHANGED <<avars, dvars>>
     \/ part = "accounts" /\ AcctNext /\ UNCHANGED <<svars, dvars>>
     \/ part = "digests" /\ DigestNext /\ UNCHANGED <<svars, avars>>

Spec == Init /\ [][Next]_<<svars, avars, dvars, part>>
=============================================================================
