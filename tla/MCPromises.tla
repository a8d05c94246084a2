------------------------------ MODULE MCPromises ------------------------------
(***************************************************************************)
(* Small instances of what the jobs promise, side by side: a run is of one *)
(* part, and the others stay where they began.                             *)
(***************************************************************************)
EXTENDS SocialOutbox, ReaderDigests, MediaLibrary, TLC

CONSTANTS a1, a2, fb, t1, t2, politica, d1, d2, w1, w2

NotA2 == [a \in Article |-> IF a = a2 THEN {} ELSE Network]
FiledFlat == <<politica>>

VARIABLE part

promisesVars == <<vars, dvars, mvars, part>>

PromisesInit ==
  part \in {"outbox", "digests", "media"} /\ Init /\ DigestInit /\ MediaInit

Outbox(A) == part = "outbox" /\ A /\ UNCHANGED <<dvars, mvars, part>>
Digests(A) == part = "digests" /\ A /\ UNCHANGED <<vars, mvars, part>>
Media(A) == part = "media" /\ A /\ UNCHANGED <<vars, dvars, part>>

PromisesNext == Outbox(Next) \/ Digests(DigestNext) \/ Media(MediaNext)

(* Fairness, DigestFairness and MediaFairness: a behaviour is of one part  *)
(* for good, so that strong fairness of one part's action and another's    *)
(* may be asked for as one condition, which TLC checks in less time.       *)
PromisesFairness ==
  \A c \in Cadence, r \in Follower, f \in File :
    /\ Running /\ Ticking /\ Working
    /\ SF_promisesVars(Outbox(SomeDue) \/ Digests(SomeRound(c)) \/ Media(SomeFind(f)))
    /\ SF_promisesVars(Outbox(SomeRipe) \/ Digests(SomeMail(r)) \/ Media(SomeCopy(f)))
    /\ SF_promisesVars(Digests(SomeRecord) \/ Media(SomeFlag(f)))
    /\ SF_promisesVars(Media(SomeSweep))

PromisesSpec == PromisesInit /\ [][PromisesNext]_promisesVars /\ PromisesFairness
=============================================================================
