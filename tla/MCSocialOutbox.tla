--------------------------- MODULE MCSocialOutbox ---------------------------
(***************************************************************************)
(* Small instances of SocialOutbox.  Ticks are interchangeable.            *)
(***************************************************************************)
EXTENDS SocialOutbox, TLC

CONSTANTS a1, a2, fb, ig, t1, t2

(* Every network takes every article.                                      *)
Everywhere == [a \in Article |-> Network]

(* a2 has no cover Instagram could show, and Facebook is switched off.     *)
NotA2 == [a \in Article |-> IF a = a2 THEN {} ELSE Network]

TickSymmetry == Permutations(Tick)
=============================================================================
