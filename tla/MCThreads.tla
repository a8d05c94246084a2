------------------------------ MODULE MCThreads ------------------------------
(***************************************************************************)
(* Small instances of the category tree and of an article's comments, side *)
(* by side: a run is of one part, and the other stays where it began.      *)
(* What is interchangeable is so in both.                                  *)
(***************************************************************************)
EXTENDS CategoryTree, Comments, TLC

CONSTANTS k1, k2, k3, x1, x2, ra

Two == {x1, x2}
Three == {k1, k2, k3}
ThreadsSymmetry == Permutations(Two) \cup Permutations(Three)

VARIABLE part

threadsVars == <<tvars, cvars, part>>

ThreadsInit == part \in {"tree", "comments"} /\ TreeInit /\ CommentsInit

ThreadsNext ==
  /\ UNCHANGED part
  /\ \/ part = "tree" /\ TreeNext /\ UNCHANGED cvars
     \/ part = "comments" /\ CommentsNext /\ UNCHANGED tvars

ThreadsSpec == ThreadsInit /\ [][ThreadsNext]_threadsVars
=============================================================================
