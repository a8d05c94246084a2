---------------------------- MODULE CategoryTree ----------------------------
(***************************************************************************)
(* The sections of the newspaper: backend/src/categories, with the follows *)
(* of backend/src/reader-library that hang on them.                        *)
(*                                                                         *)
(* A category keeps its parent and, computed from it once, its depth and   *)
(* its path from the root.  A move rewrites the paths of the whole subtree *)
(* in one transaction, from a row it read before the transaction began; a  *)
(* new category takes its path from a parent read the same way.            *)
(***************************************************************************)
EXTENDS Integers, Sequences, SequencesExt

CONSTANTS
  Cat,        \* bound: the categories there can be
  Top,        \* no parent
  MAX_DEPTH,  \* the depth of the deepest category allowed; a root has 0
  Editor      \* bound: the requests of editors under way at a time

ASSUME TreeAssumption == Top \notin Cat /\ MAX_DEPTH \in Nat

VARIABLES
  node,      \* the rows of Category
  follows,   \* a reader's rows of CategoryFavorite
  edit,      \* the requests under way
  collided   \* history: a request wrote after another changed what it had read

tvars == <<node, follows, edit, collided>>

NoCat == [there |-> "not yet", parent |-> Top, path |-> <<>>, depth |-> 0]
NoEdit == [pc |-> "idle", id |-> Top, to |-> Top, read |-> NoCat, base |-> NoCat,
           fresh |-> TRUE]

CatThere == {c \in Cat : node[c].there = "yes"}
Children(c) == {d \in CatThere : node[d].parent = c}
Within(path) == {d \in CatThere : IsPrefix(path, node[d].path)}

TreeInit ==
  /\ node = [c \in Cat |-> NoCat]
  /\ follows = {}
  /\ edit = [e \in Editor |-> NoEdit]
  /\ collided = FALSE

Step(e, pc) == [edit EXCEPT ![e].pc = pc]
(* (Mutant: the request is not forgotten.)                                 *)
TreeLeftDone(e) == Step(e, "done")
Stop(e) == [edit EXCEPT ![e] = NoEdit]
(* The tree changes: what the others have read is no longer so.            *)
Change(e) ==
  [f \in Editor |-> IF f = e THEN NoEdit
                    ELSE [edit[f] EXCEPT !.fresh = @ /\ edit[f].pc = "idle"]]
RefuseCat(e) == edit' = Stop(e) /\ UNCHANGED <<node, follows, collided>>

-----------------------------------------------------------------------------
(* create and addSubtopic: the parent is read, then the row is written.    *)

StartCreateCat(e, c, p) ==
  /\ edit[e].pc = "idle"
  /\ node[c].there = "not yet" /\ \A f \in Editor : edit[f].id # c
  /\ p # Top => p \in CatThere /\ node[p].depth + 1 <= MAX_DEPTH
  /\ edit' = [edit EXCEPT ![e] = [NoEdit EXCEPT !.pc = "insert", !.id = c, !.to = p,
                                    !.base = IF p = Top THEN NoCat ELSE node[p]]]
  /\ UNCHANGED <<node, follows, collided>>

Placed(id, to, base) ==
  [there |-> "yes", parent |-> to, path |-> Append(base.path, id),
   depth |-> IF to = Top THEN 0 ELSE base.depth + 1]

ParentThere(e) == edit[e].to = Top \/ edit[e].to \in CatThere

InsertCat(e) ==
  /\ edit[e].pc = "insert" /\ ParentThere(e)
  /\ node' = [node EXCEPT ![edit[e].id] = Placed(edit[e].id, edit[e].to, edit[e].base)]
  /\ edit' = Change(e)
  /\ collided' = (collided \/ ~edit[e].fresh)
  /\ UNCHANGED follows

-----------------------------------------------------------------------------
(* update and reorder: the node is read; then, in the transaction, the new *)
(* parent, the height of the subtree, and the rewriting.                   *)

StartMove(e, c, p) ==
  /\ edit[e].pc = "idle"
  /\ c \in CatThere
  /\ node[c].parent # p
  /\ edit' = [edit EXCEPT ![e] = [NoEdit EXCEPT !.pc = "parent", !.id = c, !.to = p,
                                                !.read = node[c]]]
  /\ UNCHANGED <<node, follows, collided>>

InOwnSubtree(read, base) == IsPrefix(read.path, base.path)

ReadParent(e) ==
  /\ edit[e].pc = "parent"
  /\ LET p == edit[e].to IN
     /\ p # Top => p \in CatThere /\ ~InOwnSubtree(edit[e].read, node[p])
     /\ edit' = [edit EXCEPT ![e].pc = "measure",
                             ![e].base = IF p = Top THEN NoCat ELSE node[p]]
  /\ UNCHANGED <<node, follows, collided>>

RefuseParent(e) ==
  /\ edit[e].pc = "parent" /\ edit[e].to # Top
  /\ edit[e].to \notin CatThere \/ InOwnSubtree(edit[e].read, node[edit[e].to])
  /\ RefuseCat(e)

NewDepth(e) == IF edit[e].to = Top THEN 0 ELSE edit[e].base.depth + 1

(* The subtree travels with the node.  (Mutant: the node alone must fit.)  *)
NodeFits(e) == NewDepth(e) <= MAX_DEPTH
Fits(e) ==
  LET read == edit[e].read IN
  /\ NewDepth(e) <= MAX_DEPTH
  /\ \A d \in Within(read.path) : NewDepth(e) + (node[d].depth - read.depth) <= MAX_DEPTH

Measure(e) ==
  /\ edit[e].pc = "measure"
  /\ edit' = IF Fits(e) THEN Step(e, "move") ELSE Stop(e)
  /\ UNCHANGED <<node, follows, collided>>

(* The prefix that was read gives way to the new one.  (Mutant: the depths *)
(* of the subtree stay.)                                                   *)
RewrittenPath(row, e) ==
  [row EXCEPT !.path = Append(edit[e].base.path, edit[e].id)
                         \o SubSeq(row.path, Len(edit[e].read.path) + 1, Len(row.path))]
Rewritten(row, e) ==
  [row EXCEPT
     !.path = Append(edit[e].base.path, edit[e].id)
                \o SubSeq(row.path, Len(edit[e].read.path) + 1, Len(row.path)),
     !.depth = row.depth + (NewDepth(e) - edit[e].read.depth)]

Move(e) ==
  /\ edit[e].pc = "move"
  /\ edit[e].id \in CatThere /\ ParentThere(e)
  /\ node' = [d \in Cat |->
       IF d = edit[e].id THEN Placed(d, edit[e].to, edit[e].base)
       ELSE IF d \in Within(edit[e].read.path) THEN Rewritten(node[d], e)
       ELSE node[d]]
  /\ edit' = Change(e)
  /\ collided' = (collided \/ ~edit[e].fresh)
  /\ UNCHANGED follows

(* The database refuses: a row is gone that was there when it was read.    *)
RefuseWrite(e) ==
  /\ edit[e].pc \in {"insert", "move"}
  /\ ~ParentThere(e) \/ (edit[e].pc = "move" /\ edit[e].id \notin CatThere)
  /\ RefuseCat(e)

-----------------------------------------------------------------------------
(* remove and removeSubtopic: what hangs on it is counted as a courtesy,   *)
(* the foreign keys decide.  Follows go with the category.  (An article's  *)
(* key only stops a removal: such removals are left out.)                  *)

(* Mutant: the children go unasked.                                        *)
RemovableAlone(c) == TRUE
Removable(c) == Children(c) = {}

RemoveCat(c) ==
  /\ c \in CatThere /\ Removable(c)
  /\ node' = [node EXCEPT ![c] = [NoCat EXCEPT !.there = "no more"]]
  /\ follows' = follows \ {c}
  /\ edit' = Change(Top)
  /\ UNCHANGED collided

(* What is asked of a category is done to the topmost above it.            *)
RootOf(c) == IF c \in CatThere THEN Head(node[c].path) ELSE c

FollowCat(c) ==
  /\ follows = {}                               \* bound: one follow
  /\ c \in CatThere /\ RootOf(c) \in CatThere
  /\ follows' = follows \cup {RootOf(c)}
  /\ UNCHANGED <<node, edit, collided>>

UnfollowCat(c) ==
  /\ c \in follows
  /\ follows' = follows \ {RootOf(c)}
  /\ UNCHANGED <<node, edit, collided>>

TreeNext ==
  \/ \E e \in Editor :
       \/ \E c \in Cat, p \in CatThere \cup {Top} : StartCreateCat(e, c, p) \/ StartMove(e, c, p)
       \/ InsertCat(e) \/ ReadParent(e) \/ RefuseParent(e) \/ Measure(e) \/ Move(e)
       \/ RefuseWrite(e)
  \/ \E c \in Cat : RemoveCat(c) \/ FollowCat(c) \/ UnfollowCat(c)

TreeSpec == TreeInit /\ [][TreeNext]_tvars

-----------------------------------------------------------------------------
RowType == [there : {"not yet", "yes", "no more"}, parent : Cat \cup {Top}, path : Seq(Cat), depth : Int]

(* The types.                                                              *)
TreeTypeOK ==
  /\ node \in [Cat -> RowType]
  /\ follows \subseteq Cat
  /\ edit \in [Editor -> [pc : {"idle", "insert", "parent", "measure", "move"},
                          id : Cat \cup {Top}, to : Cat \cup {Top},
                          read : RowType, base : RowType, fresh : BOOLEAN]]
  /\ collided \in BOOLEAN

(* As long as no two editors' requests overlap, every path leads from a    *)
(* root, parent by parent, to the category, no deeper than is allowed; so  *)
(* no category is its own ancestor.                                        *)
TreeIsSound ==
  ~collided =>
    \A c \in CatThere :
      /\ node[c].depth <= MAX_DEPTH
      /\ IF node[c].parent = Top THEN node[c].path = <<c>>
         ELSE /\ node[c].parent \in CatThere
              /\ node[c].path = Append(node[node[c].parent].path, c)

(* However requests overlap, a category's depth is the length of its path, *)
(* which ends in the category itself.                                      *)
DepthIsItsPath ==
  \A c \in CatThere : Len(node[c].path) = node[c].depth + 1 /\ Last(node[c].path) = c

(* However requests overlap, nothing is left hanging: a parent, and the    *)
(* category of a follow, is there.                                         *)
NothingHangs ==
  /\ \A c \in CatThere : node[c].parent # Top => node[c].parent \in CatThere
  /\ follows \subseteq CatThere

(* Claim: what a reader follows, the buttons reach: they act on the        *)
(* topmost category above the one they are shown for.                      *)
FollowsCanBeStopped == \A c \in follows : RootOf(c) = c

(* Claim: no category comes to lie inside itself.                          *)
NoCategoryInsideItself ==
  \A c, d \in CatThere : node[c].parent = d => node[d].parent # c
=============================================================================
