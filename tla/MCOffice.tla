------------------------------- MODULE MCOffice -------------------------------
(***************************************************************************)
(* Small instances of the media library and the staff's accounts, side by  *)
(* side: a run is of one part, and the other stays where it began.         *)
(***************************************************************************)
EXTENDS MediaLibrary, StaffAccess, TLC

CONSTANTS root, m1, m2, x1, x2, f1, article, slot, pacote

Two == {x1, x2}
Everybody == {root, m1, m2}
Lists == {{"invite", "resetPassword"}}
OfficeSymmetry == Permutations(Two) \cup Permutations({m1, m2})

VARIABLE part

officeVars == <<mvars, pvars, part>>

OfficeInit ==
  /\ part \in {"media", "staff"}
  /\ MediaInit /\ StaffInit
  /\ part = "staff" \/ \A m \in Member \ {Founder} : ~OnStaff(m)

OfficeNext ==
  /\ UNCHANGED part
  /\ \/ part = "media" /\ MediaNext /\ UNCHANGED pvars
     \/ part = "staff" /\ StaffNext /\ UNCHANGED mvars

OfficeSpec == OfficeInit /\ [][OfficeNext]_officeVars
=============================================================================
