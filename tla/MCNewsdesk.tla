------------------------------ MODULE MCNewsdesk ------------------------------
(***************************************************************************)
(* Small instances of the newsroom's rules and of its editor's autosave,   *)
(* side by side: a run is of one part, and the other stays where it began. *)
(***************************************************************************)
EXTENDS Newsroom, ArticleEditor

CONSTANTS chief, author, deskTab, t1, t2
People == {chief, author}
Chiefs == {chief}
Tabs == {deskTab}

VARIABLE part

deskVars == <<nvars, evars, part>>

DeskInit ==
  /\ part \in {"newsroom", "editor"}
  /\ NewsInit /\ EditorInit
  /\ part = "editor" \/ typed = 0

News(A) == part = "newsroom" /\ A /\ UNCHANGED <<evars, part>>
Editor(A) == part = "editor" /\ A /\ UNCHANGED <<nvars, part>>

DeskNext == News(NewsNext) \/ Editor(EditorNext)

(* NewsFairness and EditorFairness: a behaviour is of one part for good,   *)
(* so that weak fairness of one part's action and another's may be asked   *)
(* for as one condition, which TLC checks in less time.                    *)
DeskFairness ==
  /\ \A a \in Article :
       SF_deskVars(News(\E t \in Round, d \in Slot : PublishDue(t, a, d)))
  /\ WF_deskVars(News(ReadDue(t1)) \/ Editor(Autosave(deskTab)))
  /\ WF_deskVars(News(ReadDue(t2)) \/ Editor(Button(deskTab)))
  /\ \A x \in Clocks : WF_deskVars(Editor(Fired(deskTab, x)))

DeskSpec == DeskInit /\ [][DeskNext]_deskVars /\ DeskFairness
=============================================================================
