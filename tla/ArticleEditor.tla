--------------------------- MODULE ArticleEditor ---------------------------
(***************************************************************************)
(* The newsroom's article editor: frontend/src/app/admin/artigos           *)
(* (useAutosave.ts, AdminArticlesClient.tsx, actions.ts) against the       *)
(* columns of an article that it reads and writes through backend/src/     *)
(* articles/articles.service.ts.                                           *)
(*                                                                         *)
(* A page is one browser tab of one member of staff; it sends its server   *)
(* actions one at a time, as Next.js does.  Of a form only the text is     *)
(* kept, as the number of the version somebody typed; 0 is the blank form; *)
(* and of its "Estado" whether it says Publicado.                          *)
(* Whoever opens an article may edit it.  Scheduling is in Newsroom.       *)
(***************************************************************************)
EXTENDS Integers

CONSTANTS
  Page,       \* the tabs
  Publisher,  \* those of somebody with artigos.publicar
  Piece,      \* bound: the articles there can be
  MaxText,    \* bound: the changes made to forms
  MaxLosses   \* bound: requests refused, or lost on the way there or back

ASSUME EditorAssumption ==
  Publisher \subseteq Page /\ MaxText \in Nat \ {0} /\ MaxLosses \in Nat

Text == 0..MaxText
Clocks == {"typed", "queued", "opened", "saved"}
Idle == {"typed", "queued"}         \* idleTimer: armed by the effect, by run()
Ceiling == {"opened", "saved"}      \* ceilingTimer: likewise
On(x) == IF x \in Idle THEN Idle ELSE Ceiling

VARIABLES
  typed,    \* the changes so far: a version typed, a state chosen
  losses,   \* how many requests went wrong
  article,    \* Article: status, live text, pending draft (0: none), awaiting
  list,     \* per page, the articles as it last loaded them
  tab,      \* per page, the editor it shows
  auto,     \* per page, the autosave under way
  manual    \* per page, the button's action under way

evars == <<typed, losses, article, list, tab, auto, manual>>

NoPiece == [status |-> "none", text |-> 0, draft |-> 0, awaiting |-> FALSE]
NoAuto == [pc |-> "none", id |-> {}, text |-> 0, live |-> FALSE, ok |-> FALSE,
           made |-> {}, mine |-> FALSE]
NoManual == [pc |-> "none", call |-> "none", id |-> {}, text |-> 0, draft |-> 0,
             publish |-> FALSE, ok |-> FALSE]
NoTab == [open |-> FALSE, id |-> {}, text |-> 0, initial |-> 0, fresh |-> FALSE,
          live |-> FALSE, initialLive |-> FALSE, armed |-> {}, held |-> {}, inFlight |-> FALSE,
          dirty |-> FALSE, stale |-> FALSE, status |-> "idle",
          kept |-> 0, made |-> {}, slipped |-> FALSE]

There(r) == article[r].status # "none"
Newest(row) == IF row.draft # 0 THEN row.draft ELSE row.text
Saving(p) == manual[p].pc # "none"
Untouched(t) ==
  t.text = t.initial /\ t.live = t.initialLive /\ ~(t.fresh /\ t.id # {})
Enabled(t) == t.open /\ t.text # 0 /\ ~Untouched(t)

-----------------------------------------------------------------------------
(* The timers: `armed' will fire, `held' are those clearTimers can reach.  *)

Arm(t, x) == [t EXCEPT !.armed = @ \cup {x}, !.held = (@ \ On(x)) \cup {x}]
Disarm(t, X) == [t EXCEPT !.armed = @ \ X, !.held = @ \ X]
ClearTimers(t) == Disarm(t, t.held)

(* The two effects, after a change of the form or of `enabled && !paused'. *)
Watch(t, was, is) ==
  LET off == Disarm(t, {"typed"} \cup IF was # is THEN {"opened"} ELSE {})
      idle == IF is THEN Arm(off, "typed") ELSE off
  IN  IF is /\ ~was THEN Arm(idle, "opened") ELSE idle

Change(p, t) == Watch(t, Enabled(tab[p]) /\ ~Saving(p), Enabled(t) /\ ~Saving(p))

-----------------------------------------------------------------------------
EditorInit ==
  /\ losses = 0
  /\ \/ typed = 0 /\ article = [r \in Piece |-> NoPiece]
     \/ /\ typed = 1
        /\ \E one \in Piece, s \in {"RASCUNHO", "PUBLICADO"} :
             article = [r \in Piece |-> IF r = one THEN [NoPiece EXCEPT !.status = s, !.text = 1]
                                      ELSE NoPiece]
  /\ list = [p \in Page |-> article]
  /\ tab = [p \in Page |-> NoTab]
  /\ auto = [p \in Page |-> NoAuto]
  /\ manual = [p \in Page |-> NoManual]

-----------------------------------------------------------------------------
(* What somebody does at a page.                                           *)

OpenNew(p) ==
  /\ ~tab[p].open
  /\ tab' = [tab EXCEPT ![p] = [NoTab EXCEPT !.open = TRUE, !.fresh = TRUE]]
  /\ UNCHANGED <<typed, losses, article, list, auto, manual>>

(* articleToEditor: the draft over the live text, both as last loaded.     *)
OpenEdit(p, r) ==
  /\ ~tab[p].open
  /\ list[p][r].status # "none"
  /\ LET text == Newest(list[p][r])
         live == list[p][r].status = "PUBLICADO"
     IN  tab' = [tab EXCEPT ![p] = [NoTab EXCEPT !.open = TRUE, !.id = {r}, !.text = text,
                   !.initial = text, !.kept = text, !.live = live, !.initialLive = live]]
  /\ UNCHANGED <<typed, losses, article, list, auto, manual>>

(* "Voltar": the editor goes, with its timers; the list is not refreshed.  *)
Close(p) ==
  /\ tab[p].open
  /\ tab' = [tab EXCEPT ![p] = NoTab]
  /\ auto' = [auto EXCEPT ![p].mine = FALSE]
  /\ UNCHANGED <<typed, losses, article, list, manual>>

Visit(p) ==
  /\ ~tab[p].open
  /\ list' = [list EXCEPT ![p] = article]
  /\ UNCHANGED <<typed, losses, article, tab, auto, manual>>

Type(p) ==
  /\ tab[p].open /\ typed < MaxText
  /\ typed' = typed + 1
  /\ tab' = [tab EXCEPT ![p] = Change(p, [@ EXCEPT !.text = typed + 1])]
  /\ UNCHANGED <<losses, article, list, auto, manual>>

Undo(p) ==
  /\ tab[p].open /\ tab[p].text # tab[p].initial
  /\ tab' = [tab EXCEPT ![p] = Change(p, [@ EXCEPT !.text = tab[p].initial])]
  /\ UNCHANGED <<typed, losses, article, list, auto, manual>>

(* The "Estado" select: it decides where what is typed goes, whatever the  *)
(* article is.                                                             *)
SetState(p) ==
  /\ tab[p].open /\ typed < MaxText
  /\ typed' = typed + 1
  /\ tab' = [tab EXCEPT ![p] = Change(p, [@ EXCEPT !.live = ~tab[p].live])]
  /\ UNCHANGED <<losses, article, list, auto, manual>>

-----------------------------------------------------------------------------
(* The autosave: run(), the server action it calls, and what comes back.   *)

Fires(p, x) == x \in tab[p].armed

FireInVain(p, x) ==
  /\ Fires(p, x)
  /\ ~Enabled(tab[p]) \/ Saving(p)
  /\ tab' = [tab EXCEPT ![p] = Disarm(@, {x})]
  /\ UNCHANGED <<typed, losses, article, list, auto, manual>>

(* Mutant: what changed while a save was travelling is not remembered.     *)
BusyForgets(t) == t
Busy(t) == [t EXCEPT !.dirty = TRUE]

FireWhileBusy(p, x) ==
  /\ Fires(p, x)
  /\ Enabled(tab[p]) /\ ~Saving(p) /\ tab[p].inFlight
  /\ tab' = [tab EXCEPT ![p] = Busy(Disarm(@, {x}))]
  /\ UNCHANGED <<typed, losses, article, list, auto, manual>>

Fire(p, x) ==
  /\ Fires(p, x)
  /\ Enabled(tab[p]) /\ ~Saving(p) /\ ~tab[p].inFlight
  /\ auto[p].pc = "none"
  /\ tab' = [tab EXCEPT ![p] = [ClearTimers(Disarm(@, {x})) EXCEPT
               !.inFlight = TRUE, !.stale = FALSE, !.status = "saving"]]
  /\ auto' = [auto EXCEPT ![p] = [NoAuto EXCEPT !.pc = "sent", !.id = tab[p].id,
               !.text = tab[p].text, !.live = tab[p].live, !.mine = TRUE]]
  /\ UNCHANGED <<typed, losses, article, list, manual>>

(* create(): of two articles of one title the second is refused.           *)
Free(r, text) == ~There(r) /\ \A q \in Piece : article[q].text # text

Drafted(r, p, text) ==
  [article EXCEPT ![r].draft = text, ![r].awaiting = p \notin Publisher]

AutoCreate(p, r) ==
  /\ auto[p].pc = "sent" /\ auto[p].id = {}
  /\ Free(r, auto[p].text)
  /\ article' = [article EXCEPT ![r].status = "RASCUNHO", ![r].text = auto[p].text]
  /\ auto' = [auto EXCEPT ![p].pc = "done", ![p].ok = TRUE, ![p].made = {r}]
  /\ tab' = [tab EXCEPT ![p].made = IF auto[p].mine THEN @ \cup {r} ELSE @]
  /\ UNCHANGED <<typed, losses, list, manual>>

AutoPatch(p, r) ==
  /\ auto[p].pc = "sent" /\ auto[p].id = {r}
  /\ article' = IF auto[p].live THEN Drafted(r, p, auto[p].text)
              ELSE [article EXCEPT ![r].text = auto[p].text]
  /\ auto' = [auto EXCEPT ![p].pc = "done", ![p].ok = TRUE]
  /\ UNCHANGED <<typed, losses, list, tab, manual>>

(* Refused, or lost on the way there or on the way back.                   *)
AutoFails(p) ==
  /\ auto[p].pc # "none" /\ (auto[p].pc = "done" => auto[p].ok)
  /\ \/ losses < MaxLosses /\ losses' = losses + 1
     \/ /\ auto[p].pc = "sent" /\ auto[p].id = {}
        /\ \A r \in Piece : ~Free(r, auto[p].text)
        /\ UNCHANGED losses
  /\ auto' = [auto EXCEPT ![p].pc = "done", ![p].ok = FALSE]
  /\ tab' = [tab EXCEPT ![p].slipped = @ \/ (auto[p].mine /\ auto[p].made # {})]
  /\ UNCHANGED <<typed, article, list, manual>>

(* First of what came back: the id, even for a save since superseded.      *)
(* Mutant: the id is left to the manual save, as it was before.            *)
AdoptNothing(t, made) == t
Adopt(t, made) == IF t.id = {} THEN [t EXCEPT !.id = made] ELSE t

(* Then what run() does once it has it.                                    *)
(* Mutants: a stale response returns before the flag is lowered; what was  *)
(* followed up stays marked as to be.                                      *)
AfterAgain(t, ok, text) ==
  LET told == IF ok THEN [Arm(t, "saved") EXCEPT !.status = "saved", !.kept = text]
              ELSE [t EXCEPT !.status = "error"]
  IN  [IF t.stale THEN t ELSE IF t.dirty THEN Arm(told, "queued") ELSE told
         EXCEPT !.inFlight = FALSE]
AfterLate(t, ok, text) ==
  IF t.stale THEN t
  ELSE LET told == IF ok THEN [Arm(t, "saved") EXCEPT !.status = "saved", !.kept = text]
                   ELSE [t EXCEPT !.status = "error"]
       IN  [IF t.dirty THEN Arm(told, "queued") ELSE told EXCEPT
              !.inFlight = FALSE, !.dirty = FALSE]
After(t, ok, text) ==
  LET told == IF ok THEN [Arm(t, "saved") EXCEPT !.status = "saved", !.kept = text]
              ELSE [t EXCEPT !.status = "error"]
      next == IF t.dirty THEN [Arm(told, "queued") EXCEPT !.dirty = FALSE] ELSE told
  IN  [IF t.stale THEN t ELSE next EXCEPT !.inFlight = FALSE]

ReceiveAuto(p) ==
  /\ auto[p].pc = "done"
  /\ auto' = [auto EXCEPT ![p] = NoAuto]
  /\ LET adopted == IF auto[p].ok THEN Adopt(tab[p], auto[p].made) ELSE tab[p]
         after == After(adopted, auto[p].ok, auto[p].text)
     IN  tab' = [tab EXCEPT ![p] = IF ~auto[p].mine THEN @
                                   ELSE IF adopted # tab[p] THEN Change(p, after)
                                   ELSE after]
  /\ UNCHANGED <<typed, losses, article, list, manual>>

-----------------------------------------------------------------------------
(* The buttons: handleSave, discardDraft and the list's own publishing.    *)

CancelPending(t) == [ClearTimers(t) EXCEPT !.dirty = FALSE, !.stale = t.inFlight]
Pause(t) == Watch(t, Enabled(t), FALSE)

Press(p, call, id, publish) ==
  /\ ~Saving(p)
  /\ manual' = [manual EXCEPT ![p] = [NoManual EXCEPT !.pc = "sent", !.call = call,
                  !.id = id, !.text = tab[p].text, !.publish = publish]]
  /\ UNCHANGED <<typed, losses, article, list, auto>>

(* Saving a live article parks the text; publishing it goes by the row.    *)
SaveCall(t, publish) ==
  IF t.id = {} THEN "create" ELSE IF t.live /\ ~publish THEN "park" ELSE "patch"

Click(p, publish) ==
  /\ tab[p].open /\ tab[p].text # 0
  /\ Press(p, SaveCall(tab[p], publish), tab[p].id, publish)
  /\ tab' = [tab EXCEPT ![p] = Pause(CancelPending(@))]

Discard(p, r) ==
  /\ tab[p].open /\ tab[p].id = {r} /\ list[p][r].draft # 0
  /\ Press(p, "discard", {r}, FALSE)
  /\ tab' = [tab EXCEPT ![p] = Pause(@)]

PublishListed(p, r) ==
  /\ p \in Publisher /\ ~tab[p].open
  /\ list[p][r].status # "none"
  /\ Press(p, "publish", {r}, TRUE)
  /\ UNCHANGED tab

(* The page's own autosave goes first.                                     *)
Calling(p, call, r) ==
  /\ manual[p].pc = "sent" /\ manual[p].call = call /\ manual[p].id = {r}
  /\ auto[p].pc = "none"

Done(p, rows) ==
  /\ article' = rows
  /\ manual' = [manual EXCEPT ![p].pc = "done", ![p].ok = TRUE]
  /\ UNCHANGED <<typed, losses, list, auto>>

CreatePiece(p, r) ==
  /\ manual[p].pc = "sent" /\ manual[p].call = "create" /\ auto[p].pc = "none"
  /\ Free(r, manual[p].text)
  /\ article' = [article EXCEPT ![r].status = "RASCUNHO", ![r].text = manual[p].text]
  /\ manual' = [manual EXCEPT ![p].pc = "done", ![p].ok = TRUE, ![p].id = {r}]
  /\ tab' = [tab EXCEPT ![p].slipped = tab[p].open]
  /\ UNCHANGED <<typed, losses, list, auto>>

PatchPiece(p, r) ==
  /\ Calling(p, "patch", r)
  /\ Done(p, [article EXCEPT ![r].status = "RASCUNHO", ![r].text = manual[p].text])
  /\ UNCHANGED tab

Park(p, r) ==
  /\ Calling(p, "park", r)
  /\ Done(p, Drafted(r, p, manual[p].text))
  /\ UNCHANGED tab

DropDraft(p, r) ==
  /\ Calling(p, "discard", r)
  /\ Done(p, [article EXCEPT ![r].draft = 0, ![r].awaiting = FALSE])
  /\ UNCHANGED tab

Submit(p, r) ==
  /\ Calling(p, "submit", r)
  /\ article[r].status \in {"RASCUNHO", "EM_REVISAO"}
  /\ Done(p, [article EXCEPT ![r].status = "EM_REVISAO"])
  /\ UNCHANGED tab

(* publish(): the draft it read replaces the live text.                    *)
ReadDraft(p, r) ==
  /\ Calling(p, "publish", r)
  /\ manual' = [manual EXCEPT ![p].pc = "read", ![p].draft = article[r].draft]
  /\ UNCHANGED <<typed, losses, article, list, tab, auto>>

PublishPiece(p, r) ==
  /\ manual[p].pc = "read" /\ manual[p].id = {r}
  /\ Done(p, [article EXCEPT ![r] = [NoPiece EXCEPT !.status = "PUBLICADO",
                !.text = IF manual[p].draft # 0 THEN manual[p].draft ELSE article[r].text]])
  /\ UNCHANGED tab

(* The API's refusal: what it answers.                                     *)
Refuse(p) ==
  /\ manual[p].pc = "sent" /\ auto[p].pc = "none"
  /\ \/ losses < MaxLosses /\ losses' = losses + 1
     \/ /\ \/ manual[p].call = "create" /\ \A r \in Piece : ~Free(r, manual[p].text)
           \/ manual[p].call = "submit" /\ \E r \in manual[p].id : article[r].status = "PUBLICADO"
        /\ UNCHANGED losses
  /\ manual' = [manual EXCEPT ![p].pc = "done", ![p].ok = FALSE]
  /\ UNCHANGED <<typed, article, list, tab, auto>>

Ended(p, t) ==
  /\ manual' = [manual EXCEPT ![p] = NoManual]
  /\ tab' = [tab EXCEPT ![p] = t]
  /\ UNCHANGED <<typed, article>>

(* The first call is through and the transition is still to be asked for.  *)
Proceed(p) ==
  /\ manual[p].pc = "done" /\ manual[p].ok
  /\ manual[p].publish /\ manual[p].call \in {"create", "patch"}
  /\ manual' = [manual EXCEPT ![p].pc = "sent", ![p].ok = FALSE,
                  ![p].call = IF p \in Publisher THEN "publish" ELSE "submit"]
  /\ list' = [list EXCEPT ![p] = article]
  /\ UNCHANGED <<typed, losses, article, tab, auto>>

(* All through: whichever editor is open closes, and the list is fresh.    *)
Finish(p) ==
  /\ manual[p].pc = "done" /\ manual[p].ok
  /\ ~(manual[p].publish /\ manual[p].call \in {"create", "patch"})
  /\ Ended(p, NoTab)
  /\ auto' = [auto EXCEPT ![p].mine = FALSE]
  /\ list' = [list EXCEPT ![p] = article]
  /\ UNCHANGED losses

(* An error is shown, and the autosave takes over again.                   *)
GiveUp(p) ==
  /\ manual[p].pc = "done" /\ ~manual[p].ok
  /\ Ended(p, Watch(tab[p], FALSE, Enabled(tab[p])))
  /\ UNCHANGED <<losses, list, auto>>

(* The request or its answer is lost: handleSave throws, the page goes.    *)
Crash(p) ==
  /\ Saving(p) /\ losses < MaxLosses /\ losses' = losses + 1
  /\ Ended(p, NoTab)
  /\ auto' = [auto EXCEPT ![p].mine = FALSE]
  /\ list' = [list EXCEPT ![p] = article]

-----------------------------------------------------------------------------
Editing(p) ==
  \/ OpenNew(p) \/ Close(p) \/ Visit(p) \/ Type(p) \/ Undo(p) \/ SetState(p)
  \/ \E publish \in BOOLEAN : Click(p, publish)
  \/ \E r \in Piece : OpenEdit(p, r) \/ Discard(p, r) \/ PublishListed(p, r)

Autosave(p) ==
  \/ \E r \in Piece : AutoCreate(p, r) \/ AutoPatch(p, r)
  \/ AutoFails(p)
  \/ ReceiveAuto(p)

Serve(p, r) ==
  \/ CreatePiece(p, r) \/ PatchPiece(p, r) \/ Park(p, r) \/ DropDraft(p, r)
  \/ Submit(p, r) \/ ReadDraft(p, r) \/ PublishPiece(p, r)

Button(p) ==
  \/ \E r \in Piece : Serve(p, r)
  \/ Refuse(p) \/ Proceed(p) \/ Finish(p) \/ GiveUp(p)

Fired(p, x) == FireInVain(p, x) \/ FireWhileBusy(p, x) \/ Fire(p, x)

EditorNext ==
  \E p \in Page :
    \/ Editing(p)
    \/ Autosave(p)
    \/ Button(p)
    \/ Crash(p)
    \/ \E x \in Clocks : Fired(p, x)

(* Timers fire, requests are answered or fail, answers are handled.        *)
EditorFairness ==
  \A p \in Page :
    /\ WF_evars(Autosave(p))
    /\ WF_evars(Button(p))
    /\ \A x \in Clocks : WF_evars(Fired(p, x))

EditorSpec == EditorInit /\ [][EditorNext]_evars
EditorFairSpec == EditorSpec /\ EditorFairness

-----------------------------------------------------------------------------
PieceType == [status : {"none", "RASCUNHO", "EM_REVISAO", "PUBLICADO"}, text : Text,
              draft : Text, awaiting : BOOLEAN]
AutoType == [pc : {"none", "sent", "done"}, id : SUBSET Piece, text : Text,
             live : BOOLEAN, ok : BOOLEAN, made : SUBSET Piece, mine : BOOLEAN]
ManualType == [pc : {"none", "sent", "read", "done"}, id : SUBSET Piece, text : Text,
               call : {"none", "create", "patch", "park", "discard", "submit", "publish"},
               draft : Text, publish : BOOLEAN, ok : BOOLEAN]
TabType == [open : BOOLEAN, id : SUBSET Piece, text : Text, initial : Text,
            fresh : BOOLEAN, live : BOOLEAN, initialLive : BOOLEAN,
            armed : SUBSET Clocks, held : SUBSET Clocks, inFlight : BOOLEAN,
            dirty : BOOLEAN, stale : BOOLEAN, status : {"idle", "saving", "saved", "error"}, kept : Text,
            made : SUBSET Piece, slipped : BOOLEAN]

(* The types; a closed editor has no clock left, and what is to be sent    *)
(* again is only noted while something is being sent.                      *)
EditorTypeOK ==
  /\ typed \in Nat /\ losses \in 0..MaxLosses
  /\ article \in [Piece -> PieceType]
  /\ list \in [Page -> [Piece -> PieceType]]
  /\ tab \in [Page -> TabType]
  /\ \A p \in Page : /\ tab[p].armed # {} => tab[p].open
                    /\ tab[p].dirty => tab[p].inFlight
  /\ auto \in [Page -> AutoType]
  /\ manual \in [Page -> ManualType]

Unsaved(p) ==
  /\ Enabled(tab[p]) /\ ~Saving(p)
  /\ tab[p].text # tab[p].kept
  /\ tab[p].status # "error"

(* Words the server does not have are always about to be sent: a timer is  *)
(* armed, or a save is travelling that carries them, or that knows it does *)
(* not.  Whatever the order of keystrokes, timers, answers and buttons; a  *)
(* failed autosave is the exception, see FailuresAreRetried.               *)
UnsavedIsPending ==
  \A p \in Page : Unsaved(p) =>
    \/ tab[p].armed # {}
    \/ tab[p].inFlight /\ (auto[p].text = tab[p].text \/ tab[p].dirty)

(* And they get there, as long as nobody stops the editor from sending.    *)
WordsReachTheServer == \A p \in Page : Unsaved(p) ~> ~Unsaved(p)

(* The autosave makes one article of a new form: it makes another only     *)
(* where the answer of the first was lost, or a button made it.            *)
AutosaveCreatesOnce ==
  [][\A p \in Page :
       /\ auto[p].pc = "sent" /\ auto[p].mine /\ auto'[p].made # auto[p].made
       => tab[p].made = {} \/ tab[p].slipped]_evars

(* Claim: what the editor shows is what "Publicar" publishes; no earlier   *)
(* autosave is sent, or put on the site, in its place.                     *)
PublishSendsWhatIsShown ==
  [][\A p \in Page : manual[p].publish /\ tab[p].open /\ tab[p].id = manual[p].id
                     /\ manual[p].text # 0
                     /\ manual[p].pc = "read" /\ manual'[p].pc = "done"
       => \A r \in manual[p].id : article'[r].text = manual[p].text]_evars

(* Claim: the editor reopens on the newest words the server has, so that   *)
(* the next keystroke cannot write older ones over them.                   *)
ReopenShowsTheLatest ==
  [][\A p \in Page : /\ ~tab[p].open /\ tab'[p].open
                     /\ ~Saving(p) /\ auto[p].pc = "none"
       => \A r \in tab'[p].id : tab'[p].text = Newest(article[r])]_evars

(* Claim: the ceiling keeps running after a failure, so that failures do   *)
(* not stretch the gap between saves.                                      *)
FailuresAreRetried ==
  \A p \in Page : tab[p].status = "error" /\ Enabled(tab[p]) /\ ~Saving(p)
                  /\ ~tab[p].inFlight => tab[p].armed # {}
=============================================================================
