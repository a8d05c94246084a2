---------------------------- MODULE MediaLibrary ----------------------------
(***************************************************************************)
(* The newsroom's files and who may fetch them: backend/src/media (media.  *)
(* service.ts, media-access.service.ts, uploads.controller.ts and the      *)
(* sweep of media-publish.scheduler.ts), over the two buckets of storage/  *)
(* r2-storage.driver.ts, and the pages that use them.                      *)
(*                                                                         *)
(* A file is one Media row with all its variants: they are written, copied *)
(* and deleted in one loop.  A page is an article, a slot for an           *)
(* advertisement or a pacote; it is live or not, and has at most one file. *)
(***************************************************************************)
CONSTANTS
  File,       \* bound: the files there can be; a storage key is random
  Page,       \* bound: the pages there can be
  Banner,       \* the pages that are advertisements
  Pacote,     \* the pages that are pacotes
  Worker      \* bound: the requests and sweeps under way at a time

ASSUME MediaAssumption ==
  /\ Banner \subseteq Page /\ Pacote \subseteq Page
  /\ Banner \cap Pacote = {}

Articles == Page \ (Banner \cup Pacote)

VARIABLES
  media,     \* the rows of Media: none, PRIVADO or PUBLICO
  banners,   \* the files uploaded for an advertisement (PUBLICIDADE)
  stored,    \* the private bucket
  copied,    \* the public bucket
  cache,     \* Redis: what forPath answered, while it is kept
  page,      \* the pages
  work,      \* the requests and sweeps under way
  known,     \* history: the files there have been
  offered    \* history: the files of pages that were live, or being put on sale

mvars == <<media, banners, stored, copied, cache, page, work, known, offered>>

WorkIdle == [pc |-> "idle", keys |-> {}, todo |-> {}, done |-> {}, sell |-> {}]
Busy(w, pc, keys) == [work EXCEPT ![w] = [WorkIdle EXCEPT !.pc = pc, !.keys = keys]]
Done(w) == [work EXCEPT ![w] = WorkIdle]

HasRow(f) == media[f] # "none"
Rows == {f \in File : HasRow(f)}
LivePages(f) == {p \in Page : page[p].live /\ f \in page[p].files}
Used(f, P) == \E p \in P : f \in page[p].files

MediaInit ==
  /\ media = [f \in File |-> "none"]
  /\ banners = {}
  /\ stored = {}
  /\ copied = {}
  /\ cache = [f \in File |-> "none"]
  /\ page = [p \in Page |-> [live |-> FALSE, fresh |-> FALSE, files |-> {}]]
  /\ work = [w \in Worker |-> WorkIdle]
  /\ known = {}
  /\ offered = {}

-----------------------------------------------------------------------------
(* Uploads, of the library or of an advertisement: the bytes are looked at *)
(* and counted against the allowance, then written, then the row is.       *)

Upload(w, f) ==
  /\ work[w].pc = "idle"
  /\ f \notin known
  /\ known' = known \cup {f}
  /\ banners' \in {banners, banners \cup {f}}
  /\ work' = Busy(w, "put", {f})
  /\ UNCHANGED <<media, stored, copied, cache, page, offered>>

Put(w, f) ==
  /\ work[w].pc = "put" /\ work[w].keys = {f}
  /\ stored' = stored \cup {f}
  /\ work' = Busy(w, "record", {f})
  /\ UNCHANGED <<media, banners, copied, cache, page, known, offered>>

Record(w, f) ==
  /\ work[w].pc = "record" /\ work[w].keys = {f}
  /\ media' = [media EXCEPT ![f] = "PRIVADO"]
  /\ work' = Done(w)
  /\ UNCHANGED <<banners, stored, copied, cache, page, known, offered>>

(* The database refuses the row.  uploadVideo() takes its bytes back;      *)
(* uploadFile() leaves them.                                               *)
RecordFails(w, f) ==
  /\ work[w].pc = "record" /\ work[w].keys = {f}
  /\ work' \in {Busy(w, "unlink", {f}), Done(w)}
  /\ UNCHANGED <<media, banners, stored, copied, cache, page, known, offered>>

-----------------------------------------------------------------------------
(* Pages.  What an editor may point one at: a file that has a row.  The    *)
(* write comes first; when the page is live, its file is then published.   *)

Picked == {{}} \cup {{f} : f \in Rows}

(* Mutant: whatever the page is.                                           *)
PromotesAlways(p, live) == TRUE
Promotes(p, live) == live

Write(p, live, files) ==
  /\ page' = [page EXCEPT ![p] = [live |-> live, fresh |-> TRUE, files |-> files]]
  /\ offered' = IF live THEN offered \cup files ELSE offered

(* create, update, publish and archive of an article, its turn in the      *)
(* scheduler, and the update of an advertisement: one request, whose       *)
(* promotion never makes it fail.                                          *)
Edit(w, p, live, files) ==
  /\ p \notin Pacote
  /\ work[w].pc = "idle"
  /\ files = page[p].files \/ files \in Picked
  /\ Write(p, live, files)
  /\ work' = IF Promotes(p, live) /\ files # {} THEN Busy(w, "find", files) ELSE work
  /\ UNCHANGED <<media, banners, stored, copied, cache, known>>

(* A pacote is on sale only after its cover was promoted, and Stripe may   *)
(* refuse in between; a new cover of one on sale is promoted at once.      *)
SetCover(w, p, files) ==
  /\ p \in Pacote
  /\ work[w].pc = "idle"
  /\ files \in Picked
  /\ Write(p, page[p].live, files)
  /\ work' = IF Promotes(p, page[p].live) /\ files # {} THEN Busy(w, "find", files)
             ELSE work
  /\ UNCHANGED <<media, banners, stored, copied, cache, known>>

PublishPacote(w, p) ==
  /\ p \in Pacote
  /\ work[w].pc = "idle"
  /\ offered' = offered \cup page[p].files
  /\ work' = [work EXCEPT ![w] = [WorkIdle EXCEPT !.pc = "find",
                                    !.keys = page[p].files, !.sell = {p}]]
  /\ UNCHANGED <<media, banners, stored, copied, cache, page, known>>

PutPageOnSale(w, p) ==
  /\ work[w].pc = "sell" /\ work[w].sell = {p}
  /\ Write(p, TRUE, page[p].files)
  /\ work' = Done(w)
  /\ UNCHANGED <<media, banners, stored, copied, cache, known>>

UnpublishPage(p) ==
  /\ p \in Pacote /\ page[p].live
  /\ Write(p, FALSE, page[p].files)
  /\ UNCHANGED <<media, banners, stored, copied, cache, work, known>>

(* A day goes by in which nothing changes the article.                     *)
GrowOld(p) ==
  /\ p \in Articles /\ page[p].fresh
  /\ page' = [page EXCEPT ![p].fresh = FALSE]
  /\ UNCHANGED <<media, banners, stored, copied, cache, work, known, offered>>

-----------------------------------------------------------------------------
(* publishKeys: the rows still private, the copies, the flag, and then the *)
(* kept answers are forgotten, if Redis is there.                          *)

Find(w) ==
  /\ work[w].pc = "find"
  /\ LET private == {f \in work[w].keys : media[f] = "PRIVADO"} IN
     work' = [work EXCEPT ![w].pc = "copy", ![w].keys = {}, ![w].todo = private]
  /\ UNCHANGED <<media, banners, stored, copied, cache, page, known, offered>>

Copy(w, f) ==
  /\ work[w].pc = "copy" /\ f \in work[w].todo
  /\ f \in stored
  /\ copied' = copied \cup {f}
  /\ work' = [work EXCEPT ![w].todo = @ \ {f}, ![w].done = @ \cup {f}]
  /\ UNCHANGED <<media, banners, stored, cache, page, known, offered>>

(* Mutant: a copy that fails is counted with the others.                   *)
CopyFailsUnseen(w, f) ==
  /\ work[w].pc = "copy" /\ f \in work[w].todo
  /\ work' = [work EXCEPT ![w].todo = @ \ {f}, ![w].done = @ \cup {f}]
  /\ UNCHANGED <<media, banners, stored, copied, cache, page, known, offered>>
CopyFails(w, f) ==
  /\ work[w].pc = "copy" /\ f \in work[w].todo
  /\ work' = [work EXCEPT ![w].todo = @ \ {f}]
  /\ UNCHANGED <<media, banners, stored, copied, cache, page, known, offered>>

Flag(w) ==
  /\ work[w].pc = "copy" /\ work[w].todo = {}
  /\ media' = [f \in File |-> IF f \in work[w].done /\ HasRow(f) THEN "PUBLICO"
                              ELSE media[f]]
  /\ cache' \in {cache, [f \in File |-> IF f \in work[w].done THEN "none" ELSE cache[f]]}
  /\ work' = IF work[w].sell = {} THEN Done(w)
             ELSE [work EXCEPT ![w].pc = "sell", ![w].done = {}]
  /\ UNCHANGED <<banners, stored, copied, page, known, offered>>

(* Mutant: the sweep looks at the articles only once they are a day old.   *)
SweptLate ==
  {f \in File : \E p \in LivePages(f) : p \in Articles => ~page[p].fresh}
(* The sweep: what live pages use, of the articles the changed ones.       *)
Swept ==
  {f \in File : \E p \in LivePages(f) : p \in Articles => page[p].fresh}

SweepPublished(w) ==
  /\ work[w].pc = "idle"
  /\ \E f \in Swept : media[f] = "PRIVADO"
  /\ work' = Busy(w, "find", Swept)
  /\ UNCHANGED <<media, banners, stored, copied, cache, page, known, offered>>

-----------------------------------------------------------------------------
(* A reader fetches a file: the cached answer, or the row's, and before a  *)
(* refusal the pages themselves.                                           *)

Fetch(w, f) ==
  /\ work[w].pc = "idle" /\ f \in known
  /\ cache[f] # "PUBLICO"                        \* else it is served
  /\ cache[f] = "none" => HasRow(f)              \* else it is refused
  /\ work' = IF cache[f] = "PRIVADO" THEN Busy(w, "heal", {f})
             ELSE [work EXCEPT ![w] = [WorkIdle EXCEPT !.pc = "answer", !.keys = {f},
                      !.done = IF media[f] = "PUBLICO" THEN {f} ELSE {}]]
  /\ UNCHANGED <<media, banners, stored, copied, cache, page, known, offered>>

(* Mutant: that there is no row is kept too.                               *)
KeepMissing(w, f) ==
  /\ work[w].pc = "answer" /\ work[w].keys = {f}
  /\ cache' = [cache EXCEPT ![f] = IF HasRow(f) THEN media[f] ELSE "missing"]
  /\ work' = Done(w)
  /\ UNCHANGED <<media, banners, stored, copied, page, known, offered>>
(* The answer is kept, though the row may have changed since it was read.  *)
Keep(w, f) ==
  /\ work[w].pc = "answer" /\ work[w].keys = {f}
  /\ IF work[w].done = {}
     THEN /\ cache' = [cache EXCEPT ![f] = "PRIVADO"]
          /\ work' = Busy(w, "heal", {f})
     ELSE /\ cache' = [cache EXCEPT ![f] = "PUBLICO"]
          /\ work' = Done(w)
  /\ UNCHANGED <<media, banners, stored, copied, page, known, offered>>

(* healIfPublished: it is served, and published.                           *)
Healed(f) == HasRow(f) /\ LivePages(f) # {}

(* Mutant: what was healed is kept as public there and then.               *)
HealAndKeep(w, f) ==
  /\ work[w].pc = "heal" /\ work[w].keys = {f}
  /\ Healed(f)
  /\ cache' = [cache EXCEPT ![f] = "PUBLICO"]
  /\ work' = Busy(w, "find", {f})
  /\ UNCHANGED <<media, banners, stored, copied, page, known, offered>>
Heal(w, f) ==
  /\ work[w].pc = "heal" /\ work[w].keys = {f}
  /\ Healed(f)
  /\ work' = Busy(w, "find", {f})
  /\ UNCHANGED <<media, banners, stored, copied, cache, page, known, offered>>

Refuse(w, f) ==
  /\ work[w].pc = "heal" /\ work[w].keys = {f}
  /\ ~Healed(f)
  /\ work' = Done(w)
  /\ UNCHANGED <<media, banners, stored, copied, cache, page, known, offered>>

Expire(f) ==
  /\ cache[f] # "none"
  /\ cache' = [cache EXCEPT ![f] = "none"]
  /\ UNCHANGED <<media, banners, stored, copied, page, work, known, offered>>

-----------------------------------------------------------------------------
(* Deletion: looked at, then the row, then the bytes.                      *)

(* Mutant: the bytes first.                                                *)
RemoveBytesFirst(w, f) ==
  /\ work[w].pc = "idle"
  /\ HasRow(f) /\ ~Used(f, Articles \cup Banner)
  /\ work' = Busy(w, "unlink", {f})
  /\ UNCHANGED <<media, banners, stored, copied, cache, page, known, offered>>
(* remove() asks the articles and the advertisements.                      *)
Remove(w, f) ==
  /\ work[w].pc = "idle"
  /\ HasRow(f) /\ ~Used(f, Articles \cup Banner)
  /\ work' = Busy(w, "drop", {f})
  /\ UNCHANGED <<media, banners, stored, copied, cache, page, known, offered>>

(* removeAdImage() empties the slot whatever happens to the file.          *)
RemoveAdImage(w, p) ==
  /\ p \in Banner /\ work[w].pc = "idle"
  /\ page[p].files # {}
  /\ page' = [page EXCEPT ![p].files = {}]
  /\ work' = IF page[p].files \cap Rows \cap banners = {} THEN work
             ELSE Busy(w, "elsewhere", page[p].files)
  /\ UNCHANGED <<media, banners, stored, copied, cache, known, offered>>

Elsewhere(w, f) ==
  /\ work[w].pc = "elsewhere" /\ work[w].keys = {f}
  /\ work' = IF Used(f, Articles \cup Banner) THEN Done(w)
             ELSE Busy(w, "drop", {f})
  /\ UNCHANGED <<media, banners, stored, copied, cache, page, known, offered>>

Drop(w, f) ==
  /\ work[w].pc = "drop" /\ work[w].keys = {f}
  /\ media' = [media EXCEPT ![f] = "none"]
  /\ work' = IF HasRow(f) THEN Busy(w, "unlink", {f}) ELSE Done(w)
  /\ UNCHANGED <<banners, stored, copied, cache, page, known, offered>>

(* The private bucket, then the public one; a failure is only logged.      *)
(* removeAdImage() then forgets what is kept of its banner.                *)
Unlink(w, f) ==
  /\ work[w].pc = "unlink" /\ work[w].keys = {f}
  /\ stored' \in {stored, stored \ {f}}
  /\ work' = Busy(w, "unlink_copy", {f})
  /\ UNCHANGED <<media, banners, copied, cache, page, known, offered>>

UnlinkCopy(w, f) ==
  /\ work[w].pc = "unlink_copy" /\ work[w].keys = {f}
  /\ copied' \in {copied, copied \ {f}}
  /\ work' = Done(w)
  /\ cache' \in {cache, [cache EXCEPT ![f] = IF f \in banners THEN "none" ELSE @]}
  /\ UNCHANGED <<media, banners, stored, page, known, offered>>

(* The process stops.                                                      *)
Crash(w) ==
  /\ work[w].pc # "idle"
  /\ work' = Done(w)
  /\ UNCHANGED <<media, banners, stored, copied, cache, page, known, offered>>

-----------------------------------------------------------------------------
OfFile(w, f) ==
  \/ Upload(w, f) \/ Put(w, f) \/ Record(w, f) \/ RecordFails(w, f)
  \/ Copy(w, f) \/ CopyFails(w, f)
  \/ Fetch(w, f) \/ Keep(w, f) \/ Heal(w, f) \/ Refuse(w, f)
  \/ Remove(w, f) \/ Elsewhere(w, f) \/ Drop(w, f) \/ Unlink(w, f) \/ UnlinkCopy(w, f)

OfPage(w, p) ==
  \/ \E live \in BOOLEAN, files \in Picked \cup {page[p].files} : Edit(w, p, live, files)
  \/ \E files \in Picked : SetCover(w, p, files)
  \/ PublishPacote(w, p) \/ PutPageOnSale(w, p)
  \/ RemoveAdImage(w, p)

MediaNext ==
  \/ \E w \in Worker, f \in File : OfFile(w, f)
  \/ \E w \in Worker, p \in Page : OfPage(w, p)
  \/ \E w \in Worker : Find(w) \/ Flag(w) \/ SweepPublished(w) \/ Crash(w)
  \/ \E p \in Page : UnpublishPage(p) \/ GrowOld(p)
  \/ \E f \in File : Expire(f)

MediaSpec == MediaInit /\ [][MediaNext]_mvars

(* What a request under way does next.                                     *)
GoOn(w) ==
  \/ Find(w) \/ Flag(w)
  \/ \E p \in Page : PutPageOnSale(w, p)
  \/ \E f \in File :
       \/ Put(w, f) \/ Record(w, f) \/ Copy(w, f) \/ CopyFails(w, f)
       \/ Keep(w, f) \/ Heal(w, f) \/ Refuse(w, f)
       \/ Elsewhere(w, f) \/ Drop(w, f) \/ Unlink(w, f) \/ UnlinkCopy(w, f)

(* A request goes on; the sweep runs every ten minutes, whatever else      *)
(* does; and of what is tried again for ever, no step fails for ever: the  *)
(* process does not always stop there, the copy is not always refused.     *)
Working == \A w \in Worker : WF_mvars(GoOn(w))
SomeSweep == \E w \in Worker : SweepPublished(w)
SomeFind(f) == \E w \in Worker : f \in work[w].keys /\ Find(w)
SomeCopy(f) == \E w \in Worker : Copy(w, f)
SomeFlag(f) == \E w \in Worker : f \in work[w].done /\ Flag(w)
MediaFairness ==
  /\ Working /\ SF_mvars(SomeSweep)
  /\ \A f \in File : SF_mvars(SomeFind(f)) /\ SF_mvars(SomeCopy(f)) /\ SF_mvars(SomeFlag(f))

MediaFairSpec == MediaSpec /\ MediaFairness

-----------------------------------------------------------------------------
WorkType == [pc : {"idle", "put", "record", "find", "copy", "sell", "answer", "heal",
                   "elsewhere", "drop", "unlink", "unlink_copy"},
             keys : SUBSET File, todo : SUBSET File, done : SUBSET File,
             sell : SUBSET Pacote]

(* The types.                                                              *)
MediaTypeOK ==
  /\ media \in [File -> {"none", "PRIVADO", "PUBLICO"}]
  /\ banners \subseteq File /\ stored \subseteq File /\ copied \subseteq File
  /\ cache \in [File -> {"none", "PRIVADO", "PUBLICO"}]
  /\ page \in [Page -> [live : BOOLEAN, fresh : BOOLEAN, files : SUBSET File]]
  /\ work \in [Worker -> WorkType]
  /\ known \subseteq File /\ offered \subseteq File

(* A row has its bytes, whatever failed and whoever was deleting: without  *)
(* them it would be a broken image on a page.                              *)
RowsHaveBytes == Rows \subseteq stored

(* The flag says public only over a copy that is there: over one that      *)
(* failed it would never be tried again.                                   *)
FlagMeansCopied == \A f \in File : media[f] = "PUBLICO" => f \in copied

(* Nothing becomes fetchable by everybody, by flag or by copy, that no     *)
(* page offered to the public: not a draft's pictures.                     *)
PublicWasOffered ==
  \A f \in File : f \in copied \/ media[f] = "PUBLICO" => f \in offered

(* An answer kept as public never becomes wrong, though it is kept for a   *)
(* day: the file is public, or gone.                                       *)
KeptPublicIsTrue ==
  \A f \in File : cache[f] = "PUBLICO" => media[f] \in {"PUBLICO", "none"}

(* A missed promotion is made up for: the file of a live page becomes      *)
(* public, unless the page stops showing it, or, an article, is left       *)
(* unchanged for a day: the sweep looks no further back.                   *)
Wanted(f) ==
  media[f] = "PRIVADO" /\ \E p \in LivePages(f) : p \in Banner \cup Pacote \/ page[p].fresh
LiveBecomesPublic == \A f \in File : Wanted(f) ~> ~Wanted(f)
=============================================================================
