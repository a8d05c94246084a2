------------------------- MODULE MediaLibraryProofs -------------------------
(***************************************************************************)
(* What MediaLibrary promises for any number of files, pages, requests and *)
(* sweeps, failures and restarts.                                          *)
(***************************************************************************)
EXTENDS MediaLibrary, TLAPS

-----------------------------------------------------------------------------
(* Types.                                                                  *)

LEMMA IdleTypes == WorkIdle \in WorkType
  BY DEF WorkIdle, WorkType

LEMMA BusyTypes ==
  ASSUME MediaTypeOK, NEW w \in Worker, NEW keys \in SUBSET File,
         NEW pc \in {"put", "record", "find", "heal", "elsewhere", "drop", "unlink",
                     "unlink_copy"}
  PROVE  Busy(w, pc, keys) \in [Worker -> WorkType]
  <1>1. [WorkIdle EXCEPT !.pc = pc, !.keys = keys] \in WorkType
    BY DEF WorkIdle, WorkType
  <1>. QED  BY <1>1 DEF Busy, MediaTypeOK

LEMMA DoneTypes ==
  ASSUME MediaTypeOK, NEW w \in Worker
  PROVE  Done(w) \in [Worker -> WorkType]
  BY IdleTypes DEF Done, MediaTypeOK

LEMMA OfFileTypes ==
  ASSUME MediaTypeOK, NEW w \in Worker, NEW f \in File, OfFile(w, f)
  PROVE  MediaTypeOK'
  <1>0. {f} \in SUBSET File
    OBVIOUS
  <1>1. CASE Upload(w, f)
    BY <1>0, <1>1, BusyTypes DEF Upload, MediaTypeOK
  <1>2. CASE Put(w, f)
    BY <1>0, <1>2, BusyTypes DEF Put, MediaTypeOK
  <1>3. CASE Record(w, f)
    BY <1>3, DoneTypes DEF Record, MediaTypeOK
  <1>4. CASE RecordFails(w, f)
    BY <1>0, <1>4, BusyTypes, DoneTypes DEF RecordFails, MediaTypeOK
  <1>5. CASE Copy(w, f) \/ CopyFails(w, f)
    <2>1. work[w] \in WorkType
      BY DEF MediaTypeOK
    <2>2. work' \in [Worker -> WorkType]
      BY <1>5, <2>1 DEF Copy, CopyFails, MediaTypeOK, WorkType
    <2>. QED  BY <1>5, <2>2 DEF Copy, CopyFails, MediaTypeOK
  <1>6. CASE Fetch(w, f)
    <2>1. [WorkIdle EXCEPT !.pc = "answer", !.keys = {f},
                      !.done = IF media[f] = "PUBLICO" THEN {f} ELSE {}] \in WorkType
      BY DEF WorkIdle, WorkType
    <2>2. work' \in [Worker -> WorkType]
      BY <1>0, <1>6, <2>1, BusyTypes DEF Fetch, MediaTypeOK
    <2>. QED  BY <1>6, <2>2 DEF Fetch, MediaTypeOK
  <1>7. CASE Keep(w, f)
    <2>1. work' \in [Worker -> WorkType]
      BY <1>0, <1>7, BusyTypes, DoneTypes DEF Keep
    <2>2. cache' = [cache EXCEPT ![f] = "PRIVADO"] \/ cache' = [cache EXCEPT ![f] = "PUBLICO"]
      BY <1>7 DEF Keep
    <2>3. cache' \in [File -> {"none", "PRIVADO", "PUBLICO"}]
      BY <2>2 DEF MediaTypeOK
    <2>. QED  BY <1>7, <2>1, <2>3 DEF Keep, MediaTypeOK
  <1>8. CASE Heal(w, f) \/ Refuse(w, f)
    BY <1>0, <1>8, BusyTypes, DoneTypes DEF Heal, Refuse, MediaTypeOK
  <1>9. CASE Remove(w, f) \/ Elsewhere(w, f)
    BY <1>0, <1>9, BusyTypes, DoneTypes DEF Remove, Elsewhere, MediaTypeOK
  <1>10. CASE Drop(w, f)
    BY <1>0, <1>10, BusyTypes, DoneTypes DEF Drop, MediaTypeOK
  <1>11. CASE Unlink(w, f)
    BY <1>0, <1>11, BusyTypes DEF Unlink, MediaTypeOK
  <1>12. CASE UnlinkCopy(w, f)
    BY <1>12, DoneTypes DEF UnlinkCopy, MediaTypeOK
  <1>. QED  BY <1>1, <1>2, <1>3, <1>4, <1>5, <1>6, <1>7, <1>8, <1>9, <1>10, <1>11, <1>12
            DEF OfFile

LEMMA WriteTypes ==
  ASSUME MediaTypeOK, NEW p \in Page, NEW live \in BOOLEAN, NEW files \in SUBSET File,
         Write(p, live, files), work' \in [Worker -> WorkType],
         UNCHANGED <<media, banners, stored, copied, cache, known>>
  PROVE  MediaTypeOK'
  <1>1. offered' \subseteq File
    BY DEF Write, MediaTypeOK
  <1>2. page' \in [Page -> [live : BOOLEAN, fresh : BOOLEAN, files : SUBSET File]]
    BY DEF Write, MediaTypeOK
  <1>. QED  BY <1>1, <1>2 DEF MediaTypeOK

LEMMA PickedTypes ==
  /\ Picked \subseteq SUBSET File
  /\ MediaTypeOK => \A p \in Page : page[p].files \in SUBSET File /\ page[p].live \in BOOLEAN
  BY DEF Picked, Rows, MediaTypeOK

LEMMA OfPageTypes ==
  ASSUME MediaTypeOK, NEW w \in Worker, NEW p \in Page, OfPage(w, p)
  PROVE  MediaTypeOK'
  <1>0. work \in [Worker -> WorkType]
    BY DEF MediaTypeOK
  <1>1. ASSUME NEW live \in BOOLEAN, NEW files \in Picked \cup {page[p].files},
               Edit(w, p, live, files)
        PROVE  MediaTypeOK'
    <2>1. files \in SUBSET File
      BY PickedTypes
    <2>2. work' \in [Worker -> WorkType]
      BY <1>0, <1>1, <2>1, BusyTypes DEF Edit
    <2>. QED  BY <1>1, <2>1, <2>2, WriteTypes DEF Edit
  <1>2. ASSUME NEW files \in Picked, SetCover(w, p, files)
        PROVE  MediaTypeOK'
    <2>1. files \in SUBSET File
      BY PickedTypes
    <2>2. work' \in [Worker -> WorkType]
      BY <1>0, <1>2, <2>1, BusyTypes DEF SetCover
    <2>. QED  BY <1>2, <2>1, <2>2, PickedTypes, WriteTypes DEF SetCover
  <1>3. CASE PublishPacote(w, p)
    <2>1. [WorkIdle EXCEPT !.pc = "find", !.keys = page[p].files, !.sell = {p}] \in WorkType
      BY <1>3, PickedTypes DEF WorkIdle, WorkType, PublishPacote
    <2>. QED  BY <1>3, <2>1, PickedTypes DEF PublishPacote, MediaTypeOK
  <1>4. CASE PutPageOnSale(w, p)
    BY <1>4, DoneTypes, PickedTypes, WriteTypes DEF PutPageOnSale
  <1>5. CASE RemoveAdImage(w, p)
    <2>1. work' \in [Worker -> WorkType]
      BY <1>0, <1>5, PickedTypes, BusyTypes DEF RemoveAdImage
    <2>. QED  BY <1>5, <2>1 DEF RemoveAdImage, MediaTypeOK
  <1>. QED  BY <1>1, <1>2, <1>3, <1>4, <1>5 DEF OfPage

LEMMA SweepTypes ==
  ASSUME MediaTypeOK, NEW w \in Worker, Find(w) \/ Flag(w) \/ SweepPublished(w) \/ Crash(w)
  PROVE  MediaTypeOK'
  <1>0. work[w] \in WorkType
    BY DEF MediaTypeOK
  <1>1. CASE Find(w)
    <2>1. work' \in [Worker -> WorkType]
      BY <1>0, <1>1 DEF Find, MediaTypeOK, WorkType
    <2>. QED  BY <1>1, <2>1 DEF Find, MediaTypeOK
  <1>2. CASE Flag(w)
    <2>1. work' \in [Worker -> WorkType]
      BY <1>0, <1>2, DoneTypes DEF Flag, MediaTypeOK, WorkType
    <2>2. media' \in [File -> {"none", "PRIVADO", "PUBLICO"}]
      BY <1>2 DEF Flag, MediaTypeOK
    <2>3. cache' \in [File -> {"none", "PRIVADO", "PUBLICO"}]
      BY <1>2 DEF Flag, MediaTypeOK
    <2>. QED  BY <1>2, <2>1, <2>2, <2>3 DEF Flag, MediaTypeOK
  <1>3. CASE SweepPublished(w)
    <2>1. Swept \in SUBSET File
      BY DEF Swept
    <2>. QED  BY <1>3, <2>1, BusyTypes DEF SweepPublished, MediaTypeOK
  <1>4. CASE Crash(w)
    BY <1>4, DoneTypes DEF Crash, MediaTypeOK
  <1>. QED  BY <1>1, <1>2, <1>3, <1>4

LEMMA AloneTypes ==
  ASSUME MediaTypeOK,
         \/ \E p \in Page : UnpublishPage(p) \/ GrowOld(p)
         \/ \E f \in File : Expire(f)
  PROVE  MediaTypeOK'
  <1>1. ASSUME NEW p \in Page, UnpublishPage(p)
        PROVE  MediaTypeOK'
    BY <1>1, PickedTypes, WriteTypes DEF UnpublishPage, MediaTypeOK
  <1>2. ASSUME NEW p \in Page, GrowOld(p)
        PROVE  MediaTypeOK'
    BY <1>2 DEF GrowOld, MediaTypeOK
  <1>3. ASSUME NEW f \in File, Expire(f)
        PROVE  MediaTypeOK'
    BY <1>3 DEF Expire, MediaTypeOK
  <1>. QED  BY <1>1, <1>2, <1>3

LEMMA MediaTypesInit == MediaInit => MediaTypeOK
  BY IdleTypes DEF MediaInit, MediaTypeOK

LEMMA MediaTypesStep == MediaTypeOK /\ [MediaNext]_mvars => MediaTypeOK'
  <1>1. CASE UNCHANGED mvars
    BY <1>1 DEF mvars, MediaTypeOK
  <1>. QED  BY <1>1, OfFileTypes, OfPageTypes, SweepTypes, AloneTypes DEF MediaNext

(* The types hold in every state.                                          *)
THEOREM MediaTypes == MediaSpec => []MediaTypeOK
  BY MediaTypesInit, MediaTypesStep, PTL DEF MediaSpec

-----------------------------------------------------------------------------
(* The invariant.  A file is being uploaded by one request, and once that  *)
(* is over it is so for good; the rest of what a request carries follows.  *)

Uploading(w, f) == work[w].pc \in {"put", "record"} /\ f \in work[w].keys
Past(f) == f \in known /\ \A w \in Worker : ~Uploading(w, f)

(* An upload is of a new file, and of nobody else's.                       *)
UploadsAreFresh ==
  \A w \in Worker, f \in File :
    Uploading(w, f) =>
      /\ f \in known /\ media[f] = "none"
      /\ \A u \in Worker \ {w} : ~Uploading(u, f)
      /\ work[w].pc = "record" => f \in stored

(* What has a row, or is kept as public, was uploaded before.              *)
RowsArePast ==
  \A f \in File :
    /\ HasRow(f) => Past(f)
    /\ cache[f] = "PUBLICO" => Past(f) /\ media[f] \in {"PUBLICO", "none"}

(* Bytes are deleted only of a file that has lost its row for good.        *)
UnlinksAreGone ==
  \A w \in Worker, f \in File :
    work[w].pc \in {"unlink", "unlink_copy"} /\ f \in work[w].keys =>
      Past(f) /\ media[f] = "none"

(* A promotion is of files some page offered, and counts what it copied.   *)
PromotesOffered ==
  \A w \in Worker :
    /\ work[w].pc = "find" => work[w].keys \subseteq offered /\ work[w].done = {}
    /\ work[w].pc = "copy" =>
         /\ \A f \in work[w].todo \cup work[w].done : Past(f) /\ f \in offered
         /\ \A f \in work[w].done : f \in copied \/ media[f] = "none"

(* The answer about to be kept was the row's, and still is if it said      *)
(* public.                                                                 *)
AnswersStand ==
  \A w \in Worker :
    work[w].pc = "answer" =>
      /\ work[w].done \subseteq work[w].keys
      /\ \A f \in work[w].done : Past(f) /\ media[f] \in {"PUBLICO", "none"}

LivePagesOffer == \A p \in Page : page[p].live => page[p].files \subseteq offered

MediaInv ==
  /\ RowsHaveBytes /\ FlagMeansCopied /\ PublicWasOffered
  /\ UploadsAreFresh /\ RowsArePast /\ UnlinksAreGone
  /\ PromotesOffered /\ AnswersStand /\ LivePagesOffer

LEMMA MediaInvInit == MediaInit => MediaInv
  <1>. SUFFICES ASSUME MediaInit PROVE MediaInv
    OBVIOUS
  <1>1. \A w \in Worker : work[w].pc = "idle"
    BY DEF MediaInit, WorkIdle
  <1>2. RowsHaveBytes /\ FlagMeansCopied /\ PublicWasOffered /\ RowsArePast /\ LivePagesOffer
    BY DEF MediaInit, RowsHaveBytes, FlagMeansCopied, PublicWasOffered, RowsArePast,
           LivePagesOffer, Rows, HasRow
  <1>3. UploadsAreFresh /\ UnlinksAreGone /\ PromotesOffered /\ AnswersStand
    BY <1>1 DEF UploadsAreFresh, UnlinksAreGone, PromotesOffered, AnswersStand, Uploading
  <1>. QED  BY <1>2, <1>3 DEF MediaInv

-----------------------------------------------------------------------------
(* What one step may do to a request.                                      *)

LEMMA BusyIs ==
  ASSUME MediaTypeOK, NEW w \in Worker, NEW pc, NEW keys, work' = Busy(w, pc, keys)
  PROVE  /\ work'[w].pc = pc /\ work'[w].keys = keys /\ work'[w].done = {}
         /\ \A u \in Worker \ {w} : work'[u] = work[u]
  <1>1. work'[w] = [WorkIdle EXCEPT !.pc = pc, !.keys = keys]
    BY DEF Busy, MediaTypeOK
  <1>. QED  BY <1>1 DEF Busy, MediaTypeOK, WorkIdle

LEMMA DoneIs ==
  ASSUME MediaTypeOK, NEW w \in Worker, work' = Done(w)
  PROVE  /\ work'[w].pc = "idle"
         /\ \A u \in Worker \ {w} : work'[u] = work[u]
  BY DEF Done, MediaTypeOK, WorkIdle

(* The request a step is of, and where it then is.                         *)
Moves(w) ==
  \/ work'[w].pc \in {"idle", "heal", "elsewhere", "drop", "sell"}
  \/ work'[w] = work[w]
  \/ \E f \in File :
       \/ Upload(w, f) /\ work'[w].pc = "put" /\ work'[w].keys = {f}
       \/ Put(w, f) /\ work'[w].pc = "record" /\ work'[w].keys = {f}
       \/ RecordFails(w, f) /\ work'[w].pc = "unlink" /\ work'[w].keys = {f}
       \/ Drop(w, f) /\ HasRow(f) /\ work'[w].pc = "unlink" /\ work'[w].keys = {f}
       \/ Unlink(w, f) /\ work'[w].pc = "unlink_copy" /\ work'[w].keys = {f}
       \/ Fetch(w, f) /\ work'[w].pc = "answer" /\ work'[w].keys = {f}
          /\ work'[w].done = (IF media[f] = "PUBLICO" THEN {f} ELSE {})
       \/ Copy(w, f) /\ work'[w].pc = "copy"
          /\ work'[w].todo = work[w].todo \ {f} /\ work'[w].done = work[w].done \cup {f}
       \/ CopyFails(w, f) /\ work'[w].pc = "copy"
          /\ work'[w].todo = work[w].todo \ {f} /\ work'[w].done = work[w].done
  \/ work'[w].pc = "find" /\ work'[w].keys \subseteq offered' /\ work'[w].done = {}
  \/ Find(w) /\ work'[w].pc = "copy" /\ work'[w].done = work[w].done
     /\ work'[w].todo = {f \in work[w].keys : media[f] = "PRIVADO"}

LEMMA OfFileMoves ==
  ASSUME MediaTypeOK, MediaInv, NEW w \in Worker, NEW f \in File, OfFile(w, f)
  PROVE  Moves(w) /\ \A u \in Worker \ {w} : work'[u] = work[u]
  <1>1. CASE Upload(w, f)
    BY <1>1, BusyIs DEF Upload, Moves
  <1>2. CASE Put(w, f)
    BY <1>2, BusyIs DEF Put, Moves
  <1>3. CASE Record(w, f) \/ Refuse(w, f) \/ UnlinkCopy(w, f)
    <2>1. work' = Done(w)
      BY <1>3 DEF Record, Refuse, UnlinkCopy
    <2>. QED  BY <2>1, DoneIs DEF Moves
  <1>4. CASE RecordFails(w, f)
    <2>1. CASE work' = Done(w)
      BY <2>1, DoneIs DEF Moves
    <2>2. CASE work' = Busy(w, "unlink", {f})
      <3>1. /\ work'[w].pc = "unlink" /\ work'[w].keys = {f}
            /\ \A u \in Worker \ {w} : work'[u] = work[u]
        BY <2>2, BusyIs
      <3>. QED  BY <1>4, <3>1 DEF Moves
    <2>. QED  BY <1>4, <2>1, <2>2 DEF RecordFails
  <1>5. CASE Copy(w, f)
    <2>1. /\ work'[w].pc = "copy"
          /\ work'[w].todo = work[w].todo \ {f} /\ work'[w].done = work[w].done \cup {f}
          /\ \A u \in Worker \ {w} : work'[u] = work[u]
      BY <1>5 DEF Copy, MediaTypeOK, WorkType
    <2>. QED  BY <1>5, <2>1 DEF Moves
  <1>6. CASE CopyFails(w, f)
    <2>1. /\ work'[w].pc = "copy"
          /\ work'[w].todo = work[w].todo \ {f} /\ work'[w].done = work[w].done
          /\ \A u \in Worker \ {w} : work'[u] = work[u]
      BY <1>6 DEF CopyFails, MediaTypeOK, WorkType
    <2>. QED  BY <1>6, <2>1 DEF Moves
  <1>7. CASE Fetch(w, f)
    <2>1. CASE work' = Busy(w, "heal", {f})
      BY <2>1, BusyIs DEF Moves
    <2>. DEFINE to == [WorkIdle EXCEPT !.pc = "answer", !.keys = {f},
                         !.done = IF media[f] = "PUBLICO" THEN {f} ELSE {}]
    <2>2. CASE work' = [work EXCEPT ![w] = to]
      <3>1. to.pc = "answer" /\ to.keys = {f}
            /\ to.done = (IF media[f] = "PUBLICO" THEN {f} ELSE {})
        BY DEF WorkIdle
      <3>2. work'[w] = to /\ \A u \in Worker \ {w} : work'[u] = work[u]
        BY <2>2 DEF MediaTypeOK
      <3>. QED  BY <1>7, <3>1, <3>2 DEF Moves
    <2>. QED  BY <1>7, <2>1, <2>2 DEF Fetch
  <1>8. CASE Keep(w, f)
    <2>1. work' = Busy(w, "heal", {f}) \/ work' = Done(w)
      BY <1>8 DEF Keep
    <2>2. work'[w].pc \in {"heal", "idle"} /\ \A u \in Worker \ {w} : work'[u] = work[u]
      BY <2>1, BusyIs, DoneIs
    <2>. QED  BY <2>2 DEF Moves
  <1>9. CASE Heal(w, f)
    <2>1. work' = Busy(w, "find", {f}) /\ LivePages(f) # {} /\ offered' = offered
      BY <1>9 DEF Heal, Healed
    <2>2. f \in offered
      BY <2>1 DEF LivePages, MediaInv, LivePagesOffer
    <2>3. /\ work'[w].pc = "find" /\ work'[w].keys \subseteq offered' /\ work'[w].done = {}
          /\ \A u \in Worker \ {w} : work'[u] = work[u]
      BY <2>1, <2>2, BusyIs
    <2>. QED  BY <2>3 DEF Moves
  <1>10. CASE Remove(w, f) \/ Elsewhere(w, f)
    <2>1. work' = Busy(w, "drop", {f}) \/ work' = Done(w)
      BY <1>10 DEF Remove, Elsewhere
    <2>2. work'[w].pc \in {"drop", "idle"} /\ \A u \in Worker \ {w} : work'[u] = work[u]
      BY <2>1, BusyIs, DoneIs
    <2>. QED  BY <2>2 DEF Moves
  <1>11. CASE Drop(w, f)
    <2>1. CASE work' = Done(w)
      BY <2>1, DoneIs DEF Moves
    <2>2. CASE work' = Busy(w, "unlink", {f}) /\ HasRow(f)
      <3>1. /\ work'[w].pc = "unlink" /\ work'[w].keys = {f}
            /\ \A u \in Worker \ {w} : work'[u] = work[u]
        BY <2>2, BusyIs
      <3>. QED  BY <1>11, <2>2, <3>1 DEF Moves
    <2>. QED  BY <1>11, <2>1, <2>2 DEF Drop
  <1>12. CASE Unlink(w, f)
    <2>1. work' = Busy(w, "unlink_copy", {f})
      BY <1>12 DEF Unlink
    <2>2. /\ work'[w].pc = "unlink_copy" /\ work'[w].keys = {f}
          /\ \A u \in Worker \ {w} : work'[u] = work[u]
      BY <2>1, BusyIs
    <2>. QED  BY <1>12, <2>2 DEF Moves
  <1>. QED  BY <1>1, <1>2, <1>3, <1>4, <1>5, <1>6, <1>7, <1>8, <1>9, <1>10, <1>11, <1>12
            DEF OfFile

LEMMA OfPageMoves ==
  ASSUME MediaTypeOK, MediaInv, NEW w \in Worker, NEW p \in Page, OfPage(w, p)
  PROVE  Moves(w) /\ \A u \in Worker \ {w} : work'[u] = work[u]
  <1>1. ASSUME NEW live \in BOOLEAN, NEW files \in Picked \cup {page[p].files},
               Edit(w, p, live, files)
        PROVE  Moves(w) /\ \A u \in Worker \ {w} : work'[u] = work[u]
    <2>1. CASE work' = work
      BY <2>1 DEF Moves
    <2>2. CASE work' = Busy(w, "find", files) /\ live
      <3>1. /\ work'[w].pc = "find" /\ work'[w].keys = files /\ work'[w].done = {}
            /\ \A u \in Worker \ {w} : work'[u] = work[u]
        BY <2>2, BusyIs
      <3>2. files \subseteq offered'
        BY <1>1, <2>2 DEF Edit, Write
      <3>. QED  BY <3>1, <3>2 DEF Moves
    <2>. QED  BY <1>1, <2>1, <2>2 DEF Edit, Promotes
  <1>2. ASSUME NEW files \in Picked, SetCover(w, p, files)
        PROVE  Moves(w) /\ \A u \in Worker \ {w} : work'[u] = work[u]
    <2>1. CASE work' = work
      BY <2>1 DEF Moves
    <2>2. CASE work' = Busy(w, "find", files) /\ page[p].live
      <3>1. /\ work'[w].pc = "find" /\ work'[w].keys = files /\ work'[w].done = {}
            /\ \A u \in Worker \ {w} : work'[u] = work[u]
        BY <2>2, BusyIs
      <3>2. files \subseteq offered'
        BY <1>2, <2>2 DEF SetCover, Write
      <3>. QED  BY <3>1, <3>2 DEF Moves
    <2>. QED  BY <1>2, <2>1, <2>2 DEF SetCover, Promotes
  <1>3. CASE PublishPacote(w, p)
    <2>. DEFINE to == [WorkIdle EXCEPT !.pc = "find", !.keys = page[p].files, !.sell = {p}]
    <2>1. to.pc = "find" /\ to.keys = page[p].files /\ to.done = {}
      BY DEF WorkIdle
    <2>2. work'[w] = to /\ \A u \in Worker \ {w} : work'[u] = work[u]
      BY <1>3 DEF PublishPacote, MediaTypeOK
    <2>. QED  BY <1>3, <2>1, <2>2 DEF PublishPacote, Moves
  <1>4. CASE PutPageOnSale(w, p)
    BY <1>4, DoneIs DEF PutPageOnSale, Moves
  <1>5. CASE RemoveAdImage(w, p)
    <2>1. work' = work \/ work' = Busy(w, "elsewhere", page[p].files)
      BY <1>5 DEF RemoveAdImage
    <2>. QED  BY <2>1, BusyIs DEF Moves
  <1>. QED  BY <1>1, <1>2, <1>3, <1>4, <1>5 DEF OfPage

LEMMA SweepMoves ==
  ASSUME MediaTypeOK, MediaInv, NEW w \in Worker,
         Find(w) \/ Flag(w) \/ SweepPublished(w) \/ Crash(w)
  PROVE  Moves(w) /\ \A u \in Worker \ {w} : work'[u] = work[u]
  <1>1. CASE Find(w)
    <2>1. /\ work'[w].pc = "copy" /\ work'[w].done = work[w].done
          /\ work'[w].todo = {f \in work[w].keys : media[f] = "PRIVADO"}
          /\ \A u \in Worker \ {w} : work'[u] = work[u]
      BY <1>1 DEF Find, MediaTypeOK, WorkType
    <2>. QED  BY <1>1, <2>1 DEF Moves
  <1>2. CASE Flag(w)
    <2>1. CASE work' = Done(w)
      BY <2>1, DoneIs DEF Moves
    <2>2. CASE work' = [work EXCEPT ![w].pc = "sell", ![w].done = {}]
      BY <2>2 DEF Moves, MediaTypeOK, WorkType
    <2>. QED  BY <1>2, <2>1, <2>2 DEF Flag
  <1>3. CASE SweepPublished(w)
    <2>1. Swept \subseteq offered
      BY DEF Swept, LivePages, MediaInv, LivePagesOffer
    <2>. QED  BY <1>3, <2>1, BusyIs DEF SweepPublished, Moves
  <1>4. CASE Crash(w)
    BY <1>4, DoneIs DEF Crash, Moves
  <1>. QED  BY <1>1, <1>2, <1>3, <1>4

LEMMA AllMove ==
  ASSUME MediaTypeOK, MediaInv, [MediaNext]_mvars, NEW w \in Worker
  PROVE  Moves(w)
  <1>1. CASE UNCHANGED work
    BY <1>1 DEF Moves
  <1>2. ASSUME NEW u \in Worker, Moves(u), \A x \in Worker \ {u} : work'[x] = work[x]
        PROVE  Moves(w)
    BY <1>2 DEF Moves
  <1>. QED  BY <1>1, <1>2, OfFileMoves, OfPageMoves, SweepMoves
            DEF MediaNext, mvars, UnpublishPage, GrowOld, Expire

-----------------------------------------------------------------------------
(* What one step may do to a file.                                         *)

LEMMA FileFrames ==
  ASSUME NEW w \in Worker, NEW f \in File, OfFile(w, f)
  PROVE  /\ Record(w, f) \/ Drop(w, f) \/ media' = media
         /\ Put(w, f) \/ Unlink(w, f) \/ stored' = stored
         /\ Copy(w, f) \/ UnlinkCopy(w, f) \/ copied' = copied
         /\ Keep(w, f) \/ UnlinkCopy(w, f) \/ cache' = cache
         /\ page' = page /\ offered' = offered /\ known \subseteq known'
  BY DEF OfFile, Upload, Put, Record, RecordFails, Copy, CopyFails, Fetch, Keep, Heal,
         Refuse, Remove, Elsewhere, Drop, Unlink, UnlinkCopy

LEMMA PageFrames ==
  ASSUME NEW w \in Worker, NEW p \in Page, OfPage(w, p)
  PROVE  /\ UNCHANGED <<media, stored, copied, cache, known>>
         /\ offered \subseteq offered'
         /\ \/ RemoveAdImage(w, p) \/ page' = page
            \/ \E live, files : Write(p, live, files)
  <1>1. ASSUME NEW live \in BOOLEAN, NEW files \in Picked \cup {page[p].files},
               Edit(w, p, live, files)
        PROVE  /\ UNCHANGED <<media, stored, copied, cache, known>>
               /\ Write(p, live, files)
    BY <1>1 DEF Edit
  <1>2. ASSUME NEW files \in Picked, SetCover(w, p, files)
        PROVE  /\ UNCHANGED <<media, stored, copied, cache, known>>
               /\ Write(p, page[p].live, files)
    BY <1>2 DEF SetCover
  <1>3. CASE PublishPacote(w, p) \/ RemoveAdImage(w, p)
    BY <1>3 DEF PublishPacote, RemoveAdImage
  <1>4. CASE PutPageOnSale(w, p)
    BY <1>4 DEF PutPageOnSale, Write
  <1>5. ASSUME NEW live, NEW files, Write(p, live, files)
        PROVE  offered \subseteq offered'
    BY <1>5 DEF Write
  <1>. QED  BY <1>1, <1>2, <1>3, <1>4, <1>5 DEF OfPage

LEMMA SweepFrames ==
  ASSUME NEW w \in Worker, Find(w) \/ Flag(w) \/ SweepPublished(w) \/ Crash(w)
  PROVE  /\ UNCHANGED <<stored, copied, page, known, offered>>
         /\ Flag(w) \/ UNCHANGED <<media, cache>>
  BY DEF Find, Flag, SweepPublished, Crash

LEMMA AloneFrames ==
  ASSUME \/ \E p \in Page : UnpublishPage(p) \/ GrowOld(p)
         \/ \E f \in File : Expire(f)
  PROVE  /\ UNCHANGED <<media, stored, copied, known>>
         /\ offered \subseteq offered'
         /\ cache' = cache \/ \E f \in File : Expire(f)
         /\ \/ page' = page \/ \E p \in Page : GrowOld(p)
            \/ \E p \in Page : \E live, files : Write(p, live, files)
  BY DEF UnpublishPage, Write, GrowOld, Expire

LEMMA RowMoves ==
  ASSUME MediaTypeOK, [MediaNext]_mvars, NEW f \in File
  PROVE  \/ media'[f] = media[f]
         \/ media'[f] = "none"
         \/ media'[f] = "PRIVADO" /\ \E w \in Worker : Record(w, f)
         \/ media'[f] = "PUBLICO" /\ media[f] # "none"
            /\ \E w \in Worker : work[w].pc = "copy" /\ f \in work[w].done
  <1>1. CASE UNCHANGED media
    BY <1>1
  <1>2. ASSUME NEW w \in Worker, NEW g \in File, Record(w, g)
        PROVE  media'[f] = media[f] \/ (media'[f] = "PRIVADO" /\ Record(w, f))
    <2>1. media' = [media EXCEPT ![g] = "PRIVADO"]
      BY <1>2 DEF Record
    <2>. QED  BY <1>2, <2>1 DEF MediaTypeOK
  <1>3. ASSUME NEW w \in Worker, NEW g \in File, Drop(w, g)
        PROVE  media'[f] = media[f] \/ media'[f] = "none"
    BY <1>3 DEF Drop, MediaTypeOK
  <1>4. ASSUME NEW w \in Worker, Flag(w)
        PROVE  \/ media'[f] = media[f]
               \/ media'[f] = "PUBLICO" /\ media[f] # "none"
                  /\ work[w].pc = "copy" /\ f \in work[w].done
    BY <1>4 DEF Flag, HasRow, MediaTypeOK
  <1>. QED  BY <1>1, <1>2, <1>3, <1>4,
               FileFrames, PageFrames, SweepFrames, AloneFrames DEF MediaNext, mvars

LEMMA ByteMoves ==
  ASSUME MediaTypeOK, [MediaNext]_mvars, NEW f \in File
  PROVE  /\ f \in stored => f \in stored' \/ \E w \in Worker : Unlink(w, f)
         /\ f \in copied' => f \in copied \/ \E w \in Worker : Copy(w, f)
         /\ f \in copied => f \in copied' \/ \E w \in Worker : UnlinkCopy(w, f)
  <1>1. CASE UNCHANGED <<stored, copied>>
    BY <1>1
  <1>2. ASSUME NEW w \in Worker, NEW g \in File, Put(w, g)
        PROVE  stored \subseteq stored' /\ copied' = copied
    BY <1>2 DEF Put
  <1>3. ASSUME NEW w \in Worker, NEW g \in File, Unlink(w, g)
        PROVE  (f \in stored => f \in stored' \/ g = f) /\ copied' = copied
    BY <1>3 DEF Unlink
  <1>4. ASSUME NEW w \in Worker, NEW g \in File, Copy(w, g)
        PROVE  stored' = stored /\ copied' = copied \cup {g}
    BY <1>4 DEF Copy
  <1>5. ASSUME NEW w \in Worker, NEW g \in File, UnlinkCopy(w, g)
        PROVE  stored' = stored /\ copied' \in {copied, copied \ {g}}
    BY <1>5 DEF UnlinkCopy
  <1>. QED  BY <1>1, <1>2, <1>3, <1>4, <1>5,
               FileFrames, PageFrames, SweepFrames, AloneFrames DEF MediaNext, mvars

LEMMA HistoryMoves ==
  ASSUME MediaTypeOK, [MediaNext]_mvars
  PROVE  known \subseteq known' /\ offered \subseteq offered'
  BY FileFrames, PageFrames, SweepFrames, AloneFrames DEF MediaNext, mvars

LEMMA CacheMoves ==
  ASSUME MediaTypeOK, [MediaNext]_mvars, NEW f \in File, cache'[f] = "PUBLICO"
  PROVE  \/ cache[f] = "PUBLICO"
         \/ \E w \in Worker : /\ work[w].pc = "answer" /\ work[w].keys = {f}
                             /\ work[w].done # {}
  <1>1. CASE UNCHANGED cache
    BY <1>1
  <1>2. ASSUME NEW w \in Worker, NEW g \in File, Keep(w, g)
        PROVE  \/ cache[f] = "PUBLICO"
               \/ work[w].pc = "answer" /\ work[w].keys = {f} /\ work[w].done # {}
    <2>1. CASE f = g
      BY <1>2, <2>1 DEF Keep, MediaTypeOK
    <2>2. CASE f # g
      BY <1>2, <2>2 DEF Keep, MediaTypeOK
    <2>. QED  BY <2>1, <2>2
  <1>3. ASSUME NEW w \in Worker, NEW g \in File, UnlinkCopy(w, g)
        PROVE  cache[f] = "PUBLICO"
    BY <1>3 DEF UnlinkCopy, MediaTypeOK
  <1>4. ASSUME NEW w \in Worker, Flag(w)
        PROVE  cache[f] = "PUBLICO"
    BY <1>4 DEF Flag, MediaTypeOK
  <1>5. ASSUME NEW g \in File, Expire(g)
        PROVE  cache[f] = "PUBLICO"
    BY <1>5 DEF Expire, MediaTypeOK
  <1>. QED  BY <1>1, <1>2, <1>3, <1>4, <1>5,
               FileFrames, PageFrames, SweepFrames, AloneFrames DEF MediaNext, mvars

LEMMA UploadMoves ==
  ASSUME MediaTypeOK, MediaInv, [MediaNext]_mvars, NEW w \in Worker, NEW f \in File,
         Uploading(w, f)'
  PROVE  Uploading(w, f) \/ Upload(w, f)
  BY AllMove DEF Moves, Uploading, Put

(* What is over is over.                                                   *)
LEMMA PastStays ==
  ASSUME MediaTypeOK, MediaInv, [MediaNext]_mvars, NEW f \in File, Past(f)
  PROVE  Past(f)'
  BY UploadMoves, HistoryMoves DEF Past, Upload

LEMMA GoneStays ==
  ASSUME MediaTypeOK, MediaInv, [MediaNext]_mvars, NEW f \in File, Past(f)
  PROVE  /\ media[f] = "none" => media'[f] = "none"
         /\ media[f] \in {"PUBLICO", "none"} => media'[f] \in {"PUBLICO", "none"}
  <1>1. ASSUME NEW w \in Worker, Record(w, f)
        PROVE  FALSE
    BY <1>1 DEF Record, Past, Uploading
  <1>. QED  BY <1>1, RowMoves

-----------------------------------------------------------------------------
(* Each part of the invariant is kept.                                     *)

LEMMA UploadsStep ==
  MediaTypeOK /\ MediaInv /\ [MediaNext]_mvars => UploadsAreFresh'
  <1>. SUFFICES ASSUME MediaTypeOK, MediaInv, [MediaNext]_mvars,
                       NEW w \in Worker, NEW f \in File, Uploading(w, f)'
                PROVE  /\ f \in known' /\ media'[f] = "none"
                       /\ \A u \in Worker \ {w} : ~Uploading(u, f)'
                       /\ work'[w].pc = "record" => f \in stored'
    BY DEF UploadsAreFresh
  <1>1. CASE Upload(w, f)
    <2>1. media' = media /\ f \notin known /\ f \in known'
      BY <1>1 DEF Upload
    <2>2. \A u \in Worker : ~Uploading(u, f)
      BY <2>1 DEF MediaInv, UploadsAreFresh
    <2>3. media[f] = "none"
      BY <2>1 DEF MediaInv, RowsArePast, Past, HasRow
    <2>4. \A u \in Worker \ {w} : work'[u] = work[u] /\ work'[w].pc = "put"
      BY <1>1, BusyIs DEF Upload
    <2>5. work'[w].pc = "put"
      BY <1>1, BusyIs DEF Upload
    <2>. QED  BY <2>1, <2>2, <2>3, <2>4, <2>5 DEF Uploading
  <1>2. CASE ~Upload(w, f)
    <2>1. Uploading(w, f)
      BY <1>2, UploadMoves
    <2>2. /\ f \in known /\ media[f] = "none" /\ \A u \in Worker \ {w} : ~Uploading(u, f)
          /\ work[w].pc = "record" => f \in stored
      BY <2>1 DEF MediaInv, UploadsAreFresh
    <2>3. ASSUME NEW u \in Worker, Upload(u, f)
          PROVE  FALSE
      BY <2>2, <2>3 DEF Upload
    <2>4. \A u \in Worker \ {w} : ~Uploading(u, f)'
      BY <2>2, <2>3, UploadMoves
    <2>5. media'[f] = "none"
      <3>1. ASSUME NEW u \in Worker, Record(u, f)
            PROVE  FALSE
        <4>1. u = w
          BY <3>1, <2>2 DEF Record, Uploading
        <4>2. work'[w].pc = "idle"
          BY <3>1, <4>1, DoneIs DEF Record
        <4>. QED  BY <4>2 DEF Uploading
      <3>. QED  BY <2>2, <3>1, RowMoves
    <2>6. work'[w].pc = "record" => f \in stored'
      <3>1. CASE Put(w, f)
        BY <3>1 DEF Put
      <3>2. CASE work[w].pc = "record"
        <4>1. ASSUME NEW u \in Worker, Unlink(u, f)
              PROVE  FALSE
          <5>1. Past(f)
            BY <4>1 DEF Unlink, MediaInv, UnlinksAreGone
          <5>. QED  BY <5>1, <2>1 DEF Past
        <4>. QED  BY <3>2, <2>2, <4>1, ByteMoves
      <3>3. work'[w].pc = "record" => work[w].pc = "record" \/ Put(w, f)
        BY <2>1, AllMove DEF Moves, Uploading, Put
      <3>. QED  BY <3>1, <3>2, <3>3
    <2>. QED  BY <2>2, <2>4, <2>5, <2>6, HistoryMoves
  <1>. QED  BY <1>1, <1>2

LEMMA RowsPastStep ==
  MediaTypeOK /\ MediaInv /\ [MediaNext]_mvars => RowsArePast'
  <1>. SUFFICES ASSUME MediaTypeOK, MediaInv, [MediaNext]_mvars, NEW f \in File
                PROVE  /\ HasRow(f)' => Past(f)'
                       /\ cache'[f] = "PUBLICO" =>
                            Past(f)' /\ media'[f] \in {"PUBLICO", "none"}
    BY DEF RowsArePast
  <1>1. HasRow(f)' => Past(f)'
    <2>1. CASE HasRow(f)
      BY <2>1, PastStays DEF MediaInv, RowsArePast
    <2>2. ASSUME NEW w \in Worker, Record(w, f)
          PROVE  Past(f)'
      <3>1. /\ f \in known /\ \A u \in Worker \ {w} : ~Uploading(u, f)
        BY <2>2 DEF Record, Uploading, MediaInv, UploadsAreFresh
      <3>2. work'[w].pc = "idle" /\ \A u \in Worker \ {w} : work'[u] = work[u]
        BY <2>2, DoneIs DEF Record
      <3>. QED  BY <3>1, <3>2, HistoryMoves DEF Past, Uploading
    <2>. QED  BY <2>1, <2>2, RowMoves DEF HasRow
  <1>2. ASSUME cache'[f] = "PUBLICO"
        PROVE  Past(f) /\ media[f] \in {"PUBLICO", "none"}
    <2>1. CASE cache[f] = "PUBLICO"
      BY <2>1 DEF MediaInv, RowsArePast
    <2>2. ASSUME NEW w \in Worker, work[w].pc = "answer", work[w].keys = {f},
                 work[w].done # {}
          PROVE  Past(f) /\ media[f] \in {"PUBLICO", "none"}
      <3>1. f \in work[w].done
        BY <2>2 DEF MediaInv, AnswersStand
      <3>. QED  BY <2>2, <3>1 DEF MediaInv, AnswersStand
    <2>. QED  BY <1>2, <2>1, <2>2, CacheMoves
  <1>. QED  BY <1>1, <1>2, PastStays, GoneStays

LEMMA UnlinksStep ==
  MediaTypeOK /\ MediaInv /\ [MediaNext]_mvars => UnlinksAreGone'
  <1>. SUFFICES ASSUME MediaTypeOK, MediaInv, [MediaNext]_mvars,
                       NEW w \in Worker, NEW f \in File,
                       work'[w].pc \in {"unlink", "unlink_copy"}, f \in work'[w].keys
                PROVE  Past(f)' /\ media'[f] = "none"
    BY DEF UnlinksAreGone
  <1>1. CASE work[w].pc \in {"unlink", "unlink_copy"} /\ f \in work[w].keys
    BY <1>1, PastStays, GoneStays DEF MediaInv, UnlinksAreGone
  <1>2. CASE RecordFails(w, f)
    <2>1. /\ f \in known /\ media[f] = "none" /\ \A u \in Worker \ {w} : ~Uploading(u, f)
      BY <1>2 DEF RecordFails, Uploading, MediaInv, UploadsAreFresh
    <2>2. work'[w].pc = "unlink" \/ work'[w].pc = "idle"
      BY <1>2, BusyIs, DoneIs DEF RecordFails
    <2>3. \A u \in Worker \ {w} : work'[u] = work[u]
      BY <1>2, BusyIs, DoneIs DEF RecordFails
    <2>4. media' = media
      BY <1>2 DEF RecordFails
    <2>. QED  BY <2>1, <2>2, <2>3, <2>4, HistoryMoves DEF Past, Uploading
  <1>3. CASE Drop(w, f) /\ HasRow(f)
    BY <1>3, PastStays DEF MediaInv, RowsArePast, Drop, MediaTypeOK
  <1>4. \/ work[w].pc \in {"unlink", "unlink_copy"} /\ f \in work[w].keys
        \/ RecordFails(w, f)
        \/ Drop(w, f) /\ HasRow(f)
    BY AllMove DEF Moves, Unlink
  <1>. QED  BY <1>1, <1>2, <1>3, <1>4

LEMMA PromotesStep ==
  MediaTypeOK /\ MediaInv /\ [MediaNext]_mvars => PromotesOffered'
  <1>. SUFFICES ASSUME MediaTypeOK, MediaInv, [MediaNext]_mvars, NEW w \in Worker
                PROVE  /\ work'[w].pc = "find" =>
                            work'[w].keys \subseteq offered' /\ work'[w].done = {}
                       /\ work'[w].pc = "copy" =>
                            /\ \A f \in work'[w].todo \cup work'[w].done :
                                 Past(f)' /\ f \in offered'
                            /\ \A f \in work'[w].done : f \in copied' \/ media'[f] = "none"
    BY DEF PromotesOffered
  <1>0. work[w] \in WorkType
    BY DEF MediaTypeOK
  <1>1. ASSUME work'[w].pc = "find"
        PROVE  work'[w].keys \subseteq offered' /\ work'[w].done = {}
    <2>1. \/ work'[w] = work[w]
          \/ work'[w].keys \subseteq offered' /\ work'[w].done = {}
      BY <1>1, AllMove DEF Moves
    <2>. QED  BY <1>1, <2>1, HistoryMoves DEF MediaInv, PromotesOffered
  <1>2. ASSUME work'[w].pc = "copy", NEW f \in work'[w].todo \cup work'[w].done
        PROVE  f \in File /\ Past(f) /\ f \in offered
    <2>1. CASE Find(w) /\ work'[w].done = work[w].done
               /\ work'[w].todo = {x \in work[w].keys : media[x] = "PRIVADO"}
      <3>1. work[w].done = {} /\ work[w].keys \subseteq offered
        BY <2>1 DEF Find, MediaInv, PromotesOffered
      <3>2. f \in work[w].keys /\ media[f] = "PRIVADO"
        BY <2>1, <3>1, <1>2
      <3>3. f \in File /\ f \in offered
        BY <3>1, <3>2, <1>0 DEF WorkType
      <3>. QED  BY <3>2, <3>3 DEF MediaInv, RowsArePast, HasRow
    <2>2. CASE work[w].pc = "copy" /\ f \in work[w].todo \cup work[w].done
      BY <2>2, <1>0 DEF MediaInv, PromotesOffered, WorkType
    <2>3. \/ Find(w) /\ work'[w].done = work[w].done
             /\ work'[w].todo = {x \in work[w].keys : media[x] = "PRIVADO"}
          \/ work[w].pc = "copy" /\ f \in work[w].todo \cup work[w].done
      BY <1>2, AllMove DEF Moves, Copy, CopyFails
    <2>. QED  BY <2>1, <2>2, <2>3
  <1>3. ASSUME work'[w].pc = "copy", NEW f \in work'[w].done
        PROVE  f \in copied' \/ media'[f] = "none"
    <2>0. f \in File /\ Past(f)
      BY <1>2, <1>3
    <2>1. CASE Copy(w, f)
      BY <2>1 DEF Copy
    <2>2. CASE work[w].pc = "copy" /\ f \in work[w].done
      <3>1. f \in copied \/ media[f] = "none"
        BY <2>2 DEF MediaInv, PromotesOffered
      <3>2. ASSUME NEW u \in Worker, UnlinkCopy(u, f)
            PROVE  media[f] = "none"
        BY <2>0, <3>2 DEF UnlinkCopy, MediaInv, UnlinksAreGone
      <3>. QED  BY <2>0, <3>1, <3>2, ByteMoves, GoneStays
    <2>3. Copy(w, f) \/ (work[w].pc = "copy" /\ f \in work[w].done)
      <3>1. CASE Find(w) /\ work'[w].done = work[w].done
        BY <3>1, <1>3 DEF Find, MediaInv, PromotesOffered
      <3>. QED  BY <3>1, <1>3, AllMove DEF Moves, Copy, CopyFails
    <2>. QED  BY <2>1, <2>2, <2>3
  <1>. QED  BY <1>1, <1>2, <1>3, PastStays, HistoryMoves

LEMMA AnswersStep ==
  MediaTypeOK /\ MediaInv /\ [MediaNext]_mvars => AnswersStand'
  <1>. SUFFICES ASSUME MediaTypeOK, MediaInv, [MediaNext]_mvars, NEW w \in Worker,
                       work'[w].pc = "answer"
                PROVE  /\ work'[w].done \subseteq work'[w].keys
                       /\ \A f \in work'[w].done :
                            Past(f)' /\ media'[f] \in {"PUBLICO", "none"}
    BY DEF AnswersStand
  <1>1. CASE work'[w] = work[w]
    <2>1. /\ work[w].done \subseteq File
          /\ work[w].done \subseteq work[w].keys
          /\ \A f \in work[w].done : Past(f) /\ media[f] \in {"PUBLICO", "none"}
      BY <1>1 DEF MediaInv, AnswersStand, MediaTypeOK, WorkType
    <2>. QED  BY <1>1, <2>1, PastStays, GoneStays
  <1>2. ASSUME NEW f \in File, Fetch(w, f), work'[w].keys = {f},
               work'[w].done = IF media[f] = "PUBLICO" THEN {f} ELSE {}
        PROVE  /\ work'[w].done \subseteq work'[w].keys
               /\ \A x \in work'[w].done :
                    Past(x)' /\ media'[x] \in {"PUBLICO", "none"}
    <2>1. media[f] = "PUBLICO" => Past(f)
      BY DEF MediaInv, RowsArePast, HasRow
    <2>. QED  BY <1>2, <2>1, PastStays, GoneStays
  <1>. QED  BY <1>1, <1>2, AllMove DEF Moves

LEMMA LivePagesStep ==
  MediaTypeOK /\ MediaInv /\ [MediaNext]_mvars => LivePagesOffer'
  <1>. SUFFICES ASSUME MediaTypeOK, MediaInv, [MediaNext]_mvars, NEW p \in Page,
                       page'[p].live
                PROVE  page'[p].files \subseteq offered'
    BY DEF LivePagesOffer
  <1>1. CASE page' = page
    BY <1>1, HistoryMoves DEF MediaInv, LivePagesOffer
  <1>2. ASSUME NEW x \in Page, NEW live, NEW files, Write(x, live, files)
        PROVE  page'[p].files \subseteq offered'
    <2>1. CASE p = x
      BY <1>2, <2>1 DEF Write, MediaTypeOK
    <2>2. CASE p # x
      BY <1>2, <2>2, HistoryMoves DEF Write, MediaTypeOK, MediaInv, LivePagesOffer
    <2>. QED  BY <2>1, <2>2
  <1>3. ASSUME NEW w \in Worker, NEW x \in Page, RemoveAdImage(w, x)
        PROVE  page'[p].files \subseteq offered'
    <2>1. page'[p].files \subseteq page[p].files /\ page'[p].live = page[p].live
      BY <1>3 DEF RemoveAdImage, MediaTypeOK
    <2>. QED  BY <2>1, HistoryMoves DEF MediaInv, LivePagesOffer
  <1>4. ASSUME NEW x \in Page, GrowOld(x)
        PROVE  page'[p].files \subseteq offered'
    <2>1. page'[p].files = page[p].files /\ page'[p].live = page[p].live
      BY <1>4 DEF GrowOld, MediaTypeOK
    <2>. QED  BY <2>1, HistoryMoves DEF MediaInv, LivePagesOffer
  <1>. QED  BY <1>1, <1>2, <1>3, <1>4,
               FileFrames, PageFrames, SweepFrames, AloneFrames DEF MediaNext, mvars

LEMMA BytesStep ==
  MediaTypeOK /\ MediaInv /\ [MediaNext]_mvars => RowsHaveBytes'
  <1>. SUFFICES ASSUME MediaTypeOK, MediaInv, [MediaNext]_mvars, NEW f \in File,
                       media'[f] # "none"
                PROVE  f \in stored'
    BY DEF RowsHaveBytes, Rows, HasRow
  <1>1. ASSUME NEW w \in Worker, Unlink(w, f)
        PROVE  Past(f) /\ media[f] = "none"
    BY <1>1 DEF Unlink, MediaInv, UnlinksAreGone
  <1>2. CASE media[f] # "none"
    <2>1. f \in stored
      BY <1>2 DEF MediaInv, RowsHaveBytes, Rows, HasRow
    <2>. QED  BY <2>1, <1>1, <1>2, ByteMoves
  <1>3. ASSUME NEW w \in Worker, Record(w, f)
        PROVE  f \in stored'
    <2>1. Uploading(w, f) /\ work[w].pc = "record"
      BY <1>3 DEF Record, Uploading
    <2>2. f \in stored
      BY <2>1 DEF MediaInv, UploadsAreFresh
    <2>. QED  BY <2>1, <2>2, <1>1, ByteMoves DEF Past
  <1>. QED  BY <1>2, <1>3, RowMoves

LEMMA FlagStep ==
  MediaTypeOK /\ MediaInv /\ [MediaNext]_mvars => FlagMeansCopied'
  <1>. SUFFICES ASSUME MediaTypeOK, MediaInv, [MediaNext]_mvars, NEW f \in File,
                       media'[f] = "PUBLICO"
                PROVE  f \in copied'
    BY DEF FlagMeansCopied
  <1>1. f \in copied /\ media[f] # "none"
    <2>1. CASE media[f] = "PUBLICO"
      BY <2>1 DEF MediaInv, FlagMeansCopied
    <2>2. ASSUME NEW w \in Worker, work[w].pc = "copy", f \in work[w].done, media[f] # "none"
          PROVE  f \in copied
      BY <2>2 DEF MediaInv, PromotesOffered
    <2>. QED  BY <2>1, <2>2, RowMoves
  <1>2. ASSUME NEW w \in Worker, UnlinkCopy(w, f)
        PROVE  FALSE
    BY <1>1, <1>2 DEF UnlinkCopy, MediaInv, UnlinksAreGone
  <1>. QED  BY <1>1, <1>2, ByteMoves

LEMMA OfferedStep ==
  MediaTypeOK /\ MediaInv /\ [MediaNext]_mvars => PublicWasOffered'
  <1>. SUFFICES ASSUME MediaTypeOK, MediaInv, [MediaNext]_mvars, NEW f \in File,
                       f \in copied' \/ media'[f] = "PUBLICO"
                PROVE  f \in offered
    BY HistoryMoves DEF PublicWasOffered
  <1>1. CASE f \in copied \/ media[f] = "PUBLICO"
    BY <1>1 DEF MediaInv, PublicWasOffered
  <1>2. ASSUME NEW w \in Worker, Copy(w, f)
        PROVE  f \in offered
    BY <1>2 DEF Copy, MediaInv, PromotesOffered
  <1>3. ASSUME NEW w \in Worker, work[w].pc = "copy", f \in work[w].done
        PROVE  f \in offered
    BY <1>3 DEF MediaInv, PromotesOffered
  <1>. QED  BY <1>1, <1>2, <1>3, RowMoves, ByteMoves

LEMMA MediaInvAlways == MediaSpec => [](MediaTypeOK /\ MediaInv)
  <1>1. MediaTypeOK /\ MediaInv /\ [MediaNext]_mvars => MediaInv'
    BY BytesStep, FlagStep, OfferedStep, UploadsStep, RowsPastStep, UnlinksStep,
       PromotesStep, AnswersStep, LivePagesStep DEF MediaInv
  <1>. QED  BY <1>1, MediaInvInit, MediaTypes, PTL DEF MediaSpec

-----------------------------------------------------------------------------
(* A row always has its bytes in the private bucket, whatever fails and    *)
(* whoever else is deleting: media.service.ts writes the bytes before the  *)
(* row and deletes the row before the bytes.                               *)
THEOREM BytesOutliveRows == MediaSpec => []RowsHaveBytes
  <1>1. MediaInv => RowsHaveBytes
    BY DEF MediaInv
  <1>. QED  BY <1>1, MediaInvAlways, PTL

(* Nothing gets into the public bucket, or is flagged public, that no live *)
(* page and no pacote being put on sale had offered.                       *)
THEOREM OnlyTheOfferedIsPublic == MediaSpec => []PublicWasOffered
  <1>1. MediaInv => PublicWasOffered
    BY DEF MediaInv
  <1>. QED  BY <1>1, MediaInvAlways, PTL

(* The flag is set only over a copy that is there, and the copy outlives   *)
(* the flag: one that failed is tried again.                               *)
THEOREM FlagsAreBacked == MediaSpec => []FlagMeansCopied
  <1>1. MediaInv => FlagMeansCopied
    BY DEF MediaInv
  <1>. QED  BY <1>1, MediaInvAlways, PTL

(* An answer kept as public for a day never becomes wrong, although it is  *)
(* kept after the row was read and the row may change in between.          *)
THEOREM KeptAnswersStand == MediaSpec => []KeptPublicIsTrue
  <1>1. MediaInv => KeptPublicIsTrue
    BY DEF MediaInv, RowsArePast, KeptPublicIsTrue
  <1>. QED  BY <1>1, MediaInvAlways, PTL
=============================================================================
