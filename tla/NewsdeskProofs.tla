--------------------------- MODULE NewsdeskProofs ---------------------------
(***************************************************************************)
(* What Newsroom promises for any number of articles, pacotes, requests    *)
(* and rounds of the scheduler, and ArticleEditor for any number of tabs,  *)
(* articles and versions typed.                                            *)
(***************************************************************************)
EXTENDS Newsroom, ArticleEditor, TLAPS

LEMMA StatusSets ==
  /\ Status = {"PUBLICADO", "AGENDADO", "RASCUNHO", "EM_REVISAO", "ARQUIVADO"}
  /\ Live \subseteq Reserved /\ "none" \notin Status
  BY DEF Status, Reserved, Drafting, Unsellable, Live

LEMMA TimeFacts ==
  /\ 0 \in Date /\ \A d \in Date : d \in Int /\ d >= 0
  /\ Slot \subseteq Date /\ Undated \notin Date /\ Undated \notin Slot
  <1>1. MaxTime \in Nat /\ Slot \subseteq 0..MaxTime
    BY NewsroomAssumption
  <1>. QED  BY <1>1 DEF Date, Undated

-----------------------------------------------------------------------------
(* The invariant.                                                          *)

(* What a round has read was due and a chief's.                            *)
RoundsAreDue ==
  \A t \in Round : \A e \in round[t] : e[1] \in cleared /\ e[2] <= now

RowOK(a) ==
  /\ row[a].status \in Reserved => a \in cleared
  /\ row[a].status \in Live => /\ row[a].published # Undated
                               /\ row[a].published <= now
                               /\ a \in shown

(* Every one of them was live once, and is closed unless it is gone.       *)
Whole(S) == \A a \in S : a \in shown /\ (Exists(a) => a \in closed)

(* A request that sells has shown what it has no more to publish.          *)
JobOK(j) ==
  /\ j.pc = "write" => j.kind \in {"submit", "reject", "publish"}
  /\ j.kind = "sell" /\ j.pc \in {"next", "put"} => j.members \ j.todo \subseteq shown
  /\ j.pc = "stripe" => Whole(j.members)
PackOK(k) ==
  /\ \A a \in Members(k) : Exists(a)
  /\ pack[k].status = "PUBLICADO" => Whole(pack[k].sold)

NewsInv ==
  /\ RoundsAreDue
  /\ \A a \in Article : RowOK(a)
  /\ \A r \in Request : JobOK(job[r])
  /\ \A k \in Pack : PackOK(k)

LEMMA NoRowTypes == NoRow \in RowType /\ NoRow.status = "none"
  BY DEF NoRow, RowType

LEMMA JobIdleTypes == JobIdle \in JobType /\ JobIdle.pc = "idle"
  BY DEF JobIdle, JobType

LEMMA NewsBegins == NewsInit => NewsTypeOK /\ NewsInv
  <1>. SUFFICES ASSUME NewsInit PROVE NewsTypeOK /\ NewsInv
    OBVIOUS
  <1>1. NoPack \in PackType /\ NoPack.status = "none" /\ NoPack.members = {}
    BY DEF NoPack, PackType
  <1>2. NewsTypeOK
    BY <1>1, TimeFacts, NoRowTypes, JobIdleTypes DEF NewsInit, NewsTypeOK
  <1>3. \A a \in Article : RowOK(a)
    BY NoRowTypes, StatusSets DEF NewsInit, RowOK, Reserved, Live
  <1>4. \A r \in Request : JobOK(job[r])
    BY JobIdleTypes DEF NewsInit, JobOK
  <1>5. \A k \in Pack : PackOK(k)
    BY <1>1 DEF NewsInit, PackOK, Members
  <1>6. RoundsAreDue
    BY DEF NewsInit, RoundsAreDue
  <1>. QED  BY <1>2, <1>3, <1>4, <1>5, <1>6 DEF NewsInv

-----------------------------------------------------------------------------
(* The histories only grow, the clock goes on, and what was shown is never *)
(* created again.                                                          *)
Grows ==
  /\ shown \subseteq shown' /\ closed \subseteq closed' /\ cleared \subseteq cleared'
  /\ shown' \subseteq Article /\ closed' \subseteq Article /\ cleared' \subseteq Article
  /\ now' \in Date /\ now <= now'
  /\ \A a \in shown : Exists(a)' => Exists(a)

LEMMA WholeStays ==
  ASSUME NewsTypeOK, Grows, NEW S, Whole(S)
  PROVE  \A a \in S : a \in shown' /\ (Exists(a)' => a \in closed')
  BY DEF Grows, Whole

LEMMA RowStays ==
  ASSUME NewsTypeOK, Grows, NEW a \in Article, RowOK(a),
         row'[a].status = row[a].status, row'[a].published = row[a].published
  PROVE  RowOK(a)'
  <1>1. now \in Int /\ now' \in Int
    BY TimeFacts DEF NewsTypeOK, Grows
  <1>2. row[a].status \in Live => row[a].published \in Int
    BY TimeFacts DEF NewsTypeOK, RowType, Date, Undated, RowOK
  <1>3. row[a].status \in Live => row[a].published <= now'
    BY <1>1, <1>2 DEF RowOK, Grows
  <1>. QED  BY <1>3 DEF RowOK, Grows

LEMMA JobStays ==
  ASSUME NewsTypeOK, Grows, NEW j, JobOK(j)
  PROVE  /\ j.pc = "write" => j.kind \in {"submit", "reject", "publish"}
         /\ j.kind = "sell" /\ j.pc \in {"next", "put"} => j.members \ j.todo \subseteq shown'
         /\ j.pc = "stripe" =>
              \A a \in j.members : a \in shown' /\ (Exists(a)' => a \in closed')
  BY WholeStays DEF JobOK, Grows

LEMMA JobsStay ==
  ASSUME NewsTypeOK, Grows, NewsInv, NEW R \in SUBSET Request,
         \A r \in Request \ R : job'[r] = job[r]
  PROVE  \A r \in Request \ R : JobOK(job[r])'
  <1>1. ASSUME NEW r \in Request \ R
        PROVE  JobOK(job[r])'
    <2>. DEFINE j == job[r]
    <2>1. JobOK(j) /\ job'[r] = j
      BY DEF NewsInv
    <2>2. /\ j.pc = "write" => j.kind \in {"submit", "reject", "publish"}
          /\ j.kind = "sell" /\ j.pc \in {"next", "put"} => j.members \ j.todo \subseteq shown'
          /\ j.pc = "stripe" =>
               \A a \in j.members : a \in shown' /\ (Exists(a)' => a \in closed')
      <3>. HIDE DEF j
      <3>. QED  BY <2>1, JobStays
    <2>. QED  BY <2>1, <2>2 DEF JobOK, Whole
  <1>. QED  BY <1>1

LEMMA AllJobsStay ==
  ASSUME NewsTypeOK, Grows, NewsInv, job' = job
  PROVE  job' \in [Request -> JobType] /\ \A r \in Request : JobOK(job[r])'
  <1>1. {} \in SUBSET Request /\ \A r \in Request \ {} : job'[r] = job[r]
    OBVIOUS
  <1>2. \A r \in Request \ {} : JobOK(job[r])'
    BY <1>1, JobsStay
  <1>. QED  BY <1>2 DEF NewsTypeOK

LEMMA RoundsStay ==
  ASSUME NewsTypeOK, Grows, NewsInv, NEW t \in Round, round'[t] \subseteq round[t]
  PROVE  \A e \in round'[t] : e[1] \in cleared' /\ e[2] <= now'
  <1>1. now \in Int /\ now' \in Int /\ now <= now'
    BY TimeFacts DEF NewsTypeOK, Grows
  <1>2. \A e \in round'[t] : e[1] \in cleared /\ e[2] <= now /\ e[2] \in Int
    <2>1. \A e \in round[t] : e[1] \in cleared /\ e[2] <= now
      BY DEF NewsInv, RoundsAreDue
    <2>2. \A e \in round[t] : e[2] \in Slot
      BY DEF NewsTypeOK
    <2>. QED  BY <2>1, <2>2, TimeFacts
  <1>3. \A e \in round'[t] : e[2] <= now'
    BY <1>1, <1>2
  <1>. QED  BY <1>2, <1>3 DEF Grows

LEMMA PackStays ==
  ASSUME NewsTypeOK, Grows, NewsInv, NEW k \in Pack,
         pack'[k].status = "PUBLICADO" =>
           pack[k].status = "PUBLICADO" /\ pack'[k].sold = pack[k].sold,
         \A a \in pack'[k].members : Exists(a)'
  PROVE  PackOK(k)'
  <1>1. pack[k].status = "PUBLICADO" =>
          \A a \in pack[k].sold : a \in shown' /\ (Exists(a)' => a \in closed')
    BY WholeStays DEF NewsInv, PackOK
  <1>. QED  BY <1>1 DEF PackOK, Members, Whole

-----------------------------------------------------------------------------
(* Steps that write one article's row.                                     *)

LEMMA WriteRowIs ==
  ASSUME NewsTypeOK, NEW a \in Article, NEW new \in RowType, WriteRow(a, new)
  PROVE  /\ row' = [row EXCEPT ![a] = new]
         /\ shown \subseteq shown' /\ shown' \subseteq Article
         /\ closed \subseteq closed' /\ closed' \subseteq Article
         /\ new.status \in Live => a \in shown'
  BY DEF WriteRow, WriteRows, NewsTypeOK

LEMMA OneRow ==
  ASSUME NewsTypeOK, NewsInv, NEW a \in Article, NEW new \in RowType,
         row' = [row EXCEPT ![a] = new],
         shown \subseteq shown', shown' \subseteq Article,
         closed \subseteq closed', closed' \subseteq Article,
         cleared' = cleared \/ cleared' = cleared \cup {a}, now' = now,
         new.status # "none", Exists(a) \/ a \notin shown,
         new.status \in Reserved => a \in cleared',
         new.status \in Live => /\ new.published # Undated
                                /\ new.published <= now
                                /\ a \in shown'
  PROVE  /\ Grows /\ row' \in [Article -> RowType]
         /\ \A x \in Article : RowOK(x)'
         /\ \A x \in Article : Exists(x) => Exists(x)'
  <1>1. row'[a] = new /\ \A x \in Article \ {a} : row'[x] = row[x]
    BY DEF NewsTypeOK
  <1>2. row' \in [Article -> RowType]
    BY DEF NewsTypeOK
  <1>3. \A x \in Article : Exists(x) => Exists(x)'
    BY <1>1 DEF Exists
  <1>4. \A x \in shown : Exists(x)' => Exists(x)
    BY <1>1 DEF Exists, NewsTypeOK
  <1>5. now' \in Date /\ now <= now'
    BY TimeFacts DEF NewsTypeOK
  <1>6. Grows
    BY <1>4, <1>5 DEF Grows, NewsTypeOK
  <1>7. RowOK(a)'
    BY <1>1 DEF RowOK
  <1>8. \A x \in Article \ {a} : RowOK(x)'
    BY <1>1, <1>6, RowStays DEF NewsInv
  <1>. QED  BY <1>2, <1>3, <1>6, <1>7, <1>8

(* What is left to say when rows, pacotes and jobs have been looked at.    *)
LEMMA PartsKeep ==
  ASSUME NewsTypeOK, NewsInv, Grows, row' \in [Article -> RowType],
         pack' \in [Pack -> PackType], job' \in [Request -> JobType],
         \A t \in Round : round'[t] \subseteq round[t], round' \in [Round -> SUBSET (Article \X Slot)],
         \A x \in Article : RowOK(x)',
         \A r \in Request : JobOK(job[r])', \A k \in Pack : PackOK(k)'
  PROVE  NewsTypeOK' /\ NewsInv'
  <1>1. NewsTypeOK'
    BY DEF NewsTypeOK, Grows
  <1>2. RoundsAreDue'
    BY RoundsStay DEF RoundsAreDue
  <1>. QED  BY <1>1, <1>2 DEF NewsInv

LEMMA PacksStay ==
  ASSUME NewsTypeOK, NewsInv, Grows, pack' = pack,
         \A x \in Article : Exists(x) => Exists(x)'
  PROVE  pack' \in [Pack -> PackType] /\ \A k \in Pack : PackOK(k)'
  <1>1. ASSUME NEW k \in Pack
        PROVE  PackOK(k)'
    <2>1. \A a \in pack'[k].members : a \in Article /\ Exists(a)'
      BY DEF NewsTypeOK, PackType, NewsInv, PackOK, Members
    <2>. QED  BY <2>1, PackStays
  <1>. QED  BY <1>1 DEF NewsTypeOK

LEMMA OneRowKeeps ==
  ASSUME NewsTypeOK, NewsInv, NEW a \in Article, NEW new \in RowType,
         row' = [row EXCEPT ![a] = new],
         shown \subseteq shown', shown' \subseteq Article,
         closed \subseteq closed', closed' \subseteq Article,
         cleared' = cleared \/ cleared' = cleared \cup {a},
         new.status # "none", Exists(a) \/ a \notin shown,
         new.status \in Reserved => a \in cleared',
         new.status \in Live => /\ new.published # Undated
                                /\ new.published <= now
                                /\ a \in shown',
         UNCHANGED <<now, pack, round>>,
         NEW R \in SUBSET Request, job' \in [Request -> JobType],
         \A r \in Request \ R : job'[r] = job[r],
         Grows => \A r \in R : JobOK(job[r])'
  PROVE  NewsTypeOK' /\ NewsInv'
  <1>1. /\ Grows /\ row' \in [Article -> RowType]
        /\ \A x \in Article : RowOK(x)'
        /\ \A x \in Article : Exists(x) => Exists(x)'
    BY OneRow
  <1>2. pack' \in [Pack -> PackType] /\ \A k \in Pack : PackOK(k)'
    BY <1>1, PacksStay
  <1>3. \A r \in Request : JobOK(job[r])'
    BY <1>1, JobsStay
  <1>4. /\ \A t \in Round : round'[t] \subseteq round[t]
        /\ round' \in [Round -> SUBSET (Article \X Slot)]
    BY DEF NewsTypeOK
  <1>. QED  BY <1>1, <1>2, <1>3, <1>4, PartsKeep

(* The handlers of one step.                                               *)
LEMMA OneStepKeeps ==
  ASSUME NewsTypeOK, NewsInv, NEW a \in Article, NEW new \in RowType,
         row' = [row EXCEPT ![a] = new],
         shown \subseteq shown', shown' \subseteq Article,
         closed \subseteq closed', closed' \subseteq Article,
         cleared' = cleared \/ cleared' = cleared \cup {a},
         new.status # "none", Exists(a) \/ a \notin shown,
         new.status \in Reserved => a \in cleared',
         new.status \in Live => /\ new.published # Undated
                                /\ new.published <= now
                                /\ a \in shown',
         UNCHANGED <<now, pack, round, job>>
  PROVE  NewsTypeOK' /\ NewsInv'
  <1>1. job' \in [Request -> JobType] /\ \A r \in Request \ {} : job'[r] = job[r]
    BY DEF NewsTypeOK
  <1>2. {} \in SUBSET Request /\ \A r \in {} : JobOK(job[r])'
    OBVIOUS
  <1>. QED  BY <1>1, <1>2, OneRowKeeps

LEMMA CreateKeeps ==
  ASSUME NewsTypeOK, NewsInv, NEW p \in Person, NEW a \in Article, NEW status \in Status,
         NEW sched \in Slot \cup {Undated}, NEW exclusive \in BOOLEAN,
         Create(p, a, status, sched, exclusive)
  PROVE  NewsTypeOK' /\ NewsInv'
  <1>. DEFINE when == CreatedDate(status)
              new == [NoRow EXCEPT !.status = status, !.author = {p},
                        !.sched = sched, !.exclusive = exclusive, !.published = when]
  <1>1. /\ a \notin shown /\ WriteRow(a, new) /\ MaySet(p, status)
        /\ cleared' = IF p \in Chief /\ status \in Reserved THEN cleared \cup {a} ELSE cleared
        /\ UNCHANGED <<now, pack, job, round>>
    BY DEF Create
  <1>2. when \in Date \cup {Undated} /\ (status \in Live => when = now)
    BY DEF CreatedDate, NewsTypeOK
  <1>3. /\ new \in RowType /\ new.status = status /\ new.published = when
    <2>. HIDE DEF when
    <2>. QED  BY <1>2, NoRowTypes DEF RowType
  <1>. HIDE DEF when, new
  <1>4. /\ row' = [row EXCEPT ![a] = new]
        /\ shown \subseteq shown' /\ shown' \subseteq Article
        /\ closed \subseteq closed' /\ closed' \subseteq Article
        /\ new.status \in Live => a \in shown'
    BY <1>1, <1>3, WriteRowIs
  <1>5. new.status # "none"
    BY <1>3, StatusSets
  <1>6. new.status \in Reserved => a \in cleared'
    BY <1>1, <1>3 DEF MaySet
  <1>7. cleared' = cleared \/ cleared' = cleared \cup {a}
    BY <1>1
  <1>8. new.status \in Live => new.published # Undated /\ new.published <= now
    BY <1>2, <1>3, TimeFacts DEF NewsTypeOK
  <1>. QED  BY <1>1, <1>3, <1>4, <1>5, <1>6, <1>7, <1>8, OneStepKeeps

(* A row that is neither released nor dated anew keeps what it had.        *)
LEMMA KeptKeeps ==
  ASSUME NewsTypeOK, NewsInv, NEW a \in Article, NEW new \in RowType, Exists(a),
         row' = [row EXCEPT ![a] = new],
         shown \subseteq shown', shown' \subseteq Article,
         closed \subseteq closed', closed' \subseteq Article,
         new.status # "none",
         \/ new.status \notin Reserved
         \/ new.status = row[a].status /\ new.published = row[a].published,
         UNCHANGED <<now, pack, round, job, cleared>>
  PROVE  NewsTypeOK' /\ NewsInv'
  <1>1. new.status \in Reserved => a \in cleared
    BY DEF NewsInv, RowOK
  <1>2. new.status \in Live => /\ new.published # Undated /\ new.published <= now
                               /\ a \in shown'
    BY StatusSets DEF NewsInv, RowOK
  <1>. QED  BY <1>1, <1>2, OneStepKeeps

LEMMA UpdateStatusKeeps ==
  ASSUME NewsTypeOK, NewsInv, NEW p \in Person, NEW a \in Article, NEW status \in Status,
         UpdateStatus(p, a, status)
  PROVE  NewsTypeOK' /\ NewsInv'
  <1>. DEFINE when == IF status \in Live THEN now ELSE row[a].published
              new == [row[a] EXCEPT !.status = status, !.published = when]
  <1>1. /\ Exists(a) /\ WriteRow(a, new) /\ MaySet(p, status)
        /\ cleared' = IF p \in Chief /\ status \in Reserved THEN cleared \cup {a} ELSE cleared
        /\ UNCHANGED <<now, pack, job, round>>
    BY DEF UpdateStatus, Update, Editable
  <1>2. row[a] \in RowType
    BY DEF NewsTypeOK
  <1>3. when \in Date \cup {Undated} /\ (status \in Live => when = now)
    BY <1>2 DEF NewsTypeOK, RowType
  <1>4. new \in RowType /\ new.status = status /\ new.published = when
    <2>. HIDE DEF when
    <2>. QED  BY <1>2, <1>3 DEF RowType
  <1>. HIDE DEF when, new
  <1>5. /\ row' = [row EXCEPT ![a] = new]
        /\ shown \subseteq shown' /\ shown' \subseteq Article
        /\ closed \subseteq closed' /\ closed' \subseteq Article
        /\ new.status \in Live => a \in shown'
    BY <1>1, <1>4, WriteRowIs
  <1>6. new.status # "none"
    BY <1>4, StatusSets
  <1>7. new.status \in Reserved => a \in cleared'
    BY <1>1, <1>4 DEF MaySet
  <1>8. cleared' = cleared \/ cleared' = cleared \cup {a}
    BY <1>1
  <1>9. new.status \in Live => new.published # Undated /\ new.published <= now
    BY <1>3, <1>4, TimeFacts DEF NewsTypeOK
  <1>. QED  BY <1>1, <1>4, <1>5, <1>6, <1>7, <1>8, <1>9, OneStepKeeps

LEMMA ScheduleKeeps ==
  ASSUME NewsTypeOK, NewsInv, NEW a \in Article, NEW sched \in Slot \cup {Undated},
         UpdateSchedule(a, sched)
  PROVE  NewsTypeOK' /\ NewsInv'
  <1>. DEFINE new == [row[a] EXCEPT !.sched = sched]
  <1>1. Exists(a) /\ WriteRow(a, new) /\ UNCHANGED <<now, pack, job, round, cleared>>
    BY DEF UpdateSchedule, Update, Editable
  <1>2. row[a] \in RowType
    BY DEF NewsTypeOK
  <1>3. new \in RowType /\ new.status = row[a].status /\ new.published = row[a].published
    BY <1>2 DEF RowType
  <1>. HIDE DEF new
  <1>4. new.status # "none"
    BY <1>1, <1>3 DEF Exists
  <1>. QED  BY <1>1, <1>3, <1>4, WriteRowIs, KeptKeeps

LEMMA ExclusiveKeeps ==
  ASSUME NewsTypeOK, NewsInv, NEW a \in Article, NEW exclusive \in BOOLEAN,
         UpdateExclusive(a, exclusive)
  PROVE  NewsTypeOK' /\ NewsInv'
  <1>. DEFINE new == [row[a] EXCEPT !.exclusive = exclusive]
  <1>1. Exists(a) /\ WriteRow(a, new) /\ UNCHANGED <<now, pack, job, round, cleared>>
    BY DEF UpdateExclusive, Update, Editable
  <1>2. row[a] \in RowType
    BY DEF NewsTypeOK
  <1>3. new \in RowType /\ new.status = row[a].status /\ new.published = row[a].published
    BY <1>2 DEF RowType
  <1>. HIDE DEF new
  <1>4. new.status # "none"
    BY <1>1, <1>3 DEF Exists
  <1>. QED  BY <1>1, <1>3, <1>4, WriteRowIs, KeptKeeps

LEMMA DraftKeeps ==
  ASSUME NewsTypeOK, NewsInv, NEW a \in Article, NEW draft \in SUBSET BOOLEAN, Exists(a),
         row' = [row EXCEPT ![a].draft = draft],
         UNCHANGED <<now, pack, job, round, cleared, shown, closed>>
  PROVE  NewsTypeOK' /\ NewsInv'
  <1>. DEFINE new == [row[a] EXCEPT !.draft = draft]
  <1>1. row' = [row EXCEPT ![a] = new]
    OBVIOUS
  <1>2. row[a] \in RowType
    BY DEF NewsTypeOK
  <1>3. new \in RowType /\ new.status = row[a].status /\ new.published = row[a].published
    BY <1>2 DEF RowType
  <1>. HIDE DEF new
  <1>4. new.status # "none" /\ shown' \subseteq Article /\ closed' \subseteq Article
    BY <1>3 DEF Exists, NewsTypeOK
  <1>. QED  BY <1>1, <1>3, <1>4, KeptKeeps

LEMMA ArchiveKeeps ==
  ASSUME NewsTypeOK, NewsInv, NEW a \in Article, Archive(a)
  PROVE  NewsTypeOK' /\ NewsInv'
  <1>. DEFINE new == [row[a] EXCEPT !.status = "ARQUIVADO"]
  <1>1. /\ Exists(a) /\ row' = [row EXCEPT ![a] = new]
        /\ UNCHANGED <<now, pack, job, round, cleared, shown, closed>>
    BY DEF Archive, Editable
  <1>2. row[a] \in RowType
    BY DEF NewsTypeOK
  <1>3. new \in RowType /\ new.status = "ARQUIVADO"
    BY <1>2, StatusSets DEF RowType
  <1>. HIDE DEF new
  <1>4. /\ new.status # "none" /\ shown' \subseteq Article /\ closed' \subseteq Article
        /\ new.status \notin Reserved
    BY <1>1, <1>3 DEF NewsTypeOK, Reserved
  <1>. QED  BY <1>1, <1>3, <1>4, KeptKeeps

(* The row goes, and its places in pacotes with it.                        *)
LEMMA RemoveKeeps ==
  ASSUME NewsTypeOK, NewsInv, NEW a \in Article, RemoveArticle(a)
  PROVE  NewsTypeOK' /\ NewsInv'
  <1>1. /\ row' = [row EXCEPT ![a] = NoRow]
        /\ pack' = [k \in Pack |-> [pack[k] EXCEPT !.members = pack[k].members \ {a}]]
        /\ UNCHANGED <<now, job, round, cleared, shown, closed>>
    BY DEF RemoveArticle
  <1>2. row'[a] = NoRow /\ \A x \in Article \ {a} : row'[x] = row[x]
    BY <1>1 DEF NewsTypeOK
  <1>3. row' \in [Article -> RowType]
    BY <1>1, NoRowTypes DEF NewsTypeOK
  <1>4. Grows
    <2>1. \A x \in shown : Exists(x)' => Exists(x)
      BY <1>2, NoRowTypes DEF Exists, NewsTypeOK
    <2>2. now' \in Date /\ now <= now'
      BY <1>1, TimeFacts DEF NewsTypeOK
    <2>. QED  BY <1>1, <2>1, <2>2 DEF Grows, NewsTypeOK
  <1>5. RowOK(a)'
    BY <1>2, NoRowTypes, StatusSets DEF RowOK, Reserved, Live
  <1>6. \A x \in Article : RowOK(x)'
    BY <1>2, <1>4, <1>5, RowStays DEF NewsInv
  <1>7. ASSUME NEW k \in Pack
        PROVE  pack'[k] \in PackType /\ PackOK(k)'
    <2>1. /\ pack'[k] \in PackType /\ pack'[k].status = pack[k].status
          /\ pack'[k].sold = pack[k].sold
          /\ pack'[k].members = pack[k].members \ {a}
      BY <1>1 DEF NewsTypeOK, PackType
    <2>2. \A x \in pack'[k].members : Exists(x)'
      BY <1>2, <2>1 DEF Exists, NewsInv, PackOK, Members, NewsTypeOK, PackType
    <2>. QED  BY <1>4, <2>1, <2>2, PackStays
  <1>8. pack' \in [Pack -> PackType]
    BY <1>1, <1>7
  <1>9. /\ job' \in [Request -> JobType] /\ \A r \in Request : JobOK(job[r])'
        /\ \A t \in Round : round'[t] \subseteq round[t]
        /\ round' \in [Round -> SUBSET (Article \X Slot)]
    BY <1>1, <1>4, AllJobsStay DEF NewsTypeOK
  <1>. QED  BY <1>3, <1>4, <1>6, <1>7, <1>8, <1>9, PartsKeep

-----------------------------------------------------------------------------
(* Requests that read and write.                                           *)

(* A step of one request that writes nothing.                              *)
LEMMA JobMoves ==
  ASSUME NewsTypeOK, NewsInv, NEW r \in Request, NEW j \in JobType, JobOK(j),
         job' = [job EXCEPT ![r] = j],
         UNCHANGED <<now, row, pack, round, cleared, shown, closed>>
  PROVE  NewsTypeOK' /\ NewsInv'
  <1>1. Grows
    BY TimeFacts DEF Grows, NewsTypeOK, Exists
  <1>2. /\ job'[r] = j /\ \A q \in Request \ {r} : job'[q] = job[q]
        /\ job' \in [Request -> JobType]
    BY DEF NewsTypeOK
  <1>3. \A q \in Request \ {r} : JobOK(job[q])'
    BY <1>1, <1>2, JobsStay
  <1>4. JobOK(job[r])'
    <2>1. /\ j.pc = "write" => j.kind \in {"submit", "reject", "publish"}
          /\ j.kind = "sell" /\ j.pc \in {"next", "put"} => j.members \ j.todo \subseteq shown'
          /\ j.pc = "stripe" =>
               \A a \in j.members : a \in shown' /\ (Exists(a)' => a \in closed')
      BY <1>1, JobStays
    <2>. QED  BY <1>2, <2>1 DEF JobOK, Whole
  <1>5. \A a \in Article : RowOK(a)'
    BY <1>1, RowStays DEF NewsInv
  <1>6. pack' \in [Pack -> PackType] /\ \A k \in Pack : PackOK(k)'
    BY <1>1, PacksStay DEF Exists
  <1>7. /\ row' \in [Article -> RowType] /\ \A t \in Round : round'[t] \subseteq round[t]
        /\ round' \in [Round -> SUBSET (Article \X Slot)]
    BY DEF NewsTypeOK
  <1>. QED  BY <1>1, <1>2, <1>3, <1>4, <1>5, <1>6, <1>7, PartsKeep

LEMMA IdleOK == JobOK(JobIdle)
  BY JobIdleTypes DEF JobOK

LEMMA BeginKeeps ==
  ASSUME NewsTypeOK, NewsInv, NEW r \in Request, NEW a \in Article,
         NEW kind \in {"submit", "reject", "publish"}, NEW draft \in SUBSET BOOLEAN,
         NEW when \in Slot \cup {Undated}, Begin(r, kind, a, draft, when)
  PROVE  NewsTypeOK' /\ NewsInv'
  <1>. DEFINE j == [JobIdle EXCEPT !.pc = "write", !.kind = kind, !.one = {a},
                                   !.draft = draft, !.when = when]
  <1>1. /\ job' = [job EXCEPT ![r] = j]
        /\ UNCHANGED <<now, row, pack, round, cleared, shown, closed>>
    BY DEF Begin
  <1>2. j \in JobType /\ j.pc = "write" /\ j.kind = kind
    BY JobIdleTypes DEF JobType
  <1>. HIDE DEF j
  <1>3. JobOK(j)
    BY <1>2 DEF JobOK
  <1>. QED  BY <1>1, <1>2, <1>3, JobMoves

LEMMA BeginsKeep ==
  ASSUME NewsTypeOK, NewsInv, NEW r \in Request, NEW a \in Article,
         \/ \E d \in Slot \cup {Undated} : ReadToSubmit(r, a, d)
         \/ ReadToReject(r, a)
         \/ ReadToPublish(r, a)
  PROVE  NewsTypeOK' /\ NewsInv'
  <1>1. row[a].draft \in SUBSET BOOLEAN /\ {} \in SUBSET BOOLEAN
    BY DEF NewsTypeOK, RowType
  <1>2. CASE \E d \in Slot \cup {Undated} : ReadToSubmit(r, a, d)
    BY <1>1, <1>2, BeginKeeps DEF ReadToSubmit
  <1>3. CASE ReadToReject(r, a)
    BY <1>1, <1>3, BeginKeeps DEF ReadToReject
  <1>4. CASE ReadToPublish(r, a)
    BY <1>1, <1>4, BeginKeeps DEF ReadToPublish
  <1>. QED  BY <1>2, <1>3, <1>4

LEMMA AbortKeeps ==
  ASSUME NewsTypeOK, NewsInv, NEW r \in Request, Abort(r)
  PROVE  NewsTypeOK' /\ NewsInv'
  BY JobIdleTypes, IdleOK, JobMoves DEF Abort

LEMMA PublishedIs ==
  ASSUME NewsTypeOK, NEW old \in RowType, NEW draft \in SUBSET BOOLEAN
  PROVE  /\ Published(old, draft) \in RowType
         /\ Published(old, draft).status = "PUBLICADO"
         /\ Published(old, draft).published = now
  <1>. DEFINE exclusive == IF draft = {} THEN old.exclusive ELSE TRUE \in draft
  <1>1. exclusive \in BOOLEAN
    <2>1. old.exclusive \in BOOLEAN
      BY DEF RowType
    <2>2. CASE draft = {}
      BY <2>1, <2>2
    <2>3. CASE draft # {}
      <3>1. exclusive = (TRUE \in draft)
        BY <2>3
      <3>2. (TRUE \in draft) \in BOOLEAN
        OBVIOUS
      <3>. QED  BY <3>1, <3>2
    <2>. QED  BY <2>2, <2>3
  <1>2. Published(old, draft) =
          [old EXCEPT !.status = "PUBLICADO", !.published = now, !.sched = Undated,
                      !.exclusive = exclusive, !.draft = {}]
    BY DEF Published
  <1>. DEFINE date == now
              undated == Undated
              blank == {}
  <1>3. /\ date \in Date \cup {Undated} /\ "PUBLICADO" \in Status
        /\ undated \in Slot \cup {Undated} /\ blank \in SUBSET BOOLEAN
    BY StatusSets DEF NewsTypeOK
  <1>4. Published(old, draft) =
          [old EXCEPT !.status = "PUBLICADO", !.published = date, !.sched = undated,
                      !.exclusive = exclusive, !.draft = blank]
    BY <1>2
  <1>. HIDE DEF exclusive, date, undated, blank
  <1>5. /\ Published(old, draft) \in RowType
        /\ Published(old, draft).status = "PUBLICADO"
        /\ Published(old, draft).published = date
    BY <1>1, <1>3, <1>4 DEF RowType
  <1>. QED  BY <1>5 DEF date

LEMMA WrittenIs ==
  ASSUME NewsTypeOK, NEW old \in RowType, NEW j \in JobType,
         j.kind \in {"submit", "reject", "publish"}
  PROVE  /\ Written(old, j) \in RowType
         /\ Written(old, j).status \in Status
         /\ j.kind # "publish" => Written(old, j).status \notin Reserved
         /\ j.kind = "publish" => Written(old, j).published = now
  <1>. DEFINE when == j.when
              draft == j.draft
  <1>1. when \in Slot \cup {Undated} /\ draft \in SUBSET BOOLEAN
    BY DEF JobType
  <1>2. CASE j.kind = "submit"
    <2>1. Written(old, j) = [old EXCEPT !.status = "EM_REVISAO", !.sched = when]
      BY <1>2 DEF Written
    <2>. HIDE DEF when
    <2>2. Written(old, j) \in RowType /\ Written(old, j).status = "EM_REVISAO"
      BY <1>1, <2>1, StatusSets DEF RowType
    <2>. QED  BY <1>2, <2>2, StatusSets DEF Reserved
  <1>3. CASE j.kind = "reject"
    <2>1. Written(old, j) = [old EXCEPT !.status = "RASCUNHO", !.sched = Undated]
      BY <1>3 DEF Written
    <2>2. Written(old, j) \in RowType /\ Written(old, j).status = "RASCUNHO"
      BY <2>1, StatusSets DEF RowType
    <2>. QED  BY <1>3, <2>2, StatusSets DEF Reserved
  <1>4. CASE j.kind = "publish"
    <2>1. Written(old, j) = Published(old, draft)
      BY <1>4 DEF Written
    <2>. HIDE DEF draft
    <2>. QED  BY <1>1, <1>4, <2>1, PublishedIs, StatusSets
  <1>. QED  BY <1>2, <1>3, <1>4

LEMMA WriteArticleKeeps ==
  ASSUME NewsTypeOK, NewsInv, NEW r \in Request, NEW a \in Article, WriteArticle(r, a)
  PROVE  NewsTypeOK' /\ NewsInv'
  <1>. DEFINE new == Written(row[a], job[r])
  <1>1. /\ job[r].pc = "write" /\ Exists(a) /\ WriteRow(a, new)
        /\ cleared' = IF job[r].kind = "publish" THEN cleared \cup {a} ELSE cleared
        /\ job' = [job EXCEPT ![r] = JobIdle]
        /\ UNCHANGED <<now, pack, round>>
    BY DEF WriteArticle
  <1>2. /\ row[a] \in RowType /\ job[r] \in JobType
        /\ job[r].kind \in {"submit", "reject", "publish"}
    BY <1>1 DEF NewsTypeOK, NewsInv, JobOK
  <1>3. /\ new \in RowType /\ new.status \in Status
        /\ job[r].kind # "publish" => new.status \notin Reserved
        /\ job[r].kind = "publish" => new.published = now
    BY <1>2, WrittenIs
  <1>. HIDE DEF new
  <1>4. /\ row' = [row EXCEPT ![a] = new]
        /\ shown \subseteq shown' /\ shown' \subseteq Article
        /\ closed \subseteq closed' /\ closed' \subseteq Article
        /\ new.status \in Live => a \in shown'
    BY <1>1, <1>3, WriteRowIs
  <1>5. new.status # "none" /\ (new.status \in Reserved => a \in cleared')
    BY <1>1, <1>3, StatusSets
  <1>6. cleared' = cleared \/ cleared' = cleared \cup {a}
    BY <1>1
  <1>7. new.status \in Live => new.published # Undated /\ new.published <= now
    BY <1>3, TimeFacts, StatusSets DEF NewsTypeOK
  <1>8. /\ job' \in [Request -> JobType] /\ {r} \in SUBSET Request
        /\ \A q \in Request \ {r} : job'[q] = job[q]
        /\ job'[r] = JobIdle
    BY <1>1, JobIdleTypes DEF NewsTypeOK
  <1>9. \A q \in {r} : JobOK(job[q])'
    BY <1>8, JobIdleTypes DEF JobOK
  <1>. QED  BY <1>1, <1>3, <1>4, <1>5, <1>6, <1>7, <1>8, <1>9, OneRowKeeps

LEMMA PutDraftKeeps ==
  ASSUME NewsTypeOK, NewsInv, NEW r \in Request, NEW a \in Article, PutDraft(r, a)
  PROVE  NewsTypeOK' /\ NewsInv'
  <1>. DEFINE new == Published(row[a], job[r].draft)
              j == [job[r] EXCEPT !.pc = "next", !.todo = job[r].todo \ {a}, !.one = {},
                                  !.draft = {}]
  <1>1. /\ job[r].pc = "put" /\ Exists(a) /\ WriteRow(a, new)
        /\ cleared' = cleared \cup {a}
        /\ job' = [job EXCEPT ![r] = j]
        /\ UNCHANGED <<now, pack, round>>
    BY DEF PutDraft
  <1>2. row[a] \in RowType /\ job[r] \in JobType /\ job[r].draft \in SUBSET BOOLEAN
    BY DEF NewsTypeOK, JobType
  <1>3. new \in RowType /\ new.status = "PUBLICADO" /\ new.published = now
    BY <1>2, PublishedIs
  <1>. HIDE DEF new
  <1>4. /\ row' = [row EXCEPT ![a] = new]
        /\ shown \subseteq shown' /\ shown' \subseteq Article
        /\ closed \subseteq closed' /\ closed' \subseteq Article
        /\ a \in shown'
    BY <1>1, <1>3, WriteRowIs DEF Live
  <1>5. new.status # "none" /\ new.published # Undated /\ new.published <= now
    BY <1>3, TimeFacts DEF NewsTypeOK
  <1>6. /\ j \in JobType /\ j.pc = "next" /\ j.kind = job[r].kind
        /\ j.members = job[r].members /\ j.todo = job[r].todo \ {a}
    BY <1>2 DEF JobType
  <1>. HIDE DEF j
  <1>7. /\ job' \in [Request -> JobType] /\ {r} \in SUBSET Request
        /\ \A q \in Request \ {r} : job'[q] = job[q]
        /\ job'[r] = j
    BY <1>1, <1>6 DEF NewsTypeOK
  <1>8. \A q \in {r} : JobOK(job[q])'
    <2>1. job[r].kind = "sell" => job[r].members \ job[r].todo \subseteq shown
      BY <1>1 DEF NewsInv, JobOK
    <2>2. j.kind = "sell" => j.members \ j.todo \subseteq shown'
      BY <1>4, <1>6, <2>1
    <2>. QED  BY <1>6, <1>7, <2>2 DEF JobOK
  <1>. QED  BY <1>1, <1>3, <1>4, <1>5, <1>7, <1>8, OneRowKeeps

-----------------------------------------------------------------------------
(* Pacotes.                                                                *)

LEMMA ReadPackKeeps ==
  ASSUME NewsTypeOK, NewsInv, NEW r \in Request, NEW k \in Pack,
         NEW kind \in {"sell", "pending"}, NEW drafts \in SUBSET Article,
         ReadPack(r, kind, k, drafts),
         kind = "sell" => Members(k) \ drafts \subseteq shown
  PROVE  NewsTypeOK' /\ NewsInv'
  <1>. DEFINE members == Members(k)
              j == [JobIdle EXCEPT !.pc = "next", !.kind = kind, !.pack = {k},
                      !.members = members, !.todo = drafts, !.drafts = drafts]
  <1>1. /\ job' = [job EXCEPT ![r] = j]
        /\ UNCHANGED <<now, row, pack, round, cleared, shown, closed>>
    BY DEF ReadPack
  <1>2. members \in SUBSET Article
    BY DEF Members, NewsTypeOK, PackType
  <1>3. /\ j \in JobType /\ j.pc = "next" /\ j.kind = kind
        /\ j.members = members /\ j.todo = drafts
    <2>. HIDE DEF members
    <2>. QED  BY <1>2, JobIdleTypes DEF JobType
  <1>. HIDE DEF j
  <1>4. JobOK(j)
    BY <1>3 DEF JobOK
  <1>. QED  BY <1>1, <1>3, <1>4, JobMoves

LEMMA ReadToSellKeeps ==
  ASSUME NewsTypeOK, NewsInv, NEW r \in Request, NEW k \in Pack,
         ReadToSell(r, k) \/ ReadPending(r, k)
  PROVE  NewsTypeOK' /\ NewsInv'
  <1>1. DraftsOf(k) \in SUBSET Article
    BY DEF DraftsOf, Members, NewsTypeOK, PackType
  <1>2. CASE ReadToSell(r, k)
    <2>1. \A a \in Members(k) : a \in Article /\ row[a].status \notin Unsellable
                                /\ Exists(a) /\ row[a].status \in Status \cup {"none"}
      BY <1>2 DEF ReadToSell, NewsTypeOK, Members, PackType, RowType, NewsInv, PackOK
    <2>2. \A a \in Members(k) \ DraftsOf(k) : row[a].status \in Live
      BY <2>1, StatusSets DEF DraftsOf, Drafting, Unsellable, Live, Exists
    <2>3. Members(k) \ DraftsOf(k) \subseteq shown
      BY <2>1, <2>2 DEF NewsInv, RowOK
    <2>. QED  BY <1>1, <1>2, <2>3, ReadPackKeeps DEF ReadToSell
  <1>3. CASE ReadPending(r, k)
    BY <1>1, <1>3, ReadPackKeeps DEF ReadPending
  <1>. QED  BY <1>2, <1>3

LEMMA NextDraftKeeps ==
  ASSUME NewsTypeOK, NewsInv, NEW r \in Request, NEW a \in Article, NextDraft(r, a)
  PROVE  NewsTypeOK' /\ NewsInv'
  <1>. DEFINE draft == row[a].draft
              j == [job[r] EXCEPT !.pc = "put", !.one = {a}, !.draft = draft]
  <1>1. /\ job[r].pc = "next" /\ job' = [job EXCEPT ![r] = j]
        /\ UNCHANGED <<now, row, pack, round, cleared, shown, closed>>
    BY DEF NextDraft
  <1>2. draft \in SUBSET BOOLEAN /\ job[r] \in JobType
    BY DEF NewsTypeOK, RowType
  <1>3. /\ j \in JobType /\ j.pc = "put" /\ j.kind = job[r].kind
        /\ j.members = job[r].members /\ j.todo = job[r].todo
    <2>. HIDE DEF draft
    <2>. QED  BY <1>2 DEF JobType
  <1>. HIDE DEF j
  <1>4. JobOK(job[r])
    BY DEF NewsInv
  <1>5. JobOK(j)
    BY <1>1, <1>3, <1>4 DEF JobOK
  <1>. QED  BY <1>1, <1>3, <1>5, JobMoves

(* Rows that are closed change in nothing else.                            *)
LEMMA ClosingIs ==
  ASSUME NewsTypeOK, NewsInv, NEW S \in SUBSET Article, WriteRows(Closing(S)),
         now' = now, cleared' = cleared
  PROVE  /\ Grows /\ row' \in [Article -> RowType]
         /\ \A a \in Article : RowOK(a)'
         /\ \A a \in Article : Exists(a)' <=> Exists(a)
         /\ \A a \in S : Exists(a) => a \in closed'
  <1>1. /\ row' = Closing(S)
        /\ shown' = shown \cup {a \in Article : row'[a].status \in Live}
        /\ closed' = closed \cup {a \in Article : row'[a].exclusive}
    BY DEF WriteRows
  <1>2. ASSUME NEW a \in Article
        PROVE  /\ row'[a] \in RowType /\ row'[a].status = row[a].status
               /\ row'[a].published = row[a].published
               /\ a \in S /\ Exists(a) => row'[a].exclusive
    <2>. DEFINE i == row[a]
                j == [i EXCEPT !.exclusive = TRUE]
    <2>1. i \in RowType /\ row'[a] = IF a \in S /\ Exists(a) THEN j ELSE i
      BY <1>1 DEF Closing, NewsTypeOK
    <2>. HIDE DEF i
    <2>2. j \in RowType /\ j.status = i.status /\ j.published = i.published /\ j.exclusive
      BY <2>1 DEF RowType
    <2>. HIDE DEF j
    <2>. QED  BY <2>1, <2>2 DEF i
  <1>3. \A a \in Article : Exists(a)' <=> Exists(a)
    BY <1>2 DEF Exists
  <1>4. now' \in Date /\ now <= now'
    BY TimeFacts DEF NewsTypeOK
  <1>5. Grows
    BY <1>1, <1>3, <1>4 DEF Grows, NewsTypeOK
  <1>6. \A a \in Article : RowOK(a)'
    BY <1>2, <1>5, RowStays DEF NewsInv
  <1>7. row' \in [Article -> RowType]
    BY <1>1, <1>2 DEF Closing
  <1>8. \A a \in S : Exists(a) => a \in closed'
    BY <1>1, <1>2
  <1>. QED  BY <1>3, <1>5, <1>6, <1>7, <1>8

LEMMA MakeExclusiveKeeps ==
  ASSUME NewsTypeOK, NewsInv, NEW k \in Pack, MakeExclusive(k)
  PROVE  NewsTypeOK' /\ NewsInv'
  <1>. DEFINE open == {a \in Members(k) : row[a].status \in Live /\ ~row[a].exclusive}
  <1>1. WriteRows(Closing(open)) /\ UNCHANGED <<now, pack, job, round, cleared>>
    BY DEF MakeExclusive
  <1>2. open \in SUBSET Article
    BY DEF Members, NewsTypeOK, PackType
  <1>. HIDE DEF open
  <1>3. /\ Grows /\ row' \in [Article -> RowType]
        /\ \A a \in Article : RowOK(a)'
        /\ \A a \in Article : Exists(a) => Exists(a)'
    BY <1>1, <1>2, ClosingIs
  <1>4. /\ \A t \in Round : round'[t] \subseteq round[t]
        /\ round' \in [Round -> SUBSET (Article \X Slot)]
    BY <1>1 DEF NewsTypeOK
  <1>. QED  BY <1>1, <1>3, <1>4, AllJobsStay, PacksStay, PartsKeep

LEMMA CloseMembersKeeps ==
  ASSUME NewsTypeOK, NewsInv, NEW r \in Request, CloseMembers(r)
  PROVE  NewsTypeOK' /\ NewsInv'
  <1>. DEFINE sells == job[r].kind = "sell"
              atStripe == [job[r] EXCEPT !.pc = "stripe"]
              j == IF sells THEN atStripe ELSE JobIdle
              S == ClosedBy(job[r])
  <1>1. /\ job[r].pc = "next" /\ job[r].todo = {} /\ WriteRows(Closing(S))
        /\ job' = [job EXCEPT ![r] = j] /\ UNCHANGED <<now, pack, round, cleared>>
    BY DEF CloseMembers
  <1>2. job[r] \in JobType /\ job[r].members \subseteq Article /\ job[r].drafts \subseteq Article
    BY DEF NewsTypeOK, JobType
  <1>3. S \in SUBSET Article /\ (sells => S = job[r].members)
    BY <1>2 DEF ClosedBy
  <1>4. /\ atStripe \in JobType /\ atStripe.pc = "stripe"
        /\ atStripe.kind = job[r].kind /\ atStripe.members = job[r].members
    BY <1>2 DEF JobType
  <1>5. sells => job[r].members \subseteq shown
    BY <1>1 DEF NewsInv, JobOK
  <1>. HIDE DEF atStripe, S
  <1>6. /\ Grows /\ row' \in [Article -> RowType]
        /\ \A a \in Article : RowOK(a)'
        /\ \A a \in Article : Exists(a)' <=> Exists(a)
        /\ \A a \in S : Exists(a) => a \in closed'
    BY <1>1, <1>3, ClosingIs
  <1>7. j \in JobType /\ j.pc \in {"idle", "stripe"}
        /\ (j.pc = "stripe" => sells /\ j.members = job[r].members)
    BY <1>4, JobIdleTypes
  <1>. HIDE DEF j, sells
  <1>8. /\ job'[r] = j /\ \A q \in Request \ {r} : job'[q] = job[q]
        /\ job' \in [Request -> JobType]
    BY <1>1, <1>7 DEF NewsTypeOK
  <1>9. \A q \in Request \ {r} : JobOK(job[q])'
    BY <1>6, <1>8, JobsStay
  <1>10. JobOK(job[r])'
    <2>1. j.pc = "stripe" => \A a \in j.members : a \in shown' /\ (Exists(a)' => a \in closed')
      BY <1>2, <1>3, <1>5, <1>6, <1>7 DEF Grows
    <2>. QED  BY <1>7, <1>8, <2>1 DEF JobOK, Whole
  <1>11. /\ \A t \in Round : round'[t] \subseteq round[t]
         /\ round' \in [Round -> SUBSET (Article \X Slot)]
    BY <1>1 DEF NewsTypeOK
  <1>. QED  BY <1>1, <1>6, <1>8, <1>9, <1>10, <1>11, PacksStay, PartsKeep

(* A step that writes pacotes only, or a request's end with them.          *)
LEMMA PackWrites ==
  ASSUME NewsTypeOK, NewsInv, UNCHANGED <<now, row, round, cleared, shown, closed>>,
         NEW r, job' = job \/ job' = [job EXCEPT ![r] = JobIdle],
         pack' \in [Pack -> PackType],
         \A k \in Pack : \A a \in pack'[k].members : Exists(a),
         \A k \in Pack : pack'[k].status = "PUBLICADO" => Whole(pack'[k].sold)
  PROVE  NewsTypeOK' /\ NewsInv'
  <1>1. Grows
    BY TimeFacts DEF Grows, NewsTypeOK, Exists
  <1>2. \A q \in Request : job'[q] = job[q] \/ job'[q] = JobIdle
    BY DEF NewsTypeOK
  <1>3. job' \in [Request -> JobType]
    BY JobIdleTypes DEF NewsTypeOK
  <1>4. \A q \in Request : JobOK(job[q])'
    <2>1. ASSUME NEW q \in Request
          PROVE  JobOK(job[q])'
      <3>. DEFINE j == job'[q]
      <3>1. JobOK(j)
        BY <1>2, IdleOK DEF NewsInv
      <3>2. /\ j.pc = "write" => j.kind \in {"submit", "reject", "publish"}
            /\ j.kind = "sell" /\ j.pc \in {"next", "put"} => j.members \ j.todo \subseteq shown'
            /\ j.pc = "stripe" =>
                 \A a \in j.members : a \in shown' /\ (Exists(a)' => a \in closed')
        <4>. HIDE DEF j
        <4>. QED  BY <1>1, <3>1, JobStays
      <3>. QED  BY <3>2 DEF JobOK, Whole
    <2>. QED  BY <2>1
  <1>5. \A a \in Article : RowOK(a)'
    BY <1>1, RowStays DEF NewsInv
  <1>6. ASSUME NEW k \in Pack
        PROVE  PackOK(k)'
    <2>1. \A a \in pack'[k].members : Exists(a)'
      BY DEF Exists
    <2>2. pack'[k].status = "PUBLICADO" =>
            \A a \in pack'[k].sold : a \in shown' /\ (Exists(a)' => a \in closed')
      BY DEF Whole, Exists
    <2>. QED  BY <2>1, <2>2 DEF PackOK, Members, Whole
  <1>7. /\ row' \in [Article -> RowType] /\ \A t \in Round : round'[t] \subseteq round[t]
        /\ round' \in [Round -> SUBSET (Article \X Slot)]
    BY DEF NewsTypeOK
  <1>. QED  BY <1>1, <1>3, <1>4, <1>5, <1>6, <1>7, PartsKeep

LEMMA PacksHold ==
  ASSUME NewsTypeOK, NewsInv, NEW k \in Pack
  PROVE  /\ pack[k] \in PackType
         /\ pack[k].members \subseteq Article /\ \A a \in pack[k].members : Exists(a)
         /\ pack[k].status = "PUBLICADO" => Whole(pack[k].sold)
  BY DEF NewsTypeOK, PackType, NewsInv, PackOK, Members

(* One pacote is written.                                                  *)
LEMMA OnePack ==
  ASSUME NewsTypeOK, NewsInv, UNCHANGED <<now, row, round, cleared, shown, closed>>,
         NEW r, job' = job \/ job' = [job EXCEPT ![r] = JobIdle],
         NEW k \in Pack, NEW new \in PackType, pack' = [pack EXCEPT ![k] = new],
         \A a \in new.members : Exists(a),
         new.status = "PUBLICADO" => Whole(new.sold)
  PROVE  NewsTypeOK' /\ NewsInv'
  <1>1. pack'[k] = new /\ \A x \in Pack \ {k} : pack'[x] = pack[x]
    BY DEF NewsTypeOK
  <1>2. pack' \in [Pack -> PackType]
    BY DEF NewsTypeOK
  <1>3. \A x \in Pack : \A a \in pack'[x].members : Exists(a)
    BY <1>1, PacksHold
  <1>4. \A x \in Pack : pack'[x].status = "PUBLICADO" => Whole(pack'[x].sold)
    BY <1>1, PacksHold
  <1>. QED  BY <1>2, <1>3, <1>4, PackWrites

LEMMA PackChangesKeep ==
  ASSUME NewsTypeOK, NewsInv, NEW k \in Pack,
         CreatePack(k) \/ Unpublish(k) \/ RemovePack(k)
           \/ \E S \in SUBSET Article : SetArticles(k, S)
  PROVE  NewsTypeOK' /\ NewsInv'
  <1>0. pack[k] \in PackType /\ \A a \in pack[k].members : Exists(a)
    BY PacksHold
  <1>1. CASE CreatePack(k)
    <2>. DEFINE new == [pack[k] EXCEPT !.status = "RASCUNHO"]
    <2>1. new \in PackType /\ new.status # "PUBLICADO" /\ new.members = pack[k].members
      BY <1>0 DEF PackType
    <2>2. /\ UNCHANGED <<now, row, job, round, cleared, shown, closed>>
          /\ pack' = [pack EXCEPT ![k] = new]
      BY <1>1 DEF CreatePack
    <2>. HIDE DEF new
    <2>. QED  BY <1>0, <2>1, <2>2, OnePack
  <1>2. CASE Unpublish(k)
    <2>. DEFINE new == [pack[k] EXCEPT !.status = "RASCUNHO", !.sold = {}]
    <2>1. new \in PackType /\ new.status # "PUBLICADO" /\ new.members = pack[k].members
      BY <1>0 DEF PackType
    <2>2. /\ UNCHANGED <<now, row, job, round, cleared, shown, closed>>
          /\ pack' = [pack EXCEPT ![k] = new]
      BY <1>2 DEF Unpublish
    <2>. HIDE DEF new
    <2>. QED  BY <1>0, <2>1, <2>2, OnePack
  <1>3. CASE RemovePack(k)
    <2>1. NoPack \in PackType /\ NoPack.status # "PUBLICADO" /\ NoPack.members = {}
      BY DEF NoPack, PackType
    <2>2. /\ UNCHANGED <<now, row, job, round, cleared, shown, closed>>
          /\ pack' = [pack EXCEPT ![k] = NoPack]
      BY <1>3 DEF RemovePack
    <2>. QED  BY <2>1, <2>2, OnePack
  <1>4. ASSUME NEW S \in SUBSET Article, SetArticles(k, S)
        PROVE  NewsTypeOK' /\ NewsInv'
    <2>. DEFINE new == [pack[k] EXCEPT !.members = S]
    <2>1. /\ new \in PackType /\ new.members = S /\ new.status = pack[k].status
          /\ new.sold = pack[k].sold
      BY <1>0 DEF PackType
    <2>2. /\ UNCHANGED <<now, row, job, round, cleared, shown, closed>>
          /\ pack' = [pack EXCEPT ![k] = new] /\ \A a \in S : Exists(a)
      BY <1>4 DEF SetArticles, Joinable
    <2>. HIDE DEF new
    <2>. QED  BY <2>1, <2>2, PacksHold, OnePack
  <1>. QED  BY <1>1, <1>2, <1>3, <1>4

LEMMA PutOnSaleKeeps ==
  ASSUME NewsTypeOK, NewsInv, NEW r \in Request, NEW k \in Pack, PutOnSale(r, k)
  PROVE  NewsTypeOK' /\ NewsInv'
  <1>. DEFINE members == job[r].members
              new == [pack[k] EXCEPT !.status = "PUBLICADO", !.sold = members]
  <1>1. /\ job[r].pc = "stripe" /\ pack' = [pack EXCEPT ![k] = new]
        /\ job' = [job EXCEPT ![r] = JobIdle]
        /\ UNCHANGED <<now, row, round, cleared, shown, closed>>
    BY DEF PutOnSale
  <1>2. members \subseteq Article /\ Whole(members)
    BY <1>1 DEF NewsTypeOK, JobType, NewsInv, JobOK
  <1>3. new \in PackType /\ new.members = pack[k].members /\ new.sold = members
    <2>. HIDE DEF members
    <2>. QED  BY <1>2, PacksHold DEF PackType
  <1>. HIDE DEF new, members
  <1>. QED  BY <1>1, <1>2, <1>3, PacksHold, OnePack

LEMMA AssignKeeps ==
  ASSUME NewsTypeOK, NewsInv, NEW a \in Article, NEW K, AssignArticle(a, K)
  PROVE  NewsTypeOK' /\ NewsInv'
  <1>1. /\ UNCHANGED <<now, row, job, round, cleared, shown, closed>> /\ Exists(a)
        /\ pack' = [k \in Pack |-> [pack[k] EXCEPT !.members =
                      IF k \in K THEN pack[k].members \cup {a} ELSE pack[k].members \ {a}]]
    BY DEF AssignArticle, Joinable
  <1>2. ASSUME NEW k \in Pack
        PROVE  /\ pack'[k] \in PackType /\ pack'[k].members \subseteq pack[k].members \cup {a}
               /\ pack'[k].status = pack[k].status /\ pack'[k].sold = pack[k].sold
    <2>. DEFINE members == IF k \in K THEN pack[k].members \cup {a} ELSE pack[k].members \ {a}
    <2>1. members \subseteq Article /\ members \subseteq pack[k].members \cup {a}
      BY PacksHold
    <2>2. pack'[k] = [pack[k] EXCEPT !.members = members]
      BY <1>1
    <2>. HIDE DEF members
    <2>. QED  BY <2>1, <2>2, PacksHold DEF PackType
  <1>3. pack' \in [Pack -> PackType]
    BY <1>1, <1>2
  <1>4. \A k \in Pack : \A x \in pack'[k].members : Exists(x)
    BY <1>1, <1>2, PacksHold
  <1>5. \A k \in Pack : pack'[k].status = "PUBLICADO" => Whole(pack'[k].sold)
    BY <1>2, PacksHold
  <1>. QED  BY <1>1, <1>3, <1>4, <1>5, PackWrites

-----------------------------------------------------------------------------
(* The clock and the scheduler.                                            *)

(* Rounds, or the clock, and nothing else.                                 *)
LEMMA RoundMoves ==
  ASSUME NewsTypeOK, NewsInv, UNCHANGED <<row, pack, job, cleared, shown, closed>>,
         now' \in Date, now <= now', round' \in [Round -> SUBSET (Article \X Slot)],
         \A t \in Round : \A e \in round'[t] : e[1] \in cleared /\ e[2] <= now'
  PROVE  NewsTypeOK' /\ NewsInv'
  <1>1. Grows
    BY DEF Grows, NewsTypeOK, Exists
  <1>2. \A a \in Article : RowOK(a)'
    BY <1>1, RowStays DEF NewsInv
  <1>3. \A k \in Pack : PackOK(k)'
    BY <1>1, PacksStay DEF Exists
  <1>4. \A r \in Request : JobOK(job[r])'
    BY <1>1, AllJobsStay
  <1>5. RoundsAreDue'
    BY DEF RoundsAreDue
  <1>6. NewsTypeOK'
    BY DEF NewsTypeOK
  <1>. QED  BY <1>2, <1>3, <1>4, <1>5, <1>6 DEF NewsInv

LEMMA TickKeeps ==
  ASSUME NewsTypeOK, NewsInv, Tick
  PROVE  NewsTypeOK' /\ NewsInv'
  <1>1. now' \in Date /\ now <= now'
    <2>1. MaxTime \in Nat
      BY NewsroomAssumption
    <2>. QED  BY <2>1 DEF Tick, NewsTypeOK, Date
  <1>2. \A t \in Round : \A e \in round[t] : e[1] \in cleared /\ e[2] <= now'
    <2>1. UNCHANGED <<round, cleared>> /\ Grows
      BY <1>1 DEF Tick, Grows, NewsTypeOK, Exists
    <2>. QED  BY <2>1, RoundsStay
  <1>. QED  BY <1>1, <1>2, RoundMoves DEF Tick, NewsTypeOK

LEMMA ReadDueKeeps ==
  ASSUME NewsTypeOK, NewsInv, NEW t \in Round, ReadDue(t) \/ Restart(t)
  PROVE  NewsTypeOK' /\ NewsInv'
  <1>0. UNCHANGED <<now, row, pack, job, cleared, shown, closed>> /\ now <= now
    BY TimeFacts DEF ReadDue, Restart, NewsTypeOK
  <1>1. CASE ReadDue(t)
    <2>. DEFINE due == {<<a, row[a].sched>> : a \in {x \in Article : Due(x)}}
    <2>1. round' = [round EXCEPT ![t] = due]
      BY <1>1 DEF ReadDue
    <2>2. \A e \in due : \E a \in Article : Due(a) /\ e = <<a, row[a].sched>>
      OBVIOUS
    <2>. HIDE DEF due
    <2>3. \A e \in due : e \in Article \X Slot /\ e[1] \in cleared /\ e[2] <= now
      <3>1. ASSUME NEW e \in due
            PROVE  e \in Article \X Slot /\ e[1] \in cleared /\ e[2] <= now
        <4>1. PICK a \in Article : Due(a) /\ e = <<a, row[a].sched>>
          BY <2>2, <3>1
        <4>2. row[a].sched \in Slot /\ row[a].sched <= now
          BY <4>1 DEF Due, NewsTypeOK, RowType
        <4>3. a \in cleared
          BY <4>1 DEF Due, NewsInv, RowOK, Reserved
        <4>. QED  BY <4>1, <4>2, <4>3
      <3>. QED  BY <3>1
    <2>4. round' \in [Round -> SUBSET (Article \X Slot)]
      BY <2>1, <2>3 DEF NewsTypeOK
    <2>5. \A u \in Round : \A e \in round'[u] : e[1] \in cleared /\ e[2] <= now
      BY <2>1, <2>3 DEF NewsTypeOK, NewsInv, RoundsAreDue
    <2>. QED  BY <1>0, <2>4, <2>5, RoundMoves DEF NewsTypeOK
  <1>2. CASE Restart(t)
    <2>1. round' \in [Round -> SUBSET (Article \X Slot)]
      BY <1>2 DEF Restart, NewsTypeOK
    <2>2. \A u \in Round : \A e \in round'[u] : e[1] \in cleared /\ e[2] <= now
      BY <1>2 DEF Restart, NewsTypeOK, NewsInv, RoundsAreDue
    <2>. QED  BY <1>0, <2>1, <2>2, RoundMoves DEF NewsTypeOK
  <1>. QED  BY <1>1, <1>2

LEMMA PublishDueKeeps ==
  ASSUME NewsTypeOK, NewsInv, NEW t \in Round, NEW a \in Article, NEW d \in Slot,
         PublishDue(t, a, d)
  PROVE  NewsTypeOK' /\ NewsInv'
  <1>1. /\ <<a, d>> \in round[t] /\ UNCHANGED <<now, pack, job, cleared>>
        /\ round' = [round EXCEPT ![t] = round[t] \ {<<a, d>>}]
    BY DEF PublishDue
  <1>2. a \in cleared /\ d <= now /\ d # Undated /\ d \in Date
    BY <1>1, TimeFacts DEF NewsInv, RoundsAreDue
  <1>3. round' \in [Round -> SUBSET (Article \X Slot)] /\ \A u \in Round : round'[u] \subseteq round[u]
    BY <1>1 DEF NewsTypeOK
  <1>4. CASE Exists(a)
    <2>. DEFINE undated == Undated
                new == [row[a] EXCEPT !.status = "PUBLICADO", !.published = d,
                                      !.sched = undated]
    <2>1. WriteRow(a, new)
      BY <1>4 DEF PublishDue
    <2>2. row[a] \in RowType /\ undated \in Slot \cup {Undated} /\ "PUBLICADO" \in Status
      BY StatusSets DEF NewsTypeOK
    <2>3. new \in RowType /\ new.status = "PUBLICADO" /\ new.published = d
      <3>. HIDE DEF undated
      <3>. QED  BY <1>2, <2>2 DEF RowType
    <2>. HIDE DEF new
    <2>4. /\ row' = [row EXCEPT ![a] = new]
          /\ shown \subseteq shown' /\ shown' \subseteq Article
          /\ closed \subseteq closed' /\ closed' \subseteq Article
          /\ new.status \in Live => a \in shown'
      BY <2>1, <2>3, WriteRowIs
    <2>5. /\ Grows /\ row' \in [Article -> RowType]
          /\ \A x \in Article : RowOK(x)'
          /\ \A x \in Article : Exists(x) => Exists(x)'
      BY <1>1, <1>2, <1>4, <2>3, <2>4, OneRow
    <2>. QED  BY <1>1, <1>3, <2>5, AllJobsStay, PacksStay, PartsKeep
  <1>5. CASE ~Exists(a)
    <2>1. UNCHANGED <<row, pack, job, cleared, shown, closed, now>>
      BY <1>1, <1>5 DEF PublishDue
    <2>2. \A u \in Round : \A e \in round'[u] : e[1] \in cleared /\ e[2] <= now
      BY <1>3 DEF NewsInv, RoundsAreDue
    <2>3. now \in Date /\ now <= now
      BY TimeFacts DEF NewsTypeOK
    <2>. QED  BY <1>3, <2>1, <2>2, <2>3, RoundMoves
  <1>. QED  BY <1>4, <1>5

-----------------------------------------------------------------------------
LEMMA NewsKeeps == NewsTypeOK /\ NewsInv /\ [NewsNext]_nvars => NewsTypeOK' /\ NewsInv'
  <1>. SUFFICES ASSUME NewsTypeOK, NewsInv, [NewsNext]_nvars
                PROVE  NewsTypeOK' /\ NewsInv'
    OBVIOUS
  <1>1. ASSUME NEW a \in Article, ByStaff(a)
        PROVE  NewsTypeOK' /\ NewsInv'
    <2>1. ASSUME NEW p \in Person, NEW s \in Status, NEW d \in Slot \cup {Undated},
                 NEW e \in BOOLEAN, Create(p, a, s, d, e)
          PROVE  NewsTypeOK' /\ NewsInv'
      BY <2>1, CreateKeeps
    <2>2. ASSUME NEW p \in Person, NEW s \in Status, UpdateStatus(p, a, s)
          PROVE  NewsTypeOK' /\ NewsInv'
      BY <2>2, UpdateStatusKeeps
    <2>3. ASSUME NEW d \in Slot \cup {Undated}, UpdateSchedule(a, d)
          PROVE  NewsTypeOK' /\ NewsInv'
      BY <2>3, ScheduleKeeps
    <2>4. ASSUME NEW e \in BOOLEAN, UpdateExclusive(a, e)
          PROVE  NewsTypeOK' /\ NewsInv'
      BY <2>4, ExclusiveKeeps
    <2>5. ASSUME NEW e \in BOOLEAN, SaveDraft(a, e)
          PROVE  NewsTypeOK' /\ NewsInv'
      <3>1. {e} \in SUBSET BOOLEAN
        OBVIOUS
      <3>. QED  BY <2>5, <3>1, DraftKeeps DEF SaveDraft, Editable
    <2>6. CASE DiscardDraft(a)
      <3>1. {} \in SUBSET BOOLEAN
        OBVIOUS
      <3>. QED  BY <2>6, <3>1, DraftKeeps DEF DiscardDraft, Editable
    <2>7. CASE Archive(a) \/ RemoveArticle(a)
      BY <2>7, ArchiveKeeps, RemoveKeeps
    <2>. QED  BY <1>1, <2>1, <2>2, <2>3, <2>4, <2>5, <2>6, <2>7 DEF ByStaff
  <1>2. ASSUME NEW a \in Article, NEW r \in Request, ByRequest(r, a)
        PROVE  NewsTypeOK' /\ NewsInv'
    BY <1>2, BeginsKeep, WriteArticleKeeps, NextDraftKeeps, PutDraftKeeps DEF ByRequest
  <1>3. ASSUME NEW r \in Request, CloseMembers(r) \/ Abort(r)
        PROVE  NewsTypeOK' /\ NewsInv'
    BY <1>3, CloseMembersKeeps, AbortKeeps
  <1>4. ASSUME NEW k \in Pack, OfPack(k)
        PROVE  NewsTypeOK' /\ NewsInv'
    <2>1. CASE CreatePack(k) \/ Unpublish(k) \/ RemovePack(k)
                 \/ \E S \in SUBSET Article : SetArticles(k, S)
      BY <2>1, PackChangesKeep
    <2>2. CASE \E r \in Request : ReadToSell(r, k) \/ ReadPending(r, k)
      BY <2>2, ReadToSellKeeps
    <2>3. CASE \E r \in Request : PutOnSale(r, k)
      BY <2>3, PutOnSaleKeeps
    <2>4. CASE MakeExclusive(k)
      BY <2>4, MakeExclusiveKeeps
    <2>. QED  BY <1>4, <2>1, <2>2, <2>3, <2>4 DEF OfPack
  <1>5. ASSUME NEW a \in Article, NEW K, AssignArticle(a, K)
        PROVE  NewsTypeOK' /\ NewsInv'
    BY <1>5, AssignKeeps
  <1>6. CASE Tick
    BY <1>6, TickKeeps
  <1>7. ASSUME NEW t \in Round, ReadDue(t) \/ Restart(t)
        PROVE  NewsTypeOK' /\ NewsInv'
    BY <1>7, ReadDueKeeps
  <1>8. ASSUME NEW t \in Round, NEW a \in Article, NEW d \in Slot, PublishDue(t, a, d)
        PROVE  NewsTypeOK' /\ NewsInv'
    BY <1>8, PublishDueKeeps
  <1>9. CASE UNCHANGED nvars
    <2>1. /\ UNCHANGED <<now, row, pack, job, round, cleared, shown, closed>>
          /\ now \in Date /\ now <= now
      BY <1>9, TimeFacts DEF nvars, NewsTypeOK
    <2>. QED  BY <2>1, RoundMoves DEF NewsTypeOK, NewsInv, RoundsAreDue
  <1>. QED  BY <1>1, <1>2, <1>3, <1>4, <1>5, <1>6, <1>7, <1>8, <1>9 DEF NewsNext

(* The values every variable of the newsroom takes.                        *)
THEOREM NewsTypes == NewsSpec => []NewsTypeOK
  BY NewsBegins, NewsKeeps, PTL DEF NewsSpec

(* Whatever road an article takes to the readers, or to a timer away from  *)
(* them, a chief put it on it: a create, a PATCH, the clock and a pacote   *)
(* that publishes its drafts do not get around artigos.publicar.           *)
THEOREM ReleasesAreChiefs == NewsSpec => []OnlyChiefsRelease
  <1>1. NewsInv => OnlyChiefsRelease
    BY DEF NewsInv, RowOK, OnlyChiefsRelease
  <1>. QED  BY <1>1, NewsBegins, NewsKeeps, PTL DEF NewsSpec

(* What is live has a date, and one that has come.                         *)
THEOREM LiveHasADate == NewsSpec => []LiveIsDated
  <1>1. NewsInv => LiveIsDated
    BY DEF NewsInv, RowOK, LiveIsDated
  <1>. QED  BY <1>1, NewsBegins, NewsKeeps, PTL DEF NewsSpec

(* However the requests of others fall between the reading of a pacote,    *)
(* the publishing of its drafts and Stripe's answer, what it sells was     *)
(* shown and closed, but for articles deleted meanwhile.                   *)
THEOREM SalesAreWhole == NewsSpec => []SaleIsWhole
  <1>1. NewsInv => SaleIsWhole
    BY DEF NewsInv, PackOK, Whole, SaleIsWhole
  <1>. QED  BY <1>1, NewsBegins, NewsKeeps, PTL DEF NewsSpec

-----------------------------------------------------------------------------
(* ArticleEditor.                                                          *)

(* What holds of a page's editor, its autosave and its button, whatever    *)
(* the others do.                                                          *)

(* A save under way is the open editor's own; a timer is an open editor's. *)
Owned(t, a, m) ==
  /\ t.armed # {} => t.open
  /\ t.inFlight <=> a.mine
  /\ a.mine => t.open /\ a.pc # "none"
  /\ m.pc \in {"read", "done"} => a.pc = "none"

(* What is to be sent again is noted while a save travels, and not of one  *)
(* that a button has superseded.                                           *)
Awaited(t, a, m) ==
  /\ t.dirty => t.inFlight
  /\ t.stale /\ t.inFlight => m.pc # "none" /\ ~t.dirty

(* An editor whose autosave made an article has its id, or the answer that *)
(* brings it is on its way.                                                *)
Known(t, a) ==
  /\ t.made # {} => t.open
  /\ t.made # {} /\ ~t.slipped =>
       t.id # {} \/ (a.mine /\ a.pc = "done" /\ a.ok /\ a.made # {})
  /\ a.pc = "sent" /\ a.mine /\ a.id = {} => t.made = {} \/ t.slipped

(* Words the server does not have are about to be sent.                    *)
Promised(t, a, m) ==
  Enabled(t) /\ m.pc = "none" /\ t.text # t.kept /\ t.status # "error" =>
    \/ t.armed # {}
    \/ t.inFlight /\ (a.text = t.text \/ t.dirty)

PageOK(t, a, m) ==
  /\ t \in TabType /\ a \in AutoType /\ m \in ManualType
  /\ Owned(t, a, m) /\ Awaited(t, a, m) /\ Known(t, a) /\ Promised(t, a, m)

PagesOK == \A p \in Page : PageOK(tab[p], auto[p], manual[p])

-----------------------------------------------------------------------------
(* The editor's forms, and what the timers do to them.                     *)

LEMMA TextFacts == 0 \in Text /\ 1 \in Text /\ Text \subseteq Nat
  BY EditorAssumption DEF Text

LEMMA NoTabIs ==
  /\ NoTab \in TabType
  /\ ~NoTab.open /\ NoTab.id = {} /\ NoTab.made = {} /\ NoTab.armed = {}
  /\ ~NoTab.inFlight /\ ~NoTab.dirty /\ ~NoTab.stale
  BY TextFacts DEF NoTab, TabType, Clocks

LEMMA NoAutoIs ==
  NoAuto \in AutoType /\ NoAuto.pc = "none" /\ ~NoAuto.mine
  BY TextFacts DEF NoAuto, AutoType

LEMMA NoManualIs == NoManual \in ManualType /\ NoManual.pc = "none"
  BY TextFacts DEF NoManual, ManualType

LEMMA NoPieceIs == NoPiece \in PieceType
  BY TextFacts DEF NoPiece, PieceType

(* One form is another but for its timers.                                 *)
SameForm(t, u) ==
  /\ u \in TabType
  /\ u.open = t.open /\ u.id = t.id /\ u.text = t.text /\ u.initial = t.initial
  /\ u.fresh = t.fresh /\ u.live = t.live /\ u.initialLive = t.initialLive
  /\ u.inFlight = t.inFlight /\ u.dirty = t.dirty /\ u.stale = t.stale /\ u.status = t.status
  /\ u.kept = t.kept /\ u.made = t.made /\ u.slipped = t.slipped

Timed(t, armed, held) == [t EXCEPT !.armed = armed, !.held = held]

LEMMA TimedIs ==
  ASSUME NEW t \in TabType, NEW armed \in SUBSET Clocks, NEW held \in SUBSET Clocks
  PROVE  SameForm(t, Timed(t, armed, held)) /\ Timed(t, armed, held).armed = armed
  BY DEF SameForm, Timed, TabType

LEMMA SameFormOf ==
  ASSUME NEW t, NEW u, NEW v, SameForm(t, u), SameForm(u, v)
  PROVE  SameForm(t, v)
  BY DEF SameForm

LEMMA EnabledAlike ==
  ASSUME NEW t, NEW u, SameForm(t, u)
  PROVE  Enabled(u) <=> Enabled(t)
  BY DEF SameForm, Enabled, Untouched

LEMMA ArmIs ==
  ASSUME NEW t \in TabType, NEW x \in Clocks
  PROVE  SameForm(t, Arm(t, x)) /\ Arm(t, x).armed = t.armed \cup {x}
  <1>. DEFINE armed == t.armed \cup {x}
              held == (t.held \ On(x)) \cup {x}
  <1>1. armed \in SUBSET Clocks /\ held \in SUBSET Clocks
    BY DEF TabType
  <1>2. Arm(t, x) = Timed(t, armed, held)
    BY DEF Arm, Timed
  <1>. HIDE DEF armed, held
  <1>3. SameForm(t, Arm(t, x)) /\ Arm(t, x).armed = armed
    BY <1>1, <1>2, TimedIs
  <1>. QED  BY <1>3 DEF armed

LEMMA DisarmIs ==
  ASSUME NEW t \in TabType, NEW X
  PROVE  SameForm(t, Disarm(t, X)) /\ Disarm(t, X).armed = t.armed \ X
  <1>. DEFINE armed == t.armed \ X
              held == t.held \ X
  <1>1. armed \in SUBSET Clocks /\ held \in SUBSET Clocks
    BY DEF TabType
  <1>2. Disarm(t, X) = Timed(t, armed, held)
    BY DEF Disarm, Timed
  <1>. HIDE DEF armed, held
  <1>3. SameForm(t, Disarm(t, X)) /\ Disarm(t, X).armed = armed
    BY <1>1, <1>2, TimedIs
  <1>. QED  BY <1>3 DEF armed

(* The effects arm a timer when the editor is to save, and none otherwise. *)
LEMMA WatchIs ==
  ASSUME NEW t \in TabType, NEW was, NEW is
  PROVE  /\ SameForm(t, Watch(t, was, is))
         /\ is => Watch(t, was, is).armed # {}
         /\ ~is => Watch(t, was, is).armed \subseteq t.armed
  <1>. DEFINE X == {"typed"} \cup IF was # is THEN {"opened"} ELSE {}
              off == Disarm(t, X)
              idle == IF is THEN Arm(off, "typed") ELSE off
              last == IF is /\ ~was THEN Arm(idle, "opened") ELSE idle
  <1>1. Watch(t, was, is) = last
    BY DEF Watch
  <1>2. SameForm(t, off) /\ off.armed \subseteq t.armed
    <2>. HIDE DEF X
    <2>. QED  BY DisarmIs
  <1>. HIDE DEF off
  <1>3. off \in TabType /\ "typed" \in Clocks /\ "opened" \in Clocks
    BY <1>2 DEF SameForm, Clocks
  <1>4. SameForm(off, Arm(off, "typed")) /\ Arm(off, "typed").armed # {}
    BY <1>3, ArmIs
  <1>5. SameForm(t, idle) /\ (is => idle.armed # {}) /\ (~is => idle.armed \subseteq t.armed)
    BY <1>2, <1>4, SameFormOf
  <1>. HIDE DEF idle
  <1>6. idle \in TabType
    BY <1>5 DEF SameForm
  <1>7. SameForm(idle, Arm(idle, "opened")) /\ Arm(idle, "opened").armed # {}
    BY <1>3, <1>6, ArmIs
  <1>8. SameForm(t, last) /\ (is => last.armed # {}) /\ (~is => last.armed \subseteq t.armed)
    BY <1>5, <1>7, SameFormOf
  <1>. QED  BY <1>1, <1>8

-----------------------------------------------------------------------------
(* One lemma per step of a page, about the page's records alone.           *)

(* All of PageOK but what a timer must promise.                            *)
Settled(t, a, m) ==
  /\ t \in TabType /\ a \in AutoType /\ m \in ManualType
  /\ Owned(t, a, m) /\ Awaited(t, a, m) /\ Known(t, a)

LEMMA PageParts == \A t, a, m : PageOK(t, a, m) <=> Settled(t, a, m) /\ Promised(t, a, m)
  BY DEF PageOK, Settled

LEMMA SettledAlike ==
  ASSUME NEW t, NEW a, NEW m, NEW u, Settled(t, a, m), SameForm(t, u),
         u.armed # {} => t.open
  PROVE  Settled(u, a, m)
  <1>1. u \in TabType
    BY DEF SameForm
  <1>2. Owned(u, a, m)
    BY DEF Settled, SameForm, Owned
  <1>3. Awaited(u, a, m)
    BY DEF Settled, SameForm, Awaited
  <1>4. Known(u, a)
    BY DEF Settled, SameForm, Known
  <1>. QED  BY <1>1, <1>2, <1>3, <1>4 DEF Settled

LEMMA WatchedIsOK ==
  ASSUME NEW t, NEW a, NEW m, Settled(t, a, m), NEW was
  PROVE  PageOK(Watch(t, was, Enabled(t) /\ ~(m.pc # "none")), a, m)
  <1>. DEFINE is == Enabled(t) /\ ~(m.pc # "none")
              u == Watch(t, was, is)
  <1>1. t \in TabType
    BY DEF Settled
  <1>2. SameForm(t, u) /\ (is => u.armed # {}) /\ (~is => u.armed \subseteq t.armed)
    <2>. HIDE DEF is
    <2>. QED  BY <1>1, WatchIs
  <1>3. is => t.open
    BY DEF Enabled
  <1>4. t.armed # {} => t.open
    BY DEF Settled, Owned
  <1>5. Enabled(u) /\ m.pc = "none" => is
    <2>. HIDE DEF u
    <2>. QED  BY <1>2, EnabledAlike
  <1>. HIDE DEF u, is
  <1>6. u.armed # {} => t.open
    BY <1>2, <1>3, <1>4
  <1>7. Settled(u, a, m)
    BY <1>2, <1>6, SettledAlike
  <1>8. Promised(u, a, m)
    BY <1>2, <1>5 DEF Promised
  <1>9. PageOK(u, a, m)
    BY <1>7, <1>8, PageParts
  <1>. QED  BY <1>9 DEF u, is

(* A form with other words in it, or another state.                        *)
Worded(t, text, live) == [t EXCEPT !.text = text, !.live = live]
LEMMA WordedSettles ==
  ASSUME NEW t, NEW a, NEW m, Settled(t, a, m), NEW text \in Text, NEW live \in BOOLEAN
  PROVE  Settled(Worded(t, text, live), a, m)
  <1>. DEFINE u == Worded(t, text, live)
  <1>1. t \in TabType
    BY DEF Settled
  <1>2. /\ u \in TabType /\ u.open = t.open /\ u.id = t.id /\ u.made = t.made
        /\ u.inFlight = t.inFlight /\ u.dirty = t.dirty /\ u.stale = t.stale
        /\ u.slipped = t.slipped /\ u.armed = t.armed
    BY <1>1 DEF Worded, TabType
  <1>. HIDE DEF u
  <1>3. Owned(u, a, m)
    BY <1>2 DEF Settled, Owned
  <1>4. Awaited(u, a, m)
    BY <1>2 DEF Settled, Awaited
  <1>5. Known(u, a)
    BY <1>2 DEF Settled, Known
  <1>6. Settled(u, a, m)
    BY <1>2, <1>3, <1>4, <1>5 DEF Settled
  <1>. QED  BY <1>6 DEF u

(* An editor that was just opened has nothing to save.                     *)
LEMMA OpenedIsOK ==
  ASSUME NEW t, NEW a, NEW m, PageOK(t, a, m), ~t.open, NEW u \in TabType,
         u.text = u.kept, u.made = {}, u.armed = {}, ~u.inFlight, ~u.dirty, ~u.stale
  PROVE  PageOK(u, a, m)
  <1>1. ~a.mine
    BY DEF PageOK, Owned
  <1>2. Owned(u, a, m)
    BY <1>1 DEF PageOK, Owned
  <1>3. Awaited(u, a, m)
    BY DEF Awaited
  <1>4. Known(u, a)
    BY DEF Known
  <1>5. Promised(u, a, m)
    BY DEF Promised
  <1>. QED  BY <1>2, <1>3, <1>4, <1>5 DEF PageOK

OpenedNew == [NoTab EXCEPT !.open = TRUE, !.fresh = TRUE]
OpenedOn(id, text, live) ==
  [NoTab EXCEPT !.open = TRUE, !.id = id, !.text = text, !.initial = text,
                !.kept = text, !.live = live, !.initialLive = live]
LEMMA OpenedNewIs ==
  LET u == OpenedNew
  IN  /\ u \in TabType /\ u.text = u.kept /\ u.made = {} /\ u.armed = {}
      /\ ~u.inFlight /\ ~u.dirty /\ ~u.stale
  <1>1. NoTab.text = NoTab.kept
    BY DEF NoTab
  <1>. QED  BY <1>1, NoTabIs DEF OpenedNew, TabType
LEMMA OpenedOnIs ==
  ASSUME NEW id \in SUBSET Piece, NEW text \in Text, NEW live \in BOOLEAN
  PROVE  LET u == OpenedOn(id, text, live)
         IN  /\ u \in TabType /\ u.text = u.kept /\ u.made = {} /\ u.armed = {}
             /\ ~u.inFlight /\ ~u.dirty /\ ~u.stale
  BY NoTabIs DEF OpenedOn, TabType

(* An editor that goes lets go of its autosave.                            *)
Loosed(a) == [a EXCEPT !.mine = FALSE]
LEMMA GoneIsOK ==
  ASSUME NEW t, NEW a, NEW m, PageOK(t, a, m), NEW n \in ManualType,
         n.pc \in {"none", m.pc}
  PROVE  PageOK(NoTab, Loosed(a), n)
  <1>. DEFINE b == Loosed(a)
  <1>1. b \in AutoType /\ b.pc = a.pc /\ ~b.mine
    BY DEF PageOK, AutoType, Loosed
  <1>. HIDE DEF b
  <1>2. n.pc \in {"read", "done"} => b.pc = "none"
    BY <1>1 DEF PageOK, Owned
  <1>3. Owned(NoTab, b, n)
    BY <1>1, <1>2, NoTabIs DEF Owned
  <1>4. Awaited(NoTab, b, n) /\ Known(NoTab, b)
    BY NoTabIs DEF Awaited, Known
  <1>5. Promised(NoTab, b, n)
    BY NoTabIs DEF Promised, Enabled
  <1>6. PageOK(NoTab, b, n)
    BY <1>1, <1>3, <1>4, <1>5, NoTabIs DEF PageOK
  <1>. QED  BY <1>6 DEF b

LEMMA VainIsOK ==
  ASSUME NEW t, NEW a, NEW m, PageOK(t, a, m), NEW X, ~Enabled(t) \/ m.pc # "none"
  PROVE  PageOK(Disarm(t, X), a, m)
  <1>. DEFINE u == Disarm(t, X)
  <1>1. SameForm(t, u) /\ u.armed \subseteq t.armed
    BY DisarmIs DEF PageOK
  <1>2. Enabled(u) <=> Enabled(t)
    <2>. HIDE DEF u
    <2>. QED  BY <1>1, EnabledAlike
  <1>. HIDE DEF u
  <1>3. Settled(u, a, m)
    BY <1>1, PageParts, SettledAlike DEF Settled, Owned
  <1>4. Promised(u, a, m)
    BY <1>2 DEF Promised
  <1>5. PageOK(u, a, m)
    BY <1>3, <1>4, PageParts
  <1>. QED  BY <1>5 DEF u

LEMMA BusyIsOK ==
  ASSUME NEW t, NEW a, NEW m, PageOK(t, a, m), NEW X, m.pc = "none", t.inFlight
  PROVE  PageOK(Busy(Disarm(t, X)), a, m)
  <1>. DEFINE u == Disarm(t, X)
              v == Busy(u)
  <1>1. SameForm(t, u) /\ u.armed \subseteq t.armed
    BY DisarmIs DEF PageOK
  <1>. HIDE DEF u
  <1>2. Settled(u, a, m) /\ u \in TabType /\ u.inFlight
    BY <1>1, PageParts, SettledAlike DEF Settled, Owned, SameForm
  <1>3. /\ v \in TabType /\ v.open = u.open /\ v.id = u.id /\ v.made = u.made
        /\ v.inFlight = u.inFlight /\ v.dirty /\ v.stale = u.stale
        /\ v.slipped = u.slipped /\ v.armed = u.armed
    BY <1>2 DEF Busy, TabType
  <1>. HIDE DEF v
  <1>4. Owned(v, a, m)
    BY <1>2, <1>3 DEF Settled, Owned
  <1>5. Awaited(v, a, m)
    BY <1>2, <1>3 DEF Settled, Awaited
  <1>6. Known(v, a)
    BY <1>2, <1>3 DEF Settled, Known
  <1>7. Promised(v, a, m)
    BY <1>2, <1>3 DEF Promised
  <1>8. PageOK(v, a, m)
    BY <1>2, <1>3, <1>4, <1>5, <1>6, <1>7 DEF PageOK, Settled
  <1>. QED  BY <1>8 DEF u, v

(* The autosave goes out with what the form says.                          *)
Sending(t) == [t EXCEPT !.inFlight = TRUE, !.stale = FALSE, !.status = "saving"]
Sent(id, text, live) ==
  [NoAuto EXCEPT !.pc = "sent", !.id = id, !.text = text, !.live = live, !.mine = TRUE]
LEMMA SentIs ==
  ASSUME NEW id \in SUBSET Piece, NEW text \in Text, NEW live \in BOOLEAN
  PROVE  /\ Sent(id, text, live) \in AutoType /\ Sent(id, text, live).pc = "sent"
         /\ Sent(id, text, live).id = id /\ Sent(id, text, live).text = text
         /\ Sent(id, text, live).mine
  BY NoAutoIs DEF Sent, AutoType

LEMMA FireIsOK ==
  ASSUME NEW t, NEW a, NEW m, PageOK(t, a, m), NEW X, t.open, m.pc = "none",
         ~t.inFlight, a.pc = "none"
  PROVE  PageOK(Sending(ClearTimers(Disarm(t, X))), Sent(t.id, t.text, t.live), m)
  <1>. DEFINE u == Disarm(t, X)
              v == ClearTimers(u)
              w == Sending(v)
              id == t.id
              text == t.text
              live == t.live
              b == Sent(id, text, live)
  <1>1. t \in TabType /\ id \in SUBSET Piece /\ text \in Text /\ live \in BOOLEAN
    BY DEF PageOK, TabType
  <1>2. SameForm(t, u)
    BY <1>1, DisarmIs
  <1>. HIDE DEF u
  <1>3. SameForm(t, v)
    <2>1. u \in TabType
      BY <1>2 DEF SameForm
    <2>2. SameForm(u, v)
      BY <2>1, DisarmIs DEF ClearTimers
    <2>. HIDE DEF v
    <2>. QED  BY <1>2, <2>2, SameFormOf
  <1>. HIDE DEF v
  <1>4. /\ w \in TabType /\ w.open = t.open /\ w.id = t.id /\ w.text = t.text
        /\ w.made = t.made /\ w.slipped = t.slipped /\ w.dirty = t.dirty
        /\ w.inFlight /\ ~w.stale
    BY <1>3 DEF Sending, SameForm, TabType
  <1>. HIDE DEF w
  <1>5. b \in AutoType /\ b.pc = "sent" /\ b.id = t.id /\ b.text = t.text /\ b.mine
    <2>. HIDE DEF id, text, live
    <2>1. b \in AutoType /\ b.pc = "sent" /\ b.id = id /\ b.text = text /\ b.mine
      BY <1>1, SentIs
    <2>. QED  BY <2>1 DEF id, text
  <1>. HIDE DEF b
  <1>6. Owned(w, b, m)
    BY <1>4, <1>5 DEF Owned
  <1>7. Awaited(w, b, m)
    BY <1>4 DEF Awaited
  <1>8. ~a.mine
    BY DEF PageOK, Owned
  <1>9. Known(w, b)
    BY <1>4, <1>5, <1>8 DEF PageOK, Known
  <1>10. Promised(w, b, m)
    BY <1>4, <1>5 DEF Promised
  <1>11. PageOK(w, b, m)
    BY <1>4, <1>5, <1>6, <1>7, <1>9, <1>10 DEF PageOK
  <1>. QED  BY <1>11 DEF b, w, v, u, id, text, live

(* The server answers; what it made is the editor's if the save is.        *)
Answered(a, ok, made) == [a EXCEPT !.pc = "done", !.ok = ok, !.made = made]
Marked(t, made, slipped) == [t EXCEPT !.made = made, !.slipped = slipped]

LEMMA AnsweredIs ==
  ASSUME NEW a \in AutoType, NEW ok \in BOOLEAN, NEW made \in SUBSET Piece
  PROVE  /\ Answered(a, ok, made) \in AutoType /\ Answered(a, ok, made).pc = "done"
         /\ Answered(a, ok, made).ok = ok /\ Answered(a, ok, made).made = made
         /\ Answered(a, ok, made).mine = a.mine /\ Answered(a, ok, made).text = a.text
  BY DEF Answered, AutoType

LEMMA MarkedIs ==
  ASSUME NEW t \in TabType, NEW made \in SUBSET Piece, NEW slipped \in BOOLEAN
  PROVE  LET u == Marked(t, made, slipped)
         IN  /\ u \in TabType /\ u.made = made /\ u.slipped = slipped
             /\ u.open = t.open /\ u.id = t.id /\ u.text = t.text /\ u.initial = t.initial
             /\ u.live = t.live /\ u.initialLive = t.initialLive
             /\ u.fresh = t.fresh /\ u.inFlight = t.inFlight /\ u.dirty = t.dirty
             /\ u.stale = t.stale /\ u.status = t.status /\ u.kept = t.kept
             /\ u.armed = t.armed
  BY DEF Marked, TabType

LEMMA AnswerIsOK ==
  ASSUME NEW t, NEW a, NEW m, PageOK(t, a, m), a.pc # "none",
         NEW ok \in BOOLEAN, NEW new \in SUBSET Piece,
         NEW made \in SUBSET Piece, NEW slipped \in BOOLEAN,
         made # {} => t.open,
         t.slipped => slipped,
         made # {} /\ ~slipped => t.id # {} \/ (a.mine /\ ok /\ new # {})
  PROVE  PageOK(Marked(t, made, slipped), Answered(a, ok, new), m)
  <1>. DEFINE u == Marked(t, made, slipped)
              b == Answered(a, ok, new)
  <1>1. t \in TabType /\ a \in AutoType
    BY DEF PageOK
  <1>2. /\ u \in TabType /\ u.made = made /\ u.slipped = slipped
        /\ u.open = t.open /\ u.id = t.id /\ u.text = t.text /\ u.initial = t.initial
        /\ u.live = t.live /\ u.initialLive = t.initialLive
        /\ u.fresh = t.fresh /\ u.inFlight = t.inFlight /\ u.dirty = t.dirty
        /\ u.stale = t.stale /\ u.status = t.status /\ u.kept = t.kept
        /\ u.armed = t.armed
    BY <1>1 DEF Marked, TabType
  <1>3. /\ b \in AutoType /\ b.pc = "done" /\ b.ok = ok /\ b.made = new
        /\ b.mine = a.mine /\ b.text = a.text
    BY <1>1, AnsweredIs
  <1>. HIDE DEF u, b
  <1>4. Owned(u, b, m)
    BY <1>2, <1>3 DEF PageOK, Owned
  <1>5. Awaited(u, b, m)
    BY <1>2 DEF PageOK, Awaited
  <1>6. Known(u, b)
    BY <1>2, <1>3 DEF Known
  <1>7. Promised(u, b, m)
    BY <1>2, <1>3 DEF PageOK, Promised, Enabled, Untouched
  <1>8. PageOK(u, b, m)
    BY <1>2, <1>3, <1>4, <1>5, <1>6, <1>7 DEF PageOK
  <1>. QED  BY <1>8 DEF u, b

(* What comes back: the id, and what the timers do then.                   *)
LEMMA AdoptIs ==
  ASSUME NEW t \in TabType, NEW made \in SUBSET Piece
  PROVE  LET u == Adopt(t, made)
         IN  /\ u \in TabType /\ u.id = (IF t.id = {} THEN made ELSE t.id)
             /\ u.open = t.open /\ u.made = t.made /\ u.slipped = t.slipped
             /\ u.inFlight = t.inFlight /\ u.dirty = t.dirty /\ u.stale = t.stale
             /\ u.armed = t.armed /\ u.text = t.text /\ u.kept = t.kept
             /\ u.status = t.status
             /\ t.id # {} \/ made = {} => u = t
  <1>1. CASE t.id = {}
    <2>1. Adopt(t, made) = [t EXCEPT !.id = made]
      BY <1>1 DEF Adopt
    <2>2. made = {} => [t EXCEPT !.id = made] = t
      BY <1>1 DEF TabType
    <2>3. LET u == [t EXCEPT !.id = made]
          IN  /\ u \in TabType /\ u.id = made
              /\ u.open = t.open /\ u.made = t.made /\ u.slipped = t.slipped
              /\ u.inFlight = t.inFlight /\ u.dirty = t.dirty /\ u.stale = t.stale
              /\ u.armed = t.armed /\ u.text = t.text /\ u.kept = t.kept
              /\ u.status = t.status
      BY DEF TabType
    <2>. QED  BY <1>1, <2>1, <2>2, <2>3
  <1>2. CASE t.id # {}
    BY <1>2 DEF Adopt
  <1>. QED  BY <1>1, <1>2

Told(t, ok, text) ==
  IF ok THEN [Arm(t, "saved") EXCEPT !.status = "saved", !.kept = text]
  ELSE [t EXCEPT !.status = "error"]
LEMMA ToldIs ==
  ASSUME NEW t \in TabType, NEW ok \in BOOLEAN, NEW text \in Text
  PROVE  LET u == Told(t, ok, text)
         IN  /\ u \in TabType /\ u.open = t.open /\ u.id = t.id /\ u.made = t.made
             /\ u.slipped = t.slipped /\ u.dirty = t.dirty /\ u.stale = t.stale
             /\ ok => u.armed # {}
             /\ ~ok => u.armed = t.armed /\ u.status = "error"
  <1>1. CASE ok
    <2>. DEFINE v == Arm(t, "saved")
    <2>1. SameForm(t, v) /\ v.armed # {}
      BY ArmIs DEF Clocks
    <2>2. Told(t, ok, text) = [v EXCEPT !.status = "saved", !.kept = text]
      BY <1>1 DEF Told
    <2>. HIDE DEF v
    <2>. QED  BY <1>1, <2>1, <2>2 DEF SameForm, TabType
  <1>2. CASE ~ok
    <2>1. Told(t, ok, text) = [t EXCEPT !.status = "error"]
      BY <1>2 DEF Told
    <2>. QED  BY <1>2, <2>1 DEF TabType
  <1>. QED  BY <1>1, <1>2

(* A save that came back: it travels no more, and either a timer is armed, *)
(* or an error is shown, or a button had superseded it.                    *)
LEMMA AfterIs ==
  ASSUME NEW t \in TabType, NEW ok \in BOOLEAN, NEW text \in Text, t.open
  PROVE  LET u == After(t, ok, text)
         IN  /\ u \in TabType /\ u.open /\ u.id = t.id /\ u.made = t.made
             /\ u.slipped = t.slipped /\ ~u.inFlight
             /\ u.dirty => t.stale /\ t.dirty
             /\ t.stale \/ u.armed # {} \/ u.status = "error"
  <1>. DEFINE told == Told(t, ok, text)
              next == IF told.dirty THEN [Arm(told, "queued") EXCEPT !.dirty = FALSE] ELSE told
              last == IF t.stale THEN t ELSE next
  <1>1. /\ told \in TabType /\ told.open = t.open /\ told.id = t.id /\ told.made = t.made
        /\ told.slipped = t.slipped /\ told.dirty = t.dirty
        /\ told.armed # {} \/ told.status = "error"
    BY ToldIs
  <1>2. After(t, ok, text) = [last EXCEPT !.inFlight = FALSE]
    BY <1>1 DEF After, Told
  <1>. HIDE DEF told
  <1>3. /\ next \in TabType /\ next.open /\ next.id = t.id /\ next.made = t.made
        /\ next.slipped = t.slipped /\ ~next.dirty
        /\ next.armed # {} \/ next.status = "error"
    <2>1. CASE told.dirty
      <3>. DEFINE v == Arm(told, "queued")
      <3>1. SameForm(told, v) /\ v.armed # {}
        BY <1>1, ArmIs DEF Clocks
      <3>2. next = [v EXCEPT !.dirty = FALSE]
        BY <2>1
      <3>. HIDE DEF v, next
      <3>. QED  BY <1>1, <3>1, <3>2 DEF SameForm, TabType
    <2>2. CASE ~told.dirty
      BY <1>1, <2>2
    <2>. QED  BY <2>1, <2>2
  <1>. HIDE DEF next
  <1>4. /\ last \in TabType /\ last.open /\ last.id = t.id /\ last.made = t.made
        /\ last.slipped = t.slipped /\ (last.dirty => t.stale /\ t.dirty)
        /\ t.stale \/ last.armed # {} \/ last.status = "error"
    BY <1>3
  <1>. HIDE DEF last
  <1>. QED  BY <1>2, <1>4 DEF TabType

LEMMA ReturnIsOK ==
  ASSUME NEW t, NEW a, NEW m, PageOK(t, a, m), a.pc = "done", NEW was
  PROVE  LET adopted == IF a.ok THEN Adopt(t, a.made) ELSE t
             after == After(adopted, a.ok, a.text)
         IN  /\ ~a.mine => PageOK(t, NoAuto, m)
             /\ a.mine => /\ PageOK(after, NoAuto, m)
                          /\ PageOK(Watch(after, was, Enabled(after) /\ ~(m.pc # "none")),
                                    NoAuto, m)
  <1>. DEFINE made == a.made
              ok == a.ok
              text == a.text
              adopted == IF ok THEN Adopt(t, made) ELSE t
              after == After(adopted, ok, text)
  <1>1. /\ t \in TabType /\ made \in SUBSET Piece /\ ok \in BOOLEAN /\ text \in Text
        /\ m \in ManualType
    BY DEF PageOK, AutoType
  <1>2. ASSUME ~a.mine PROVE PageOK(t, NoAuto, m)
    <2>1. Owned(t, NoAuto, m)
      BY <1>2, NoAutoIs DEF PageOK, Owned
    <2>2. Awaited(t, NoAuto, m)
      BY DEF PageOK, Awaited
    <2>3. Known(t, NoAuto)
      BY <1>2, NoAutoIs DEF PageOK, Known
    <2>4. ~t.inFlight
      BY <1>2 DEF PageOK, Owned
    <2>5. Promised(t, NoAuto, m)
      BY <2>4 DEF PageOK, Promised
    <2>. QED  BY <1>1, <2>1, <2>2, <2>3, <2>5, NoAutoIs DEF PageOK
  <1>3. ASSUME a.mine PROVE PageOK(after, NoAuto, m)
    <2>1. /\ t.open /\ t.inFlight /\ (t.stale => m.pc # "none" /\ ~t.dirty)
          /\ m.pc \notin {"read", "done"}
          /\ t.made # {} /\ ~t.slipped => t.id # {} \/ (ok /\ made # {})
      BY <1>3 DEF PageOK, Owned, Awaited, Known
    <2>. HIDE DEF made, ok, text
    <2>2. /\ adopted \in TabType /\ adopted.open /\ adopted.made = t.made
          /\ adopted.slipped = t.slipped /\ adopted.stale = t.stale
          /\ adopted.dirty = t.dirty
          /\ t.id # {} \/ (ok /\ made # {}) => adopted.id # {}
      BY <1>1, <2>1, AdoptIs
    <2>. HIDE DEF adopted
    <2>3. /\ after \in TabType /\ after.open /\ after.id = adopted.id
          /\ after.made = adopted.made /\ after.slipped = adopted.slipped
          /\ ~after.inFlight /\ (after.dirty => adopted.stale /\ adopted.dirty)
          /\ adopted.stale \/ after.armed # {} \/ after.status = "error"
      BY <1>1, <2>2, AfterIs
    <2>. HIDE DEF after
    <2>4. Owned(after, NoAuto, m)
      BY <2>1, <2>3, NoAutoIs DEF Owned
    <2>5. Awaited(after, NoAuto, m)
      BY <2>1, <2>2, <2>3 DEF Awaited
    <2>6. Known(after, NoAuto)
      BY <2>1, <2>2, <2>3, NoAutoIs DEF Known
    <2>7. Promised(after, NoAuto, m)
      BY <2>1, <2>2, <2>3 DEF Promised
    <2>. QED  BY <1>1, <2>3, <2>4, <2>5, <2>6, <2>7, NoAutoIs DEF PageOK
  <1>4. ASSUME a.mine
        PROVE  PageOK(Watch(after, was, Enabled(after) /\ ~(m.pc # "none")), NoAuto, m)
    <2>1. Settled(after, NoAuto, m)
      BY <1>3, <1>4, PageParts
    <2>. HIDE DEF after
    <2>. QED  BY <2>1, WatchedIsOK
  <1>. QED  BY <1>2, <1>3, <1>4

(* Pressing a button: what waits is cancelled or paused, and a call goes   *)
(* out that nothing of the autosave comes before.                          *)
LEMMA PressedIsOK ==
  ASSUME NEW t, NEW a, NEW m, PageOK(t, a, m), NEW n \in ManualType, n.pc = "sent"
  PROVE  PageOK(t, a, n)
  <1>1. Owned(t, a, n)
    BY DEF PageOK, Owned
  <1>2. Awaited(t, a, n)
    BY DEF PageOK, Awaited
  <1>3. Promised(t, a, n)
    BY DEF Promised
  <1>. QED  BY <1>1, <1>2, <1>3 DEF PageOK

LEMMA PausedIsOK ==
  ASSUME NEW t, NEW a, NEW n, Settled(t, a, n), n.pc # "none", NEW was
  PROVE  PageOK(Watch(t, was, FALSE), a, n)
  <1>. DEFINE u == Watch(t, was, FALSE)
  <1>1. SameForm(t, u) /\ u.armed \subseteq t.armed
    BY WatchIs DEF Settled
  <1>. HIDE DEF u
  <1>2. Settled(u, a, n)
    BY <1>1, SettledAlike DEF Settled, Owned
  <1>3. Promised(u, a, n)
    BY DEF Promised
  <1>4. PageOK(u, a, n)
    BY <1>2, <1>3, PageParts
  <1>. QED  BY <1>4 DEF u

LEMMA CancelledSettles ==
  ASSUME NEW t, NEW a, NEW n, Settled(t, a, n), n.pc # "none"
  PROVE  Settled(CancelPending(t), a, n)
  <1>. DEFINE u == ClearTimers(t)
              v == CancelPending(t)
  <1>1. SameForm(t, u) /\ u.armed \subseteq t.armed
    BY DisarmIs DEF Settled, ClearTimers
  <1>2. v = [u EXCEPT !.dirty = FALSE, !.stale = t.inFlight]
    BY DEF CancelPending
  <1>3. Settled(u, a, n)
    <2>. HIDE DEF u
    <2>. QED  BY <1>1, SettledAlike DEF Settled, Owned
  <1>4. t.inFlight \in BOOLEAN
    BY DEF Settled, TabType
  <1>. HIDE DEF u, v
  <1>5. /\ v \in TabType /\ v.open = u.open /\ v.id = u.id /\ v.made = u.made
        /\ v.inFlight = u.inFlight /\ ~v.dirty
        /\ v.slipped = u.slipped /\ v.armed = u.armed
    BY <1>2, <1>3, <1>4 DEF Settled, TabType
  <1>6. Owned(v, a, n)
    BY <1>3, <1>5 DEF Settled, Owned
  <1>7. Awaited(v, a, n)
    BY <1>5 DEF Awaited
  <1>8. Known(v, a)
    BY <1>3, <1>5 DEF Settled, Known
  <1>9. Settled(v, a, n)
    BY <1>3, <1>5, <1>6, <1>7, <1>8 DEF Settled
  <1>. QED  BY <1>9 DEF v

(* A button's call goes on, while the autosave stands still.               *)
LEMMA CalledIsOK ==
  ASSUME NEW t, NEW a, NEW m, PageOK(t, a, m), m.pc # "none", NEW n \in ManualType,
         n.pc \in {"sent", "read", "done"}, a.pc = "none" \/ n.pc = "sent"
  PROVE  PageOK(t, a, n)
  <1>1. Owned(t, a, n)
    BY DEF PageOK, Owned
  <1>2. Awaited(t, a, n)
    BY DEF PageOK, Awaited
  <1>3. Promised(t, a, n)
    BY DEF Promised
  <1>. QED  BY <1>1, <1>2, <1>3 DEF PageOK

LEMMA MadeByButtonIsOK ==
  ASSUME NEW t, NEW a, NEW m, PageOK(t, a, m), m.pc # "none"
  PROVE  PageOK([t EXCEPT !.slipped = t.open], a, m)
  <1>. DEFINE open == t.open
              u == [t EXCEPT !.slipped = open]
  <1>1. t \in TabType /\ open \in BOOLEAN
    BY DEF PageOK, TabType
  <1>2. /\ u \in TabType /\ u.slipped = open /\ u.made = t.made /\ u.open = t.open
        /\ u.id = t.id /\ u.inFlight = t.inFlight /\ u.dirty = t.dirty
        /\ u.stale = t.stale /\ u.armed = t.armed
    BY <1>1 DEF TabType
  <1>. HIDE DEF u
  <1>3. Owned(u, a, m)
    BY <1>2 DEF PageOK, Owned
  <1>4. Awaited(u, a, m)
    BY <1>2 DEF PageOK, Awaited
  <1>5. Known(u, a)
    BY <1>2 DEF PageOK, Known
  <1>6. Promised(u, a, m)
    BY DEF Promised
  <1>7. PageOK(u, a, m)
    BY <1>2, <1>3, <1>4, <1>5, <1>6 DEF PageOK
  <1>. QED  BY <1>7 DEF u

(* The call failed, and the editor goes on.                                *)
LEMMA GivenUpIsOK ==
  ASSUME NEW t, NEW a, NEW m, PageOK(t, a, m), m.pc = "done"
  PROVE  PageOK(Watch(t, FALSE, Enabled(t)), a, NoManual)
  <1>1. a.pc = "none" /\ ~a.mine /\ ~t.inFlight
    BY DEF PageOK, Owned
  <1>2. Owned(t, a, NoManual)
    BY NoManualIs DEF PageOK, Owned
  <1>3. Awaited(t, a, NoManual)
    BY <1>1 DEF PageOK, Awaited
  <1>4. Settled(t, a, NoManual)
    BY <1>2, <1>3, NoManualIs DEF PageOK, Settled
  <1>5. PageOK(Watch(t, FALSE, Enabled(t) /\ ~(NoManual.pc # "none")), a, NoManual)
    BY <1>4, WatchedIsOK
  <1>6. (Enabled(t) /\ ~(NoManual.pc # "none")) = Enabled(t)
    BY NoManualIs DEF Enabled
  <1>. QED  BY <1>5, <1>6

-----------------------------------------------------------------------------
(* The pages together.                                                     *)

ArticlesOK ==
  /\ typed \in Nat /\ losses \in 0..MaxLosses
  /\ article \in [Piece -> PieceType]
  /\ list \in [Page -> [Piece -> PieceType]]

PagesTyped ==
  /\ tab \in [Page -> TabType] /\ auto \in [Page -> AutoType]
  /\ manual \in [Page -> ManualType]

EditorOK == ArticlesOK /\ PagesTyped /\ PagesOK

LEMMA PageOf ==
  ASSUME EditorOK, NEW p \in Page
  PROVE  /\ PageOK(tab[p], auto[p], manual[p])
         /\ tab[p] \in TabType /\ auto[p] \in AutoType /\ manual[p] \in ManualType
         /\ tab = [tab EXCEPT ![p] = tab[p]] /\ auto = [auto EXCEPT ![p] = auto[p]]
         /\ manual = [manual EXCEPT ![p] = manual[p]]
  BY DEF EditorOK, PagesOK, PagesTyped

LEMMA OnePageMoves ==
  ASSUME EditorOK, NEW p \in Page, NEW t, NEW a, NEW m, PageOK(t, a, m),
         tab' = [tab EXCEPT ![p] = t], auto' = [auto EXCEPT ![p] = a],
         manual' = [manual EXCEPT ![p] = m]
  PROVE  PagesTyped' /\ PagesOK'
  <1>1. t \in TabType /\ a \in AutoType /\ m \in ManualType
    BY DEF PageOK
  <1>2. PagesTyped'
    BY <1>1 DEF EditorOK, PagesTyped
  <1>3. ASSUME NEW q \in Page PROVE PageOK(tab'[q], auto'[q], manual'[q])
    <2>1. CASE q = p
      BY <2>1 DEF EditorOK, PagesTyped
    <2>2. CASE q # p
      <3>1. tab'[q] = tab[q] /\ auto'[q] = auto[q] /\ manual'[q] = manual[q]
        BY <2>2 DEF EditorOK, PagesTyped
      <3>. QED  BY <3>1, PageOf
    <2>. QED  BY <2>1, <2>2
  <1>4. PagesOK'
    BY <1>3 DEF PagesOK, PageOK, Owned, Awaited, Known, Promised, Enabled, Untouched,
                TabType, AutoType, ManualType, PieceType, Text, Clocks
  <1>. QED  BY <1>2, <1>4

LEMMA TabMoves ==
  ASSUME EditorOK, NEW p \in Page, NEW t, PageOK(t, auto[p], manual[p]),
         tab' = [tab EXCEPT ![p] = t], UNCHANGED <<auto, manual>>
  PROVE  PagesTyped' /\ PagesOK'
  <1>1. auto' = [auto EXCEPT ![p] = auto[p]] /\ manual' = [manual EXCEPT ![p] = manual[p]]
    BY PageOf
  <1>. DEFINE a == auto[p]
              m == manual[p]
  <1>2. PageOK(t, a, m) /\ auto' = [auto EXCEPT ![p] = a]
        /\ manual' = [manual EXCEPT ![p] = m]
    BY <1>1
  <1>. HIDE DEF a, m
  <1>. QED  BY <1>2, OnePageMoves

LEMMA CallMoves ==
  ASSUME EditorOK, NEW p \in Page, NEW t, NEW m, PageOK(t, auto[p], m),
         \/ tab' = [tab EXCEPT ![p] = t]
         \/ UNCHANGED tab /\ t = tab[p],
         manual' = [manual EXCEPT ![p] = m], UNCHANGED auto
  PROVE  PagesTyped' /\ PagesOK'
  <1>. DEFINE a == auto[p]
  <1>1. auto' = [auto EXCEPT ![p] = a] /\ tab' = [tab EXCEPT ![p] = t]
    BY PageOf
  <1>. HIDE DEF a
  <1>2. PageOK(t, a, m)
    BY DEF a
  <1>. QED  BY <1>1, <1>2, OnePageMoves

LEMMA AutoMoves ==
  ASSUME EditorOK, NEW p \in Page, NEW t, NEW a, PageOK(t, a, manual[p]),
         \/ tab' = [tab EXCEPT ![p] = t]
         \/ UNCHANGED tab /\ t = tab[p],
         auto' = [auto EXCEPT ![p] = a], UNCHANGED manual
  PROVE  PagesTyped' /\ PagesOK'
  <1>. DEFINE m == manual[p]
  <1>1. manual' = [manual EXCEPT ![p] = m] /\ tab' = [tab EXCEPT ![p] = t]
    BY PageOf
  <1>. HIDE DEF m
  <1>2. PageOK(t, a, m)
    BY DEF m
  <1>. QED  BY <1>1, <1>2, OnePageMoves

-----------------------------------------------------------------------------
(* One lemma per action: the page it is about is in order after it.        *)

LEMMA OpenNewKeeps ==
  ASSUME EditorOK, NEW p \in Page, OpenNew(p)
  PROVE  PagesTyped' /\ PagesOK'
  <1>1. PageOK(tab[p], auto[p], manual[p]) /\ ~tab[p].open
    BY PageOf DEF OpenNew
  <1>2. PageOK(OpenedNew, auto[p], manual[p])
    BY <1>1, OpenedNewIs, OpenedIsOK
  <1>3. tab' = [tab EXCEPT ![p] = OpenedNew] /\ UNCHANGED <<auto, manual>>
    BY DEF OpenNew, OpenedNew
  <1>. QED  BY <1>2, <1>3, TabMoves

LEMMA NewestIs == \A r \in PieceType : Newest(r) \in Text
  BY DEF PieceType, Newest

LEMMA OpenEditKeeps ==
  ASSUME EditorOK, NEW p \in Page, NEW r \in Piece, OpenEdit(p, r)
  PROVE  PagesTyped' /\ PagesOK'
  <1>. DEFINE text == Newest(list[p][r])
              live == list[p][r].status = "PUBLICADO"
              id == {r}
              t == OpenedOn(id, text, live)
  <1>1. PageOK(tab[p], auto[p], manual[p]) /\ ~tab[p].open
    BY PageOf DEF OpenEdit
  <1>2. id \in SUBSET Piece /\ text \in Text /\ live \in BOOLEAN
    BY NewestIs DEF EditorOK, ArticlesOK
  <1>3. UNCHANGED <<auto, manual>> /\ tab' = [tab EXCEPT ![p] = t]
    BY DEF OpenEdit, OpenedOn
  <1>. HIDE DEF text, live, id
  <1>4. /\ t \in TabType /\ t.text = t.kept /\ t.made = {} /\ t.armed = {}
        /\ ~t.inFlight /\ ~t.dirty /\ ~t.stale
    BY <1>2, OpenedOnIs
  <1>. HIDE DEF t
  <1>5. PageOK(t, auto[p], manual[p])
    BY <1>1, <1>4, OpenedIsOK
  <1>. QED  BY <1>3, <1>5, TabMoves

LEMMA LoosedAlone ==
  ASSUME EditorOK, NEW p \in Page
  PROVE  [auto EXCEPT ![p].mine = FALSE] = [auto EXCEPT ![p] = Loosed(auto[p])]
  BY DEF Loosed

LEMMA CloseKeeps ==
  ASSUME EditorOK, NEW p \in Page, Close(p)
  PROVE  PagesTyped' /\ PagesOK'
  <1>1. PageOK(tab[p], auto[p], manual[p]) /\ manual[p] \in ManualType
    BY PageOf
  <1>2. PageOK(NoTab, Loosed(auto[p]), manual[p])
    BY <1>1, GoneIsOK
  <1>3. /\ tab' = [tab EXCEPT ![p] = NoTab] /\ UNCHANGED manual
        /\ auto' = [auto EXCEPT ![p] = Loosed(auto[p])]
    BY LoosedAlone DEF Close
  <1>. QED  BY <1>2, <1>3, AutoMoves

LEMMA WordsKeep ==
  ASSUME EditorOK, NEW p \in Page, Type(p) \/ Undo(p) \/ SetState(p)
  PROVE  PagesTyped' /\ PagesOK'
  <1>. DEFINE t == tab[p]
              a == auto[p]
              m == manual[p]
              was == Enabled(t) /\ ~(m.pc # "none")
  <1>0. /\ tab[p].text \in Text /\ tab[p].initial \in Text /\ tab[p].live \in BOOLEAN
        /\ \A text : [tab[p] EXCEPT !.text = text] = Worded(tab[p], text, tab[p].live)
        /\ \A live : [tab[p] EXCEPT !.live = live] = Worded(tab[p], tab[p].text, live)
    BY PageOf DEF TabType, Worded
  <1>1. PICK text \in Text, live \in BOOLEAN :
          /\ tab' = [tab EXCEPT ![p] = Change(p, Worded(tab[p], text, live))]
          /\ UNCHANGED <<auto, manual>>
    <2>1. CASE Type(p)
      <3>1. typed + 1 \in Text
        BY <2>1, EditorAssumption DEF Type, Text, EditorOK, ArticlesOK
      <3>2. tab' = [tab EXCEPT ![p] = Change(p, Worded(tab[p], typed + 1, tab[p].live))]
        BY <1>0, <2>1 DEF Type
      <3>. QED  BY <1>0, <2>1, <3>1, <3>2 DEF Type
    <2>2. CASE Undo(p)
      <3>1. tab' = [tab EXCEPT ![p] =
                      Change(p, Worded(tab[p], tab[p].initial, tab[p].live))]
        BY <1>0, <2>2 DEF Undo
      <3>. QED  BY <1>0, <2>2, <3>1 DEF Undo
    <2>3. CASE SetState(p)
      <3>1. tab' = [tab EXCEPT ![p] =
                      Change(p, Worded(tab[p], tab[p].text, ~tab[p].live))]
        BY <1>0, <2>3 DEF SetState
      <3>. QED  BY <1>0, <2>3, <3>1 DEF SetState
    <2>. QED  BY <2>1, <2>2, <2>3
  <1>. DEFINE u == Worded(t, text, live)
              v == Watch(u, was, Enabled(u) /\ ~(m.pc # "none"))
  <1>2. tab' = [tab EXCEPT ![p] = v]
    BY <1>1 DEF Change, Saving
  <1>3. Settled(u, a, m)
    BY PageOf, PageParts, WordedSettles
  <1>. HIDE DEF u, was
  <1>4. PageOK(v, a, m)
    BY <1>3, WatchedIsOK
  <1>. HIDE DEF v
  <1>5. PageOK(v, auto[p], manual[p])
    BY <1>4
  <1>. QED  BY <1>1, <1>2, <1>5, TabMoves

LEMMA TimersKeep ==
  ASSUME EditorOK, NEW p \in Page, NEW x \in Clocks, Fired(p, x)
  PROVE  PagesTyped' /\ PagesOK'
  <1>1. PageOK(tab[p], auto[p], manual[p])
    BY PageOf
  <1>2. CASE FireInVain(p, x)
    <2>. DEFINE t == Disarm(tab[p], {x})
    <2>1. PageOK(t, auto[p], manual[p])
      BY <1>1, <1>2, VainIsOK DEF FireInVain, Saving
    <2>2. tab' = [tab EXCEPT ![p] = t] /\ UNCHANGED <<auto, manual>>
      BY <1>2 DEF FireInVain
    <2>. HIDE DEF t
    <2>. QED  BY <2>1, <2>2, TabMoves
  <1>3. CASE FireWhileBusy(p, x)
    <2>. DEFINE t == Busy(Disarm(tab[p], {x}))
    <2>1. PageOK(t, auto[p], manual[p])
      BY <1>1, <1>3, BusyIsOK DEF FireWhileBusy, Saving
    <2>2. tab' = [tab EXCEPT ![p] = t] /\ UNCHANGED <<auto, manual>>
      BY <1>3 DEF FireWhileBusy
    <2>. HIDE DEF t
    <2>. QED  BY <2>1, <2>2, TabMoves
  <1>4. CASE Fire(p, x)
    <2>. DEFINE t == Sending(ClearTimers(Disarm(tab[p], {x})))
                a == Sent(tab[p].id, tab[p].text, tab[p].live)
    <2>1. /\ manual[p].pc = "none" /\ ~tab[p].inFlight /\ auto[p].pc = "none"
          /\ tab[p].open
      BY <1>4 DEF Fire, Saving, Enabled
    <2>2. PageOK(t, a, manual[p])
      BY <1>1, <2>1, FireIsOK
    <2>3. /\ tab' = [tab EXCEPT ![p] = t] /\ auto' = [auto EXCEPT ![p] = a]
          /\ UNCHANGED manual
      BY <1>4 DEF Fire, Sending, Sent
    <2>. HIDE DEF t, a
    <2>. QED  BY <2>2, <2>3, AutoMoves
  <1>. QED  BY <1>2, <1>3, <1>4 DEF Fired

LEMMA AutoCreateKeeps ==
  ASSUME EditorOK, NEW p \in Page, NEW r \in Piece, AutoCreate(p, r)
  PROVE  PagesTyped' /\ PagesOK'
  <1>. DEFINE t == tab[p]
              a == auto[p]
              m == manual[p]
              new == {r}
              made == IF a.mine THEN t.made \cup new ELSE t.made
              slipped == t.slipped
  <1>1. PageOK(t, a, m) /\ a.pc = "sent"
    BY PageOf DEF AutoCreate
  <1>2. /\ tab' = [tab EXCEPT ![p].made = made]
        /\ auto' = [auto EXCEPT ![p].pc = "done", ![p].ok = TRUE, ![p].made = new]
        /\ UNCHANGED manual
    BY DEF AutoCreate
  <1>3. /\ new \in SUBSET Piece /\ made \in SUBSET Piece /\ slipped \in BOOLEAN
        /\ new # {}
    BY PageOf DEF TabType
  <1>4. made # {} => t.open
    BY <1>1 DEF PageOK, Owned, Known
  <1>5. made # {} /\ ~slipped => t.id # {} \/ (a.mine /\ TRUE /\ new # {})
    BY <1>1 DEF PageOK, Known
  <1>6. auto' = [auto EXCEPT ![p] = Answered(a, TRUE, new)]
    BY <1>2, PageOf DEF Answered, AutoType
  <1>7. tab' = [tab EXCEPT ![p] = Marked(t, made, slipped)]
    <2>. HIDE DEF made
    <2>1. [t EXCEPT !.made = made] = Marked(t, made, slipped)
      BY PageOf DEF Marked, TabType
    <2>. QED  BY <1>2, <2>1
  <1>. HIDE DEF new, made, slipped
  <1>8. PageOK(Marked(t, made, slipped), Answered(a, TRUE, new), m)
    BY <1>1, <1>3, <1>4, <1>5, AnswerIsOK DEF slipped
  <1>. QED  BY <1>2, <1>6, <1>7, <1>8, AutoMoves

LEMMA AutoPatchKeeps ==
  ASSUME EditorOK, NEW p \in Page, NEW r \in Piece, AutoPatch(p, r)
  PROVE  PagesTyped' /\ PagesOK'
  <1>. DEFINE t == tab[p]
              a == auto[p]
              m == manual[p]
              new == a.made
              made == t.made
              slipped == t.slipped
  <1>1. PageOK(t, a, m) /\ a.pc = "sent"
    BY PageOf DEF AutoPatch
  <1>2. /\ UNCHANGED <<tab, manual>>
        /\ auto' = [auto EXCEPT ![p].pc = "done", ![p].ok = TRUE]
    BY DEF AutoPatch
  <1>3. new \in SUBSET Piece /\ made \in SUBSET Piece /\ slipped \in BOOLEAN
    BY PageOf DEF TabType, AutoType
  <1>4. made # {} => t.open
    BY <1>1 DEF PageOK, Known
  <1>5. made # {} /\ ~slipped => t.id # {} \/ (a.mine /\ TRUE /\ new # {})
    BY <1>1 DEF PageOK, Known
  <1>6. auto' = [auto EXCEPT ![p] = Answered(a, TRUE, new)]
    BY <1>2, PageOf DEF Answered, AutoType
  <1>7. t = Marked(t, made, slipped)
    BY PageOf DEF Marked, TabType
  <1>. HIDE DEF new, made, slipped
  <1>8. PageOK(Marked(t, made, slipped), Answered(a, TRUE, new), m)
    BY <1>1, <1>3, <1>4, <1>5, AnswerIsOK DEF slipped
  <1>9. PageOK(t, Answered(a, TRUE, new), m)
    BY <1>7, <1>8
  <1>. QED  BY <1>2, <1>6, <1>9, AutoMoves

LEMMA AutoFailsKeeps ==
  ASSUME EditorOK, NEW p \in Page, AutoFails(p)
  PROVE  PagesTyped' /\ PagesOK'
  <1>. DEFINE t == tab[p]
              a == auto[p]
              m == manual[p]
              new == a.made
              made == t.made
              slipped == t.slipped \/ (a.mine /\ new # {})
  <1>1. PageOK(t, a, m) /\ a.pc # "none"
    BY PageOf DEF AutoFails
  <1>2. /\ tab' = [tab EXCEPT ![p].slipped = slipped]
        /\ auto' = [auto EXCEPT ![p].pc = "done", ![p].ok = FALSE]
        /\ UNCHANGED manual
    BY DEF AutoFails
  <1>3. new \in SUBSET Piece /\ made \in SUBSET Piece /\ slipped \in BOOLEAN
    BY PageOf DEF TabType, AutoType
  <1>4. made # {} => t.open
    BY <1>1 DEF PageOK, Known
  <1>5. made # {} /\ ~slipped => t.id # {} \/ (a.mine /\ FALSE /\ new # {})
    BY <1>1 DEF PageOK, Known
  <1>6. auto' = [auto EXCEPT ![p] = Answered(a, FALSE, new)]
    BY <1>2, PageOf DEF Answered, AutoType
  <1>7. t.slipped => slipped
    OBVIOUS
  <1>8. tab' = [tab EXCEPT ![p] = Marked(t, made, slipped)]
    <2>. HIDE DEF slipped
    <2>1. [t EXCEPT !.slipped = slipped] = Marked(t, made, slipped)
      BY PageOf DEF Marked, TabType
    <2>. QED  BY <1>2, <2>1
  <1>. HIDE DEF new, made, slipped
  <1>9. PageOK(Marked(t, made, slipped), Answered(a, FALSE, new), m)
    BY <1>1, <1>3, <1>4, <1>5, <1>7, AnswerIsOK
  <1>. QED  BY <1>2, <1>6, <1>8, <1>9, AutoMoves

LEMMA ReceiveAutoKeeps ==
  ASSUME EditorOK, NEW p \in Page, ReceiveAuto(p)
  PROVE  PagesTyped' /\ PagesOK'
  <1>. DEFINE t == tab[p]
              a == auto[p]
              m == manual[p]
              was == Enabled(t) /\ ~(m.pc # "none")
              adopted == IF a.ok THEN Adopt(t, a.made) ELSE t
              after == After(adopted, a.ok, a.text)
              watched == Watch(after, was, Enabled(after) /\ ~(m.pc # "none"))
  <1>1. PageOK(t, a, m) /\ a.pc = "done"
    BY PageOf DEF ReceiveAuto
  <1>2. /\ auto' = [auto EXCEPT ![p] = NoAuto] /\ UNCHANGED manual
        /\ tab' = [tab EXCEPT ![p] = IF ~a.mine THEN t
                                     ELSE IF adopted # t THEN watched ELSE after]
    BY DEF ReceiveAuto, Change, Saving
  <1>3. /\ ~a.mine => PageOK(t, NoAuto, m)
        /\ a.mine => PageOK(after, NoAuto, m) /\ PageOK(watched, NoAuto, m)
    <2>. HIDE DEF was
    <2>. QED  BY <1>1, ReturnIsOK
  <1>. DEFINE u == IF ~a.mine THEN t ELSE IF adopted # t THEN watched ELSE after
  <1>. HIDE DEF adopted, after, watched
  <1>4. PageOK(u, NoAuto, m)
    BY <1>3
  <1>5. tab' = [tab EXCEPT ![p] = u]
    BY <1>2
  <1>. HIDE DEF u
  <1>. QED  BY <1>2, <1>4, <1>5, AutoMoves

Pressed(call, id, text, publish) ==
  [NoManual EXCEPT !.pc = "sent", !.call = call, !.id = id, !.text = text,
                   !.publish = publish]
LEMMA PressedIs ==
  ASSUME NEW call \in {"create", "patch", "park", "discard", "publish"},
         NEW id \in SUBSET Piece, NEW text \in Text, NEW publish \in BOOLEAN
  PROVE  /\ Pressed(call, id, text, publish) \in ManualType
         /\ Pressed(call, id, text, publish).pc = "sent"
  BY NoManualIs DEF Pressed, ManualType

LEMMA ButtonsKeep ==
  ASSUME EditorOK, NEW p \in Page,
         \/ \E publish \in BOOLEAN : Click(p, publish)
         \/ \E r \in Piece : Discard(p, r) \/ PublishListed(p, r)
  PROVE  PagesTyped' /\ PagesOK'
  <1>. DEFINE t == tab[p]
              a == auto[p]
              text == t.text
  <1>1. PageOK(t, a, manual[p]) /\ text \in Text /\ t.id \in SUBSET Piece
    BY PageOf DEF TabType
  <1>2. ASSUME NEW publish \in BOOLEAN, Click(p, publish) PROVE PagesTyped' /\ PagesOK'
    <2>. DEFINE call == SaveCall(t, publish)
                id == t.id
                m == Pressed(call, id, text, publish)
                u == CancelPending(t)
                was == Enabled(u)
                v == Watch(u, was, FALSE)
    <2>1. call \in {"create", "patch", "park", "discard", "publish"}
      BY DEF SaveCall
    <2>2. manual' = [manual EXCEPT ![p] = m] /\ UNCHANGED auto
      BY <1>2 DEF Click, Press, Pressed
    <2>3. tab' = [tab EXCEPT ![p] = v]
      BY <1>2 DEF Click, Pause
    <2>. HIDE DEF call, was
    <2>4. m \in ManualType /\ m.pc = "sent"
      <3>. HIDE DEF text, id
      <3>. QED  BY <1>1, <2>1, PressedIs DEF id
    <2>. HIDE DEF m, id
    <2>5. Settled(t, a, m)
      BY <1>1, <2>4, PressedIsOK, PageParts
    <2>6. Settled(u, a, m)
      BY <2>4, <2>5, CancelledSettles
    <2>. HIDE DEF u
    <2>7. PageOK(v, a, m)
      BY <2>4, <2>6, PausedIsOK
    <2>. HIDE DEF v
    <2>. QED  BY <2>2, <2>3, <2>7, CallMoves
  <1>3. ASSUME NEW r \in Piece, Discard(p, r) PROVE PagesTyped' /\ PagesOK'
    <2>. DEFINE id == {r}
                m == Pressed("discard", id, text, FALSE)
                was == Enabled(t)
                v == Watch(t, was, FALSE)
    <2>1. manual' = [manual EXCEPT ![p] = m] /\ UNCHANGED auto
      BY <1>3 DEF Discard, Press, Pressed
    <2>2. tab' = [tab EXCEPT ![p] = v]
      BY <1>3 DEF Discard, Pause
    <2>3. id \in SUBSET Piece
      OBVIOUS
    <2>. HIDE DEF was, id
    <2>4. m \in ManualType /\ m.pc = "sent"
      <3>. HIDE DEF text
      <3>. QED  BY <1>1, <2>3, PressedIs
    <2>. HIDE DEF m
    <2>5. Settled(t, a, m)
      BY <1>1, <2>4, PressedIsOK, PageParts
    <2>6. PageOK(v, a, m)
      BY <2>4, <2>5, PausedIsOK
    <2>. HIDE DEF v
    <2>. QED  BY <2>1, <2>2, <2>6, CallMoves
  <1>4. ASSUME NEW r \in Piece, PublishListed(p, r) PROVE PagesTyped' /\ PagesOK'
    <2>. DEFINE id == {r}
                m == Pressed("publish", id, text, TRUE)
    <2>1. manual' = [manual EXCEPT ![p] = m] /\ UNCHANGED <<tab, auto>>
      BY <1>4 DEF PublishListed, Press, Pressed
    <2>2. id \in SUBSET Piece
      OBVIOUS
    <2>. HIDE DEF id
    <2>3. m \in ManualType /\ m.pc = "sent"
      <3>. HIDE DEF text
      <3>. QED  BY <1>1, <2>2, PressedIs
    <2>. HIDE DEF m
    <2>4. PageOK(t, a, m)
      BY <1>1, <2>3, PressedIsOK
    <2>. QED  BY <2>1, <2>4, CallMoves
  <1>. QED  BY <1>2, <1>3, <1>4

(* A call that goes on: only the button's record changes.                  *)
LEMMA CallGoesOn ==
  ASSUME EditorOK, NEW p \in Page, NEW n \in ManualType, manual[p].pc # "none",
         n.pc \in {"sent", "read", "done"}, auto[p].pc = "none" \/ n.pc = "sent",
         manual' = [manual EXCEPT ![p] = n], UNCHANGED <<tab, auto>>
  PROVE  PagesTyped' /\ PagesOK'
  <1>. DEFINE t == tab[p]
              a == auto[p]
  <1>1. PageOK(t, a, n)
    BY PageOf, CalledIsOK
  <1>. HIDE DEF t, a
  <1>2. PageOK(t, auto[p], n)
    BY <1>1 DEF a
  <1>. QED  BY <1>2, CallMoves DEF t

Concluded(m, ok) == [m EXCEPT !.pc = "done", !.ok = ok]
LEMMA ConcludedIs ==
  ASSUME NEW m \in ManualType, NEW ok \in BOOLEAN
  PROVE  /\ Concluded(m, ok) \in ManualType /\ Concluded(m, ok).pc = "done"
         /\ Concluded(m, ok).ok = ok
  BY DEF Concluded, ManualType

LEMMA DoneKeeps ==
  ASSUME EditorOK, NEW p \in Page, NEW rows, manual[p].pc # "none", auto[p].pc = "none",
         Done(p, rows), UNCHANGED tab
  PROVE  PagesTyped' /\ PagesOK'
  <1>. DEFINE m == manual[p]
              n == Concluded(m, TRUE)
  <1>1. m \in ManualType
    BY PageOf
  <1>2. manual' = [manual EXCEPT ![p] = n] /\ UNCHANGED auto
    BY PageOf DEF Done, Concluded, ManualType
  <1>3. n \in ManualType /\ n.pc = "done"
    <2>. HIDE DEF m
    <2>. QED  BY <1>1, ConcludedIs
  <1>. HIDE DEF n
  <1>. QED  BY <1>2, <1>3, CallGoesOn

LEMMA ServeKeeps ==
  ASSUME EditorOK, NEW p \in Page, NEW r \in Piece, Serve(p, r)
  PROVE  PagesTyped' /\ PagesOK'
  <1>. DEFINE t == tab[p]
              a == auto[p]
              m == manual[p]
  <1>1. PageOK(t, a, m) /\ m \in ManualType
    BY PageOf
  <1>2. CASE CreatePiece(p, r)
    <2>. DEFINE id == {r}
                open == t.open
                u == [t EXCEPT !.slipped = open]
                n == [m EXCEPT !.pc = "done", !.ok = TRUE, !.id = id]
    <2>1. /\ m.pc # "none" /\ a.pc = "none" /\ UNCHANGED auto
          /\ tab' = [tab EXCEPT ![p] = u]
      BY <1>2 DEF CreatePiece
    <2>2. manual' = [manual EXCEPT ![p] = n]
      BY <1>2, PageOf DEF CreatePiece, ManualType
    <2>3. n \in ManualType /\ n.pc = "done"
      BY <1>1 DEF ManualType
    <2>4. PageOK(u, a, m)
      BY <1>1, <2>1, MadeByButtonIsOK
    <2>. HIDE DEF n, u
    <2>5. PageOK(u, a, n)
      BY <2>1, <2>3, <2>4, CalledIsOK
    <2>. QED  BY <2>1, <2>2, <2>5, CallMoves
  <1>3. CASE PatchPiece(p, r) \/ Park(p, r) \/ DropDraft(p, r) \/ Submit(p, r)
    <2>1. PICK rows : Done(p, rows)
      BY <1>3 DEF PatchPiece, Park, DropDraft, Submit
    <2>2. m.pc # "none" /\ a.pc = "none" /\ UNCHANGED tab
      BY <1>3 DEF PatchPiece, Park, DropDraft, Submit, Calling
    <2>. QED  BY <2>1, <2>2, DoneKeeps
  <1>4. CASE ReadDraft(p, r)
    <2>. DEFINE draft == article[r].draft
                n == [m EXCEPT !.pc = "read", !.draft = draft]
    <2>1. m.pc # "none" /\ a.pc = "none" /\ UNCHANGED <<tab, auto>>
      BY <1>4 DEF ReadDraft, Calling
    <2>2. manual' = [manual EXCEPT ![p] = n]
      BY <1>4, PageOf DEF ReadDraft, ManualType
    <2>3. draft \in Text
      BY DEF EditorOK, ArticlesOK, PieceType
    <2>. HIDE DEF draft
    <2>4. n \in ManualType /\ n.pc = "read"
      BY <1>1, <2>3 DEF ManualType
    <2>. HIDE DEF n
    <2>. QED  BY <2>1, <2>2, <2>4, CallGoesOn
  <1>5. CASE PublishPiece(p, r)
    <2>1. PICK rows : Done(p, rows)
      BY <1>5 DEF PublishPiece
    <2>2. m.pc = "read" /\ UNCHANGED tab
      BY <1>5 DEF PublishPiece
    <2>3. a.pc = "none"
      BY <1>1, <2>2 DEF PageOK, Owned
    <2>. QED  BY <2>1, <2>2, <2>3, DoneKeeps
  <1>. QED  BY <1>2, <1>3, <1>4, <1>5 DEF Serve

LEMMA RefuseKeeps ==
  ASSUME EditorOK, NEW p \in Page, Refuse(p)
  PROVE  PagesTyped' /\ PagesOK'
  <1>. DEFINE m == manual[p]
              n == Concluded(m, FALSE)
  <1>1. m \in ManualType /\ m.pc # "none" /\ auto[p].pc = "none" /\ UNCHANGED <<tab, auto>>
    BY PageOf DEF Refuse
  <1>2. manual' = [manual EXCEPT ![p] = n]
    BY PageOf DEF Refuse, Concluded, ManualType
  <1>3. n \in ManualType /\ n.pc = "done"
    <2>. HIDE DEF m
    <2>. QED  BY <1>1, ConcludedIs
  <1>. HIDE DEF n
  <1>. QED  BY <1>1, <1>2, <1>3, CallGoesOn

LEMMA ProceedKeeps ==
  ASSUME EditorOK, NEW p \in Page, Proceed(p)
  PROVE  PagesTyped' /\ PagesOK'
  <1>. DEFINE m == manual[p]
              call == IF p \in Publisher THEN "publish" ELSE "submit"
              n == [m EXCEPT !.pc = "sent", !.ok = FALSE, !.call = call]
  <1>1. m \in ManualType /\ m.pc # "none" /\ UNCHANGED <<tab, auto>>
    BY PageOf DEF Proceed
  <1>2. manual' = [manual EXCEPT ![p] = n]
    BY PageOf DEF Proceed, ManualType
  <1>3. call \in {"publish", "submit"}
    OBVIOUS
  <1>. HIDE DEF call
  <1>4. n \in ManualType /\ n.pc = "sent"
    BY <1>1, <1>3 DEF ManualType
  <1>. HIDE DEF n
  <1>. QED  BY <1>1, <1>2, <1>4, CallGoesOn

LEMMA EndsKeep ==
  ASSUME EditorOK, NEW p \in Page, Finish(p) \/ GiveUp(p) \/ Crash(p)
  PROVE  PagesTyped' /\ PagesOK'
  <1>. DEFINE t == tab[p]
              a == auto[p]
              m == manual[p]
  <1>1. PageOK(t, a, m)
    BY PageOf
  <1>2. CASE Finish(p) \/ Crash(p)
    <2>1. /\ manual' = [manual EXCEPT ![p] = NoManual] /\ tab' = [tab EXCEPT ![p] = NoTab]
          /\ auto' = [auto EXCEPT ![p] = Loosed(a)]
      BY <1>2, LoosedAlone DEF Finish, Crash, Ended
    <2>2. PageOK(NoTab, Loosed(a), NoManual)
      BY <1>1, NoManualIs, GoneIsOK
    <2>. QED  BY <2>1, <2>2, OnePageMoves
  <1>3. CASE GiveUp(p)
    <2>. DEFINE u == Watch(t, FALSE, Enabled(t))
    <2>1. /\ m.pc = "done" /\ manual' = [manual EXCEPT ![p] = NoManual]
          /\ tab' = [tab EXCEPT ![p] = u] /\ UNCHANGED auto
      BY <1>3 DEF GiveUp, Ended
    <2>2. PageOK(u, a, NoManual)
      BY <1>1, <2>1, GivenUpIsOK
    <2>. HIDE DEF u
    <2>. QED  BY <2>1, <2>2, CallMoves
  <1>. QED  BY <1>2, <1>3

-----------------------------------------------------------------------------
(* The articles and what the pages last loaded of them.                    *)

LEMMA RowsMove ==
  ASSUME article \in [Piece -> PieceType], NEW r \in Piece, NEW text \in Text,
         NEW awaiting \in BOOLEAN
  PROVE  /\ \A s \in {"RASCUNHO", "EM_REVISAO", "PUBLICADO"} :
              [article EXCEPT ![r].status = s] \in [Piece -> PieceType]
         /\ [article EXCEPT ![r].text = text] \in [Piece -> PieceType]
         /\ [article EXCEPT ![r].status = "RASCUNHO", ![r].text = text]
              \in [Piece -> PieceType]
         /\ [article EXCEPT ![r].draft = text, ![r].awaiting = awaiting]
              \in [Piece -> PieceType]
         /\ [article EXCEPT ![r] = [NoPiece EXCEPT !.status = "PUBLICADO", !.text = text]]
              \in [Piece -> PieceType]
  <1>1. article[r] \in PieceType
    OBVIOUS
  <1>2. ASSUME NEW kept \in PieceType, NEW s \in {"RASCUNHO", "EM_REVISAO", "PUBLICADO"}
        PROVE  /\ [kept EXCEPT !.status = s] \in PieceType
               /\ [kept EXCEPT !.text = text] \in PieceType
               /\ [kept EXCEPT !.status = s, !.text = text] \in PieceType
               /\ [kept EXCEPT !.draft = text, !.awaiting = awaiting] \in PieceType
    BY DEF PieceType
  <1>3. \A s \in {"RASCUNHO", "EM_REVISAO", "PUBLICADO"} :
           /\ [article[r] EXCEPT !.status = s] \in PieceType
           /\ [article[r] EXCEPT !.text = text] \in PieceType
           /\ [article[r] EXCEPT !.status = s, !.text = text] \in PieceType
           /\ [article[r] EXCEPT !.draft = text, !.awaiting = awaiting] \in PieceType
    BY <1>1, <1>2
  <1>4. [NoPiece EXCEPT !.status = "PUBLICADO", !.text = text] \in PieceType
    BY <1>2, NoPieceIs
  <1>. QED  BY <1>3, <1>4

(* The article an action writes is written with words somebody typed.      *)
LEMMA ArticleKeeps ==
  ASSUME EditorOK, NEW p \in Page, NEW r \in Piece,
         AutoCreate(p, r) \/ AutoPatch(p, r) \/ Serve(p, r)
  PROVE  article' \in [Piece -> PieceType]
  <1>. DEFINE auto_text == auto[p].text
              text == manual[p].text
              draft == manual[p].draft
              live == article[r].text
              kept == IF draft # 0 THEN draft ELSE live
              awaiting == p \notin Publisher
  <1>1. auto_text \in Text /\ text \in Text /\ draft \in Text
    BY PageOf DEF AutoType, ManualType
  <1>2. article \in [Piece -> PieceType] /\ live \in Text
    BY DEF EditorOK, ArticlesOK, PieceType
  <1>3. kept \in Text /\ 0 \in Text /\ awaiting \in BOOLEAN
    BY <1>1, <1>2, TextFacts
  <1>4. CASE AutoCreate(p, r)
    <2>1. article' = [article EXCEPT ![r].status = "RASCUNHO", ![r].text = auto_text]
      BY <1>4 DEF AutoCreate
    <2>. HIDE DEF auto_text
    <2>. QED  BY <1>1, <1>2, <2>1, RowsMove
  <1>5. CASE AutoPatch(p, r)
    <2>. DEFINE draft_rows == [article EXCEPT ![r].draft = auto_text, ![r].awaiting = awaiting]
                text_rows == [article EXCEPT ![r].text = auto_text]
    <2>1. article' = draft_rows \/ article' = text_rows
      BY <1>5 DEF AutoPatch, Drafted
    <2>. HIDE DEF auto_text, awaiting
    <2>2. draft_rows \in [Piece -> PieceType] /\ text_rows \in [Piece -> PieceType]
      BY <1>1, <1>2, <1>3, RowsMove
    <2>. HIDE DEF draft_rows, text_rows
    <2>. QED  BY <2>1, <2>2
  <1>6. CASE CreatePiece(p, r) \/ PatchPiece(p, r)
    <2>1. article' = [article EXCEPT ![r].status = "RASCUNHO", ![r].text = text]
      BY <1>6 DEF CreatePiece, PatchPiece, Done
    <2>. HIDE DEF text
    <2>. QED  BY <1>1, <1>2, <2>1, RowsMove
  <1>7. CASE Park(p, r)
    <2>1. article' = [article EXCEPT ![r].draft = text, ![r].awaiting = awaiting]
      BY <1>7 DEF Park, Done, Drafted
    <2>. HIDE DEF text, awaiting
    <2>. QED  BY <1>1, <1>2, <1>3, <2>1, RowsMove
  <1>8. CASE DropDraft(p, r)
    <2>1. article' = [article EXCEPT ![r].draft = 0, ![r].awaiting = FALSE]
      BY <1>8 DEF DropDraft, Done
    <2>. QED  BY <1>2, <1>3, <2>1, RowsMove
  <1>9. CASE Submit(p, r)
    <2>1. article' = [article EXCEPT ![r].status = "EM_REVISAO"]
      BY <1>9 DEF Submit, Done
    <2>. QED  BY <1>2, <1>3, <2>1, RowsMove
  <1>10. CASE ReadDraft(p, r)
    BY <1>2, <1>10 DEF ReadDraft
  <1>11. CASE PublishPiece(p, r)
    <2>1. article' = [article EXCEPT ![r] = [NoPiece EXCEPT !.status = "PUBLICADO",
                                                          !.text = kept]]
      BY <1>11 DEF PublishPiece, Done
    <2>. HIDE DEF kept
    <2>. QED  BY <1>2, <1>3, <2>1, RowsMove
  <1>. QED  BY <1>4, <1>5, <1>6, <1>7, <1>8, <1>9, <1>10, <1>11 DEF Serve

LEMMA ListKeeps ==
  ASSUME EditorOK, NEW p \in Page,
         UNCHANGED list \/ list' = [list EXCEPT ![p] = article]
  PROVE  list' \in [Page -> [Piece -> PieceType]]
  <1>1. article \in [Piece -> PieceType] /\ list \in [Page -> [Piece -> PieceType]]
    BY DEF EditorOK, ArticlesOK
  <1>. QED  BY <1>1

(* What an action does to the two counters, the list and the articles.     *)
LEMMA CountsKeep ==
  ASSUME EditorOK, typed' \in {typed, typed + 1},
         losses' = losses \/ (losses < MaxLosses /\ losses' = losses + 1)
  PROVE  typed' \in Nat /\ losses' \in 0..MaxLosses
  BY EditorAssumption DEF EditorOK, ArticlesOK

LEMMA ArticlesKeep ==
  ASSUME EditorOK, NEW p \in Page,
         typed' \in {typed, typed + 1},
         losses' = losses \/ (losses < MaxLosses /\ losses' = losses + 1),
         \/ UNCHANGED article
         \/ \E r \in Piece : AutoCreate(p, r) \/ AutoPatch(p, r) \/ Serve(p, r),
         UNCHANGED list \/ list' = [list EXCEPT ![p] = article]
  PROVE  ArticlesOK'
  <1>1. article' \in [Piece -> PieceType]
    BY ArticleKeeps DEF EditorOK, ArticlesOK
  <1>. QED  BY <1>1, CountsKeep, ListKeeps DEF ArticlesOK, PieceType, Text

-----------------------------------------------------------------------------
(* The invariant.                                                          *)

LEMMA EditorStarts == EditorInit => EditorOK
  <1>. SUFFICES ASSUME EditorInit PROVE EditorOK
    OBVIOUS
  <1>1. ASSUME NEW s \in {"RASCUNHO", "PUBLICADO"}
        PROVE  [NoPiece EXCEPT !.status = s, !.text = 1] \in PieceType
    BY NoPieceIs, TextFacts DEF PieceType
  <1>2. article \in [Piece -> PieceType]
    BY <1>1, NoPieceIs DEF EditorInit
  <1>3. ArticlesOK
    BY <1>2, EditorAssumption DEF EditorInit, ArticlesOK
  <1>4. PagesTyped
    BY NoTabIs, NoAutoIs, NoManualIs DEF EditorInit, PagesTyped
  <1>5. PageOK(NoTab, NoAuto, NoManual)
    <2>1. Owned(NoTab, NoAuto, NoManual) /\ Awaited(NoTab, NoAuto, NoManual)
      BY NoTabIs, NoAutoIs, NoManualIs DEF Owned, Awaited
    <2>2. Known(NoTab, NoAuto) /\ Promised(NoTab, NoAuto, NoManual)
      BY NoTabIs, NoAutoIs DEF Known, Promised, Enabled
    <2>. QED  BY <2>1, <2>2, NoTabIs, NoAutoIs, NoManualIs DEF PageOK
  <1>6. PagesOK
    BY <1>5 DEF EditorInit, PagesOK
  <1>. QED  BY <1>3, <1>4, <1>6 DEF EditorOK

LEMMA PagesStay ==
  ASSUME EditorOK, UNCHANGED <<tab, auto, manual>>
  PROVE  PagesTyped' /\ PagesOK'
  BY DEF EditorOK, PagesTyped, PagesOK, PageOK, Owned, Awaited, Known, Promised,
         Enabled, Untouched, TabType, AutoType, ManualType, Text, Clocks

LEMMA EditorKeeps == EditorOK /\ [EditorNext]_evars => EditorOK'
  <1>. SUFFICES ASSUME EditorOK, [EditorNext]_evars PROVE EditorOK'
    OBVIOUS
  <1>1. CASE UNCHANGED evars
    <2>1. PagesTyped' /\ PagesOK'
      BY <1>1, PagesStay DEF evars
    <2>2. ArticlesOK'
      BY <1>1 DEF evars, EditorOK, ArticlesOK, PieceType, Text
    <2>. QED  BY <2>1, <2>2 DEF EditorOK
  <1>2. ASSUME NEW p \in Page,
               Editing(p) \/ Autosave(p) \/ Button(p) \/ Crash(p)
               \/ \E x \in Clocks : Fired(p, x)
        PROVE  EditorOK'
    <2>1. CASE Visit(p)
      <3>1. UNCHANGED <<tab, auto, manual>> /\ UNCHANGED <<typed, losses, article>>
            /\ list' = [list EXCEPT ![p] = article]
        BY <2>1 DEF Visit
      <3>. QED  BY <3>1, PagesStay, ArticlesKeep DEF EditorOK
    <2>2. CASE \/ OpenNew(p) \/ Close(p) \/ \E r \in Piece : OpenEdit(p, r)
      <3>1. PagesTyped' /\ PagesOK'
        BY <2>2, OpenNewKeeps, OpenEditKeeps, CloseKeeps
      <3>2. UNCHANGED <<typed, losses, article, list>>
        BY <2>2 DEF OpenNew, Close, OpenEdit
      <3>. QED  BY <3>1, <3>2, ArticlesKeep DEF EditorOK
    <2>3. CASE Type(p) \/ Undo(p) \/ SetState(p)
      <3>1. PagesTyped' /\ PagesOK'
        BY <2>3, WordsKeep
      <3>2. UNCHANGED <<losses, article, list>> /\ typed' \in {typed, typed + 1}
        BY <2>3 DEF Type, Undo, SetState
      <3>. QED  BY <3>1, <3>2, ArticlesKeep DEF EditorOK
    <2>4. CASE \/ \E publish \in BOOLEAN : Click(p, publish)
               \/ \E r \in Piece : Discard(p, r) \/ PublishListed(p, r)
      <3>1. PagesTyped' /\ PagesOK'
        BY <2>4, ButtonsKeep
      <3>2. UNCHANGED <<typed, losses, article, list>>
        BY <2>4 DEF Click, Discard, PublishListed, Press
      <3>. QED  BY <3>1, <3>2, ArticlesKeep DEF EditorOK
    <2>5. CASE \E r \in Piece : AutoCreate(p, r) \/ AutoPatch(p, r)
      <3>1. PagesTyped' /\ PagesOK'
        BY <2>5, AutoCreateKeeps, AutoPatchKeeps
      <3>2. UNCHANGED <<typed, losses, list>>
        BY <2>5 DEF AutoCreate, AutoPatch
      <3>. QED  BY <2>5, <3>1, <3>2, ArticlesKeep DEF EditorOK
    <2>6. CASE AutoFails(p)
      <3>1. PagesTyped' /\ PagesOK'
        BY <2>6, AutoFailsKeeps
      <3>2. UNCHANGED <<typed, article, list>>
            /\ (losses' = losses \/ (losses < MaxLosses /\ losses' = losses + 1))
        BY <2>6 DEF AutoFails
      <3>. QED  BY <3>1, <3>2, ArticlesKeep DEF EditorOK
    <2>7. CASE ReceiveAuto(p)
      <3>1. PagesTyped' /\ PagesOK'
        BY <2>7, ReceiveAutoKeeps
      <3>2. UNCHANGED <<typed, losses, article, list>>
        BY <2>7 DEF ReceiveAuto
      <3>. QED  BY <3>1, <3>2, ArticlesKeep DEF EditorOK
    <2>8. CASE \E r \in Piece : Serve(p, r)
      <3>1. PagesTyped' /\ PagesOK'
        BY <2>8, ServeKeeps
      <3>2. UNCHANGED <<typed, losses, list>>
        BY <2>8 DEF Serve, CreatePiece, PatchPiece, Park, DropDraft, Submit, ReadDraft,
                    PublishPiece, Done
      <3>. QED  BY <2>8, <3>1, <3>2, ArticlesKeep DEF EditorOK
    <2>9. CASE Refuse(p)
      <3>1. PagesTyped' /\ PagesOK'
        BY <2>9, RefuseKeeps
      <3>2. UNCHANGED <<typed, article, list>>
            /\ (losses' = losses \/ (losses < MaxLosses /\ losses' = losses + 1))
        BY <2>9 DEF Refuse
      <3>. QED  BY <3>1, <3>2, ArticlesKeep DEF EditorOK
    <2>10. CASE Proceed(p)
      <3>1. PagesTyped' /\ PagesOK'
        BY <2>10, ProceedKeeps
      <3>2. UNCHANGED <<typed, losses, article>> /\ list' = [list EXCEPT ![p] = article]
        BY <2>10 DEF Proceed
      <3>. QED  BY <3>1, <3>2, ArticlesKeep DEF EditorOK
    <2>11. CASE Finish(p) \/ GiveUp(p) \/ Crash(p)
      <3>1. PagesTyped' /\ PagesOK'
        BY <2>11, EndsKeep
      <3>2. /\ UNCHANGED <<typed, article>>
            /\ losses' = losses \/ (losses < MaxLosses /\ losses' = losses + 1)
            /\ UNCHANGED list \/ list' = [list EXCEPT ![p] = article]
        BY <2>11 DEF Finish, GiveUp, Crash, Ended
      <3>. QED  BY <3>1, <3>2, ArticlesKeep DEF EditorOK
    <2>12. CASE \E x \in Clocks : Fired(p, x)
      <3>1. PagesTyped' /\ PagesOK'
        BY <2>12, TimersKeep
      <3>2. UNCHANGED <<typed, losses, article, list>>
        BY <2>12 DEF Fired, FireInVain, FireWhileBusy, Fire
      <3>. QED  BY <3>1, <3>2, ArticlesKeep DEF EditorOK
    <2>. QED  BY <1>2, <2>1, <2>2, <2>3, <2>4, <2>5, <2>6, <2>7, <2>8, <2>9, <2>10,
                 <2>11, <2>12 DEF Editing, Autosave, Button
  <1>. QED  BY <1>1, <1>2 DEF EditorNext

LEMMA EditorHolds == EditorSpec => []EditorOK
  BY EditorStarts, EditorKeeps, PTL DEF EditorSpec

(* EditorTypeOK, for every number of tabs, articles and versions: a closed *)
(* editor has no clock left to fire, and useAutosave only notes words to   *)
(* send again while something is being sent.                               *)
THEOREM EditorTypes == EditorSpec => []EditorTypeOK
  <1>1. EditorOK => EditorTypeOK
    BY DEF EditorOK, ArticlesOK, PagesTyped, PagesOK, PageOK, Owned, Awaited, EditorTypeOK
  <1>. QED  BY <1>1, EditorHolds, PTL

(* UnsavedIsPending: in useAutosave, words the server does not have are    *)
(* always about to be sent, whatever the order of keystrokes, timers,      *)
(* answers and buttons, on however many tabs.                              *)
THEOREM WordsAreAboutToBeSent == EditorSpec => []UnsavedIsPending
  <1>1. EditorOK => UnsavedIsPending
    <2>. SUFFICES ASSUME EditorOK, NEW p \in Page, Unsaved(p)
                  PROVE  \/ tab[p].armed # {}
                         \/ tab[p].inFlight /\ (auto[p].text = tab[p].text \/ tab[p].dirty)
      BY DEF UnsavedIsPending
    <2>1. Promised(tab[p], auto[p], manual[p])
      BY PageOf DEF PageOK
    <2>. QED  BY <2>1 DEF Promised, Unsaved, Saving
  <1>. QED  BY <1>1, EditorHolds, PTL

(* AutosaveCreatesOnce: the autosave of a new form makes one article, for  *)
(* its answer, or the button's, brings the id before the next is sent.     *)
THEOREM OneArticlePerForm == EditorSpec => AutosaveCreatesOnce
  <1>. DEFINE Once == \A p \in Page :
                /\ auto[p].pc = "sent" /\ auto[p].mine /\ auto'[p].made # auto[p].made
                => tab[p].made = {} \/ tab[p].slipped
  <1>1. EditorOK /\ [EditorNext]_evars => [Once]_evars
    <2>. SUFFICES ASSUME EditorOK, EditorNext PROVE Once
      BY DEF evars
    <2>. SUFFICES ASSUME NEW q \in Page, auto[q].pc = "sent", auto[q].mine,
                         auto'[q].made # auto[q].made
                  PROVE  tab[q].made = {} \/ tab[q].slipped
      OBVIOUS
    <2>1. PICK p \in Page : \/ Editing(p) \/ Autosave(p) \/ Button(p) \/ Crash(p)
                            \/ \E x \in Clocks : Fired(p, x)
      BY DEF EditorNext
    <2>2. auto \in [Page -> AutoType]
      BY DEF EditorOK, PagesTyped
    <2>3. CASE \E r \in Piece : AutoCreate(p, r)
      <3>1. auto[p].id = {} /\ p = q
        BY <2>2, <2>3 DEF AutoCreate
      <3>. QED  BY <3>1, PageOf DEF PageOK, Known
    <2>4. CASE \/ Close(p) \/ \E r \in Piece : AutoPatch(p, r)
               \/ AutoFails(p) \/ Finish(p) \/ Crash(p)
      BY <2>2, <2>4 DEF Close, AutoPatch, AutoFails, Finish, Crash, AutoType
    <2>5. CASE ReceiveAuto(p) \/ \E x \in Clocks : Fire(p, x)
      BY <2>2, <2>5 DEF ReceiveAuto, Fire
    <2>6. CASE \/ OpenNew(p) \/ Visit(p) \/ Type(p) \/ Undo(p) \/ SetState(p)
               \/ \E publish \in BOOLEAN : Click(p, publish)
               \/ \E r \in Piece : OpenEdit(p, r) \/ Discard(p, r) \/ PublishListed(p, r)
      BY <2>6 DEF OpenNew, Visit, Type, Undo, SetState, Click, OpenEdit, Discard,
                  PublishListed, Press
    <2>7. CASE \/ \E r \in Piece : Serve(p, r)
               \/ Refuse(p) \/ Proceed(p) \/ GiveUp(p)
               \/ \E x \in Clocks : FireInVain(p, x) \/ FireWhileBusy(p, x)
      BY <2>7 DEF Serve, CreatePiece, PatchPiece, Park, DropDraft, Submit, ReadDraft,
                  PublishPiece, Done, Refuse, Proceed, GiveUp, FireInVain, FireWhileBusy
    <2>. QED  BY <2>1, <2>3, <2>4, <2>5, <2>6, <2>7 DEF Editing, Autosave, Button, Fired
  <1>. QED  BY <1>1, EditorHolds, PTL DEF EditorSpec, AutosaveCreatesOnce
=============================================================================
