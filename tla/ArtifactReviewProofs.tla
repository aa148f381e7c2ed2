------------------------ MODULE ArtifactReviewProofs --------------------------
(***************************************************************************)
(* Theorems about the review desk, for any users, artifacts, items and     *)
(* number of threads, whatever requests overlap.                           *)
(*                                                                         *)
(* What makes them hold is true of every copy of an artifact, whether it   *)
(* is stored or in the hands of a thread: its events tell its status, and  *)
(* a decision it shows is its item's.  A copy may be stale, but it never   *)
(* becomes wrong, because items keep their decisions (Kept); and the copy  *)
(* a thread writes back is of the artifact it replaces (CopyOf).           *)
(***************************************************************************)
EXTENDS ArtifactReview, ReviewQueueProofs

-----------------------------------------------------------------------------
(* What a step may do to items and to artifacts.                           *)

Kept(its, itz) ==
  \A i \in ItemIds :
    \/ its[i] = NoItem
    \/ itz[i] = DeletedItem
    \/ /\ its[i] \in Item /\ itz[i] \in Item
       /\ itz[i].group = its[i].group
       /\ its[i].status \in Decided => itz[i] = its[i]

Carried(arts, artz) ==
  \A a \in ArtifactIds :
    \/ arts[a] = NoArtifact
    \/ artz[a] = DeletedArtifact
    \/ /\ arts[a] \in Artifact /\ artz[a] \in Artifact
       /\ artz[a].group = arts[a].group

(* What is true of every copy.                                             *)

Told(x) ==
  /\ x.status \in Drafted => x.events = <<"created">> /\ x.item = None
  /\ x.status = "submitted" =>
       x.events = <<"created", "submitted_for_review">> /\ x.item # None
  /\ x.status \in Decided =>
       x.events = Append(<<"created", "submitted_for_review">>, x.status)

Backed(x, its) ==
  x.status \in Decided =>
    /\ x.item \in ItemIds
    /\ \/ its[x.item] = DeletedItem
       \/ /\ x.status = its[x.item].status
          /\ x.amended_by = IF its[x.item].status = "amended_and_accepted"
                              THEN its[x.item].reviewed_by ELSE None

Linked(x, its) ==
  x.item # None =>
    \/ its[x.item] = DeletedItem
    \/ its[x.item] \in Item /\ its[x.item].group = x.group

Good(x, its) == x \in Artifact /\ Told(x) /\ Backed(x, its) /\ Linked(x, its)

CopyOf(x, a, arts) ==
  /\ a \in ArtifactIds
  /\ \/ arts[a] = DeletedArtifact
     \/ arts[a] \in Artifact /\ arts[a].group = x.group

Holding == {"compare", "pair", "enqueue", "refresh", "store"}

JobOK(j, its, arts) ==
  /\ j.phase \in Holding => Good(j.copy, its) /\ CopyOf(j.copy, j.id, arts)
  /\ j.phase = "pair" => Good(j.next, its) /\ CopyOf(j.next, j.other, arts)
  /\ j.phase = "compare" => j.copy.status \in Drafted
  /\ j.phase = "enqueue" => j.copy.item = None
  /\ j.phase = "refresh" => j.copy.item # None
  /\ j.phase = "reset" => j.copy \in Contexts

Artifacts == [ArtifactIds -> Artifact \cup {NoArtifact, DeletedArtifact}]

DeskInv ==
  /\ QueueInv
  /\ artifacts \in Artifacts
  /\ \A a \in ArtifactIds : artifacts[a] \in Artifact => Good(artifacts[a], items)
  /\ jobs = [c \in Callers |-> jobs[c]]
  /\ \A c \in Callers : JobOK(jobs[c], items, artifacts)

-----------------------------------------------------------------------------
(* Lemmas about copies.                                                    *)

(* Absent and deleted rows are told apart from each other and from         *)
(* artifacts.                                                              *)
LEMMA MissingArtifacts ==
  /\ NoArtifact.status = "none" /\ DeletedArtifact.status = "deleted"
  /\ NoArtifact # DeletedArtifact
  /\ NoArtifact \notin Artifact /\ DeletedArtifact \notin Artifact
  /\ \A x \in Artifact : x # NoArtifact /\ x # DeletedArtifact
<1>1. \A x \in Artifact : x.status \in Shown
  BY DEF Artifact
<1>2. NoArtifact.status = "none" /\ DeletedArtifact.status = "deleted"
  BY DEF NoArtifact, DeletedArtifact
<1>3. "none" \notin Shown /\ "deleted" \notin Shown
  BY DEF Shown, Drafted, Decided
<1> QED BY <1>1, <1>2, <1>3

(* Steps of the queue keep what items have said.                           *)
LEMMA QueueKeeps == QueueInv /\ [QueueNext]_items => Kept(items, items')
<1> SUFFICES ASSUME QueueInv, [QueueNext]_items, NEW i \in ItemIds, items[i] # NoItem,
                    items'[i] # DeletedItem
             PROVE  /\ items[i] \in Item /\ items'[i] \in Item
                    /\ items'[i].group = items[i].group
                    /\ items[i].status \in Decided => items'[i] = items[i]
  BY Zenon DEF Kept
<1>0. /\ QueueTypeOK /\ QueueTypeOK'
      /\ items[i] \in Item \cup {DeletedItem}
      /\ items'[i] \in Item \cup {NoItem}
  BY QueueStepInv DEF QueueInv, QueueTypeOK
<1>1. CASE \E j \in ItemIds, t \in Tenants, p \in Projects \cup {None},
             u \in Creators, g \in Groups \cup {None} : Enqueue(j, t, p, u, g)
  <2>1. items'[i] = items[i]
    BY <1>1, <1>0 DEF Enqueue, QueueTypeOK
  <2> QED BY <2>1, <1>0
<1>2. CASE \E ctx \in Contexts, j \in ItemIds, s \in Decided : Disposition(ctx, j, s)
  <2>1. PICK ctx \in Contexts, j \in ItemIds, s \in Decided : Disposition(ctx, j, s)
    BY <1>2
  <2>2. CASE i # j
    <3>1. items'[i] = items[i]
      BY <2>1, <2>2, <1>0 DEF Disposition, QueueTypeOK
    <3> QED BY <3>1, <1>0
  <2>3. CASE i = j
    <3>1. items[i] \in Item /\ items[i].status = "pending"
      BY <2>1, <2>3, <1>0, MissingItems DEF Disposition, Undisposed
    <3> DEFINE new == [items[i] EXCEPT !.status = s, !.reviewed_by = ctx.user]
    <3>2. items'[i] = new
      BY <2>1, <2>3, <1>0 DEF Disposition, Dispositioned, QueueTypeOK
    <3>3. new \in Item /\ new.group = items[i].group
      BY <3>1 DEF Item, Users, Statuses
    <3> HIDE DEF new
    <3> QED BY <3>1, <3>2, <3>3 DEF Decided
  <2> QED BY <2>2, <2>3
<1>3. CASE \E ctx \in Contexts : ResetQueue(ctx)
  <2>1. items'[i] = items[i]
    BY <1>3, <1>0 DEF ResetQueue
  <2> QED BY <2>1, <1>0
<1>4. CASE UNCHANGED items
  BY <1>4, <1>0
<1> QED BY <1>1, <1>2, <1>3, <1>4 DEF QueueNext

(* A copy stays as true as it is while items keep what they said.          *)
LEMMA GoodStays ==
  ASSUME NEW x, NEW its, NEW itz, Good(x, its), Kept(its, itz)
  PROVE  Good(x, itz)
<1>1. x \in Artifact /\ Told(x)
  BY DEF Good
<1>2. x.item # None => x.item \in ItemIds
  BY <1>1 DEF Artifact
<1>3. NoItem \notin Item /\ DeletedItem \notin Item /\ NoItem # DeletedItem
  BY MissingItems DEF Item, Statuses, Decided
<1>4. Backed(x, itz)
  <2> SUFFICES ASSUME x.status \in Decided, itz[x.item] # DeletedItem
               PROVE  /\ x.item \in ItemIds
                      /\ x.status = itz[x.item].status
                      /\ x.amended_by = IF itz[x.item].status = "amended_and_accepted"
                                          THEN itz[x.item].reviewed_by ELSE None
    BY DEF Backed, Good
  <2>1. x.item \in ItemIds
    BY DEF Good, Backed
  <2>2. its[x.item] # DeletedItem
    BY <1>3, <2>1, Zenon DEF Kept
  <2>3. its[x.item].status = x.status
    BY <2>2 DEF Good, Backed
  <2>4. its[x.item] # NoItem
    BY <2>3, MissingItems DEF Decided
  <2>5. itz[x.item] = its[x.item]
    BY <2>1, <2>3, <2>4, Zenon DEF Kept
  <2> QED BY <2>1, <2>2, <2>5, Zenon DEF Good, Backed
<1>5. Linked(x, itz)
  BY <1>2, <1>3, Zenon DEF Kept, Good, Linked
<1> QED BY <1>1, <1>4, <1>5 DEF Good

(* A copy of an artifact stays one of what the artifact becomes.           *)
LEMMA CopyStays ==
  ASSUME NEW x, NEW a, NEW arts, NEW artz, CopyOf(x, a, arts), Carried(arts, artz)
  PROVE  CopyOf(x, a, artz)
  BY MissingArtifacts, Zenon DEF CopyOf, Carried

(* What a thread holds stays good while items keep their decisions and     *)
(* artifacts become what they can.                                         *)
LEMMA JobStays ==
  ASSUME NEW j, NEW its, NEW itz, NEW arts, NEW artz,
         JobOK(j, its, arts), Kept(its, itz), Carried(arts, artz)
  PROVE  JobOK(j, itz, artz)
  BY GoodStays, CopyStays, Zenon DEF JobOK

-----------------------------------------------------------------------------
(* Lemmas about the parts of a step.                                       *)

\* The artifacts after a step are old ones, or good ones in their place.
ArtifactStep ==
  /\ Carried(artifacts, artifacts') /\ artifacts' \in Artifacts
  /\ \A a \in ArtifactIds : artifacts'[a] \in Artifact =>
       artifacts'[a] = artifacts[a] \/ Good(artifacts'[a], items')

\* A step that keeps the invariant, every decision and every artifact's group.
Advance == DeskInv' /\ Kept(items, items') /\ Carried(artifacts, artifacts')

(* A step that leaves the queue alone keeps it.                            *)
LEMMA ItemsSame ==
  ASSUME QueueInv, UNCHANGED items
  PROVE  QueueInv' /\ Kept(items, items')
  BY QueueStepInv, QueueKeeps

(* A step that leaves the table alone keeps it.                            *)
LEMMA ArtifactsSame ==
  ASSUME artifacts \in Artifacts, UNCHANGED artifacts
  PROVE  ArtifactStep
  BY Zenon DEF Artifacts, ArtifactStep, Carried

(* A new artifact is saved under a free id, and the saver has a copy of    *)
(* it.                                                                     *)
LEMMA Saved ==
  ASSUME artifacts \in Artifacts, NEW a \in ArtifactIds, NEW x,
         Good(x, items), UNCHANGED items, Save(a, x)
  PROVE  /\ ArtifactStep /\ artifacts'[a] = x
         /\ Good(x, items') /\ CopyOf(x, a, artifacts')
<1>1. x \in Artifact
  BY DEF Good
<1>2. /\ artifacts' \in Artifacts /\ artifacts'[a] = x
      /\ \A b \in ArtifactIds : b # a => artifacts'[b] = artifacts[b]
  BY <1>1 DEF Save, Artifacts
<1>3. Good(x, items')
  BY Zenon
<1>4. Carried(artifacts, artifacts')
  <2> SUFFICES ASSUME NEW b \in ArtifactIds
               PROVE  Carried(artifacts, artifacts')!(b)
    BY DEF Carried
  <2>1. CASE b = a
    BY <2>1, Zenon DEF Save
  <2>2. CASE b # a
    BY <2>2, <1>2, Zenon DEF Artifacts
  <2> QED BY <2>1, <2>2
<1> QED BY <1>1, <1>2, <1>3, <1>4, Zenon DEF ArtifactStep, CopyOf

(* Storing a good copy over its artifact is something the artifact can     *)
(* become, unless it was deleted.                                          *)
LEMMA Updated ==
  ASSUME artifacts \in Artifacts, NEW a, NEW x, CopyOf(x, a, artifacts),
         Good(x, items), UNCHANGED items, Update(a, x)
  PROVE  ArtifactStep
<1>1. x \in Artifact /\ a \in ArtifactIds
  BY DEF Good, CopyOf
<1>2. CASE Exists(a)
  <2>1. /\ artifacts' \in Artifacts /\ artifacts'[a] = x
        /\ \A b \in ArtifactIds : b # a => artifacts'[b] = artifacts[b]
    BY <1>1, <1>2 DEF Update, Artifacts
  <2>2. artifacts[a] \in Artifact /\ artifacts[a].group = x.group
    BY <1>2, Zenon DEF CopyOf, Exists
  <2>3. Good(x, items')
    BY Zenon
  <2>4. Carried(artifacts, artifacts')
    BY <1>1, <2>1, <2>2, Zenon DEF Carried, Artifacts
  <2> QED BY <2>1, <2>3, <2>4, Zenon DEF ArtifactStep
<1>3. CASE ~Exists(a)
  BY <1>3, ArtifactsSame, Zenon DEF Update
<1> QED BY <1>2, <1>3

(* A step is safe when each thread holds what it held or something good.   *)
LEMMA DeskStep ==
  ASSUME DeskInv, QueueInv', Kept(items, items'), ArtifactStep,
         jobs' = [c \in Callers |-> jobs'[c]],
         \A c \in Callers : jobs'[c] = jobs[c] \/ JobOK(jobs'[c], items', artifacts')
  PROVE  Advance
<1>1. artifacts' \in Artifacts /\ Carried(artifacts, artifacts')
  BY DEF ArtifactStep
<1>2. ASSUME NEW a \in ArtifactIds, artifacts'[a] \in Artifact
      PROVE  Good(artifacts'[a], items')
  BY <1>2, GoodStays, Zenon DEF DeskInv, ArtifactStep
<1>3. ASSUME NEW c \in Callers PROVE JobOK(jobs'[c], items', artifacts')
  BY <1>1, JobStays, Zenon DEF DeskInv
<1> QED BY <1>1, <1>2, <1>3, Zenon DEF DeskInv, Advance

\* Only the thread c has moved.
LEMMA JobStep1 ==
  ASSUME DeskInv, QueueInv', Kept(items, items'), ArtifactStep,
         NEW c \in Callers, NEW j, jobs' = [jobs EXCEPT ![c] = j],
         JobOK(j, items', artifacts')
  PROVE  Advance
<1>1. /\ jobs' = [k \in Callers |-> jobs'[k]]
      /\ jobs'[c] = j /\ \A k \in Callers : k # c => jobs'[k] = jobs[k]
  BY DEF DeskInv
<1> QED BY <1>1, DeskStep, Zenon

(* A thread that is done holds nothing.                                    *)
LEMMA IdleOK ==
  ASSUME NEW its, NEW arts
  PROVE  JobOK(IdleJob, its, arts)
<1>1. IdleJob.phase = "idle"
  BY DEF IdleJob
<1> QED BY <1>1 DEF JobOK, Holding

\* No thread has moved.
LEMMA NoJobStep ==
  ASSUME DeskInv, QueueInv', Kept(items, items'), ArtifactStep, UNCHANGED jobs
  PROVE  Advance
  BY DeskStep, Zenon DEF DeskInv

\* The thread c is done.
LEMMA FinishStep ==
  ASSUME DeskInv, QueueInv', Kept(items, items'), ArtifactStep,
         NEW c \in Callers, Finish(c)
  PROVE  Advance
  BY JobStep1, IdleOK, Zenon DEF Finish

-----------------------------------------------------------------------------
(* Every operation keeps the invariant.                                    *)

\* A new artifact says nothing that is not so.
LEMMA NewGood ==
  ASSUME NEW ctx \in Contexts, NEW p \in Projects, NEW g \in Agents,
         NEW r \in Groups \cup {None}, NEW s \in Drafted, NEW its
  PROVE  /\ Good(NewArtifact(ctx, p, g, r, s), its)
         /\ NewArtifact(ctx, p, g, r, s).group = r
<1> DEFINE x == NewArtifact(ctx, p, g, r, s)
<1>1. /\ x.status = s /\ x.item = None /\ x.events = <<"created">>
      /\ x.group = r
  BY DEF NewArtifact
<1>2. x \in Artifact
  BY QueueAssumption DEF NewArtifact, Artifact, Shown, EventKind
<1>3. s \notin Decided /\ s # "submitted"
  BY DEF Drafted, Decided
<1> HIDE DEF x
<1>4. Told(x) /\ Backed(x, its) /\ Linked(x, its)
  BY <1>1, <1>3 DEF Told, Backed, Linked
<1> QED BY <1>1, <1>2, <1>4 DEF Good, x

(* A run saves a draft.                                                    *)
LEMMA RunWorkspaceInv ==
  ASSUME DeskInv, NEW ctx \in Contexts, NEW a \in ArtifactIds, NEW p \in Projects,
         NEW g \in Agents, NEW r \in Groups \cup {None}, NEW s \in Drafted,
         RunWorkspace(ctx, a, p, g, r, s)
  PROVE  Advance
<1>1. ArtifactStep
  BY Saved, NewGood, Zenon DEF DeskInv, RunWorkspace
<1> QED BY <1>1, ItemsSame, NoJobStep, Zenon DEF DeskInv, RunWorkspace

(* An agreement is saved as a draft.                                       *)
LEMMA DraftAgreementInv ==
  ASSUME DeskInv, NEW ctx \in Contexts, NEW a \in ArtifactIds, NEW p \in Projects,
         NEW g \in Agents, NEW r \in Groups, DraftAgreement(ctx, a, p, g, r)
  PROVE  Advance
<1>1. "draft" \in Drafted /\ r \in Groups \cup {None}
  BY DEF Drafted
<1>2. ArtifactStep
  BY <1>1, Saved, NewGood, Zenon DEF DeskInv, DraftAgreement
<1> QED BY <1>2, ItemsSame, NoJobStep, Zenon DEF DeskInv, DraftAgreement

(* compare has saved the artifact of its first model.                      *)
LEMMA CompareFirstInv ==
  ASSUME DeskInv, NEW c \in Callers, NEW ctx \in Contexts, NEW a \in ArtifactIds,
         NEW p \in Projects, NEW g \in Agents, NEW r \in Groups \cup {None},
         NEW s \in Drafted, CompareFirst(c, ctx, a, p, g, r, s)
  PROVE  Advance
<1> DEFINE x == NewArtifact(ctx, p, g, r, s)
<1>1. ArtifactStep /\ artifacts'[a] = x /\ Good(x, items') /\ CopyOf(x, a, artifacts')
  BY Saved, NewGood, Zenon DEF DeskInv, CompareFirst
<1>2. jobs' = [jobs EXCEPT ![c] = [phase |-> "compare", id |-> a, copy |-> x]]
  BY <1>1 DEF CompareFirst, Continue
<1>3. x.status = s
  BY DEF NewArtifact
<1> HIDE DEF x
<1>4. JobOK([phase |-> "compare", id |-> a, copy |-> x], items', artifacts')
  BY <1>1, <1>3 DEF JobOK
<1> QED BY <1>1, <1>2, <1>4, ItemsSame, JobStep1, Zenon DEF DeskInv, CompareFirst

(* compare has saved the artifact of its second model.                     *)
LEMMA CompareSecondInv ==
  ASSUME DeskInv, NEW c \in Callers, NEW b \in ArtifactIds, NEW s \in Drafted,
         CompareSecond(c, b, s)
  PROVE  Advance
<1> DEFINE x == jobs[c].copy
           y == [x EXCEPT !.status = s]
           x1 == [x EXCEPT !.pair = b]
           y1 == [y EXCEPT !.pair = jobs[c].id]
           j == [phase |-> "pair", id |-> jobs[c].id, copy |-> x1, other |-> b,
                 next |-> y1]
<1>1. /\ Good(x, items) /\ CopyOf(x, jobs[c].id, artifacts)
      /\ x.status \in Drafted
  BY DEF DeskInv, JobOK, CompareSecond, Holding
<1>2. s \in Shown /\ s \notin Decided /\ s # "submitted"
  BY DEF Shown, Drafted, Decided
<1>3. x \in Artifact /\ jobs[c].id \in ArtifactIds
      /\ x.status \notin Decided /\ x.status # "submitted"
      /\ Told(x) /\ Linked(x, items)
  BY <1>1 DEF Good, CopyOf, Drafted, Decided
<1>4. /\ y \in Artifact /\ y.status = s /\ y.item = x.item
      /\ y.events = x.events /\ y.group = x.group
  BY <1>2, <1>3 DEF Artifact
<1>5. /\ x1 \in Artifact /\ x1.status = x.status /\ x1.item = x.item
      /\ x1.events = x.events /\ x1.group = x.group
  BY <1>3 DEF Artifact
<1>6. /\ y1 \in Artifact /\ y1.status = s /\ y1.item = x.item
      /\ y1.events = x.events /\ y1.group = x.group
  <2> HIDE DEF y
  <2> QED BY <1>3, <1>4 DEF Artifact
<1>7. Save(b, y) /\ UNCHANGED items
  BY DEF CompareSecond
<1> HIDE DEF y, x1, y1
<1>8. Good(y, items)
  BY <1>1, <1>2, <1>3, <1>4 DEF Good, Told, Backed, Linked
<1>9. /\ ArtifactStep /\ artifacts'[b] = y /\ CopyOf(y, b, artifacts')
  BY <1>7, <1>8, Saved, Zenon DEF DeskInv
<1>10. jobs' = [jobs EXCEPT ![c] = j]
  BY <1>9 DEF CompareSecond, x1, y1
<1>11. Good(x1, items') /\ Good(y1, items')
  BY <1>1, <1>2, <1>3, <1>5, <1>6, <1>7 DEF Good, Told, Backed, Linked
<1>12. CopyOf(x1, jobs[c].id, artifacts')
  <2>1. CopyOf(x, jobs[c].id, artifacts')
    BY <1>1, <1>9, CopyStays, Zenon DEF ArtifactStep
  <2> QED BY <1>5, <2>1, Zenon DEF CopyOf
<1>13. CopyOf(y1, b, artifacts')
  BY <1>4, <1>6, <1>9, Zenon DEF CopyOf
<1>14. JobOK(j, items', artifacts')
  BY <1>11, <1>12, <1>13 DEF JobOK
<1> QED BY <1>7, <1>9, <1>10, <1>14, ItemsSame, JobStep1, Zenon DEF DeskInv

(* compare ends without its second artifact.                               *)
LEMMA CompareFailsInv ==
  ASSUME DeskInv, NEW c \in Callers, CompareFails(c)
  PROVE  Advance
  BY ItemsSame, ArtifactsSame, FinishStep, Zenon DEF DeskInv, CompareFails

(* compare marks the first artifact as compared with the second.           *)
LEMMA ComparePairInv ==
  ASSUME DeskInv, NEW c \in Callers, ComparePair(c)
  PROVE  Advance
<1> DEFINE j == [phase |-> "store", id |-> jobs[c].other, copy |-> jobs[c].next]
<1>1. /\ Good(jobs[c].copy, items) /\ CopyOf(jobs[c].copy, jobs[c].id, artifacts)
      /\ Good(jobs[c].next, items) /\ CopyOf(jobs[c].next, jobs[c].other, artifacts)
  BY DEF DeskInv, JobOK, ComparePair, Holding
<1>2. ArtifactStep
  BY <1>1, Updated, Zenon DEF DeskInv, ComparePair
<1>3. QueueInv' /\ Kept(items, items')
  BY ItemsSame DEF DeskInv, ComparePair
<1>4. CASE Exists(jobs[c].id)
  <2>1. jobs' = [jobs EXCEPT ![c] = j]
    BY <1>4 DEF ComparePair, Continue
  <2>2. Good(jobs[c].next, items')
    BY <1>1, <1>3, GoodStays, Zenon
  <2>3. CopyOf(jobs[c].next, jobs[c].other, artifacts')
    BY <1>1, <1>2, CopyStays, Zenon DEF ArtifactStep
  <2>4. JobOK(j, items', artifacts')
    BY <2>2, <2>3 DEF JobOK
  <2> QED BY <1>2, <1>3, <2>1, <2>4, JobStep1, Zenon
<1>5. CASE ~Exists(jobs[c].id)
  BY <1>2, <1>3, <1>5, FinishStep, Zenon DEF ComparePair
<1> QED BY <1>4, <1>5

(* What is read from the table is a good copy.                             *)
LEMMA ReadOK ==
  ASSUME DeskInv, NEW a \in ArtifactIds, Exists(a)
  PROVE  /\ Good(artifacts[a], items) /\ CopyOf(artifacts[a], a, artifacts)
<1>1. artifacts[a] \in Artifact
  BY Zenon DEF DeskInv, Artifacts, Exists
<1> QED BY <1>1 DEF DeskInv, CopyOf

(* submit_artifact has read its artifact.                                  *)
LEMMA SubmitReadInv ==
  ASSUME DeskInv, NEW c \in Callers, NEW ctx \in Contexts, NEW a \in ArtifactIds,
         SubmitRead(c, ctx, a)
  PROVE  Advance
<1> DEFINE ph == IF AlreadySubmitted(artifacts[a]) THEN "refresh" ELSE "enqueue"
           j == [phase |-> ph, id |-> a, copy |-> artifacts[a]]
<1>1. Good(artifacts[a], items) /\ CopyOf(artifacts[a], a, artifacts)
  BY ReadOK DEF SubmitRead
<1>2. jobs' = [jobs EXCEPT ![c] = j]
  BY DEF SubmitRead, Continue
<1>3. JobOK(j, items', artifacts')
  BY <1>1 DEF JobOK, SubmitRead, AlreadySubmitted
<1> QED BY <1>2, <1>3, ItemsSame, ArtifactsSame, JobStep1, Zenon DEF DeskInv, SubmitRead

(* A view has read its artifact.                                           *)
LEMMA ViewReadInv ==
  ASSUME DeskInv, NEW c \in Callers, NEW ctx \in Contexts, NEW a \in ArtifactIds,
         ViewRead(c, ctx, a)
  PROVE  Advance
<1> DEFINE j == [phase |-> "refresh", id |-> a, copy |-> artifacts[a]]
<1>1. Good(artifacts[a], items) /\ CopyOf(artifacts[a], a, artifacts)
  BY ReadOK DEF ViewRead
<1>2. jobs' = [jobs EXCEPT ![c] = j]
  BY DEF ViewRead, Continue
<1>3. JobOK(j, items', artifacts')
  BY <1>1 DEF JobOK, ViewRead
<1> QED BY <1>2, <1>3, ItemsSame, ArtifactsSame, JobStep1, Zenon DEF DeskInv, ViewRead

(* submit_artifact has queued a review item.                               *)
LEMMA SubmitEnqueueInv ==
  ASSUME DeskInv, NEW c \in Callers, NEW i \in ItemIds, SubmitEnqueue(c, i)
  PROVE  Advance
<1> DEFINE x == jobs[c].copy
           y == Submitted(x, i)
           j == [phase |-> "store", id |-> jobs[c].id, copy |-> y]
<1>1. /\ Good(x, items) /\ CopyOf(x, jobs[c].id, artifacts) /\ x.item = None
      /\ Enqueue(i, x.tenant, x.project, x.agent, x.group)
      /\ jobs' = [jobs EXCEPT ![c] = j] /\ UNCHANGED artifacts
  BY DEF DeskInv, JobOK, SubmitEnqueue, Holding, Continue
<1>2. /\ x \in Artifact /\ Told(x) /\ x.status \in Shown
      /\ x.tenant \in Tenants /\ x.project \in Projects \cup {None}
      /\ x.agent \in Creators /\ x.group \in Groups \cup {None}
  BY <1>1, DeskAssumption DEF Good, Artifact
<1>3. QueueInv' /\ Kept(items, items')
  <2>1. QueueNext
    BY <1>1, <1>2, Zenon DEF QueueNext
  <2> QED BY <2>1, QueueStepInv, QueueKeeps DEF DeskInv
<1>4. /\ items'[i] \in Item /\ items'[i].group = x.group
      /\ items'[i].status = "pending"
  BY <1>1, <1>2 DEF Enqueue, DeskInv, QueueInv, QueueTypeOK, Item, Statuses
<1>5. x.status \in Drafted \cup Decided
  BY <1>1, <1>2 DEF Told, Shown
<1>6. x.status \notin Decided
  BY <1>1, <1>2, QueueAssumption DEF Good, Backed
<1>7. x.events = <<"created">>
  BY <1>2, <1>5, <1>6 DEF Told
<1> DEFINE queued == <<"created", "submitted_for_review">>
<1>8. queued = Append(x.events, "submitted_for_review") /\ queued \in Seq(EventKind)
  BY <1>7 DEF EventKind
<1>9. /\ y \in Artifact /\ y.status = "submitted" /\ y.item = i
      /\ y.group = x.group /\ y.events = queued
  <2> HIDE DEF queued
  <2>1. y = [x EXCEPT !.status = "submitted", !.item = i, !.events = queued]
    BY <1>8 DEF Submitted
  <2>2. "submitted" \in Shown
    BY DEF Shown
  <2> HIDE DEF y
  <2> QED BY <1>2, <1>8, <2>1, <2>2 DEF Artifact
<1> HIDE DEF y
<1>10. Good(y, items')
  BY <1>4, <1>9, QueueAssumption DEF Good, Told, Backed, Linked, Decided, Drafted
<1>11. CopyOf(y, jobs[c].id, artifacts')
  BY <1>1, <1>9, Zenon DEF CopyOf
<1>12. JobOK(j, items', artifacts')
  BY <1>10, <1>11 DEF JobOK
<1>13. ArtifactStep
  BY <1>1, ArtifactsSame DEF DeskInv
<1> QED BY <1>1, <1>3, <1>12, <1>13, JobStep1, Zenon

(* A thread writes back the copy it holds.                                 *)
LEMMA StoreInv ==
  ASSUME DeskInv, NEW c \in Callers, Store(c)
  PROVE  Advance
<1>1. Good(jobs[c].copy, items) /\ CopyOf(jobs[c].copy, jobs[c].id, artifacts)
  BY DEF DeskInv, JobOK, Store, Holding
<1>2. ArtifactStep
  BY <1>1, Updated, Zenon DEF DeskInv, Store
<1> QED BY <1>2, ItemsSame, FinishStep, Zenon DEF DeskInv, Store

(* refreshed_artifact has copied the decision of the item into its copy.   *)
LEMMA RefreshInv ==
  ASSUME DeskInv, NEW c \in Callers, Refresh(c)
  PROVE  Advance
<1> DEFINE x == jobs[c].copy
           y == WithDecision(x)
           j == [phase |-> "store", id |-> jobs[c].id, copy |-> y]
<1>1. /\ Good(x, items) /\ CopyOf(x, jobs[c].id, artifacts) /\ x.item # None
  BY DEF DeskInv, JobOK, Refresh, Holding
<1>2. /\ QueueInv' /\ Kept(items, items') /\ ArtifactStep
  BY ItemsSame, ArtifactsSame, Zenon DEF DeskInv, Refresh
<1>3. CASE DecisionToCopy(x)
  <2> DEFINE item == items[x.item]
  <2>1. /\ x \in Artifact /\ Told(x) /\ x.status \in Shown /\ x.item \in ItemIds
    BY <1>1 DEF Good, Artifact
  <2>2. item \in Item /\ item.status \in Decided /\ item.status # x.status
    BY <1>3, <2>1, MissingItems DEF DecisionToCopy, DeskInv, QueueInv, QueueTypeOK, Decided
  <2>3. item # DeletedItem
    BY <2>2, MissingItems DEF Decided
  <2>4. x.status \notin Decided
    BY <1>1, <2>2, <2>3 DEF Good, Backed
  <2>5. x.status = "submitted"
    BY <1>1, <2>1, <2>4 DEF Told, Shown
  <2>6. x.events = <<"created", "submitted_for_review">>
    BY <2>1, <2>5 DEF Told
  <2>7. item.reviewed_by \in Users \cup {None}
    BY <2>2 DEF Item
  <2>8. /\ y.status = item.status /\ y.item = x.item /\ y.group = x.group
        /\ y.amended_by = IF item.status = "amended_and_accepted"
                            THEN item.reviewed_by ELSE None
        /\ y.events = Append(<<"created", "submitted_for_review">>, item.status)
    BY <2>1, <2>6 DEF WithDecision, Artifact
  <2>9. y \in Artifact
    <3>1. /\ item.status \in Shown /\ item.status \in EventKind
      BY <2>2 DEF Shown, EventKind
    <3>2. x.events \in Seq(EventKind)
      BY <2>1 DEF Artifact
    <3>3. Append(x.events, item.status) \in Seq(EventKind)
      BY <3>1, <3>2
    <3> QED BY <2>1, <2>7, <3>1, <3>3 DEF WithDecision, Artifact
  <2> HIDE DEF y
  <2>10. Good(y, items)
    <3>1. Told(y)
      BY <2>2, <2>8 DEF Told, Decided, Drafted
    <3>2. Backed(y, items)
      BY <2>1, <2>8, Zenon DEF Backed
    <3>3. Linked(y, items)
      BY <1>1, <2>8, Zenon DEF Linked, Good
    <3> QED BY <2>9, <3>1, <3>2, <3>3 DEF Good
  <2>11. CopyOf(y, jobs[c].id, artifacts)
    BY <1>1, <2>8, Zenon DEF CopyOf
  <2>12. JobOK(j, items', artifacts')
    BY <2>10, <2>11 DEF JobOK, Refresh
  <2>13. jobs' = [jobs EXCEPT ![c] = j]
    BY <1>3 DEF Refresh, Continue, y
  <2> QED BY <1>2, <2>12, <2>13, JobStep1, Zenon
<1>4. CASE ~DecisionToCopy(x)
  BY <1>2, <1>4, FinishStep, Zenon DEF Refresh
<1> QED BY <1>3, <1>4

(* A reviewer decides while threads hold copies.                           *)
LEMMA DecideInv ==
  ASSUME DeskInv, NEW ctx \in Contexts, NEW i \in ItemIds, NEW s \in Decided,
         Decide(ctx, i, s)
  PROVE  Advance
<1>1. QueueNext
  BY Zenon DEF Decide, QueueNext
<1>2. QueueInv' /\ Kept(items, items')
  BY <1>1, QueueStepInv, QueueKeeps DEF DeskInv
<1> QED BY <1>2, ArtifactsSame, NoJobStep, Zenon DEF DeskInv, Decide

(* A reset deletes the artifacts in its scope.                             *)
LEMMA ResetArtifactsInv ==
  ASSUME DeskInv, NEW c \in Callers, NEW ctx \in Contexts, ResetArtifacts(c, ctx)
  PROVE  Advance
<1> DEFINE j == [phase |-> "reset", id |-> None, copy |-> ctx]
<1>1. \A a \in ArtifactIds : artifacts'[a] \in {artifacts[a], DeletedArtifact}
  BY DEF ResetArtifacts
<1>2. artifacts' \in Artifacts
  BY <1>1 DEF ResetArtifacts, DeskInv, Artifacts
<1>3. ArtifactStep
  BY <1>1, <1>2, MissingArtifacts, Zenon
    DEF DeskInv, Artifacts, ArtifactStep, Carried
<1>4. jobs' = [jobs EXCEPT ![c] = j]
  BY DEF ResetArtifacts, Continue
<1>5. JobOK(j, items', artifacts')
  BY DEF JobOK, Holding
<1> QED BY <1>3, <1>4, <1>5, ItemsSame, JobStep1, Zenon DEF DeskInv, ResetArtifacts

(* A reset deletes the items in its scope.                                 *)
LEMMA ResetReviewsInv ==
  ASSUME DeskInv, NEW c \in Callers, ResetReviews(c)
  PROVE  Advance
<1>1. jobs[c].copy \in Contexts
  BY DEF DeskInv, JobOK, ResetReviews
<1>2. QueueNext
  BY <1>1, Zenon DEF ResetReviews, QueueNext
<1>3. QueueInv' /\ Kept(items, items')
  BY <1>2, QueueStepInv, QueueKeeps DEF DeskInv
<1> QED BY <1>3, ArtifactsSame, FinishStep, Zenon DEF DeskInv, ResetReviews

(* A restart loses every copy and keeps the tables.                        *)
LEMMA RestartInv ==
  ASSUME DeskInv, Restart
  PROVE  Advance
<1>1. ArtifactStep /\ QueueInv' /\ Kept(items, items')
  BY ArtifactsSame, ItemsSame DEF DeskInv, Restart
<1>2. /\ jobs' = [c \in Callers |-> jobs'[c]]
      /\ \A c \in Callers : jobs'[c] = IdleJob
  BY DEF Restart
<1> QED BY <1>1, <1>2, IdleOK, DeskStep, Zenon

(* Doing nothing keeps the desk.                                           *)
LEMMA StutterInv ==
  ASSUME DeskInv, UNCHANGED <<items, artifacts, jobs>>
  PROVE  Advance
  BY ArtifactsSame, ItemsSame, NoJobStep, Zenon DEF DeskInv

(* Everything but the making of drafts.                                    *)
LEMMA ReviewStepInv == DeskInv /\ ReviewNext => Advance
<1> SUFFICES ASSUME DeskInv, ReviewNext PROVE Advance
  OBVIOUS
<1>1. ASSUME NEW c \in Callers, JobStep(c) PROVE Advance
  BY <1>1, CompareSecondInv, CompareFailsInv, ComparePairInv, SubmitEnqueueInv,
     StoreInv, RefreshInv, ResetReviewsInv, Zenon DEF JobStep
<1>2. ASSUME NEW c \in Callers, NEW ctx \in Contexts, NEW a \in ArtifactIds,
             SubmitRead(c, ctx, a) \/ ViewRead(c, ctx, a)
      PROVE  Advance
  BY <1>2, SubmitReadInv, ViewReadInv, Zenon
<1>3. ASSUME NEW ctx \in Contexts, NEW i \in ItemIds, NEW s \in Decided,
             Decide(ctx, i, s)
      PROVE  Advance
  BY <1>3, DecideInv, Zenon
<1>4. ASSUME NEW c \in Callers, NEW ctx \in Contexts, ResetArtifacts(c, ctx)
      PROVE  Advance
  BY <1>4, ResetArtifactsInv, Zenon
<1> QED BY <1>1, <1>2, <1>3, <1>4, RestartInv, Zenon DEF ReviewNext

(* Every step keeps what the desk and its copies have to be.               *)
LEMMA DeskStepInv == DeskInv /\ [DeskNext]_deskVars => DeskInv'
<1> SUFFICES ASSUME DeskInv, [DeskNext]_deskVars PROVE Advance
  BY Zenon DEF Advance
<1>1. ASSUME NEW ctx \in Contexts, NEW a \in ArtifactIds, NEW p \in Projects,
             NEW g \in Agents, NEW r \in Groups \cup {None}, NEW s \in Drafted,
             RunWorkspace(ctx, a, p, g, r, s)
      PROVE  Advance
  BY <1>1, RunWorkspaceInv, Zenon
<1>2. ASSUME NEW c \in Callers, NEW ctx \in Contexts, NEW a \in ArtifactIds,
             NEW p \in Projects, NEW g \in Agents, NEW r \in Groups \cup {None},
             NEW s \in Drafted, CompareFirst(c, ctx, a, p, g, r, s)
      PROVE  Advance
  BY <1>2, CompareFirstInv, Zenon
<1>3. ASSUME NEW ctx \in Contexts, NEW a \in ArtifactIds, NEW p \in Projects,
             NEW g \in Agents, NEW r \in Groups, DraftAgreement(ctx, a, p, g, r)
      PROVE  Advance
  BY <1>3, DraftAgreementInv, Zenon
<1>4. CASE UNCHANGED deskVars
  BY <1>4, StutterInv, Zenon DEF deskVars
<1> QED BY <1>1, <1>2, <1>3, <1>4, ReviewStepInv, Zenon DEF DeskNext

(* At the start there are no artifacts and no copies.                      *)
LEMMA DeskInitInv == DeskInit => DeskInv
<1> SUFFICES ASSUME DeskInit PROVE DeskInv
  OBVIOUS
<1>1. QueueInv
  BY QueueInitInv DEF DeskInit
<1>2. /\ artifacts \in Artifacts
      /\ \A a \in ArtifactIds : artifacts[a] \notin Artifact
  BY MissingArtifacts DEF DeskInit, Artifacts
<1>3. /\ jobs = [c \in Callers |-> jobs[c]]
      /\ \A c \in Callers : jobs[c] = IdleJob
  BY DEF DeskInit
<1> QED BY <1>1, <1>2, <1>3, IdleOK, Zenon DEF DeskInv

(* Threads stay within the phases of their requests, restarts within their *)
(* bound.                                                                  *)
Moved ==
  /\ \A c \in Callers : jobs'[c] = jobs[c] \/ jobs'[c].phase \in Phases
  /\ UNCHANGED restarts \/ Restart

PhasesOK == (\A c \in Callers : jobs[c].phase \in Phases) /\ restarts \in 0..MaxRestarts

(* Each step moves one thread to a phase of the program, or restarts.      *)
LEMMA Moves ==
  ASSUME DeskInv
  PROVE  /\ \A c \in Callers, p \in Phases : \A id, copy :
              Continue(c, p, id, copy) /\ UNCHANGED restarts => Moved
         /\ ReviewNext => Moved
<1> DEFINE moved(c) == \E j : jobs' = [jobs EXCEPT ![c] = j] /\ j.phase \in Phases
<1>1. ASSUME NEW c \in Callers, moved(c), UNCHANGED restarts PROVE Moved
  BY <1>1 DEF Moved, DeskInv
<1>2. ASSUME NEW c \in Callers, NEW p \in Phases, NEW id, NEW copy,
             Continue(c, p, id, copy)
      PROVE  moved(c)
  <2> DEFINE j == [phase |-> p, id |-> id, copy |-> copy]
  <2>1. jobs' = [jobs EXCEPT ![c] = j] /\ j.phase \in Phases
    BY <1>2 DEF Continue
  <2> QED BY <2>1, Zenon
<1>3. ASSUME NEW c \in Callers, Finish(c) PROVE moved(c)
  <2>1. IdleJob.phase \in Phases
    BY DEF IdleJob, Phases
  <2> QED BY <1>3, <2>1, Zenon DEF Finish
<1>4. {"compare", "enqueue", "refresh", "store", "reset"} \subseteq Phases
  BY DEF Phases
<1>5. ASSUME NEW c \in Callers, JobStep(c) PROVE Moved
  <2>1. ASSUME NEW b \in ArtifactIds, NEW s \in Drafted, CompareSecond(c, b, s)
        PROVE  moved(c) /\ UNCHANGED restarts
    <3> DEFINE j == [phase |-> "pair", id |-> jobs[c].id,
                     copy |-> [jobs[c].copy EXCEPT !.pair = b], other |-> b,
                     next |-> [artifacts'[b] EXCEPT !.pair = jobs[c].id]]
    <3>1. j.phase \in Phases
      BY DEF Phases
    <3>2. jobs' = [jobs EXCEPT ![c] = j] /\ UNCHANGED restarts
      BY <2>1, Zenon DEF CompareSecond
    <3> HIDE DEF j
    <3> QED BY <3>1, <3>2, Zenon
  <2>2. ASSUME CompareFails(c) \/ Store(c) \/ ResetReviews(c)
        PROVE  moved(c) /\ UNCHANGED restarts
    BY <2>2, <1>3, Zenon DEF CompareFails, Store, ResetReviews
  <2>3. ASSUME ComparePair(c) \/ Refresh(c) PROVE moved(c) /\ UNCHANGED restarts
    BY <2>3, <1>2, <1>3, <1>4, Zenon DEF ComparePair, Refresh
  <2>4. ASSUME NEW i \in ItemIds, SubmitEnqueue(c, i)
        PROVE  moved(c) /\ UNCHANGED restarts
    BY <2>4, <1>2, <1>4, Zenon DEF SubmitEnqueue
  <2> QED BY <1>1, <1>5, <2>1, <2>2, <2>3, <2>4, Zenon DEF JobStep
<1>6. ASSUME NEW c \in Callers, NEW ctx \in Contexts, NEW a \in ArtifactIds,
             SubmitRead(c, ctx, a) \/ ViewRead(c, ctx, a)
      PROVE  Moved
  BY <1>6, <1>1, <1>2, <1>4, Zenon DEF SubmitRead, ViewRead
<1>7. ASSUME NEW ctx \in Contexts, NEW i \in ItemIds, NEW s \in Decided,
             Decide(ctx, i, s)
      PROVE  Moved
  BY <1>7 DEF Decide, Moved
<1>8. ASSUME NEW c \in Callers, NEW ctx \in Contexts, ResetArtifacts(c, ctx)
      PROVE  Moved
  BY <1>8, <1>1, <1>2, <1>4, Zenon DEF ResetArtifacts
<1>9. ASSUME Restart PROVE Moved
  BY <1>9 DEF Restart, Moved, IdleJob, Phases
<1> QED BY <1>1, <1>2, <1>5, <1>6, <1>7, <1>8, <1>9, Zenon DEF ReviewNext

(* Threads are in phases of the program, and restarts are bounded.         *)
LEMMA PhasesStepInv == DeskInv /\ PhasesOK /\ [DeskNext]_deskVars => PhasesOK'
<1> SUFFICES ASSUME DeskInv, PhasesOK, [DeskNext]_deskVars PROVE PhasesOK'
  OBVIOUS
<1>1. ASSUME Moved PROVE PhasesOK'
  BY <1>1, DeskAssumption DEF Moved, Restart, PhasesOK
<1>2. CASE ReviewNext
  BY <1>1, <1>2, Moves
<1>3. ASSUME NEW ctx \in Contexts, NEW a \in ArtifactIds, NEW p \in Projects,
             NEW g \in Agents, NEW r \in Groups \cup {None}, NEW s \in Drafted,
             RunWorkspace(ctx, a, p, g, r, s) \/ DraftAgreement(ctx, a, p, g, r)
      PROVE  PhasesOK'
  BY <1>3 DEF RunWorkspace, DraftAgreement, PhasesOK
<1>4. ASSUME NEW c \in Callers, NEW ctx \in Contexts, NEW a \in ArtifactIds,
             NEW p \in Projects, NEW g \in Agents, NEW r \in Groups \cup {None},
             NEW s \in Drafted, CompareFirst(c, ctx, a, p, g, r, s)
      PROVE  PhasesOK'
  <2>1. "compare" \in Phases
    BY DEF Phases
  <2> QED BY <1>1, <1>4, <2>1, Moves, Zenon DEF CompareFirst
<1>5. CASE UNCHANGED deskVars
  BY <1>5 DEF deskVars, PhasesOK
<1>6. "draft" \in Drafted /\ \A r \in Groups : r \in Groups \cup {None}
  BY DEF Drafted
<1> QED BY <1>2, <1>3, <1>4, <1>5, <1>6, Zenon DEF DeskNext

-----------------------------------------------------------------------------
(* What the invariant says of the table and of the queue.                  *)

(* A decision shown is that of the item linked to.                         *)
LEMMA DeskBacked == DeskInv => DecisionBacked
<1> SUFFICES ASSUME DeskInv, NEW a \in ArtifactIds, artifacts[a].status \in Decided
             PROVE  DecisionBacked!(a)
  BY DEF DecisionBacked
<1>1. artifacts[a] \in Artifact
  BY MissingArtifacts DEF DeskInv, Artifacts, Decided
<1>2. Backed(artifacts[a], items)
  BY <1>1 DEF DeskInv, Good
<1> QED BY <1>2, Zenon DEF Backed

(* The events of an artifact tell its status and link.                     *)
LEMMA DeskTold == DeskInv => EventsTellStatus
<1> SUFFICES ASSUME DeskInv, NEW a \in ArtifactIds, Exists(a)
             PROVE  EventsTellStatus!(a)
  BY DEF EventsTellStatus
<1>1. Told(artifacts[a])
  BY ReadOK DEF Good
<1> QED BY <1>1, Zenon DEF Told

(* A submission queues an item as the queue's own callers may, with the    *)
(* columns of the artifact it is about.                                    *)
LEMMA EnqueueStep ==
  ASSUME DeskInv, NEW c \in Callers, NEW i \in ItemIds, SubmitEnqueue(c, i)
  PROVE  QueueNext
<1> DEFINE x == jobs[c].copy
<1>1. Good(x, items) /\ Enqueue(i, x.tenant, x.project, x.agent, x.group)
  BY DEF DeskInv, JobOK, SubmitEnqueue, Holding
<1>2. /\ x.tenant \in Tenants /\ x.project \in Projects \cup {None}
      /\ x.agent \in Creators /\ x.group \in Groups \cup {None}
  BY <1>1, DeskAssumption DEF Good, Artifact
<1> QED BY <1>1, <1>2, Zenon DEF QueueNext

(* Submissions, decisions and resets are steps of the queue; everything    *)
(* else leaves the queue alone.                                            *)
LEMMA ReviewQueueStep ==
  ASSUME DeskInv, ReviewNext
  PROVE  [QueueNext]_items
<1>1. ASSUME NEW c \in Callers, JobStep(c) PROVE [QueueNext]_items
  <2>1. CASE \E i \in ItemIds : SubmitEnqueue(c, i)
    BY <2>1, EnqueueStep
  <2>2. CASE ResetReviews(c)
    BY <2>2, Zenon DEF DeskInv, JobOK, ResetReviews, QueueNext
  <2>3. ASSUME NEW b, NEW s, CompareSecond(c, b, s) PROVE UNCHANGED items
    BY <2>3 DEF CompareSecond
  <2>4. CASE CompareFails(c) \/ ComparePair(c) \/ Store(c) \/ Refresh(c)
    BY <2>4 DEF CompareFails, ComparePair, Store, Refresh
  <2> QED BY <1>1, <2>1, <2>2, <2>3, <2>4, Zenon DEF JobStep
<1>2. ASSUME NEW c, NEW ctx, NEW a, SubmitRead(c, ctx, a) \/ ViewRead(c, ctx, a)
      PROVE  UNCHANGED items
  BY <1>2 DEF SubmitRead, ViewRead
<1>3. ASSUME NEW ctx \in Contexts, NEW i \in ItemIds, NEW s \in Decided, Decide(ctx, i, s)
      PROVE  QueueNext
  BY <1>3, Zenon DEF Decide, QueueNext
<1>4. ASSUME NEW c, NEW ctx, ResetArtifacts(c, ctx) PROVE UNCHANGED items
  BY <1>4 DEF ResetArtifacts
<1>5. Restart => UNCHANGED items
  BY DEF Restart
<1> QED BY <1>1, <1>2, <1>3, <1>4, <1>5, Zenon DEF ReviewNext

(* Making drafts leaves the queue alone too.                               *)
LEMMA DeskQueueStep == DeskInv /\ [DeskNext]_deskVars => [QueueNext]_items
<1> SUFFICES ASSUME DeskInv, [DeskNext]_deskVars PROVE [QueueNext]_items
  OBVIOUS
<1>1. ASSUME NEW ctx, NEW a, NEW p, NEW g, NEW r, NEW s,
             RunWorkspace(ctx, a, p, g, r, s) \/ DraftAgreement(ctx, a, p, g, r)
      PROVE  UNCHANGED items
  BY <1>1 DEF RunWorkspace, DraftAgreement
<1>2. ASSUME NEW c, NEW ctx, NEW a, NEW p, NEW g, NEW r, NEW s,
             CompareFirst(c, ctx, a, p, g, r, s)
      PROVE  UNCHANGED items
  BY <1>2 DEF CompareFirst
<1>3. UNCHANGED deskVars => UNCHANGED items
  BY DEF deskVars
<1> QED BY <1>1, <1>2, <1>3, ReviewQueueStep, Zenon DEF DeskNext

-----------------------------------------------------------------------------
(* The theorems.                                                           *)

(* Stored artifacts, and the copies threads hold, keep their columns.      *)
THEOREM DeskTyping == DeskSpec => []DeskTypeOK
<1>1. DeskInv /\ PhasesOK => DeskTypeOK
  <2> SUFFICES ASSUME DeskInv, PhasesOK PROVE DeskTypeOK
    OBVIOUS
  <2>1. ASSUME NEW c \in Callers, jobs[c].phase \in Phases \ {"idle", "reset"}
        PROVE  jobs[c].id \in ArtifactIds /\ jobs[c].copy \in Artifact
    BY <2>1 DEF DeskInv, JobOK, Phases, Holding, Good, CopyOf
  <2> QED BY <2>1, Zenon DEF DeskInv, PhasesOK, QueueInv, Artifacts, DeskTypeOK
<1>2. DeskInit => PhasesOK
  BY DeskAssumption DEF DeskInit, PhasesOK, IdleJob, Phases
<1> QED BY <1>1, <1>2, DeskInitInv, DeskStepInv, PhasesStepInv, PTL DEF DeskSpec

(* An artifact shows a decision only while the review item it is linked to *)
(* carries the same decision, or after a reset has removed the item, and   *)
(* names who amended it: no overlap of reads, refreshes and stores makes   *)
(* up, swaps or misattributes a decision.                                  *)
THEOREM Backing == DeskSpec => []DecisionBacked
BY DeskBacked, DeskInitInv, DeskStepInv, PTL DEF DeskSpec

(* The events of an artifact are those of the status and link it shows,    *)
(* however many threads write back copies they read at different times:    *)
(* what such a copy overwrites goes with its events.                       *)
THEOREM History == DeskSpec => []EventsTellStatus
BY DeskTold, DeskInitInv, DeskStepInv, PTL DEF DeskSpec

(* The desk is a user of the queue: whatever copies its threads hold and   *)
(* write back, every run of it is a run of ReviewQueue.                    *)
THEOREM DeskQueue == DeskSpec => QueueSpec
<1>1. DeskInit => QueueInit
  BY DEF DeskInit
<1> QED BY <1>1, DeskInitInv, DeskStepInv, DeskQueueStep, PTL DEF DeskSpec, QueueSpec

(* So a decision on an artifact's item is made by a member of its group in *)
(* its scope who is not the agent that drafted it, and is never changed.   *)
THEOREM DeskDecisions == DeskSpec => []QualifiedDecisions /\ DecisionsFinal
BY DeskQueue, Qualification, Finality, PTL
=============================================================================
