------------------------- MODULE SpecialistDeskProofs -------------------------
(***************************************************************************)
(* Who decides on a specialist's draft, what its drafts rest on and what   *)
(* its rules promise, for any managers' records, users, drafts and items.  *)
(***************************************************************************)
EXTENDS SpecialistDesk, ReviewQueueProofs, WellFoundedInduction, FiniteSetTheorems,
        SequenceTheorems

(* An item names whoever queued it as its creator and, when it is about a  *)
(* draft, has the draft's scope and asks for its manager's reviewers.      *)
Routed ==
  \A i \in ItemIds : Queued(i) =>
    /\ items[i].created_by = about[i].by
    /\ items[i].group # None /\ items[i].project # None
    /\ about[i].draft # None =>
         /\ about[i].draft \in DraftIds /\ Drafted(about[i].draft)
         /\ items[i].tenant = drafts[about[i].draft].access.tenant
         /\ items[i].project = drafts[about[i].draft].access.project
         /\ items[i].group = ReviewerGroup(drafts[about[i].draft].manager)

(* A draft is a manager's; only a user escalates, and only a draft.        *)
Shaped ==
  /\ library \subseteq Records
  /\ about = [i \in ItemIds |-> about[i]]
  /\ drafts = [d \in DraftIds |-> drafts[d]]
  /\ escalating = [d \in DraftIds |-> escalating[d]]
  /\ \A d \in DraftIds :
       /\ Drafted(d) => drafts[d].manager \in Managers
       /\ escalating[d] = [by |-> escalating[d].by, todo |-> escalating[d].todo]
       /\ escalating[d].todo # <<>> => escalating[d].by \in Contexts /\ Drafted(d)

DeskInv == QueueInv /\ Routed /\ Shaped

(* Nothing is queued or drafted at the start.                              *)
LEMMA DeskInitInv == Init => DeskInv
<1> SUFFICES ASSUME Init PROVE DeskInv
  OBVIOUS
<1>1. QueueInv
  BY QueueInitInv DEF Init
<1>2. Routed
  BY MissingItems DEF Init, QueueInit, Routed, Queued, Statuses, Decided
<1>3. Shaped
  BY DEF Init, Shaped, Drafted, NoCall, NoDraft
<1> QED BY <1>1, <1>2, <1>3 DEF DeskInv

(* Queueing for a draft, a signal of one, or a baseline: the item is new   *)
(* and the others stay as they were.                                       *)
LEMMA QueueKeeps ==
  ASSUME NEW ctx \in Contexts, NEW i \in ItemIds, NEW access, NEW manager \in Managers,
         NEW kind, NEW draft, NEW signal,
         DeskInv, Queue(ctx, i, access, manager, Purpose(kind, draft, signal, ctx)),
         UNCHANGED drafts,
         draft # None => /\ draft \in DraftIds /\ Drafted(draft)
                         /\ access = drafts[draft].access /\ manager = drafts[draft].manager
  PROVE  QueueInv' /\ Routed' /\ about' = [j \in ItemIds |-> about'[j]]
<1> DEFINE purpose == Purpose(kind, draft, signal, ctx)
           new == [tenant |-> access.tenant, project |-> access.project,
                   created_by |-> ctx.user, group |-> ReviewerGroup(manager),
                   status |-> "pending", reviewed_by |-> None]
<1>1. /\ access.tenant \in Tenants /\ access.project \in Projects /\ access.project # None
      /\ ctx.user \in Creators /\ ReviewerGroup(manager) \in Groups /\ ReviewerGroup(manager) # None
  BY QueueAssumption, SpecialistAssumption DEF Queue, Authorized, Users
<1>2. Enqueue(i, access.tenant, access.project, ctx.user, ReviewerGroup(manager))
  BY DEF Queue
<1>3. QueueInv'
  BY <1>1, <1>2, EnqueueInv DEF DeskInv
<1>4. ASSUME NEW j \in ItemIds
      PROVE  items'[j] = IF j = i THEN new ELSE items[j]
  BY <1>2 DEF Enqueue, DeskInv, QueueInv, QueueTypeOK
<1>5. /\ about' = [about EXCEPT ![i] = purpose]
      /\ about = [j \in ItemIds |-> about[j]]
  BY DEF Queue, DeskInv, Shaped
<1>6. ASSUME NEW j \in ItemIds
      PROVE  about'[j] = IF j = i THEN purpose ELSE about[j]
  BY <1>5
<1>7. about' = [j \in ItemIds |-> about'[j]]
  BY <1>5
<1>8. purpose.draft = draft /\ purpose.by = ctx.user
  BY DEF Purpose
<1>9. Routed'
  <2> HIDE DEF purpose
  <2> SUFFICES ASSUME NEW j \in ItemIds, Queued(j)'
               PROVE  Routed!(j)!2'
    BY DEF Routed
  <2>1. CASE j = i
    BY <1>1, <1>4, <1>6, <1>8, <2>1 DEF Drafted
  <2>2. CASE j # i
    BY <1>4, <1>6, <2>2 DEF DeskInv, Routed, Queued, Drafted
  <2> QED BY <2>1, <2>2
<1> QED BY <1>3, <1>7, <1>9

(* Steps that leave the queue alone keep the invariant when what they do   *)
(* to drafts is only to make new ones.                                     *)
LEMMA QuietKeeps ==
  ASSUME DeskInv, UNCHANGED <<items, about>>, Shaped',
         \A d \in DraftIds : Drafted(d) => drafts'[d] = drafts[d]
  PROVE  DeskInv'
<1>1. QueueInv'
  BY DEF DeskInv, QueueInv, QueueTypeOK, QualifiedDecisions, InQueueScope
<1>2. Routed'
  BY DEF DeskInv, Routed, Queued, Drafted
<1> QED BY <1>1, <1>2 DEF DeskInv

(* A record added to a library touches neither drafts nor items.           *)
LEMMA AddKeeps == ASSUME NEW r \in Records, DeskInv, Add(r) PROVE DeskInv'
<1>1. Shaped'
  BY DEF DeskInv, Shaped, Add, Store, Drafted
<1> QED BY <1>1, QuietKeeps DEF Add

(* A new draft is its record's manager's; older ones stay.                 *)
LEMMA MakeDraftKeeps ==
  ASSUME NEW ctx \in Contexts, NEW d \in DraftIds, NEW r \in library, NEW ask,
         DeskInv, MakeDraft(ctx, d, r, ask)
  PROVE  DeskInv'
<1> DEFINE new == [manager |-> r.manager, access |-> r.access, id |-> r.id, ask |-> ask,
                   day |-> day, content |-> Content(r, ask, day)]
<1>1. /\ drafts' = [drafts EXCEPT ![d] = new]
      /\ drafts = [e \in DraftIds |-> drafts[e]]
      /\ drafts[d] = NoDraft
  BY DEF MakeDraft, DeskInv, Shaped
<1>2. new.manager \in Managers
  BY SpecialistAssumption DEF DeskInv, Shaped
<1> HIDE DEF new
<1>3. ASSUME NEW e \in DraftIds
      PROVE  drafts'[e] = IF e = d THEN new ELSE drafts[e]
  BY <1>1
<1>4. new # NoDraft
  BY <1>2, SpecialistAssumption DEF NoDraft
<1>5. \A e \in DraftIds : Drafted(e) => drafts'[e] = drafts[e]
  BY <1>1, <1>3 DEF Drafted
<1>6. Shaped'
  <2>1. drafts' = [e \in DraftIds |-> drafts'[e]]
    BY <1>1
  <2> QED BY <1>2, <1>3, <1>4, <2>1 DEF MakeDraft, DeskInv, Shaped, Drafted
<1> QED BY <1>5, <1>6, QuietKeeps DEF MakeDraft

(* A submission queues an item about a draft that exists.                  *)
LEMMA SubmitKeeps ==
  ASSUME NEW ctx \in Contexts, NEW d \in DraftIds, NEW i \in ItemIds,
         DeskInv, SubmitForReview(ctx, d, i)
  PROVE  DeskInv'
<1>1. drafts[d].manager \in Managers
  BY DEF SubmitForReview, DeskInv, Shaped
<1>2. QueueInv' /\ Routed' /\ about' = [j \in ItemIds |-> about'[j]]
  BY <1>1, QueueKeeps DEF SubmitForReview
<1>3. Shaped'
  BY <1>2 DEF SubmitForReview, DeskInv, Shaped, Drafted
<1> QED BY <1>2, <1>3 DEF DeskInv

(* A baseline request queues an item that is about no draft.               *)
LEMMA BaselineKeeps ==
  ASSUME NEW ctx \in Contexts, NEW r \in library, NEW i \in ItemIds,
         DeskInv, RequestBaselineChange(ctx, r, i)
  PROVE  DeskInv'
<1>1. r.manager \in Managers
  BY SpecialistAssumption DEF DeskInv, Shaped
<1>2. QueueInv' /\ Routed' /\ about' = [j \in ItemIds |-> about'[j]]
  BY <1>1, QueueKeeps DEF RequestBaselineChange
<1>3. Shaped'
  BY <1>2 DEF RequestBaselineChange, DeskInv, Shaped, Drafted
<1> QED BY <1>2, <1>3 DEF DeskInv

(* A call of escalate_safety is on a draft and keeps who made it.          *)
LEMMA EscalateSafetyKeeps ==
  ASSUME NEW ctx \in Contexts, NEW d \in DraftIds, DeskInv, EscalateSafety(ctx, d)
  PROVE  DeskInv'
<1> DEFINE todo == SetToSeq(Imminent(drafts[d].content.safety))
<1>1. /\ escalating' = [escalating EXCEPT ![d] = [by |-> ctx, todo |-> todo]]
      /\ escalating = [e \in DraftIds |-> escalating[e]]
      /\ Drafted(d)
  BY DEF EscalateSafety, DeskInv, Shaped
<1> HIDE DEF todo
<1>2. ASSUME NEW e \in DraftIds
      PROVE  escalating'[e] = IF e = d THEN [by |-> ctx, todo |-> todo] ELSE escalating[e]
  BY <1>1
<1>3. escalating' = [e \in DraftIds |-> escalating'[e]]
  BY <1>1
<1>4. Shaped'
  BY <1>1, <1>2, <1>3 DEF EscalateSafety, DeskInv, Shaped, Drafted
<1> QED BY <1>4, QuietKeeps DEF EscalateSafety

(* A call that goes on keeps its caller.                                   *)
LEMMA CallGoesOn ==
  ASSUME NEW by, NEW todo, NEW rest, NEW call, call = [by |-> by, todo |-> todo]
  PROVE  [call EXCEPT !.todo = rest] = [by |-> by, todo |-> rest]
  OBVIOUS

(* Each item an escalation queues is about its draft.                      *)
LEMMA EscalateNextKeeps ==
  ASSUME NEW d \in DraftIds, NEW i \in ItemIds, DeskInv, EscalateNext(d, i)
  PROVE  DeskInv'
<1> DEFINE call == escalating[d]
<1>1. /\ call = escalating[d] /\ call.by \in Contexts /\ Drafted(d) /\ drafts[d].manager \in Managers
      /\ call = [by |-> call.by, todo |-> call.todo]
      /\ escalating = [e \in DraftIds |-> escalating[e]]
      /\ escalating' = [escalating EXCEPT ![d].todo = Tail(@)]
  BY DEF EscalateNext, DeskInv, Shaped
<1>2. QueueInv' /\ Routed' /\ about' = [j \in ItemIds |-> about'[j]]
  BY <1>1, QueueKeeps DEF EscalateNext
<1> DEFINE rest == Tail(call.todo)
<1> HIDE DEF call, rest
<1>3. [call EXCEPT !.todo = rest] = [by |-> call.by, todo |-> rest]
  BY <1>1, CallGoesOn
<1>4. /\ escalating' = [e \in DraftIds |-> escalating'[e]]
      /\ \A e \in DraftIds : escalating'[e] =
           IF e = d THEN [by |-> call.by, todo |-> rest] ELSE escalating[e]
  BY <1>1, <1>3 DEF rest
<1>5. Shaped'
  BY <1>1, <1>2, <1>4 DEF EscalateNext, DeskInv, Shaped, Drafted
<1> QED BY <1>2, <1>5 DEF DeskInv

(* A decision changes neither who queued an item nor what it asks for.     *)
LEMMA DecideKeeps ==
  ASSUME NEW ctx \in Contexts, NEW i \in ItemIds, NEW s \in Decided, DeskInv, Decide(ctx, i, s)
  PROVE  DeskInv'
<1>1. QueueInv'
  BY DispositionInv DEF Decide, DeskInv
<1>2. items[i] \in Item
  BY MissingItems DEF Decide, Disposition, Queued, DeskInv, QueueInv, QueueTypeOK, Statuses, Decided
<1>3. items' = [items EXCEPT ![i] = [items[i] EXCEPT !.status = s, !.reviewed_by = ctx.user]]
  BY DEF Decide, Disposition, Dispositioned, DeskInv, QueueInv, QueueTypeOK
<1>4. ASSUME NEW j \in ItemIds
      PROVE  /\ Queued(j)' => Queued(j)
             /\ Queued(j) => /\ items'[j].created_by = items[j].created_by
                             /\ items'[j].group = items[j].group
                             /\ items'[j].project = items[j].project
                             /\ items'[j].tenant = items[j].tenant
  <2>1. CASE j = i
    BY <1>2, <1>3, <2>1 DEF Decide, Disposition, Item, DeskInv, QueueInv, QueueTypeOK
  <2>2. CASE j # i
    BY <1>3, <2>2 DEF Queued, DeskInv, QueueInv, QueueTypeOK
  <2> QED BY <2>1, <2>2
<1>5. Routed'
  BY <1>4 DEF Decide, DeskInv, Routed, Drafted
<1>6. Shaped'
  BY DEF Decide, DeskInv, Shaped, Drafted
<1> QED BY <1>1, <1>5, <1>6 DEF DeskInv

(* Every step of the desk keeps the invariant.                             *)
LEMMA DeskStepInv == DeskInv /\ [Next]_vars => DeskInv'
<1> SUFFICES ASSUME DeskInv, [Next]_vars PROVE DeskInv'
  OBVIOUS
<1>1. ASSUME NEW r \in Records, Add(r) PROVE DeskInv'
  BY <1>1, AddKeeps
<1>2. ASSUME NEW ctx \in Contexts, NEW d \in DraftIds, NEW r \in library, NEW ask \in Asks(r),
             MakeDraft(ctx, d, r, ask)
      PROVE  DeskInv'
  BY <1>2, MakeDraftKeeps
<1>3. ASSUME NEW ctx \in Contexts, NEW d \in DraftIds, NEW i \in ItemIds, SubmitForReview(ctx, d, i)
      PROVE  DeskInv'
  BY <1>3, SubmitKeeps
<1>4. ASSUME NEW ctx \in Contexts, NEW r \in library, NEW i \in ItemIds,
             RequestBaselineChange(ctx, r, i)
      PROVE  DeskInv'
  BY <1>4, BaselineKeeps
<1>5. ASSUME NEW ctx \in Contexts, NEW d \in DraftIds, EscalateSafety(ctx, d) PROVE DeskInv'
  BY <1>5, EscalateSafetyKeeps
<1>6. ASSUME NEW d \in DraftIds, NEW i \in ItemIds, EscalateNext(d, i) PROVE DeskInv'
  BY <1>6, EscalateNextKeeps
<1>7. ASSUME NEW ctx \in Contexts, NEW i \in ItemIds, NEW s \in Decided, Decide(ctx, i, s)
      PROVE  DeskInv'
  BY <1>7, DecideKeeps
<1>8. CASE Tick \/ UNCHANGED vars
  <2>1. UNCHANGED <<library, drafts, about, escalating, items>>
    BY <1>8 DEF Tick, vars
  <2>2. Shaped'
    BY <2>1 DEF DeskInv, Shaped, Drafted
  <2> QED BY <2>1, <2>2, QuietKeeps
<1> QED BY <1>1, <1>2, <1>3, <1>4, <1>5, <1>6, <1>7, <1>8 DEF Next

(* Separation of duties, end to end: whoever decides on a specialist's     *)
(* draft, signal or baseline request is not who submitted it, and, for a   *)
(* draft, is one of the manager's reviewers in the draft's own scope.      *)
THEOREM Separation == Spec => []SubmitterNeverDecides
<1>1. DeskInv => SubmitterNeverDecides
  <2> SUFFICES ASSUME DeskInv, NEW i \in ItemIds, items[i].status \in Decided
               PROVE  SubmitterNeverDecides!(i)!2
    BY DEF SubmitterNeverDecides
  <2>1. /\ items[i].created_by = about[i].by
        /\ items[i].group # None /\ items[i].project # None
        /\ about[i].draft # None =>
             /\ items[i].tenant = drafts[about[i].draft].access.tenant
             /\ items[i].project = drafts[about[i].draft].access.project
             /\ items[i].group = ReviewerGroup(drafts[about[i].draft].manager)
    BY DEF DeskInv, Routed, Queued, Statuses
  <2>2. PICK ctx \in Contexts :
          /\ items[i].reviewed_by = ctx.user
          /\ InQueueScope(items[i], ctx)
          /\ items[i].group \in ctx.groups /\ items[i].created_by # ctx.user
    BY <2>1 DEF DeskInv, QueueInv, QualifiedDecisions
  <2> QED BY <2>1, <2>2 DEF InQueueScope, Authorized
<1> QED BY <1>1, DeskInitInv, DeskStepInv, PTL DEF Spec


(* An item a manager queues is one the queue's callers may queue: in its   *)
(* submitter's name, for the reviewers of its manager.                     *)
LEMMA QueueIsEnqueue ==
  ASSUME NEW ctx \in Contexts, NEW i \in ItemIds, NEW access, NEW manager \in Managers,
         NEW purpose, Queue(ctx, i, access, manager, purpose)
  PROVE  QueueNext
<1>1. /\ access.tenant \in Tenants /\ access.project \in Projects
      /\ ctx.user \in Creators /\ ReviewerGroup(manager) \in Groups
  BY QueueAssumption, SpecialistAssumption DEF Queue, Authorized, Users
<1>2. Enqueue(i, access.tenant, access.project, ctx.user, ReviewerGroup(manager))
  BY DEF Queue
<1>3. access.project \in Projects \cup {None} /\ ReviewerGroup(manager) \in Groups \cup {None}
  BY <1>1
<1> QED BY <1>1, <1>2, <1>3, Zenon DEF QueueNext

(* Submissions, baseline requests, escalations and decisions are steps of  *)
(* the queue; libraries, drafts and the calendar are no business of it.    *)
LEMMA ManagersQueueStep == DeskInv /\ [Next]_vars => [QueueNext]_items
<1> SUFFICES ASSUME DeskInv, [Next]_vars PROVE [QueueNext]_items
  OBVIOUS
<1>1. ASSUME NEW r, Add(r) PROVE UNCHANGED items
  BY <1>1 DEF Add, Store
<1>2. ASSUME NEW ctx, NEW d, NEW r, NEW ask, MakeDraft(ctx, d, r, ask) PROVE UNCHANGED items
  BY <1>2 DEF MakeDraft
<1>3. ASSUME NEW ctx \in Contexts, NEW d \in DraftIds, NEW i \in ItemIds,
             SubmitForReview(ctx, d, i)
      PROVE  QueueNext
  <2>1. drafts[d].manager \in Managers
    BY <1>3 DEF SubmitForReview, DeskInv, Shaped
  <2> QED BY <1>3, <2>1, QueueIsEnqueue DEF SubmitForReview
<1>4. ASSUME NEW ctx \in Contexts, NEW r \in library, NEW i \in ItemIds,
             RequestBaselineChange(ctx, r, i)
      PROVE  QueueNext
  <2>1. r.manager \in Managers
    BY SpecialistAssumption DEF DeskInv, Shaped
  <2> QED BY <1>4, <2>1, QueueIsEnqueue DEF RequestBaselineChange
<1>5. ASSUME NEW ctx, NEW d, EscalateSafety(ctx, d) PROVE UNCHANGED items
  BY <1>5 DEF EscalateSafety
<1>6. ASSUME NEW d \in DraftIds, NEW i \in ItemIds, EscalateNext(d, i) PROVE QueueNext
  <2>1. escalating[d].by \in Contexts /\ drafts[d].manager \in Managers
    BY <1>6 DEF EscalateNext, DeskInv, Shaped
  <2> QED BY <1>6, <2>1, QueueIsEnqueue DEF EscalateNext
<1>7. ASSUME NEW ctx \in Contexts, NEW i \in ItemIds, NEW s \in Decided, Decide(ctx, i, s)
      PROVE  QueueNext
  BY <1>7, Zenon DEF Decide, QueueNext
<1>8. Tick \/ UNCHANGED vars => UNCHANGED items
  BY DEF Tick, vars
<1> QED BY <1>1, <1>2, <1>3, <1>4, <1>5, <1>6, <1>7, <1>8, Zenon DEF Next

(* The managers are users of the queue: every run of theirs is one of      *)
(* ReviewQueue, escalations under way included.                            *)
THEOREM SpecialistQueue == Spec => QueueSpec
<1>1. Init => QueueInit
  BY DEF Init
<1> QED BY <1>1, DeskInitInv, DeskStepInv, ManagersQueueStep, PTL DEF Spec, QueueSpec

(* So what a specialist's reviewers decide is theirs to decide, and final. *)
THEOREM SpecialistDecisions == Spec => []QualifiedDecisions /\ DecisionsFinal
BY SpecialistQueue, Qualification, Finality, PTL

-----------------------------------------------------------------------------
KeysUnique == \A r, s \in library : Conflicts(r, s) => r = s

(* Every draft can still be traced to the record it was computed from.     *)
Traced(d) ==
  \E r \in library :
    /\ SourceOf(drafts[d], r) /\ drafts[d].ask \in Asks(r)
    /\ drafts[d].content = Content(r, drafts[d].ask, drafts[d].day)

LibraryInv ==
  /\ KeysUnique
  /\ drafts = [d \in DraftIds |-> drafts[d]]
  /\ \A d \in DraftIds : Drafted(d) => Traced(d)

(* The change set a caller names stays the same one as the library grows.  *)
LEMMA ChangeKept ==
  ASSUME NEW r \in library, NEW ask, r.manager = "engineering", ask \in Asks(r),
         library \subseteq library', KeysUnique'
  PROVE  ChangeNamed(r, ask)' = ChangeNamed(r, ask) /\ ask \in Asks(r)'
<1> DEFINE named(s) == s.manager = r.manager /\ s.access = r.access /\ s.change.id = ask
<1>1. PICK s \in library : named(s)
  BY DEF Asks
<1>2. \A t \in library' : named(t) => t = s
  <2> SUFFICES ASSUME NEW t \in library', named(t) PROVE t = s
    OBVIOUS
  <2>1. <<t.access, "change", t.change.id>> \in Keys(t) \cap Keys(s)
    BY <1>1 DEF Keys
  <2>2. Conflicts(t, s)
    BY <1>1, <2>1 DEF Conflicts
  <2> QED BY <1>1, <2>2 DEF KeysUnique
<1>3. (CHOOSE t \in library : named(t)) = s
  BY <1>1, <1>2
<1>4. (CHOOSE t \in library' : named(t)) = s
  BY <1>1, <1>2
<1>5. ask \in Asks(r)'
  BY <1>1 DEF Asks
<1> QED BY <1>3, <1>4, <1>5 DEF ChangeNamed

(* What a record says does not depend on what else the library holds.      *)
LEMMA ContentKept ==
  ASSUME NEW r \in library, NEW ask \in Asks(r), NEW on,
         library \subseteq library', KeysUnique'
  PROVE  Content(r, ask, on)' = Content(r, ask, on) /\ ask \in Asks(r)'
<1>1. CASE r.manager = "engineering"
  BY <1>1, ChangeKept DEF Content
<1>2. CASE r.manager # "engineering"
  BY <1>2 DEF Content, Asks
<1> QED BY <1>1, <1>2

(* Drafts made earlier stay traced when the library grows by a record that *)
(* conflicts with none of its own.                                         *)
LEMMA AddTraces == ASSUME NEW r \in Records, LibraryInv, Add(r) PROVE LibraryInv'
<1>1. library' = library \cup {r} /\ ~\E s \in library : Conflicts(r, s)
  BY DEF Add, Store
<1>2. \A s, t : Conflicts(s, t) => Conflicts(t, s)
  BY DEF Conflicts
<1>3. KeysUnique'
  BY <1>1, <1>2 DEF LibraryInv, KeysUnique, Conflicts
<1>4. ASSUME NEW d \in DraftIds, Drafted(d)' PROVE Traced(d)'
  <2>1. UNCHANGED drafts
    BY DEF Add
  <2>2. PICK s \in library :
          /\ SourceOf(drafts[d], s) /\ drafts[d].ask \in Asks(s)
          /\ drafts[d].content = Content(s, drafts[d].ask, drafts[d].day)
    BY <1>4, <2>1 DEF LibraryInv, Drafted, Traced
  <2>3. /\ Content(s, drafts[d].ask, drafts[d].day)' = Content(s, drafts[d].ask, drafts[d].day)
        /\ drafts[d].ask \in Asks(s)'
    <3> DEFINE ask == drafts[d].ask
               on  == drafts[d].day
    <3>1. PICK a, o : a = ask /\ o = on
      OBVIOUS
    <3>2. Content(s, a, o)' = Content(s, a, o) /\ a \in Asks(s)'
      BY <1>1, <1>3, <2>2, <3>1, ContentKept
    <3> QED BY <2>1, <3>1, <3>2
  <2> QED BY <1>1, <2>1, <2>2, <2>3 DEF Traced, SourceOf
<1> QED BY <1>3, <1>4 DEF LibraryInv, Add

(* A draft that stays, stays traced while the library does.                *)
LEMMA SameLibrary ==
  ASSUME NEW d \in DraftIds, UNCHANGED library, drafts'[d] = drafts[d], Traced(d)
  PROVE  Traced(d)'
<1>1. ASSUME NEW r, NEW ask, NEW on
      PROVE  Content(r, ask, on)' = Content(r, ask, on) /\ Asks(r)' = Asks(r)
  BY DEF Content, ChangeNamed, Asks
<1>2. PICK r \in library :
        /\ SourceOf(drafts[d], r) /\ drafts[d].ask \in Asks(r)
        /\ drafts[d].content = Content(r, drafts[d].ask, drafts[d].day)
  BY DEF Traced
<1>3. PICK a, o : a = drafts[d].ask /\ o = drafts[d].day
  OBVIOUS
<1>4. Content(r, a, o)' = Content(r, a, o) /\ Asks(r)' = Asks(r)
  BY <1>1
<1> QED BY <1>2, <1>3, <1>4 DEF Traced, SourceOf

(* A new draft is traced to the record it was made from.                   *)
LEMMA MakeDraftTraces ==
  ASSUME NEW ctx \in Contexts, NEW d \in DraftIds, NEW r \in library, NEW ask \in Asks(r),
         LibraryInv, MakeDraft(ctx, d, r, ask)
  PROVE  LibraryInv'
<1> DEFINE new == [manager |-> r.manager, access |-> r.access, id |-> r.id, ask |-> ask,
                   day |-> day, content |-> Content(r, ask, day)]
<1>1. /\ drafts' = [drafts EXCEPT ![d] = new] /\ UNCHANGED <<library, day>>
      /\ drafts = [e \in DraftIds |-> drafts[e]]
  BY DEF MakeDraft, LibraryInv
<1>2. /\ new.manager = r.manager /\ new.access = r.access /\ new.id = r.id
      /\ new.ask = ask /\ new.day = day /\ new.content = Content(r, ask, day)
  OBVIOUS
<1> HIDE DEF new
<1>3. \A e \in DraftIds : drafts'[e] = IF e = d THEN new ELSE drafts[e]
  BY <1>1
<1>4. KeysUnique'
  BY <1>1 DEF LibraryInv, KeysUnique
<1>5. ASSUME NEW e \in DraftIds, Drafted(e)' PROVE Traced(e)'
  <2>1. CASE e = d
    BY <1>1, <1>2, <1>3, <2>1 DEF Traced, SourceOf, Asks, Content, ChangeNamed
  <2>2. CASE e # d
    BY <1>1, <1>3, <1>5, <2>2, SameLibrary DEF LibraryInv, Drafted
  <2> QED BY <2>1, <2>2
<1>6. drafts' = [e \in DraftIds |-> drafts'[e]]
  BY <1>1
<1> QED BY <1>4, <1>5, <1>6 DEF LibraryInv

(* Every step keeps keys unique and drafts traced.                         *)
LEMMA LibraryStepInv == LibraryInv /\ [Next]_vars => LibraryInv'
<1> SUFFICES ASSUME LibraryInv, [Next]_vars PROVE LibraryInv'
  OBVIOUS
<1>1. ASSUME NEW r \in Records, Add(r) PROVE LibraryInv'
  BY <1>1, AddTraces
<1>2. ASSUME NEW ctx \in Contexts, NEW d \in DraftIds, NEW r \in library, NEW ask \in Asks(r),
             MakeDraft(ctx, d, r, ask)
      PROVE  LibraryInv'
  BY <1>2, MakeDraftTraces
<1>3. CASE UNCHANGED <<library, drafts>>
  <2>1. \A d \in DraftIds : Drafted(d)' => Traced(d)'
    BY <1>3, SameLibrary DEF LibraryInv, Drafted
  <2> QED BY <1>3, <2>1 DEF LibraryInv, KeysUnique
<1> QED BY <1>1, <1>2, <1>3 DEF Next, SubmitForReview, RequestBaselineChange, EscalateSafety,
                                EscalateNext, Decide, Tick, vars

(* Whatever is added later, a draft says what its record says: computed    *)
(* again from the library as it is now, for the day of the draft, it comes *)
(* out the same.                                                           *)
THEOREM Reproduction == Spec => []Reproducible
<1>1. Init => LibraryInv
  BY DEF Init, LibraryInv, KeysUnique, Drafted, NoDraft
<1>2. LibraryInv => Reproducible
  BY DEF LibraryInv, Reproducible, Traced
<1> QED BY <1>1, <1>2, LibraryStepInv, PTL DEF Spec

-----------------------------------------------------------------------------
(* The shape of libraries, drafts and items.                               *)

Dated ==
  /\ library \subseteq {r \in Records : Valid(r)}
  /\ day \in 0 .. MaxDay
  /\ \A d \in DraftIds : Drafted(d) => drafts[d].day \in 0 .. day
  /\ \A i \in ItemIds : (items[i] = NoItem) = (about[i] = Nothing)

(* What is queued is new, and is noted together with its item.             *)
LEMMA QueueNotes ==
  ASSUME DeskInv, Dated, NEW ctx \in Contexts, NEW i \in ItemIds, NEW access, NEW manager,
         NEW kind, NEW draft, NEW signal, kind # "nothing",
         Queue(ctx, i, access, manager, Purpose(kind, draft, signal, ctx))
  PROVE  \A j \in ItemIds : (items'[j] = NoItem) = (about'[j] = Nothing)
<1> DEFINE purpose == Purpose(kind, draft, signal, ctx)
           new == [tenant |-> access.tenant, project |-> access.project,
                   created_by |-> ctx.user, group |-> ReviewerGroup(manager),
                   status |-> "pending", reviewed_by |-> None]
<1>1. /\ items' = [items EXCEPT ![i] = new] /\ about' = [about EXCEPT ![i] = purpose]
      /\ items = [j \in ItemIds |-> items[j]] /\ about = [j \in ItemIds |-> about[j]]
  BY DEF Queue, Enqueue, DeskInv, QueueInv, QueueTypeOK, Shaped
<1>2. new.status # NoItem.status /\ purpose.kind # Nothing.kind
  BY DEF NoItem, Missing, Purpose, Nothing
<1> HIDE DEF new, purpose
<1>3. /\ \A j \in ItemIds : items'[j] = IF j = i THEN new ELSE items[j]
      /\ \A j \in ItemIds : about'[j] = IF j = i THEN purpose ELSE about[j]
  BY <1>1
<1>4. new # NoItem /\ purpose # Nothing
  BY <1>2
<1> QED BY <1>3, <1>4 DEF Dated

(* A decision takes an item that is queued and leaves it queued.           *)
LEMMA DecideNotes ==
  ASSUME DeskInv, Dated, NEW ctx \in Contexts, NEW i \in ItemIds, NEW s \in Decided,
         Decide(ctx, i, s)
  PROVE  \A j \in ItemIds : (items'[j] = NoItem) = (about'[j] = Nothing)
<1>1. items[i] \in Item
  BY MissingItems DEF Decide, Disposition, Queued, DeskInv, QueueInv, QueueTypeOK, Statuses, Decided
<1>2. items' = [items EXCEPT ![i] = [items[i] EXCEPT !.status = s, !.reviewed_by = ctx.user]]
  BY DEF Decide, Disposition, Dispositioned, DeskInv, QueueInv, QueueTypeOK
<1>3. items'[i].status = s /\ \A j \in ItemIds : j # i => items'[j] = items[j]
  BY <1>1, <1>2 DEF Item, DeskInv, QueueInv, QueueTypeOK
<1>4. items[i] # NoItem /\ items'[i] # NoItem
  <2>1. items'[i].status # NoItem.status
    BY <1>3 DEF NoItem, Missing, Decided
  <2>2. items[i] # NoItem
    BY <1>1, MissingItems DEF Item, Statuses, Decided
  <2> QED BY <2>1, <2>2
<1> QED BY <1>3, <1>4 DEF Dated, Decide

(* Days only pass, and drafts are dated by the day they are made on.       *)
LEMMA DatedStep == DeskInv /\ Dated /\ [Next]_vars => Dated'
<1> SUFFICES ASSUME DeskInv, Dated, [Next]_vars PROVE Dated'
  OBVIOUS
<1> DEFINE Noted == \A j \in ItemIds : (items'[j] = NoItem) = (about'[j] = Nothing)
<1>1. ASSUME NEW r \in Records, Add(r) PROVE Dated'
  BY <1>1 DEF Add, Store, Dated, Drafted
<1>2. ASSUME NEW ctx \in Contexts, NEW d \in DraftIds, NEW r \in library, NEW ask \in Asks(r),
             MakeDraft(ctx, d, r, ask)
      PROVE  Dated'
  <2> DEFINE new == [manager |-> r.manager, access |-> r.access, id |-> r.id, ask |-> ask,
                     day |-> day, content |-> Content(r, ask, day)]
  <2>1. /\ drafts' = [drafts EXCEPT ![d] = new] /\ UNCHANGED <<library, day, about, items>>
        /\ drafts = [e \in DraftIds |-> drafts[e]]
    BY <1>2 DEF MakeDraft, DeskInv, Shaped
  <2>2. new.day = day
    OBVIOUS
  <2> HIDE DEF new
  <2>3. \A e \in DraftIds : drafts'[e] = IF e = d THEN new ELSE drafts[e]
    BY <2>1
  <2>4. day \in 0 .. day
    BY SpecialistAssumption DEF Dated
  <2> QED BY <2>1, <2>2, <2>3, <2>4 DEF Dated, Drafted
<1>3. ASSUME NEW ctx \in Contexts, NEW d \in DraftIds, NEW i \in ItemIds, SubmitForReview(ctx, d, i)
      PROVE  Dated'
  <2>1. Noted
    BY <1>3, QueueNotes DEF SubmitForReview
  <2> QED BY <1>3, <2>1 DEF SubmitForReview, Dated, Drafted
<1>4. ASSUME NEW ctx \in Contexts, NEW r \in library, NEW i \in ItemIds,
             RequestBaselineChange(ctx, r, i)
      PROVE  Dated'
  <2>1. Noted
    BY <1>4, QueueNotes DEF RequestBaselineChange
  <2> QED BY <1>4, <2>1 DEF RequestBaselineChange, Dated, Drafted
<1>5. ASSUME NEW d \in DraftIds, NEW i \in ItemIds, EscalateNext(d, i) PROVE Dated'
  <2>1. escalating[d].by \in Contexts
    BY <1>5 DEF EscalateNext, DeskInv, Shaped
  <2>2. Noted
    BY <1>5, <2>1, QueueNotes DEF EscalateNext
  <2> QED BY <1>5, <2>2 DEF EscalateNext, Dated, Drafted
<1>6. ASSUME NEW ctx \in Contexts, NEW i \in ItemIds, NEW s \in Decided, Decide(ctx, i, s)
      PROVE  Dated'
  <2>1. Noted
    BY <1>6, DecideNotes
  <2> QED BY <1>6, <2>1 DEF Decide, Dated, Drafted
<1>7. CASE Tick
  BY <1>7, SpecialistAssumption DEF Tick, Dated, Drafted
<1>8. CASE UNCHANGED <<library, day, drafts, about, items>>
  BY <1>8 DEF Dated, Drafted
<1> QED BY <1>1, <1>2, <1>3, <1>4, <1>5, <1>6, <1>7, <1>8 DEF Next, EscalateSafety, vars

(* Everything the proofs below need of a state.                            *)
ManagerInv == DeskInv /\ LibraryInv /\ Dated

(* It holds at the start and every step keeps it.                          *)
LEMMA Invariance == Spec => []ManagerInv
<1>1. Init => ManagerInv
  <2> SUFFICES ASSUME Init PROVE ManagerInv
    OBVIOUS
  <2>1. LibraryInv
    BY DEF Init, LibraryInv, KeysUnique, Drafted, NoDraft
  <2>2. Dated
    BY SpecialistAssumption DEF Init, Dated, Drafted, NoDraft, QueueInit
  <2> QED BY <2>1, <2>2, DeskInitInv DEF ManagerInv
<1>2. ManagerInv /\ [Next]_vars => ManagerInv'
  BY DeskStepInv, LibraryStepInv, DatedStep DEF ManagerInv
<1> QED BY <1>1, <1>2, PTL DEF Spec

(* The libraries hold valid records with keys of their own; drafts, items  *)
(* and what they are about keep their shape.                               *)
THEOREM SpecialistTyping == Spec => []SpecialistTypeOK
<1>1. ManagerInv => SpecialistTypeOK
  <2> SUFFICES ASSUME ManagerInv PROVE SpecialistTypeOK
    OBVIOUS
  <2>1. \A d \in DraftIds : Drafted(d) => drafts[d].manager \in Managers /\ drafts[d].day <= day
    BY DEF ManagerInv, DeskInv, Shaped, Dated
  <2>2. \A d \in DraftIds : escalating[d].todo # <<>> => Drafted(d)
    BY DEF ManagerInv, DeskInv, Shaped
  <2> QED BY <2>1, <2>2 DEF ManagerInv, DeskInv, QueueInv, LibraryInv, KeysUnique, Dated,
                            SpecialistTypeOK
<1> QED BY <1>1, Invariance, PTL

-----------------------------------------------------------------------------
(* The managers' rules.                                                    *)

(* Outside engineering a draft's source is one record: the one it was      *)
(* computed from.                                                          *)
LEMMA OneSource ==
  ASSUME ManagerInv, NEW d \in DraftIds, Drafted(d), NEW r \in library,
         SourceOf(drafts[d], r), r.manager # "engineering"
  PROVE  /\ drafts[d].content = Content(r, drafts[d].ask, drafts[d].day)
         /\ drafts[d].ask \in Asks(r)
<1>1. PICK s \in library :
        /\ SourceOf(drafts[d], s) /\ drafts[d].ask \in Asks(s)
        /\ drafts[d].content = Content(s, drafts[d].ask, drafts[d].day)
  BY DEF ManagerInv, LibraryInv, Traced
<1>2. s.manager = r.manager /\ s.access = r.access /\ s.id = r.id
  BY <1>1 DEF SourceOf
<1>3. Keys(s) = Keys(r) /\ Keys(r) # {}
  BY <1>2 DEF Keys
<1>4. s = r
  BY <1>2, <1>3 DEF ManagerInv, LibraryInv, KeysUnique, Conflicts
<1> QED BY <1>1, <1>4

(* Evidence that is fresh on a day was fresh on the days before.           *)
LEMMA FreshBefore ==
  ASSUME NEW sources, NEW evidence, Days(evidence), NEW early \in Nat, NEW late \in Nat,
         early <= late, NEW window \in Nat
  PROVE  StaleAmong(sources, evidence, early, window)
           \subseteq StaleAmong(sources, evidence, late, window)
<1> SUFFICES ASSUME NEW s \in sources, s \in DOMAIN evidence, IsStale(evidence[s], early, window)
             PROVE  IsStale(evidence[s], late, window)
  BY DEF StaleAmong
<1> QED BY DEF Days, IsStale

(* What a gate reports met, or ready, it would have reported before.       *)
LEMMA GateBefore ==
  ASSUME NEW r \in Records, r.manager = "development", NEW gate,
         NEW early \in Nat, NEW late \in Nat, early <= late
  PROVE  /\ \A c : Met(r, c, late) => Met(r, c, early)
         /\ Recommendation(r, gate, late) = "ready" => Recommendation(r, gate, early) = "ready"
<1>1. Days(r.evidence) /\ FreshFor["development"] \in Nat
  BY RecordsAssumption, FreshAssumption
<1>2. ASSUME NEW c, Evidenced(r, c, late) PROVE Evidenced(r, c, early)
  BY <1>1, <1>2, FreshBefore DEF Evidenced
<1>3. \A c : Met(r, c, late) => Met(r, c, early)
  BY <1>2 DEF Met
<1> QED BY <1>2, <1>3 DEF Recommendation

(* Evidence only ages: of two drafts that answer one question from one     *)
(* record, the later supports nothing the earlier did not, in any manager. *)
THEOREM Waning == Spec => []SupportOnlyWanes
<1> SUFFICES ASSUME ManagerInv PROVE SupportOnlyWanes
  BY Invariance, PTL
<1> SUFFICES ASSUME NEW d \in DraftIds, NEW e \in DraftIds, Drafted(d), Drafted(e),
                    drafts[d].day <= drafts[e].day, drafts[d].ask = drafts[e].ask,
                    NEW r \in library, SourceOf(drafts[d], r), SourceOf(drafts[e], r)
             PROVE  Supported(drafts[e], r) \subseteq Supported(drafts[d], r)
  BY DEF SupportOnlyWanes
<1> DEFINE early == drafts[d].day
           late  == drafts[e].day
           ask   == drafts[d].ask
<1>1. /\ early \in Nat /\ late \in Nat /\ early <= late
      /\ drafts[e].ask = ask
      /\ r \in Records /\ r.manager \in Managers
      /\ drafts[d].manager = r.manager /\ drafts[e].manager = r.manager
  BY SpecialistAssumption DEF ManagerInv, Dated, SourceOf
<1>2. r.manager # "engineering" =>
        /\ drafts[d].content = Content(r, ask, early)
        /\ drafts[e].content = Content(r, ask, late)
  BY <1>1, OneSource
<1> HIDE DEF early, late, ask
<1>3. CASE r.manager = "development"
  <2>1. /\ drafts[d].content = DevelopmentDraft(r, ask, early)
        /\ drafts[e].content = DevelopmentDraft(r, ask, late)
    BY <1>2, <1>3 DEF Content
  <2>2. /\ drafts[e].content.met \subseteq drafts[d].content.met
        /\ drafts[e].content.recommendation = "ready"
             => drafts[d].content.recommendation = "ready"
    BY <1>1, <1>3, <2>1, GateBefore DEF DevelopmentDraft
  <2> QED BY <1>1, <1>3, <2>2 DEF Supported
<1>4. CASE r.manager = "diligence"
  <2>1. /\ drafts[d].content = DiligenceDraft(r, early)
        /\ drafts[e].content = DiligenceDraft(r, late)
    BY <1>2, <1>4 DEF Content
  <2>2. Days(r.evidence) /\ FreshFor["diligence"] \in Nat
    BY <1>1, <1>4, RecordsAssumption, FreshAssumption
  <2>3. drafts[d].content.stale \subseteq drafts[e].content.stale
    BY <1>1, <2>1, <2>2, FreshBefore DEF DiligenceDraft
  <2> QED BY <1>1, <1>4, <2>3 DEF Supported
<1>5. CASE r.manager = "intelligence"
  <2>1. /\ drafts[d].content = IntelligenceDraft(r, early)
        /\ drafts[e].content = IntelligenceDraft(r, late)
    BY <1>2, <1>5 DEF Content
  <2>2. StaleSnapshots(r, early) \subseteq StaleSnapshots(r, late)
    BY <1>1, <1>5, RecordsAssumption DEF StaleSnapshots
  <2>3. drafts[e].content.findings \subseteq drafts[d].content.findings
    BY <2>1, <2>2 DEF IntelligenceDraft, Usable
  <2> QED BY <1>1, <1>5, <2>3 DEF Supported
<1>6. CASE r.manager = "assurance"
  <2>1. /\ drafts[d].content = AssuranceDraft(r, early)
        /\ drafts[e].content = AssuranceDraft(r, late)
    BY <1>2, <1>6 DEF Content
  <2>2. Overdue(r, early) => Overdue(r, late)
    BY <1>1, <1>6, RecordsAssumption DEF Overdue, Due
  <2>3. drafts[e].content.decision = "pass" => drafts[d].content.decision = "pass"
    BY <2>1, <2>2 DEF AssuranceDraft
  <2> QED BY <1>1, <1>6, <2>3 DEF Supported
<1>7. CASE r.manager \in {"contract", "construction", "capital", "engineering"}
  BY <1>1, <1>7 DEF Supported
<1> QED BY <1>1, <1>3, <1>4, <1>5, <1>6, <1>7 DEF Managers

-----------------------------------------------------------------------------
(* Rounding to the nearest integer errs by half of one at most.            *)
LEMMA RoundingError ==
  ASSUME NEW num \in Int, NEW den \in Int, den > 0
  PROVE  /\ HalfEven(num, den) \in Int
         /\ 2 * num - den <= 2 * (HalfEven(num, den) * den)
         /\ 2 * (HalfEven(num, den) * den) <= 2 * num + den
<1> DEFINE whole == num \div den
           rest  == num % den
<1>1. /\ whole \in Int /\ rest \in Int /\ 0 <= rest /\ rest < den
      /\ num = den * whole + rest
  BY SMT
<1>2. HalfEven(num, den) =
        IF 2 * rest < den \/ (2 * rest = den /\ whole % 2 = 0) THEN whole ELSE whole + 1
  BY DEF HalfEven
<1> HIDE DEF whole, rest
<1>3. (whole + 1) * den = den * whole + den /\ whole * den = den * whole
  BY <1>1, SMT
<1>4. den * whole \in Int
  BY <1>1, SMT
<1>5. CASE HalfEven(num, den) = whole /\ 2 * rest <= den
  BY <1>1, <1>3, <1>4, <1>5, SMT
<1>6. CASE HalfEven(num, den) = whole + 1 /\ 2 * rest >= den
  BY <1>1, <1>3, <1>4, <1>6, SMT
<1> QED BY <1>1, <1>2, <1>5, <1>6, SMT

(* What is between two integers is between their multiples.                *)
LEMMA Multiples ==
  ASSUME NEW a \in Int, NEW b \in Int, NEW n \in Int, n > 0
  PROVE  /\ a < b => n * a < n * b
         /\ a <= b => n * a <= n * b
         /\ n * a < n * b => a < b
BY SMT

(* A limit in whole units that a multiple of the unit misses, it misses by *)
(* a unit.                                                                 *)
LEMMA WholeLimits ==
  ASSUME NEW h \in Int, NEW limit \in Int, NEW unit \in Int, unit > 0, limit % unit = 0
  PROVE  /\ unit * h < limit => unit * h <= limit - unit
         /\ unit * h > limit => unit * h >= limit + unit
<1> DEFINE k == limit \div unit
<1>1. k \in Int /\ limit = unit * k
  BY SMT
<1> HIDE DEF k
<1>2. unit * (k - 1) = unit * k - unit /\ unit * (k + 1) = unit * k + unit
  BY <1>1, SMT
<1>3. ASSUME unit * h < limit PROVE unit * h <= limit - unit
  <2>1. h < k
    BY <1>1, <1>3, Multiples
  <2>2. h <= k - 1 /\ k - 1 \in Int
    BY <1>1, <2>1, SMT
  <2>3. unit * h <= unit * (k - 1)
    BY <2>2, Multiples
  <2> QED BY <1>1, <1>2, <2>3
<1>4. ASSUME unit * h > limit PROVE unit * h >= limit + unit
  <2>1. k < h
    BY <1>1, <1>4, Multiples
  <2>2. k + 1 <= h /\ k + 1 \in Int
    BY <1>1, <2>1, SMT
  <2>3. unit * (k + 1) <= unit * h
    BY <2>2, Multiples
  <2> QED BY <1>1, <1>2, <2>3
<1> QED BY <1>3, <1>4

(* A rounded ratio on one side of a limit is there unrounded to within     *)
(* half a hundredth, and exactly so when it seems to miss a limit in whole *)
(* hundredths.                                                             *)
LEMMA RoundedLimit ==
  ASSUME NEW num \in Int, NEW den \in Int, den > 0, NEW limit \in Int
  PROVE  LET h == HalfEven(num, den)
             q == <<num, den>>
         IN /\ LimitUnit * h < limit => Below(q, 2 * limit + Missed(limit))
            /\ LimitUnit * h > limit => Above(q, 2 * limit - Missed(limit))
            /\ LimitUnit * h >= limit => ~Below(q, 2 * limit - LimitUnit)
            /\ LimitUnit * h <= limit => ~Above(q, 2 * limit + LimitUnit)
<1> DEFINE h == HalfEven(num, den)
           q == <<num, den>>
           A == LimitUnit * num
           B == (LimitUnit * h) * den
           C == limit * den
           D == LimitUnit * den
<1>0. LimitUnit \in Int /\ LimitUnit > 0
  BY LimitAssumption
<1>1. /\ h \in Int /\ 2 * num - den <= 2 * (h * den) /\ 2 * (h * den) <= 2 * num + den
  BY RoundingError
<1> HIDE DEF h
<1>2. /\ A \in Int /\ B \in Int /\ C \in Int /\ D \in Int /\ D > 0
      /\ LimitUnit * h \in Int
  BY <1>0, <1>1, SMT
<1>3. 2 * A - D <= 2 * B /\ 2 * B <= 2 * A + D
  <2> DEFINE e == h * den
  <2>1. e \in Int /\ 2 * num - den \in Int /\ 2 * num + den \in Int /\ 2 * e \in Int
    BY <1>1, SMT
  <2>2. /\ LimitUnit * (2 * num - den) <= LimitUnit * (2 * e)
        /\ LimitUnit * (2 * e) <= LimitUnit * (2 * num + den)
    BY <1>0, <1>1, <2>1, Multiples
  <2>3. B = LimitUnit * e
    BY <1>0, <1>1, SMT
  <2> HIDE DEF e
  <2>4. /\ LimitUnit * (2 * num - den) = 2 * A - D
        /\ LimitUnit * (2 * num + den) = 2 * A + D
        /\ LimitUnit * (2 * e) = 2 * (LimitUnit * e)
    BY <1>0, <2>1, SMT
  <2> QED BY <2>2, <2>3, <2>4
<1>4. /\ (2 * limit + LimitUnit) * den = 2 * C + D
      /\ (2 * limit - LimitUnit) * den = 2 * C - D
      /\ (limit + LimitUnit) * den = C + D /\ (limit - LimitUnit) * den = C - D
      /\ (2 * limit + 0) * den = 2 * C /\ (2 * limit - 0) * den = 2 * C
      /\ 2 * LimitUnit * num = 2 * A
  BY <1>0, SMT
<1>5. ASSUME NEW x \in Int, NEW y \in Int
      PROVE  /\ x < y => x * den < y * den
             /\ x <= y => x * den <= y * den
  BY <1>5, SMT
<1>6. q[1] = num /\ q[2] = den
  OBVIOUS
<1>a. /\ LimitUnit * h < limit => B < C
      /\ LimitUnit * h > limit => C < B
      /\ LimitUnit * h >= limit => C <= B
      /\ LimitUnit * h <= limit => B <= C
  BY <1>2, <1>5
<1>b. ASSUME limit % LimitUnit = 0
      PROVE  /\ LimitUnit * h < limit => B <= C - D
             /\ LimitUnit * h > limit => C + D <= B
  <2>1. /\ LimitUnit * h < limit => LimitUnit * h <= limit - LimitUnit
        /\ LimitUnit * h > limit => LimitUnit * h >= limit + LimitUnit
    BY <1>0, <1>1, <1>b, WholeLimits
  <2>2. limit - LimitUnit \in Int /\ limit + LimitUnit \in Int
    BY <1>0
  <2>3. /\ LimitUnit * h <= limit - LimitUnit => B <= (limit - LimitUnit) * den
        /\ limit + LimitUnit <= LimitUnit * h => (limit + LimitUnit) * den <= B
    BY <1>2, <1>5, <2>2
  <2> QED BY <1>0, <1>2, <1>4, <2>1, <2>2, <2>3
<1> HIDE DEF A, B, C, D
<1>7. LimitUnit * h < limit => Below(q, 2 * limit + Missed(limit))
  <2>1. CASE limit % LimitUnit = 0
    BY <1>2, <1>3, <1>4, <1>6, <1>b, <2>1 DEF Below, Missed
  <2>2. CASE limit % LimitUnit # 0
    BY <1>2, <1>3, <1>4, <1>6, <1>a, <2>2 DEF Below, Missed
  <2> QED BY <2>1, <2>2
<1>8. LimitUnit * h > limit => Above(q, 2 * limit - Missed(limit))
  <2>1. CASE limit % LimitUnit = 0
    BY <1>2, <1>3, <1>4, <1>6, <1>b, <2>1 DEF Above, Missed
  <2>2. CASE limit % LimitUnit # 0
    BY <1>2, <1>3, <1>4, <1>6, <1>a, <2>2 DEF Above, Missed
  <2> QED BY <2>1, <2>2
<1>9. /\ LimitUnit * h >= limit => ~Below(q, 2 * limit - LimitUnit)
      /\ LimitUnit * h <= limit => ~Above(q, 2 * limit + LimitUnit)
  BY <1>2, <1>3, <1>4, <1>6, <1>a DEF Below, Above
<1> QED BY <1>7, <1>8, <1>9 DEF h

(* The status of a covenant is that of the rounded ratio, and the ratio is *)
(* on that side of the limits.                                             *)
LEMMA RoundedCovenants == ManagerInv => CovenantsWithinRounding
<1> SUFFICES ASSUME ManagerInv, NEW d \in DraftIds, Drafted(d), drafts[d].manager = "capital",
                    NEW r \in library, SourceOf(drafts[d], r),
                    NEW k \in DOMAIN r.covenants,
                    r.covenants[k].metric \in {"dscr", "ltv_percent"}
             PROVE  LET min == r.covenants[k].minimum
                        max == r.covenants[k].maximum
                        q   == Ratio(r.covenants[k], ModelOf(r, drafts[d].ask))
                    IN IF drafts[d].content.covenants[k] = "breach"
                       THEN \/ min # None /\ Below(q, 2 * min + Missed(min))
                            \/ max # None /\ Above(q, 2 * max - Missed(max))
                       ELSE /\ min # None => ~Below(q, 2 * min - LimitUnit)
                            /\ max # None => ~Above(q, 2 * max + LimitUnit)
  BY DEF CovenantsWithinRounding
<1> DEFINE covenant == r.covenants[k]
           min == covenant.minimum
           max == covenant.maximum
           ask == drafts[d].ask
           m   == ModelOf(r, ask)
           q   == Ratio(covenant, m)
           h   == HalfEven(q[1], q[2])
<1>1. r \in Records /\ Valid(r) /\ r.manager = "capital"
  BY DEF ManagerInv, Dated, SourceOf
<1>2. drafts[d].content = CapitalDraft(r, ask) /\ ask \in Asks(r)
  BY <1>1, OneSource DEF Content
<1>3. m \in r.models
  BY <1>1, <1>2 DEF Asks, ModelOf
<1>4. /\ m.service > 0 /\ m.value > 0
      /\ {m.noi, m.service, m.debt, m.value} \subseteq Int /\ Bounds(covenant)
  BY <1>1, <1>3, RecordsAssumption DEF Valid, CapitalValid
<1>5. drafts[d].content.covenants[k] = CovenantStatus(covenant, m)
  BY <1>2 DEF CapitalDraft
<1>l. (min # None => min \in Int) /\ (max # None => max \in Int)
  BY <1>4 DEF Bounds
<1> HIDE DEF m, ask, covenant
<1>6. q[1] \in Int /\ q[2] \in Int /\ q[2] > 0 /\ q = <<q[1], q[2]>>
  BY <1>4, SMT DEF Ratio
<1>7. CovenantStatus(covenant, m) = IF Breaches(covenant, h) THEN "breach" ELSE "compliant"
  <2>1. covenant.metric \in {"dscr", "ltv_percent"}
    BY DEF covenant
  <2>2. m.noi * (100 + 0) = 100 * m.noi
    BY <1>4, SMT
  <2>3. h = IF covenant.metric = "dscr" THEN Dscr(m, 0) ELSE Ltv(m)
    BY <2>2 DEF Ratio, Dscr, Ltv
  <2> QED BY <2>1, <2>3, Zenon DEF CovenantStatus
<1>8. h \in Int /\ LimitUnit * h \in Int
  BY <1>6, RoundingError, LimitAssumption
<1>b. Breaches(covenant, h) <=> (\/ min # None /\ LimitUnit * h < min
                                 \/ max # None /\ LimitUnit * h > max)
  BY DEF Breaches
<1> HIDE DEF q, h, min, max
<1>9. ASSUME NEW limit \in Int
      PROVE  /\ LimitUnit * h < limit => Below(q, 2 * limit + Missed(limit))
             /\ LimitUnit * h > limit => Above(q, 2 * limit - Missed(limit))
             /\ LimitUnit * h >= limit => ~Below(q, 2 * limit - LimitUnit)
             /\ LimitUnit * h <= limit => ~Above(q, 2 * limit + LimitUnit)
  <2> DEFINE num == q[1]
             den == q[2]
  <2>1. num \in Int /\ den \in Int /\ den > 0 /\ q = <<num, den>> /\ h = HalfEven(num, den)
    BY <1>6 DEF h
  <2> HIDE DEF num, den
  <2> QED BY <2>1, RoundedLimit
<1>10. CASE Breaches(covenant, h)
  <2>1. \/ min # None /\ Below(q, 2 * min + Missed(min))
        \/ max # None /\ Above(q, 2 * max - Missed(max))
    BY <1>9, <1>10, <1>b, <1>l
  <2>2. drafts[d].content.covenants[k] = "breach"
    BY <1>5, <1>7, <1>10
  <2> QED BY <2>1, <2>2 DEF covenant, q, m, ask, min, max
<1>11. CASE ~Breaches(covenant, h)
  <2>1. /\ min # None => LimitUnit * h >= min /\ min \in Int
        /\ max # None => LimitUnit * h <= max /\ max \in Int
    BY <1>8, <1>11, <1>b, <1>l
  <2>2. /\ min # None => ~Below(q, 2 * min - LimitUnit)
        /\ max # None => ~Above(q, 2 * max + LimitUnit)
    BY <1>9, <2>1
  <2>3. drafts[d].content.covenants[k] # "breach"
    BY <1>5, <1>7, <1>11
  <2> QED BY <2>2, <2>3 DEF covenant, q, m, ask, min, max
<1> QED BY <1>10, <1>11

(* A covenant reported compliant is met, and one reported breached is      *)
(* missed, to within the rounding, for every model and any decimal limits; *)
(* a met limit in whole hundredths is never reported breached.             *)
THEOREM Rounding == Spec => []CovenantsWithinRounding
BY Invariance, RoundedCovenants, PTL

-----------------------------------------------------------------------------
(* Of the entries under one id that has any, there is a last one, which is *)
(* the one the gate reads.                                                 *)
LEMMA LastEntry ==
  ASSUME NEW r, r.register \in Seq(ToSet(r.register)), NEW id, EntriesOf(r, id) # {}
  PROVE  \E k \in EntriesOf(r, id) : Entry(r, id) = r.register[k]
<1> DEFINE S == EntriesOf(r, id)
           n == Len(r.register)
           from(k) == n - k
           T == {from(k) : k \in S}
<1>1. n \in Nat /\ S \subseteq 1 .. n
  BY DEF EntriesOf
<1>2. T \subseteq Nat /\ T # {}
  BY <1>1
<1> DEFINE less == {pair \in Nat \X Nat : pair[1] < pair[2]}
<1>3. IsWellFoundedOn(less, Nat)
  BY NatLessThanWellFounded DEF OpToRel
<1>4. PICK x \in T : \A y \in T : ~(<<y, x>> \in less)
  <2> HIDE DEF less, T
  <2> QED BY <1>2, <1>3, WFMin
<1>5. ASSUME NEW y \in T PROVE x <= y
  <2>1. x \in Nat /\ y \in Nat /\ ~(<<y, x>> \in less)
    BY <1>2, <1>4
  <2> QED BY <2>1
<1>6. PICK k \in S : x = from(k)
  BY <1>4
<1>7. ASSUME NEW j \in S PROVE k >= j
  <2>1. x <= from(j)
    BY <1>5
  <2>2. k \in Int /\ j \in Int
    BY <1>1
  <2> QED BY <1>1, <1>6, <2>1, <2>2
<1>8. Max(S) \in S
  BY <1>6, <1>7 DEF Max
<1> QED BY <1>8 DEF Entry

(* A gate reported ready has behind it, for each record its criteria name, *)
(* an entry with the required status and evidence within the window.       *)
THEOREM Readiness == Spec => []ReadyIsEvidenced
<1> SUFFICES ASSUME ManagerInv PROVE ReadyIsEvidenced
  BY Invariance, PTL
<1> DEFINE window == FreshFor["development"]
           Behind(r, c, id, on) ==
             \E k \in DOMAIN r.register :
               /\ r.register[k].id = id /\ r.register[k].status = c.required
               /\ \A s \in r.register[k].sources :
                    r.evidence[s] # None /\ r.evidence[s] + window >= on
<1> SUFFICES ASSUME NEW d \in DraftIds, Drafted(d), drafts[d].manager = "development",
                    drafts[d].content.recommendation = "ready",
                    NEW r \in library, SourceOf(drafts[d], r),
                    NEW c \in r.gates[drafts[d].ask], NEW id \in c.records
             PROVE  Behind(r, c, id, drafts[d].day)
  BY DEF ReadyIsEvidenced
<1> DEFINE on == drafts[d].day
<1>1. r \in Records /\ r.manager = "development" /\ on \in Nat
  BY SpecialistAssumption DEF ManagerInv, Dated, SourceOf
<1>2. drafts[d].content = DevelopmentDraft(r, drafts[d].ask, on)
  BY <1>1, OneSource DEF Content
<1>3. Met(r, c, on)
  BY <1>2 DEF DevelopmentDraft, Recommendation
<1>4. Days(r.evidence) /\ window \in Nat /\ r.register \in Seq(ToSet(r.register))
  BY <1>1, RecordsAssumption, FreshAssumption
<1> HIDE DEF on, window
<1>5. /\ Present(r, c.records) = c.records
      /\ SourcesOf(r, c) \subseteq DOMAIN r.evidence
      /\ StaleAmong(SourcesOf(r, c), r.evidence, on, window) = {}
      /\ Entry(r, id).status = c.required
  BY <1>3 DEF Met, Evidenced, Cited, window
<1>6. EntriesOf(r, id) # {} /\ Entry(r, id).sources \subseteq SourcesOf(r, c)
  BY <1>5 DEF Present, SourcesOf
<1>7. PICK k \in EntriesOf(r, id) : Entry(r, id) = r.register[k]
  BY <1>4, <1>6, LastEntry
<1>8. k \in DOMAIN r.register /\ r.register[k].id = id
  BY <1>7 DEF EntriesOf
<1>9. ASSUME NEW s \in r.register[k].sources
      PROVE  r.evidence[s] # None /\ r.evidence[s] + window >= on
  <2>1. s \in DOMAIN r.evidence /\ ~IsStale(r.evidence[s], on, window)
    BY <1>5, <1>6, <1>7 DEF StaleAmong
  <2>2. r.evidence[s] = None \/ r.evidence[s] \in Nat
    BY <1>4, <2>1 DEF Days
  <2> QED BY <1>1, <1>4, <2>1, <2>2 DEF IsStale
<1> QED BY <1>5, <1>7, <1>8, <1>9 DEF on

-----------------------------------------------------------------------------
(* Listing a finite set leaves nothing out.                                *)
LEMMA ListsAll ==
  ASSUME NEW S, IsFiniteSet(S)
  PROVE  SetToSeq(S) \in Seq(S) /\ ToSet(SetToSeq(S)) = S
<1> DEFINE n == Cardinality(S)
           seq == SetToSeq(S)
<1>1. n \in Nat /\ ExistsBijection(1 .. n, S)
  BY FS_CardinalityType
<1>2. \E f \in [1 .. n -> S] : IsInjective(f)
  BY <1>1 DEF ExistsBijection, Bijection, Injection
<1>3. seq \in [1 .. n -> S] /\ IsInjective(seq)
  BY <1>2 DEF SetToSeq
<1> HIDE DEF n, seq
<1>4. seq \in Injection(1 .. n, S)
  BY <1>3 DEF Injection
<1>5. Cardinality(1 .. n) = Cardinality(S)
  BY <1>1, FS_Interval DEF n
<1>6. seq \in Surjection(1 .. n, S)
  BY <1>4, <1>5, FS_Injection
<1>7. ToSet(seq) = S
  BY <1>3, <1>6 DEF ToSet, Surjection
<1>8. seq \in Seq(S)
  BY <1>1, <1>3
<1> QED BY <1>7, <1>8 DEF seq

(* What a sequence lists is its head or in its tail.                       *)
LEMMA HeadOrRest ==
  ASSUME NEW S, NEW seq \in Seq(S), seq # <<>>, NEW x \in ToSet(seq)
  PROVE  x = Head(seq) \/ x \in ToSet(Tail(seq))
<1>1. PICK k \in 1 .. Len(seq) : x = seq[k]
  BY DEF ToSet
<1>2. /\ Tail(seq) \in Seq(S) /\ Len(Tail(seq)) = Len(seq) - 1 /\ Len(seq) \in Nat
      /\ \A j \in 1 .. Len(Tail(seq)) : Tail(seq)[j] = seq[j + 1]
  BY HeadTailProperties
<1>3. CASE k = 1
  BY <1>1, <1>3
<1>4. CASE k # 1
  <2>1. k - 1 \in 1 .. Len(Tail(seq)) /\ Tail(seq)[k - 1] = seq[k]
    BY <1>1, <1>2, <1>4
  <2>2. k - 1 \in DOMAIN Tail(seq)
    BY <1>2, <2>1
  <2> QED BY <1>1, <2>1, <2>2 DEF ToSet
<1> QED BY <1>3, <1>4

(* A call of escalate_safety still has, or has queued, every imminent      *)
(* signal of its draft.                                                    *)
Queueing(d, s) == \E i \in ItemIds : about[i].draft = d /\ about[i].signal = s

Pursues(d) ==
  escalating[d].by # None =>
    /\ Drafted(d) /\ drafts[d].manager = "construction"
    /\ escalating[d].todo \in Seq(Imminent(drafts[d].content.safety))
    /\ \A s \in Imminent(drafts[d].content.safety) :
         s \in ToSet(escalating[d].todo) \/ Queueing(d, s)

Pursued == \A d \in DraftIds : Pursues(d)

(* A call that is not the one that steps stays pursued: its draft and what *)
(* was queued for it do not change.                                        *)
LEMMA StaysPursued ==
  ASSUME ManagerInv, Pursued, NEW d \in DraftIds,
         escalating'[d] = escalating[d], Drafted(d) => drafts'[d] = drafts[d],
         \A i \in ItemIds : about[i] # Nothing => about'[i] = about[i]
  PROVE  Pursues(d)'
<1>1. escalating[d].by # None => Drafted(d) /\ drafts'[d] = drafts[d]
  BY DEF Pursued, Pursues
<1>2. \A s : Queueing(d, s) => Queueing(d, s)'
  <2> SUFFICES ASSUME NEW s, NEW i \in ItemIds, about[i].draft = d, about[i].signal = s
               PROVE  Queueing(d, s)'
    BY DEF Queueing
  <2>1. about[i] # Nothing
    BY SpecialistAssumption DEF Nothing
  <2> QED BY <2>1 DEF Queueing
<1> QED BY <1>1, <1>2 DEF Pursued, Pursues, Drafted

(* A draft that is there stays as it is, and what was queued stays noted.  *)
LEMMA QueueForgets ==
  ASSUME ManagerInv, NEW ctx, NEW i \in ItemIds, NEW access, NEW manager, NEW purpose,
         Queue(ctx, i, access, manager, purpose)
  PROVE  /\ about[i] = Nothing /\ about'[i] = purpose
         /\ \A j \in ItemIds : about[j] # Nothing => about'[j] = about[j]
<1>1. about[i] = Nothing
  BY DEF Queue, Enqueue, ManagerInv, Dated
<1>2. /\ about' = [about EXCEPT ![i] = purpose]
      /\ about = [j \in ItemIds |-> about[j]]
  BY DEF Queue, ManagerInv, DeskInv, Shaped
<1> QED BY <1>1, <1>2

(* The call lists every imminent signal of its draft when it begins.       *)
LEMMA BeginsAll ==
  ASSUME ManagerInv, Pursued, NEW ctx \in Contexts, NEW d \in DraftIds, EscalateSafety(ctx, d)
  PROVE  Pursued'
<1> DEFINE todo == SetToSeq(Imminent(drafts[d].content.safety))
<1>1. /\ escalating' = [escalating EXCEPT ![d] = [by |-> ctx, todo |-> todo]]
      /\ escalating = [e \in DraftIds |-> escalating[e]]
      /\ Drafted(d) /\ drafts[d].manager = "construction"
  BY DEF EscalateSafety, ManagerInv, DeskInv, Shaped
<1>2. PICK r \in library :
        SourceOf(drafts[d], r) /\ drafts[d].content = Content(r, drafts[d].ask, drafts[d].day)
  BY <1>1 DEF ManagerInv, LibraryInv, Traced
<1>3. r \in Records /\ r.manager = "construction"
  BY <1>1, <1>2 DEF SourceOf, ManagerInv, Dated
<1>4. drafts[d].content.safety = r.safety /\ IsFiniteSet(DOMAIN r.safety)
  BY <1>2, <1>3, RecordsAssumption DEF Content, ConstructionDraft
<1>5. IsFiniteSet(Imminent(drafts[d].content.safety))
  BY <1>4, FS_Subset DEF Imminent
<1>6. /\ todo \in Seq(Imminent(drafts[d].content.safety))
      /\ ToSet(todo) = Imminent(drafts[d].content.safety)
  BY <1>5, ListsAll
<1> HIDE DEF todo
<1>7. ASSUME NEW e \in DraftIds
      PROVE  escalating'[e] = IF e = d THEN [by |-> ctx, todo |-> todo] ELSE escalating[e]
  BY <1>1
<1>8. UNCHANGED <<drafts, about>>
  BY DEF EscalateSafety
<1> SUFFICES ASSUME NEW e \in DraftIds PROVE Pursues(e)'
  BY DEF Pursued
<1>9. CASE e = d
  BY <1>1, <1>6, <1>7, <1>8, <1>9 DEF Pursues, Drafted
<1>10. CASE e # d
  BY <1>7, <1>8, <1>10, StaysPursued
<1> QED BY <1>9, <1>10

(* A signal leaves the list with the item that is queued for it.           *)
LEMMA QueuesNext ==
  ASSUME ManagerInv, Pursued, NEW d \in DraftIds, NEW i \in ItemIds, EscalateNext(d, i)
  PROVE  Pursued'
<1>1. PICK call, todo, first, S, access, manager :
        /\ call = escalating[d] /\ todo = call.todo /\ first = Head(todo)
        /\ S = Imminent(drafts[d].content.safety)
        /\ access = drafts[d].access /\ manager = drafts[d].manager
  OBVIOUS
<1> DEFINE purpose == Purpose("signal", d, first, call.by)
<1>2. /\ escalating' = [escalating EXCEPT ![d].todo = Tail(@)]
      /\ escalating = [e \in DraftIds |-> escalating[e]]
      /\ call = [by |-> call.by, todo |-> todo]
      /\ todo # <<>> /\ call.by \in Contexts
  BY <1>1 DEF EscalateNext, ManagerInv, DeskInv, Shaped
<1>3. escalating'[d] = [by |-> call.by, todo |-> Tail(todo)]
  <2>1. escalating'[d] = [call EXCEPT !.todo = Tail(todo)]
    BY <1>1, <1>2
  <2> QED BY <1>2, <2>1, CallGoesOn
<1>4. \A e \in DraftIds : e # d => escalating'[e] = escalating[e]
  BY <1>2
<1>5. /\ about'[i] = purpose
      /\ \A j \in ItemIds : about[j] # Nothing => about'[j] = about[j]
  <2>1. Queue(call.by, i, access, manager, purpose)
    BY <1>1 DEF EscalateNext
  <2> HIDE DEF purpose
  <2> QED BY <2>1, QueueForgets
<1>6. purpose.draft = d /\ purpose.signal = first
  BY DEF Purpose
<1> HIDE DEF purpose
<1>7. UNCHANGED drafts
  BY DEF EscalateNext
<1> SUFFICES ASSUME NEW e \in DraftIds PROVE Pursues(e)'
  BY DEF Pursued
<1>8. CASE e # d
  BY <1>4, <1>5, <1>7, <1>8, StaysPursued
<1>9. CASE e = d
  <2> SUFFICES ASSUME escalating'[d].by # None PROVE Pursues(d)'
    BY <1>9 DEF Pursues
  <2>1. escalating[d].by # None
    BY <1>1, <1>3
  <2>2. /\ Drafted(d) /\ drafts[d].manager = "construction" /\ todo \in Seq(S)
        /\ \A s \in S : s \in ToSet(todo) \/ Queueing(d, s)
    BY <1>1, <2>1 DEF Pursued, Pursues
  <2>3. Tail(todo) \in Seq(S)
    BY <1>2, <2>2, HeadTailProperties
  <2>4. ASSUME NEW s \in S PROVE s \in ToSet(Tail(todo)) \/ Queueing(d, s)'
    <3>1. CASE s \in ToSet(todo)
      <4>1. s = first \/ s \in ToSet(Tail(todo))
        BY <1>1, <1>2, <2>2, <3>1, HeadOrRest
      <4>2. Queueing(d, first)'
        BY <1>5, <1>6 DEF Queueing
      <4> QED BY <4>1, <4>2
    <3>2. CASE Queueing(d, s)
      <4>1. PICK j \in ItemIds : about[j].draft = d /\ about[j].signal = s
        BY <3>2 DEF Queueing
      <4>2. about[j] # Nothing
        BY <4>1, SpecialistAssumption DEF Nothing
      <4> QED BY <1>5, <4>1, <4>2 DEF Queueing
    <3> QED BY <2>2, <3>1, <3>2
  <2> QED BY <1>1, <1>3, <1>7, <2>2, <2>3, <2>4 DEF Pursues, Drafted
<1> QED BY <1>8, <1>9

(* Nothing else touches a call, its draft or what was queued for it.       *)
LEMMA PursuedStep == ManagerInv /\ Pursued /\ [Next]_vars => Pursued'
<1> SUFFICES ASSUME ManagerInv, Pursued, [Next]_vars PROVE Pursued'
  OBVIOUS
<1> DEFINE Kept  == \A d \in DraftIds : Drafted(d) => drafts'[d] = drafts[d]
           Noted == \A j \in ItemIds : about[j] # Nothing => about'[j] = about[j]
<1>1. ASSUME UNCHANGED escalating, Kept, Noted PROVE Pursued'
  BY <1>1, StaysPursued DEF Pursued
<1>2. ASSUME NEW ctx \in Contexts, NEW d \in DraftIds, NEW r \in library, NEW ask \in Asks(r),
             MakeDraft(ctx, d, r, ask)
      PROVE  Pursued'
  <2>1. Kept
    BY <1>2 DEF MakeDraft, Drafted, ManagerInv, DeskInv, Shaped
  <2> QED BY <1>1, <1>2, <2>1 DEF MakeDraft
<1>3. ASSUME NEW ctx \in Contexts, NEW d \in DraftIds, NEW i \in ItemIds, SubmitForReview(ctx, d, i)
      PROVE  Pursued'
  <2>1. PICK access, manager :
          Queue(ctx, i, access, manager, Purpose("draft", d, None, ctx))
    BY <1>3 DEF SubmitForReview
  <2>2. Noted
    BY <2>1, QueueForgets
  <2> QED BY <1>1, <1>3, <2>2 DEF SubmitForReview
<1>4. ASSUME NEW ctx \in Contexts, NEW r \in library, NEW i \in ItemIds,
             RequestBaselineChange(ctx, r, i)
      PROVE  Pursued'
  <2>1. Noted
    BY <1>4, QueueForgets DEF RequestBaselineChange
  <2> QED BY <1>1, <1>4, <2>1 DEF RequestBaselineChange
<1>5. ASSUME NEW ctx \in Contexts, NEW d \in DraftIds, EscalateSafety(ctx, d) PROVE Pursued'
  BY <1>5, BeginsAll
<1>6. ASSUME NEW d \in DraftIds, NEW i \in ItemIds, EscalateNext(d, i) PROVE Pursued'
  BY <1>6, QueuesNext
<1>7. CASE UNCHANGED <<drafts, about, escalating>>
  BY <1>1, <1>7
<1> QED BY <1>2, <1>3, <1>4, <1>5, <1>6, <1>7 DEF Next, Add, Decide, Tick, vars

(* Nothing imminent is left behind: once escalate_safety has returned,     *)
(* each imminent signal of the project has an item, whatever else is       *)
(* queued, decided, drafted or escalated between two of its submissions.   *)
THEOREM Escalation == Spec => []ImminentEscalated
<1>1. Init => Pursued
  BY DEF Init, NoCall, Pursued, Pursues
<1>2. Spec => []Pursued
  BY <1>1, PursuedStep, Invariance, PTL DEF Spec
<1>3. ManagerInv /\ Pursued => ImminentEscalated
  <2> SUFFICES ASSUME ManagerInv, Pursued, NEW d \in DraftIds, escalating[d].by # None,
                      escalating[d].todo = <<>>, NEW r \in library, SourceOf(drafts[d], r),
                      NEW s \in DOMAIN r.safety, r.safety[s].severity = "imminent"
               PROVE  Queueing(d, s)
    BY DEF ImminentEscalated, Queueing
  <2>1. /\ Drafted(d) /\ drafts[d].manager = "construction"
        /\ s \in Imminent(drafts[d].content.safety) =>
             s \in ToSet(escalating[d].todo) \/ Queueing(d, s)
    BY DEF Pursued, Pursues
  <2>2. drafts[d].content = ConstructionDraft(r)
    BY <2>1, OneSource DEF SourceOf, Content
  <2>3. s \in Imminent(drafts[d].content.safety)
    BY <2>2 DEF ConstructionDraft, Imminent
  <2>4. ToSet(<<>>) = {}
    BY DEF ToSet
  <2> QED BY <2>1, <2>3, <2>4
<1> QED BY <1>2, <1>3, Invariance, PTL
==============================================================================
