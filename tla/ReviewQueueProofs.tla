-------------------------- MODULE ReviewQueueProofs --------------------------
(***************************************************************************)
(* Theorems about the review queue, for any users, items and groups.       *)
(***************************************************************************)
EXTENDS ReviewQueue, TLAPS

QueueInv == QueueTypeOK /\ QualifiedDecisions

(* The columns a missing item has, which are those of no queued one.       *)
LEMMA MissingItems ==
  /\ NoItem.status = "none" /\ DeletedItem.status = "deleted"
  /\ NoItem.reviewed_by = None /\ DeletedItem.reviewed_by = None
  /\ NoItem # DeletedItem
  BY DEF NoItem, DeletedItem, Missing

(* An empty queue satisfies the invariant.                                 *)
LEMMA QueueInitInv == QueueInit => QueueInv
  BY MissingItems DEF QueueInit, QueueInv, QueueTypeOK, QualifiedDecisions, Decided

(* A new item is pending and has no reviewer.                              *)
LEMMA EnqueueInv ==
  ASSUME NEW i \in ItemIds, NEW t \in Tenants, NEW p \in Projects \cup {None},
         NEW u \in Creators, NEW g \in Groups \cup {None},
         QueueInv, Enqueue(i, t, p, u, g)
  PROVE  QueueInv'
<1> DEFINE new == [tenant |-> t, project |-> p, created_by |-> u, group |-> g,
                   status |-> "pending", reviewed_by |-> None]
<1>1. items' = [items EXCEPT ![i] = new]
  BY DEF Enqueue
<1>2. new \in Item
  BY DEF Item, Statuses
<1>3. QueueTypeOK'
  BY <1>1, <1>2 DEF QueueInv, QueueTypeOK
<1>4. ASSUME NEW j \in ItemIds
      PROVE  items'[j] = IF j = i THEN new ELSE items[j]
  BY <1>1 DEF QueueInv, QueueTypeOK
<1>5. QualifiedDecisions'
  BY <1>4 DEF QueueInv, QualifiedDecisions, Decided, InQueueScope
<1> QED BY <1>3, <1>5 DEF QueueInv

(* The reviewer who is recorded is the one whose membership, scope and     *)
(* distinctness from the creator were checked in the same transaction.     *)
LEMMA DispositionInv ==
  ASSUME NEW ctx \in Contexts, NEW i \in ItemIds, NEW s \in Decided,
         QueueInv, Disposition(ctx, i, s)
  PROVE  QueueInv'
<1> DEFINE new == [items[i] EXCEPT !.status = s, !.reviewed_by = ctx.user]
<1>1. items' = [items EXCEPT ![i] = new]
  BY DEF Disposition, Dispositioned, QueueInv, QueueTypeOK
<1>2. items[i] \in Item
  BY MissingItems DEF Disposition, Queued, QueueInv, QueueTypeOK, Statuses, Decided
<1>3. new \in Item
  BY <1>2 DEF Item, Statuses, Users
<1>4. QueueTypeOK'
  BY <1>1, <1>3 DEF QueueInv, QueueTypeOK
<1>5. ASSUME NEW j \in ItemIds
      PROVE  items'[j] = IF j = i THEN new ELSE items[j]
  BY <1>1 DEF QueueInv, QueueTypeOK
<1>6. /\ new.status = s /\ new.reviewed_by = ctx.user
      /\ new.tenant = items[i].tenant /\ new.project = items[i].project
      /\ new.created_by = items[i].created_by /\ new.group = items[i].group
  BY <1>2 DEF Item
<1>7. /\ InQueueScope(new, ctx)
      /\ new.group # None => new.group \in ctx.groups /\ new.created_by # ctx.user
  BY <1>6 DEF Disposition, Qualified, InQueueScope
<1>8. QualifiedDecisions'
  <2> HIDE DEF new
  <2> SUFFICES ASSUME NEW j \in ItemIds
               PROVE  QualifiedDecisions!(j)'
    BY DEF QualifiedDecisions
  <2>1. CASE j = i
    BY <1>5, <1>6, <1>7, <2>1 DEF InQueueScope
  <2>2. CASE j # i
    BY <1>5, <2>2 DEF QueueInv, QualifiedDecisions, InQueueScope
  <2> QED BY <2>1, <2>2
<1> QED BY <1>4, <1>8 DEF QueueInv

(* A reset leaves rows as they are or takes them away.                     *)
LEMMA ResetInv ==
  ASSUME NEW ctx \in Contexts, QueueInv, ResetQueue(ctx)
  PROVE  QueueInv'
<1>1. \A j \in ItemIds : items'[j] \in {items[j], DeletedItem}
  BY DEF ResetQueue
<1>2. QueueTypeOK'
  BY <1>1 DEF ResetQueue, QueueInv, QueueTypeOK
<1>3. QualifiedDecisions'
  BY <1>1, MissingItems DEF QueueInv, QualifiedDecisions, Decided, InQueueScope
<1> QED BY <1>2, <1>3 DEF QueueInv

(* Every step keeps the invariant.                                         *)
LEMMA QueueStepInv == QueueInv /\ [QueueNext]_items => QueueInv'
<1> SUFFICES ASSUME QueueInv, [QueueNext]_items PROVE QueueInv'
  OBVIOUS
<1>1. CASE \E i \in ItemIds, t \in Tenants, p \in Projects \cup {None},
             u \in Creators, g \in Groups \cup {None} : Enqueue(i, t, p, u, g)
  BY <1>1, EnqueueInv
<1>2. CASE \E ctx \in Contexts, i \in ItemIds, s \in Decided : Disposition(ctx, i, s)
  BY <1>2, DispositionInv
<1>3. CASE \E ctx \in Contexts : ResetQueue(ctx)
  BY <1>3, ResetInv
<1>4. CASE UNCHANGED items
  BY <1>4 DEF QueueInv, QueueTypeOK, QualifiedDecisions, InQueueScope
<1> QED BY <1>1, <1>2, <1>3, <1>4 DEF QueueNext

(* Rows of the queue keep their columns, whatever users do.                *)
THEOREM QueueTyping == QueueSpec => []QueueTypeOK
<1>1. QueueInv => QueueTypeOK
  BY DEF QueueInv
<1> QED BY <1>1, QueueInitInv, QueueStepInv, PTL DEF QueueSpec

(* No item that asks for a qualified group is ever dispositioned by        *)
(* someone outside it, outside the item's scope, or by the identity the    *)
(* item names as its creator.                                              *)
THEOREM Qualification == QueueSpec => []QualifiedDecisions
<1>1. QueueInv => QualifiedDecisions
  BY DEF QueueInv
<1> QED BY <1>1, QueueInitInv, QueueStepInv, PTL DEF QueueSpec

(* A step changes a decided item only by deleting it.                      *)
LEMMA DecidedStep ==
  ASSUME QueueTypeOK, QueueNext, NEW i \in ItemIds, items[i].status \in Decided
  PROVE  items'[i] \in {items[i], DeletedItem}
<1>1. CASE \E j \in ItemIds, t \in Tenants, p \in Projects \cup {None},
             u \in Creators, g \in Groups \cup {None} : Enqueue(j, t, p, u, g)
  BY <1>1, MissingItems DEF Enqueue, QueueTypeOK, Decided
<1>2. CASE \E ctx \in Contexts, j \in ItemIds, s \in Decided : Disposition(ctx, j, s)
  BY <1>2 DEF Disposition, Undisposed, QueueTypeOK, Decided
<1>3. CASE \E ctx \in Contexts : ResetQueue(ctx)
  BY <1>3 DEF ResetQueue
<1> QED BY <1>1, <1>2, <1>3 DEF QueueNext

(* Accepted, rejected and amended are final: two reviewers who decide at   *)
(* once cannot both succeed, and no later call changes who decided what.   *)
THEOREM Finality == QueueSpec => DecisionsFinal
<1>1. QueueTypeOK /\ [QueueNext]_items =>
        [\A i \in ItemIds : items[i].status \in Decided =>
            items'[i] \in {items[i], DeletedItem}]_items
  BY DecidedStep
<1> QED BY <1>1, QueueTyping, PTL DEF QueueSpec, DecisionsFinal
=============================================================================
