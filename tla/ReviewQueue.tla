----------------------------- MODULE ReviewQueue -----------------------------
(***************************************************************************)
(* The durable review queue of tessera_os/review.py: items wait as pending *)
(* until one reviewer accepts, rejects or amends them.  Every operation is *)
(* one transaction of the store and so one action; modules that use the    *)
(* queue take the actions and add what their handlers do around them.      *)
(***************************************************************************)
EXTENDS AbsentValue

CONSTANTS
  Contexts,    \* authenticated users: [tenant, user, projects, groups]
  Projects,    \* projects of the tenants, None for an item without one
  Groups,      \* groups an item may ask a reviewer to be in
  Creators,    \* identities an item may name as created_by
  Tenants,
  Synthetic,   \* "tenant-synthetic", the one tenant reset is allowed for
  ItemIds      \* uuid4 identities for review items

VARIABLES items   \* review_items, by id

Decided  == {"accepted", "rejected", "amended_and_accepted"}
Statuses == {"pending"} \cup Decided
Users    == {ctx.user : ctx \in Contexts}

(* Absent values are told from present ones.                               *)
ASSUME QueueAssumption ==
  /\ None \notin ItemIds /\ None \notin Users /\ None \notin Groups
  /\ None \notin Projects /\ None \notin Creators /\ None \notin Tenants
  /\ \A ctx \in Contexts : ctx.tenant \in Tenants /\ ctx.projects \subseteq Projects

Item == [tenant : Tenants, project : Projects \cup {None}, created_by : Creators,
         group : Groups \cup {None}, status : Statuses,
         reviewed_by : Users \cup {None}]

(* An id nobody has drawn yet, and one whose row was deleted: uuid4 ids do *)
(* not come back.                                                          *)
Missing(status) == [tenant |-> None, project |-> None, created_by |-> None,
                    group |-> None, status |-> status, reviewed_by |-> None]
NoItem      == Missing("none")
DeletedItem == Missing("deleted")

Queued(i) == items[i].status \in Statuses

QueueInit == items = [i \in ItemIds |-> NoItem]

-----------------------------------------------------------------------------
(* Who may see or disposition an item.                                     *)
InQueueScope(item, ctx) ==
  /\ item.tenant = ctx.tenant
  /\ IF item.project = None THEN item.created_by = ctx.user
                            ELSE item.project \in ctx.projects

Enqueue(i, tenant, project, creator, group) ==
  /\ items[i] = NoItem
  /\ items' = [items EXCEPT ![i] =
       [tenant |-> tenant, project |-> project, created_by |-> creator,
        group |-> group, status |-> "pending", reviewed_by |-> None]]

\* Mutant of Qualified: the creator is not kept out.
QualifiedByGroup(item, ctx) == item.group # None => item.group \in ctx.groups

Qualified(item, ctx) ==
  item.group # None => item.group \in ctx.groups /\ item.created_by # ctx.user

\* Mutant of Undisposed: an acceptance can be reconsidered.
NotRejected(item) == item.status \in {"pending", "accepted"}

Undisposed(item) == item.status = "pending"

Dispositioned(item, status, user) ==
  [item EXCEPT !.status = status, !.reviewed_by = user]

(* accept, reject and amend_and_accept differ in the status they set.      *)
Disposition(ctx, i, status) ==
  /\ Queued(i)
  /\ InQueueScope(items[i], ctx)
  /\ Qualified(items[i], ctx)
  /\ Undisposed(items[i])
  /\ items' = [items EXCEPT ![i] = Dispositioned(@, status, ctx.user)]

(* The DELETE of reset_synthetic; the fixtures it then seeds have ids of   *)
(* their own, which no artifact refers to, and are not modelled.           *)
ResetQueue(ctx) ==
  /\ ctx.tenant = Synthetic
  /\ items' = [i \in ItemIds |->
       IF items[i].tenant = ctx.tenant THEN DeletedItem ELSE items[i]]

QueueNext ==
  \/ \E i \in ItemIds, t \in Tenants, p \in Projects \cup {None},
        u \in Creators, g \in Groups \cup {None} : Enqueue(i, t, p, u, g)
  \/ \E ctx \in Contexts, i \in ItemIds, s \in Decided : Disposition(ctx, i, s)
  \/ \E ctx \in Contexts : ResetQueue(ctx)

QueueSpec == QueueInit /\ [][QueueNext]_items

-----------------------------------------------------------------------------
(* Every row of the queue keeps its columns.                               *)
QueueTypeOK == items \in [ItemIds -> Item \cup {NoItem, DeletedItem}]

(* An item that asks for a qualified reviewer is dispositioned only by a   *)
(* member of that group who is in its scope and is not the identity the    *)
(* item names as its creator; nobody is recorded before that.              *)
QualifiedDecisions ==
  \A i \in ItemIds :
    /\ items[i].status \in Decided =>
         \E ctx \in Contexts :
           /\ items[i].reviewed_by = ctx.user
           /\ InQueueScope(items[i], ctx)
           /\ items[i].group # None =>
                items[i].group \in ctx.groups /\ items[i].created_by # ctx.user
    /\ items[i].status \notin Decided => items[i].reviewed_by = None

(* A decision is made once: afterwards the item keeps it, and who made it, *)
(* until a reset of the synthetic tenant removes the item.                 *)
DecisionsFinal ==
  [][\A i \in ItemIds : items[i].status \in Decided =>
       items'[i] \in {items[i], DeletedItem}]_items
=============================================================================
