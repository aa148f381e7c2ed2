---------------------------- MODULE ActionControl ----------------------------
(***************************************************************************)
(* The gated-action service of tessera_os/automation.py: a request is      *)
(* submitted, approved by a second person, turned into signed single-use   *)
(* tokens and executed once against an adapter, under kill switches.       *)
(*                                                                         *)
(* Each `with connection:` block of the store runs under the process-wide  *)
(* lock of sqlite_store.py and is one atomic step here.  `execute` is the  *)
(* one handler with several: it reads the clock, verifies the token and    *)
(* reads the kill switch (ExecuteBegin) before the transaction in which it *)
(* re-checks the packet and calls the adapter (the Execute... actions that *)
(* end a call), so other handlers run between the two.                     *)
(***************************************************************************)
EXTENDS Integers, Sequences, FiniteSets, FiniteSetsExt

CONSTANTS
  Requests,        \* exact action scopes that callers may submit
  Contexts,        \* authenticated users: [user, tenant, projects, groups]
  Groups,          \* groups a submitter may name as accountable approvers
  PacketIds,       \* uuid4 identities for approval packets
  Nonces,          \* uuid4 nonces for action tokens
  Callers,         \* threads that may be inside `execute` at once
  InitialRecords,  \* the adapter's records, as loaded from the fixture
  FailTargets,     \* targets the adapter is configured to fail on
  PacketTTL,       \* submit's ttl, 4 hours in the code
  TokenTTL,        \* issue's ttl, 15 minutes in the code
  MaxTime,         \* BOUND on the clock
  MaxFaults,       \* BOUND on failed commits and restarts
  MaxSwitches,     \* BOUND on the kill-switch rows of a tenant
  None             \* absent value

Tenants     == {ctx.tenant : ctx \in Contexts}
Users       == {ctx.user : ctx \in Contexts}
ActionTypes == {r.type : r \in Requests}
Targets     == DOMAIN InitialRecords
Switches    == ActionTypes \cup {"*"}
Times       == 0..(MaxTime + PacketTTL + TokenTTL)
States      == {"absent", "pending", "approved", "consumed", "expired"}
EventTypes  == {"approval_requested", "approval_granted",
                "action_succeeded", "action_failed"}

(* Data the constants range over.  A record is a function from tags to     *)
(* values; a missing record is None.                                       *)
ASSUME ConstantsAssumption ==
  /\ None \notin PacketIds /\ None \notin Nonces /\ None \notin Requests
  /\ None \notin Users /\ None \notin Groups
  /\ PacketTTL \in Nat \ {0} /\ TokenTTL \in Nat \ {0}
  /\ MaxTime \in Nat /\ MaxFaults \in Nat /\ MaxSwitches \in Nat
  /\ \A r \in Requests : r.tenant \in Tenants
  /\ IsFiniteSet(Nonces)                 \* what a process has handed out
  /\ InitialRecords = [t \in Targets |-> InitialRecords[t]]

VARIABLES
  now,        \* the clock
  packet,     \* approval_packets, by id
  token,      \* signed tokens handed out, by nonce
  spent,      \* consumed_tokens
  receipts,   \* receipts, each named by the nonce its transaction consumed
  dead,       \* dead_letters, named the same way
  kill,       \* kill_switches: active, and the clock when the row was written
  records,    \* SyntheticRecordAdapter.records, in memory
  calls,      \* the execute call each thread is in
  trail,      \* audit_events of each packet, in order
  effects,    \* how often each token's action changed the adapter's records
  faults      \* failed commits and restarts so far

vars == <<now, packet, token, spent, receipts, dead, kill, records, calls,
          trail, effects, faults>>
ledger == <<packet, token, spent, receipts, dead, kill, trail>>

NoPacket == [state |-> "absent", request |-> None, group |-> None,
             expires |-> 0, approver |-> None]
NoSwitch == [active |-> "unset", changed |-> 0]
NoToken  == [packet |-> None, expires |-> 0]
Idle     == [phase |-> "idle", nonce |-> None, request |-> None,
             user |-> None, at |-> 0]

Init ==
  /\ now = 0
  /\ packet = [p \in PacketIds |-> NoPacket]
  /\ token = [n \in Nonces |-> NoToken]
  /\ spent = {} /\ receipts = {} /\ dead = {}
  /\ kill = [t \in Tenants |-> [a \in Switches |-> NoSwitch]]
  /\ records = InitialRecords
  /\ calls = [c \in Callers |-> Idle]
  /\ trail = [p \in PacketIds |-> <<>>]
  /\ effects = [n \in Nonces |-> 0]
  /\ faults = 0

-----------------------------------------------------------------------------
InScope(r, ctx) == r.tenant = ctx.tenant /\ r.project \in ctx.projects

Authorized(r, ctx) ==
  /\ InScope(r, ctx)
  /\ r.initiator = ctx.user \/ "automation_approver" \in ctx.groups

\* Mutants of Audit: columns swapped; failures not audited.
AuditSwapped(p, event, user) ==
  [trail EXCEPT ![p] = Append(@, [type |-> user, actor |-> event])]
AuditSuccesses(p, event, user) ==
  IF event = "action_failed" THEN trail
  ELSE [trail EXCEPT ![p] = Append(@, [type |-> event, actor |-> user])]

Audit(p, event, user) ==
  [trail EXCEPT ![p] = Append(@, [type |-> event, actor |-> user])]

\* Mutant of Earlier: a token lives its own 15 minutes.
OwnLifetime(s, t) == s

Earlier(s, t) == IF s <= t THEN s ELSE t

(* The row read by ORDER BY action_type DESC LIMIT 1: the row of the       *)
(* action type itself when there is one, the tenant's '*' row otherwise.   *)
SwitchRow(tenant, type) ==
  IF kill[tenant][type] # NoSwitch THEN kill[tenant][type] ELSE kill[tenant]["*"]

\* Mutant of KillSwitchActive: '*' rows are not read.
OwnSwitchActive(tenant, type) == kill[tenant][type].active = "on"

KillSwitchActive(tenant, type) == SwitchRow(tenant, type).active = "on"

\* Mutant of AdapterRaises: the current record is not compared.
RaisesOnTarget(r) == r.target \in FailTargets \/ r.target \notin Targets

AdapterRaises(r) ==
  \/ r.target \in FailTargets
  \/ r.target \notin Targets
  \/ records[r.target] # r.expected

Updated(r) ==
  IF r.type = "tag" THEN [records[r.target] EXCEPT ![r.tag] = r.value]
                    ELSE r.record

-----------------------------------------------------------------------------
(* A packet exists for this key in the request's tenant and project.       *)
KeyTaken(r) ==
  \E p \in PacketIds : /\ packet[p].state # "absent"
                       /\ packet[p].request.tenant = r.tenant
                       /\ packet[p].request.project = r.project
                       /\ packet[p].request.key = r.key

Submit(ctx, r, g, p) ==
  /\ Authorized(r, ctx)
  /\ packet[p].state = "absent"
  /\ ~KeyTaken(r)
  /\ packet' = [packet EXCEPT ![p] =
       [state |-> "pending", request |-> r, group |-> g,
        expires |-> now + PacketTTL, approver |-> None]]
  /\ trail' = Audit(p, "approval_requested", ctx.user)
  /\ UNCHANGED <<now, token, spent, receipts, dead, kill, records, calls, effects, faults>>

\* Mutant of MayApprove: initiators approve their own actions.
InGroup(ctx, p) == packet[p].group \in ctx.groups

MayApprove(ctx, p) ==
  /\ ctx.user # packet[p].request.initiator
  /\ packet[p].group \in ctx.groups

(* A packet that is past its deadline is refused and stays pending: the    *)
(* UPDATE to EXPIRED is rolled back by the exception that tells the caller.*)
Approve(ctx, p) ==
  /\ packet[p].state = "pending"
  /\ InScope(packet[p].request, ctx)
  /\ now < packet[p].expires
  /\ MayApprove(ctx, p)
  /\ packet' = [packet EXCEPT ![p].state = "approved",
                              ![p].approver = ctx.user]
  /\ trail' = Audit(p, "approval_granted", ctx.user)
  /\ UNCHANGED <<now, token, spent, receipts, dead, kill, records, calls, effects, faults>>

(* issue looks only at the packet object its caller holds.  approve        *)
(* returned one in state APPROVED, and it still says so after the stored   *)
(* packet is consumed, so a token can be minted in both stored states.     *)
IssueToken(p, n) ==
  /\ packet[p].state \in {"approved", "consumed"}
  /\ token[n] = NoToken
  /\ token' = [token EXCEPT ![n] =
       [packet |-> p, expires |-> Earlier(now + TokenTTL, packet[p].expires)]]
  /\ UNCHANGED <<now, packet, spent, receipts, dead, kill, records, calls,
                 trail, effects, faults>>

Rows(t) == {a \in Switches : kill[t][a] # NoSwitch}

(* INSERT ... ON CONFLICT DO UPDATE.  The second conjunct is the bound.    *)
SetKillSwitch(ctx, a, active) ==
  /\ "automation_admin" \in ctx.groups
  /\ a \in Rows(ctx.tenant) \/ Cardinality(Rows(ctx.tenant)) < MaxSwitches
  /\ kill' = [kill EXCEPT ![ctx.tenant][a] =
       [active |-> IF active THEN "on" ELSE "off", changed |-> now]]
  /\ UNCHANGED <<now, packet, token, spent, receipts, dead, records, calls,
                 trail, effects, faults>>

-----------------------------------------------------------------------------
(* execute, up to its transaction.                                         *)
ExecuteBegin(c, ctx, r, n) ==
  /\ calls[c] = Idle
  /\ Authorized(r, ctx)
  /\ token[n] # NoToken
  /\ now < token[n].expires
  /\ ~KillSwitchActive(r.tenant, r.type)
  /\ packet[token[n].packet].request = r
  /\ calls' = [calls EXCEPT ![c] = [phase |-> "checked", nonce |-> n,
                 request |-> r, user |-> ctx.user, at |-> now]]
  /\ UNCHANGED <<now, packet, token, spent, receipts, dead, kill, records,
                 trail, effects, faults>>

Called(c) == token[calls[c].nonce].packet

\* Mutant of AlreadyExecuted: only receipts of the same project count.
ExecutedInProject(r) ==
  \E n \in receipts :
    /\ packet[token[n].packet].request.key = r.key
    /\ packet[token[n].packet].request.project = r.project

(* A receipt of any tenant or project carries the request's key.           *)
AlreadyExecuted(r) ==
  \E n \in receipts : packet[token[n].packet].request.key = r.key

\* Mutant of TokenAccepted: the packet's state is not read again.
TokenUnspent(c) ==
  /\ calls[c].nonce \notin spent
  /\ packet[Called(c)].request = calls[c].request

TokenAccepted(c) ==
  /\ calls[c].nonce \notin spent
  /\ packet[Called(c)].state = "approved"
  /\ packet[Called(c)].request = calls[c].request

\* Mutant of Executable: nothing is checked again inside the transaction.
StillBound(c) == packet[Called(c)].request = calls[c].request

Executable(c) == TokenAccepted(c) /\ ~AlreadyExecuted(calls[c].request)

Return(c) == calls' = [calls EXCEPT ![c] = Idle]

\* Mutant of Consumed: the packet can be approved again.
GivenBack(p) == [packet EXCEPT ![p].state = "pending"]

Consumed(p) == [packet EXCEPT ![p].state = "consumed"]

Apply(c) ==
  /\ records' = [records EXCEPT ![calls[c].request.target] =
                                                   Updated(calls[c].request)]
  /\ effects' = [effects EXCEPT ![calls[c].nonce] = @ + 1]

ExecuteSucceed(c) ==
  /\ calls[c].phase = "checked"
  /\ Executable(c)
  /\ ~AdapterRaises(calls[c].request)
  /\ Apply(c)
  /\ spent' = spent \cup {calls[c].nonce}
  /\ receipts' = receipts \cup {calls[c].nonce}
  /\ packet' = Consumed(Called(c))
  /\ trail' = Audit(Called(c), "action_succeeded", calls[c].user)
  /\ Return(c)
  /\ UNCHANGED <<now, token, dead, kill, faults>>

ExecuteDeadLetter(c) ==
  /\ calls[c].phase = "checked"
  /\ Executable(c)
  /\ AdapterRaises(calls[c].request)
  /\ spent' = spent \cup {calls[c].nonce}
  /\ dead' = dead \cup {calls[c].nonce}
  /\ packet' = Consumed(Called(c))
  /\ trail' = Audit(Called(c), "action_failed", calls[c].user)
  /\ Return(c)
  /\ UNCHANGED <<now, token, receipts, kill, records, effects, faults>>

ExecuteReject(c) ==
  /\ calls[c].phase = "checked"
  /\ ~Executable(c)
  /\ Return(c)
  /\ UNCHANGED <<now, ledger, records, effects, faults>>

(* A statement or the commit fails after the adapter ran: the transaction  *)
(* rolls back, the in-memory record keeps the adapter's change.            *)
ExecuteCommitFails(c) ==
  /\ faults < MaxFaults
  /\ calls[c].phase = "checked"
  /\ Executable(c)
  /\ IF AdapterRaises(calls[c].request) THEN UNCHANGED <<records, effects>>
                                        ELSE Apply(c)
  /\ Return(c)
  /\ faults' = faults + 1
  /\ UNCHANGED <<now, ledger>>

(* The process ends and starts again: calls are lost, the adapter reloads  *)
(* its fixture, the store is the file it left behind.                      *)
Restart ==
  /\ faults < MaxFaults
  /\ calls' = [c \in Callers |-> Idle]
  /\ records' = InitialRecords
  /\ effects' = [n \in Nonces |-> 0]
  /\ faults' = faults + 1
  /\ UNCHANGED <<now, ledger>>

Tick ==
  /\ now < MaxTime
  /\ now' = now + 1
  /\ UNCHANGED <<ledger, records, calls, effects, faults>>

Next ==
  \/ \E ctx \in Contexts, r \in Requests, g \in Groups, p \in PacketIds :
       Submit(ctx, r, g, p)
  \/ \E ctx \in Contexts, p \in PacketIds : Approve(ctx, p)
  \/ \E p \in PacketIds, n \in Nonces : IssueToken(p, n)
  \/ \E ctx \in Contexts, a \in Switches, active \in BOOLEAN :
       SetKillSwitch(ctx, a, active)
  \/ \E c \in Callers, ctx \in Contexts, r \in Requests, n \in Nonces :
       ExecuteBegin(c, ctx, r, n)
  \/ \E c \in Callers : ExecuteSucceed(c)
  \/ \E c \in Callers : ExecuteDeadLetter(c)
  \/ \E c \in Callers : ExecuteReject(c)
  \/ \E c \in Callers : ExecuteCommitFails(c)
  \/ Restart
  \/ Tick

Spec == Init /\ [][Next]_vars

-----------------------------------------------------------------------------
(* Properties.                                                             *)

RequestOf(n) == packet[token[n].packet].request
Issued       == {n \in Nonces : token[n] # NoToken}

PacketType == [state : States, request : Requests \cup {None},
               group : Groups \cup {None}, expires : Times,
               approver : Users \cup {None}]
TokenType  == [packet : PacketIds \cup {None}, expires : Times]
CallType   == [phase : {"idle", "checked"}, nonce : Nonces \cup {None},
               request : Requests \cup {None}, user : Users \cup {None},
               at : 0..MaxTime]
SwitchType == [active : {"unset", "on", "off"}, changed : 0..MaxTime]

(* Every table of the store and every in-flight call keeps its columns.    *)
TypeOK ==
  /\ now \in 0..MaxTime
  /\ packet \in [PacketIds -> PacketType]
  /\ token \in [Nonces -> TokenType]
  /\ spent \subseteq Nonces /\ receipts \subseteq Nonces /\ dead \subseteq Nonces
  /\ kill \in [Tenants -> [Switches -> SwitchType]]
  /\ calls \in [Callers -> CallType]
  /\ trail \in [PacketIds -> Seq([type : EventTypes, actor : Users])]
  /\ effects \in [Nonces -> Nat]
  /\ faults \in 0..MaxFaults

(* One approval buys one outcome: whatever tokens were minted for a packet *)
(* and however the calls that carry them interleave, a packet is consumed  *)
(* exactly when one of its tokens is spent, that token has a receipt or a  *)
(* dead letter but not both, and no second token of it is ever spent.      *)
OneOutcome ==
  /\ spent = receipts \cup dead
  /\ receipts \cap dead = {}
  /\ \A p \in PacketIds : packet[p].state = "consumed" <=>
                            \E n \in spent : token[n].packet = p
  /\ \A m, n \in spent : token[m].packet = token[n].packet => m = n

(* receipts.idempotency_key is UNIQUE over all tenants and projects, and   *)
(* its row is inserted after the adapter has run: the insert must never be *)
(* the statement that finds the duplicate.                                 *)
ReceiptKeysUnique ==
  \A m, n \in receipts : RequestOf(m).key = RequestOf(n).key => m = n

(* Every outcome rests on an approval by someone other than the initiator, *)
(* who belongs to the group the submitter named and to the tenant and      *)
(* project of the request, and the approver is the actor of the audit row. *)
ApprovedByAnother ==
  \A n \in Issued : LET pk == packet[token[n].packet] IN
    /\ pk.approver # pk.request.initiator
    /\ trail[token[n].packet][2].actor = pk.approver
    /\ \E ctx \in Contexts : /\ ctx.user = pk.approver
                             /\ pk.group \in ctx.groups
                             /\ InScope(pk.request, ctx)

(* A call that has passed its checks began before its packet expired: the  *)
(* 15-minute token never outlives the 4-hour approval it came from.        *)
StartedBeforeExpiry ==
  \A c \in Callers : calls[c].phase = "checked" =>
                       calls[c].at < packet[Called(c)].expires

(* The time at which the row of switch a was written, for a call that is   *)
(* past its checks, was not before the call began.  (changed_at itself may *)
(* be older: its clock is read before the lock is awaited.)                *)
BeganBefore(c, a) ==
  LET row == kill[calls[c].request.tenant][a]
  IN  row.active = "on" => calls[c].at <= row.changed

(* A kill switch of an action type that is on lets through only calls that *)
(* had begun before its row was written, whatever was switched on and off  *)
(* while they waited.  So does the '*' switch of a tenant, but only for    *)
(* types that have no row of their own: see TenantSwitchHolds.             *)
OnlyStragglers ==
  \A c \in Callers : calls[c].phase = "checked" =>
    LET r == calls[c].request
    IN  /\ BeganBefore(c, r.type)
        /\ BeganBefore(c, "*") \/ kill[r.tenant][r.type] # NoSwitch

(* The audit rows of a packet tell its state: who asked, who granted, and  *)
(* one final row that agrees with the receipt or the dead letter.          *)
TrailTellsState ==
  \A p \in PacketIds :
    LET kinds   == [i \in DOMAIN trail[p] |-> trail[p][i].type]
        of(set) == \E n \in set : token[n].packet = p
        ended(how) == <<"approval_requested", "approval_granted", how>>
    IN  /\ packet[p].state = "absent"   => kinds = <<>>
        /\ packet[p].state = "pending"  => kinds = <<"approval_requested">>
        /\ packet[p].state = "approved" => kinds = <<"approval_requested", "approval_granted">>
        /\ packet[p].state = "consumed" =>
             \/ of(receipts) /\ kinds = ended("action_succeeded")
             \/ of(dead)     /\ kinds = ended("action_failed")
        /\ packet[p].state # "expired"

Total(w, S) == MapThenSumSet(LAMBDA n : w[n], S)

(* A token changes the adapter's records once when it has a receipt and    *)
(* never when it has none; each failed commit may leave one change that no *)
(* receipt or audit row accounts for, and nothing else can.                *)
EffectsAccounted ==
  /\ Total(effects, Nonces) <= Cardinality(receipts) + faults
  /\ faults = 0 => \A n \in Nonces : effects[n] = (IF n \in receipts THEN 1 ELSE 0)

(* The record an action turns the one it expects into, the tokens that     *)
(* changed a target since the adapter was loaded, and how much more often  *)
(* each of them made it v than it made v something else.                   *)
After(r) == IF r.type = "tag" THEN [r.expected EXCEPT ![r.tag] = r.value]
                              ELSE r.record
Done(t)   == {n \in Issued : effects[n] > 0 /\ RequestOf(n).target = t}
One(b)    == IF b THEN 1 ELSE 0
Net(t, v) == [n \in Done(t) |-> effects[n] *
                (One(After(RequestOf(n)) = v) - One(RequestOf(n).expected = v))]

(* The changes made to a target since the adapter was loaded form one      *)
(* unbroken chain from its initial record to its current one: no action    *)
(* overwrote a record it did not expect.  Stated as a balance: every value *)
(* is entered as often as it is left, but for the two ends of the chain.   *)
EffectsChain ==
  \A t \in Targets :
    \A v \in {records[t], InitialRecords[t]} \cup {RequestOf(n).expected : n \in Done(t)}
             \cup {After(RequestOf(n)) : n \in Done(t)} :
      Total(Net(t, v), Done(t)) = One(records[t] = v) - One(InitialRecords[t] = v)

(* The service as its users see it: how far each packet has come, and      *)
(* which packets have changed the adapter's records since it was loaded.   *)
StageOf(p) ==
  IF packet[p].state = "absent" THEN "none"
  ELSE IF packet[p].state = "approved" THEN "granted"
  ELSE IF packet[p].state # "consumed" THEN "asked"
  ELSE IF \E n \in receipts : token[n].packet = p THEN "done" ELSE "given up"

KeyOf(p) == IF packet[p].state = "absent" THEN None ELSE packet[p].request.key

StageMap  == [p \in PacketIds |-> StageOf(p)]
KeyMap    == [p \in PacketIds |-> KeyOf(p)]
Changed   == {n \in Nonces : effects[n] > 0}
Performed == {token[n].packet : n \in Changed}

Gated == INSTANCE GatedAction WITH
  Packets   <- PacketIds,
  Keys      <- {r.key : r \in Requests},
  stage     <- StageMap,
  key       <- KeyMap,
  performed <- Performed

(* Every run of the service is a run of GatedAction: nothing is performed  *)
(* ungranted, a packet is settled once, one key is recorded as done once,  *)
(* and what a packet changed is recorded, but for the faults it counts.    *)
ImplementsGatedAction == Gated!Spec

-----------------------------------------------------------------------------
(* What the repository says and the code does not do.                      *)

(* Execution is disabled for a workflow or tenant: while the switch of its *)
(* type or of its whole tenant is on, no call is let through but those     *)
(* that had begun before.                                                  *)
TenantSwitchHolds ==
  \A c \in Callers : calls[c].phase = "checked" =>
    BeganBefore(c, calls[c].request.type) /\ BeganBefore(c, "*")

=============================================================================
