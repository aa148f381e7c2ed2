------------------------- MODULE ActionControlProofs -------------------------
(***************************************************************************)
(* Proofs that the service of ActionControl keeps its tables well formed,  *)
(* settles every packet at most once whatever tokens and calls exist,      *)
(* admits no call after its approval expired, accounts for every effect    *)
(* and every value of a record, and implements GatedAction while no commit *)
(* fails, for all sets of requests, users, packets, tokens and threads,    *)
(* and for any number of failed commits and restarts.                      *)
(***************************************************************************)
EXTENDS ActionControl, TLAPS, FiniteSetTheorems, WellFoundedInduction

(* The earlier of two times is one of them and no later than either.       *)
LEMMA EarlierType ==
  ASSUME NEW s \in Nat, NEW t \in Nat
  PROVE  Earlier(s, t) \in {s, t} /\ Earlier(s, t) <= t
BY DEF Earlier

(* An audit row extends one packet's trail and keeps it well formed.       *)
LEMMA AuditType ==
  ASSUME TypeOK, NEW p \in PacketIds, NEW e \in EventTypes, NEW u \in Users
  PROVE  Audit(p, e, u) \in [PacketIds -> Seq([type : EventTypes, actor : Users])]
<1> DEFINE E == [type : EventTypes, actor : Users]
<1>1. trail \in [PacketIds -> Seq(E)]
  BY DEF TypeOK
<1>2. [type |-> e, actor |-> u] \in E
  OBVIOUS
<1> HIDE DEF E
<1>3. Append(trail[p], [type |-> e, actor |-> u]) \in Seq(E)
  BY <1>1, <1>2
<1>4. Audit(p, e, u) \in [PacketIds -> Seq(E)]
  BY <1>1, <1>3 DEF Audit
<1> QED  BY <1>4 DEF E

(* A packet that exists carries a submitted request; a token that was      *)
(* issued names an approved packet and expires no later than it.           *)
PacketInv ==
  \A p \in PacketIds : packet[p].state # "absent" => packet[p].request \in Requests

TokenInv ==
  \A n \in Nonces : token[n] # NoToken =>
    /\ token[n].packet \in PacketIds
    /\ packet[token[n].packet].state \in {"approved", "consumed"}
    /\ token[n].expires <= packet[token[n].packet].expires

(* A call past its checks carries an issued token, the request of the      *)
(* token's packet, a known user, and a start before the token's expiry.    *)
CallInv ==
  \A c \in Callers : calls[c].phase = "checked" =>
    /\ calls[c].nonce \in Nonces
    /\ token[calls[c].nonce] # NoToken
    /\ calls[c].request \in Requests
    /\ calls[c].request = packet[Called(c)].request
    /\ calls[c].user \in Users
    /\ calls[c].at < token[calls[c].nonce].expires

SpentInv == \A n \in spent : token[n] # NoToken

(* The strengthening of OneOutcome and the rest that every step preserves. *)
IInv == TypeOK /\ PacketInv /\ TokenInv /\ CallInv /\ SpentInv
          /\ OneOutcome /\ ReceiptKeysUnique

(* The initial state satisfies the invariant.                              *)
LEMMA InitIInv == Init => IInv
BY ConstantsAssumption
   DEF Init, IInv, TypeOK, PacketInv, TokenInv, CallInv, SpentInv, OneOutcome,
       ReceiptKeysUnique, PacketType, TokenType, SwitchType, CallType, Times,
       NoPacket, NoToken, NoSwitch, Idle, States, Issued, RequestOf

(* What a step that ends a call needs to know of the call it ends.         *)
LEMMA CallFacts ==
  ASSUME IInv, NEW c \in Callers, calls[c].phase = "checked"
  PROVE  /\ calls[c].nonce \in Nonces
         /\ Called(c) \in PacketIds
         /\ calls[c].user \in Users
         /\ calls[c].request \in Requests
         /\ calls[c].request = packet[Called(c)].request
         /\ packet[Called(c)].state \in {"approved", "consumed"}
BY DEF IInv, CallInv, TokenInv, Called

(* Type correctness, one step per action.                                  *)
LEMMA StepTypeOK == IInv /\ [Next]_vars => TypeOK'
<1> SUFFICES ASSUME IInv, [Next]_vars PROVE TypeOK'
  OBVIOUS
<1> USE ConstantsAssumption
<1>0. TypeOK
  BY DEF IInv
<1>1. ASSUME NEW ctx \in Contexts, NEW r \in Requests, NEW g \in Groups,
             NEW p \in PacketIds, Submit(ctx, r, g, p)
      PROVE  TypeOK'
  <2>1. now + PacketTTL \in Times
    BY <1>0 DEF TypeOK, Times
  <2>2. packet' \in [PacketIds -> PacketType]
    BY <1>0, <1>1, <2>1 DEF Submit, TypeOK, PacketType, States
  <2>3. trail' \in [PacketIds -> Seq([type : EventTypes, actor : Users])]
    BY <1>0, <1>1, AuditType DEF Submit, EventTypes, Users
  <2> QED  BY <1>0, <1>1, <2>2, <2>3 DEF Submit, TypeOK
<1>2. ASSUME NEW ctx \in Contexts, NEW p \in PacketIds, Approve(ctx, p)
      PROVE  TypeOK'
  <2>1. ctx.user \in Users
    BY DEF Users
  <2>2. packet' \in [PacketIds -> PacketType]
    <3> DEFINE new == [packet[p] EXCEPT !.state = "approved",
                                        !.approver = ctx.user]
    <3>1. packet[p] \in PacketType
      BY <1>0 DEF TypeOK
    <3>2. new \in PacketType
      BY <2>1, <3>1 DEF PacketType, States
    <3>3. packet' = [packet EXCEPT ![p] = new]
      BY <1>2 DEF Approve
    <3> QED  BY <1>0, <3>2, <3>3 DEF TypeOK
  <2>3. trail' \in [PacketIds -> Seq([type : EventTypes, actor : Users])]
    BY <1>0, <1>2, <2>1, AuditType DEF Approve, EventTypes
  <2> QED  BY <1>0, <1>2, <2>2, <2>3 DEF Approve, TypeOK
<1>4. ASSUME NEW p \in PacketIds, NEW n \in Nonces, IssueToken(p, n)
      PROVE  TypeOK'
  <2>1. packet[p].expires \in Times
    BY <1>0 DEF TypeOK, PacketType
  <2>2. now + TokenTTL \in Nat /\ packet[p].expires \in Nat
    BY <1>0, <2>1 DEF TypeOK, Times
  <2>3. Earlier(now + TokenTTL, packet[p].expires) \in Times
    <3>1. now + TokenTTL \in Times
      BY <1>0 DEF TypeOK, Times
    <3> QED  BY <2>1, <2>2, <3>1 DEF Earlier
  <2>4. token' \in [Nonces -> TokenType]
    BY <1>0, <1>4, <2>3 DEF IssueToken, TypeOK, TokenType
  <2> QED  BY <1>0, <1>4, <2>4 DEF IssueToken, TypeOK
<1>5. ASSUME NEW ctx \in Contexts, NEW a \in Switches, NEW active \in BOOLEAN,
             SetKillSwitch(ctx, a, active)
      PROVE  TypeOK'
  <2>1. ctx.tenant \in Tenants
    BY DEF Tenants
  <2>2. kill' \in [Tenants -> [Switches -> SwitchType]]
    BY <1>0, <1>5, <2>1 DEF SetKillSwitch, TypeOK, SwitchType
  <2> QED  BY <1>0, <1>5, <2>2 DEF SetKillSwitch, TypeOK
<1>6. ASSUME NEW c \in Callers, NEW ctx \in Contexts, NEW r \in Requests,
             NEW n \in Nonces, ExecuteBegin(c, ctx, r, n)
      PROVE  TypeOK'
  <2>1. ctx.user \in Users
    BY DEF Users
  <2>2. calls' \in [Callers -> CallType]
    BY <1>0, <1>6, <2>1 DEF ExecuteBegin, TypeOK, CallType
  <2> QED  BY <1>0, <1>6, <2>2 DEF ExecuteBegin, TypeOK
<1>7. ASSUME NEW c \in Callers
      PROVE  [calls EXCEPT ![c] = Idle] \in [Callers -> CallType]
  BY <1>0 DEF TypeOK, CallType, Idle
<1>8. ASSUME NEW p \in PacketIds
      PROVE  Consumed(p) \in [PacketIds -> PacketType]
  <2>1. packet[p] \in PacketType
    BY <1>0 DEF TypeOK
  <2>2. [packet[p] EXCEPT !.state = "consumed"] \in PacketType
    BY <2>1 DEF PacketType, States
  <2> QED  BY <1>0, <2>2 DEF TypeOK, Consumed
<1>9. ASSUME NEW n \in Nonces
      PROVE  [effects EXCEPT ![n] = @ + 1] \in [Nonces -> Nat]
  BY <1>0 DEF TypeOK
<1>10. ASSUME NEW c \in Callers, ExecuteSucceed(c)
       PROVE  TypeOK'
  <2>1. calls[c].phase = "checked"
    BY <1>10 DEF ExecuteSucceed
  <2>2. trail' \in [PacketIds -> Seq([type : EventTypes, actor : Users])]
    BY <1>0, <1>10, <2>1, CallFacts, AuditType DEF ExecuteSucceed, EventTypes
  <2>3. packet' \in [PacketIds -> PacketType] /\ calls' \in [Callers -> CallType]
    BY <1>7, <1>8, <1>10, <2>1, CallFacts DEF ExecuteSucceed, Return
  <2>4. effects' \in [Nonces -> Nat]
    BY <1>9, <1>10, <2>1, CallFacts DEF ExecuteSucceed, Apply
  <2> QED
    BY <1>0, <1>10, <2>1, <2>2, <2>3, <2>4, CallFacts DEF ExecuteSucceed, TypeOK
<1>11. ASSUME NEW c \in Callers, ExecuteDeadLetter(c)
       PROVE  TypeOK'
  <2>1. calls[c].phase = "checked"
    BY <1>11 DEF ExecuteDeadLetter
  <2>2. trail' \in [PacketIds -> Seq([type : EventTypes, actor : Users])]
    BY <1>0, <1>11, <2>1, CallFacts, AuditType DEF ExecuteDeadLetter, EventTypes
  <2>3. packet' \in [PacketIds -> PacketType] /\ calls' \in [Callers -> CallType]
    BY <1>7, <1>8, <1>11, <2>1, CallFacts DEF ExecuteDeadLetter, Return
  <2> QED
    BY <1>0, <1>11, <2>1, <2>2, <2>3, CallFacts DEF ExecuteDeadLetter, TypeOK
<1>12. ASSUME NEW c \in Callers, ExecuteReject(c)
       PROVE  TypeOK'
  BY <1>0, <1>7, <1>12 DEF ExecuteReject, Return, TypeOK, ledger
<1>13. ASSUME NEW c \in Callers, ExecuteCommitFails(c)
       PROVE  TypeOK'
  <2>1. calls[c].nonce \in Nonces
    BY <1>13, CallFacts DEF ExecuteCommitFails
  <2>2. effects' \in [Nonces -> Nat]
    BY <1>0, <1>9, <1>13, <2>1 DEF ExecuteCommitFails, Apply, TypeOK
  <2>3. faults' \in 0..MaxFaults
    BY <1>0, <1>13 DEF ExecuteCommitFails, TypeOK
  <2> QED
    BY <1>0, <1>7, <1>13, <2>2, <2>3 DEF ExecuteCommitFails, Return, TypeOK, ledger
<1>14. CASE Restart
  <2>1. faults' \in 0..MaxFaults
    BY <1>0, <1>14 DEF Restart, TypeOK
  <2>2. calls' \in [Callers -> CallType] /\ effects' \in [Nonces -> Nat]
    BY <1>14 DEF Restart, CallType, Idle
  <2> QED  BY <1>0, <1>14, <2>1, <2>2 DEF Restart, TypeOK, ledger
<1>15. CASE Tick
  <2>1. now' \in 0..MaxTime
    BY <1>0, <1>15 DEF Tick, TypeOK
  <2> QED  BY <1>0, <1>15, <2>1 DEF Tick, TypeOK, ledger
<1>16. CASE UNCHANGED vars
  BY <1>0, <1>16 DEF vars, TypeOK
<1> QED
  BY <1>1, <1>2, <1>4, <1>5, <1>6, <1>10, <1>11, <1>12, <1>13, <1>14,
     <1>15, <1>16 DEF Next

(* OneOutcome and ReceiptKeysUnique look only at these.                    *)
LEMMA OutcomesFramed ==
  ASSUME IInv, UNCHANGED <<token, spent, receipts, dead>>,
         \A p \in PacketIds : packet'[p].state = "consumed" <=>
                                packet[p].state = "consumed",
         \A n \in spent : packet'[token[n].packet].request =
                            packet[token[n].packet].request
  PROVE  OneOutcome' /\ ReceiptKeysUnique' /\ SpentInv'
BY DEF IInv, OneOutcome, ReceiptKeysUnique, SpentInv, RequestOf

(* A step that leaves the ledgers and the calls alone, or only ends a call *)
(* in a way that keeps CallInv, keeps the rest of the invariant.           *)
LEMMA LedgerFramed ==
  ASSUME IInv, UNCHANGED <<packet, token, spent, receipts, dead>>
  PROVE  /\ PacketInv' /\ TokenInv' /\ SpentInv' /\ OneOutcome'
         /\ ReceiptKeysUnique'
         /\ UNCHANGED calls => CallInv'
<1>1. PacketInv' /\ TokenInv'
  BY DEF IInv, PacketInv, TokenInv
<1>2. SpentInv' /\ OneOutcome' /\ ReceiptKeysUnique'
  BY DEF IInv, SpentInv, OneOutcome, ReceiptKeysUnique, RequestOf
<1>3. UNCHANGED calls => CallInv'
  BY DEF IInv, CallInv, Called
<1> QED  BY <1>1, <1>2, <1>3

(* Ending a call leaves the other calls as they were.                      *)
LEMMA ReturnFramed ==
  ASSUME IInv, NEW c \in Callers, Return(c), UNCHANGED token,
         \A p \in PacketIds : packet'[p].request = packet[p].request
  PROVE  CallInv'
BY DEF IInv, CallInv, TokenInv, TypeOK, Return, Idle, Called

(* An execute transaction that settles the packet of a call, and enters    *)
(* the call's nonce in one of the two ledgers, keeps the invariant.        *)
LEMMA SettleInv ==
  ASSUME IInv, NEW c \in Callers, calls[c].phase = "checked", Executable(c),
         packet' = Consumed(Called(c)), spent' = spent \cup {calls[c].nonce},
         \/ receipts' = receipts \cup {calls[c].nonce} /\ UNCHANGED dead
         \/ dead' = dead \cup {calls[c].nonce} /\ UNCHANGED receipts,
         Return(c), UNCHANGED token
  PROVE  PacketInv' /\ TokenInv' /\ CallInv' /\ SpentInv' /\ OneOutcome'
           /\ ReceiptKeysUnique'
<1> DEFINE n == calls[c].nonce  p == Called(c)
<1>1. n \in Nonces /\ p \in PacketIds /\ p = token[n].packet
  BY CallFacts DEF Called
<1>2. /\ packet[p].state = "approved" /\ n \notin spent
      /\ calls[c].request = packet[p].request
      /\ ~AlreadyExecuted(calls[c].request)
  BY DEF Executable, TokenAccepted
<1>3. packet \in [PacketIds -> PacketType]
  BY DEF IInv, TypeOK
<1>4. \A q \in PacketIds : /\ packet'[q].request = packet[q].request
                           /\ packet'[q].expires = packet[q].expires
                           /\ packet'[q].state =
                                IF q = p THEN "consumed" ELSE packet[q].state
  BY <1>1, <1>3 DEF Consumed, PacketType
<1>5. PacketInv'
  BY <1>1, <1>2, <1>4 DEF IInv, PacketInv
<1>6. TokenInv'
  BY <1>4 DEF IInv, TokenInv
<1>7. CallInv'
  BY <1>4, ReturnFramed
<1>8. SpentInv'
  BY CallFacts DEF IInv, SpentInv, CallInv
<1>9. OneOutcome'
  <2>1. \A m \in spent : token[m].packet # p
    BY <1>1, <1>2 DEF IInv, OneOutcome
  <2>2. spent' = receipts' \cup dead' /\ receipts' \cap dead' = {}
    BY <1>2 DEF IInv, OneOutcome
  <2>3. \A q \in PacketIds : packet'[q].state = "consumed" <=>
                               \E m \in spent' : token'[m].packet = q
    <3> SUFFICES ASSUME NEW q \in PacketIds
                 PROVE  packet'[q].state = "consumed" <=>
                          \E m \in spent' : token'[m].packet = q
      OBVIOUS
    <3>1. CASE q = p
      BY <1>1, <1>4, <3>1
    <3>2. CASE q # p
      <4>1. packet[q].state = "consumed" <=> \E m \in spent : token[m].packet = q
        BY DEF IInv, OneOutcome
      <4> QED  BY <1>1, <1>4, <3>2, <4>1
    <3> QED  BY <3>1, <3>2
  <2>4. \A l, m \in spent' : token'[l].packet = token'[m].packet => l = m
    BY <1>1, <2>1 DEF IInv, OneOutcome
  <2> QED  BY <2>2, <2>3, <2>4 DEF OneOutcome
<1>10. ReceiptKeysUnique'
  <2>1. \A m \in receipts : RequestOf(m).key # packet[p].request.key
    BY <1>2 DEF AlreadyExecuted, RequestOf
  <2>2. \A m \in receipts \cup {n} : m \in Nonces /\ token[m].packet \in PacketIds
    BY <1>1 DEF IInv, TypeOK, OneOutcome, SpentInv, TokenInv
  <2>3. \A m \in receipts \cup {n} : RequestOf(m)' = RequestOf(m)
    BY <1>4, <2>2 DEF RequestOf
  <2>4. receipts' \subseteq receipts \cup {n}
    OBVIOUS
  <2>5. RequestOf(n) = packet[p].request
    BY <1>1 DEF RequestOf
  <2> QED
    BY <2>1, <2>3, <2>4, <2>5 DEF IInv, ReceiptKeysUnique
<1> QED  BY <1>5, <1>6, <1>7, <1>8, <1>9, <1>10

(* The strengthened invariant, one step per action.                        *)
LEMMA StepIInv == IInv /\ [Next]_vars => IInv'
<1> SUFFICES ASSUME IInv, [Next]_vars PROVE IInv'
  OBVIOUS
<1> USE ConstantsAssumption
<1>0. TypeOK /\ TypeOK'
  BY StepTypeOK DEF IInv
<1> DEFINE Rest == PacketInv /\ TokenInv /\ CallInv /\ SpentInv /\ OneOutcome
                     /\ ReceiptKeysUnique
<1>a. /\ packet \in [PacketIds -> PacketType] /\ token \in [Nonces -> TokenType]
      /\ spent \subseteq Nonces /\ calls \in [Callers -> CallType]
  BY <1>0 DEF TypeOK
<1>b. \A n \in spent : token[n].packet \in PacketIds
  BY <1>a DEF IInv, SpentInv, TokenInv
<1>1. ASSUME NEW ctx \in Contexts, NEW r \in Requests, NEW g \in Groups,
             NEW p \in PacketIds, Submit(ctx, r, g, p)
      PROVE  Rest'
  <2>1. \A q \in PacketIds : q # p => packet'[q] = packet[q]
    BY <1>1, <1>a DEF Submit
  <2>2. /\ packet[p].state = "absent" /\ packet'[p].state = "pending"
        /\ packet'[p].request = r
    BY <1>1, <1>a DEF Submit
  <2>3. UNCHANGED <<token, spent, receipts, dead, calls>>
    BY <1>1 DEF Submit
  <2>4. PacketInv' /\ TokenInv'
    BY <2>1, <2>2, <2>3 DEF IInv, PacketInv, TokenInv
  <2>5. CallInv'
    BY <2>1, <2>2, <2>3 DEF IInv, CallInv, TokenInv, Called
  <2>6. \A n \in spent : token[n].packet # p
    BY <2>2, <1>a DEF IInv, SpentInv, TokenInv
  <2> QED  BY <1>b, <2>1, <2>2, <2>3, <2>4, <2>5, <2>6, OutcomesFramed
<1>2. ASSUME NEW ctx \in Contexts, NEW p \in PacketIds, Approve(ctx, p)
      PROVE  Rest'
  <2>1. \A q \in PacketIds : /\ packet'[q].request = packet[q].request
                             /\ packet'[q].expires = packet[q].expires
                             /\ packet'[q].state =
                                  IF q = p THEN "approved" ELSE packet[q].state
    BY <1>2, <1>a DEF Approve, PacketType
  <2>2. packet[p].state = "pending" /\ UNCHANGED <<token, spent, receipts, dead, calls>>
    BY <1>2 DEF Approve
  <2>3. PacketInv' /\ TokenInv'
    BY <2>1, <2>2 DEF IInv, PacketInv, TokenInv
  <2>4. CallInv'
    BY <2>1, <2>2 DEF IInv, CallInv, TokenInv, Called
  <2> QED  BY <1>b, <2>1, <2>2, <2>3, <2>4, OutcomesFramed
<1>4. ASSUME NEW p \in PacketIds, NEW n \in Nonces, IssueToken(p, n)
      PROVE  Rest'
  <2>1. \A m \in Nonces : m # n => token'[m] = token[m]
    BY <1>4, <1>a DEF IssueToken
  <2>2. /\ token[n] = NoToken /\ token'[n] # NoToken
        /\ token'[n].packet = p
        /\ token'[n].expires = Earlier(now + TokenTTL, packet[p].expires)
    BY <1>4, <1>a DEF IssueToken, NoToken
  <2>3. /\ packet[p].state \in {"approved", "consumed"}
        /\ UNCHANGED <<packet, spent, receipts, dead, calls>>
    BY <1>4 DEF IssueToken
  <2>4. token'[n].expires <= packet[p].expires
    <3>1. now + TokenTTL \in Nat /\ packet[p].expires \in Nat
      BY <1>0, <1>a DEF TypeOK, PacketType, Times
    <3> QED  BY <2>2, <3>1, EarlierType
  <2>5. PacketInv' /\ TokenInv'
    BY <2>1, <2>2, <2>3, <2>4 DEF IInv, PacketInv, TokenInv
  <2>6. CallInv'
    BY <2>1, <2>2, <2>3 DEF IInv, CallInv, Called
  <2>7. n \notin spent
    BY <2>2 DEF IInv, SpentInv
  <2>8. SpentInv' /\ OneOutcome'
    BY <1>a, <2>1, <2>3, <2>7 DEF IInv, SpentInv, OneOutcome
  <2>9. ReceiptKeysUnique'
    BY <1>a, <2>1, <2>3, <2>7 DEF IInv, OneOutcome, ReceiptKeysUnique, RequestOf
  <2> QED  BY <2>5, <2>6, <2>8, <2>9
<1>5. ASSUME NEW ctx \in Contexts, NEW a \in Switches, NEW active \in BOOLEAN,
             SetKillSwitch(ctx, a, active)
      PROVE  Rest'
  BY <1>5, LedgerFramed DEF SetKillSwitch
<1>6. ASSUME NEW c \in Callers, NEW ctx \in Contexts, NEW r \in Requests,
             NEW n \in Nonces, ExecuteBegin(c, ctx, r, n)
      PROVE  Rest'
  <2>1. UNCHANGED <<packet, token, spent, receipts, dead>>
    BY <1>6 DEF ExecuteBegin
  <2>2. CallInv'
    <3>1. /\ token[n] # NoToken /\ now < token[n].expires
          /\ packet[token[n].packet].request = r /\ ctx.user \in Users
      BY <1>6 DEF ExecuteBegin, Users
    <3>2. \A d \in Callers : d # c => calls'[d] = calls[d]
      BY <1>6, <1>a DEF ExecuteBegin
    <3>3. /\ calls'[c].nonce = n /\ calls'[c].request = r
          /\ calls'[c].user = ctx.user /\ calls'[c].at = now
      BY <1>6, <1>a DEF ExecuteBegin
    <3> QED  BY <2>1, <3>1, <3>2, <3>3 DEF IInv, CallInv, Called
  <2> QED  BY <2>1, <2>2, LedgerFramed
<1>7. ASSUME NEW c \in Callers, ExecuteSucceed(c)
      PROVE  Rest'
  BY <1>7, SettleInv DEF ExecuteSucceed
<1>8. ASSUME NEW c \in Callers, ExecuteDeadLetter(c)
      PROVE  Rest'
  BY <1>8, SettleInv DEF ExecuteDeadLetter
<1>9. ASSUME NEW c \in Callers, Return(c), UNCHANGED ledger
      PROVE  Rest'
  <2>1. CallInv'
    BY <1>9, ReturnFramed DEF ledger
  <2> QED  BY <1>9, <2>1, LedgerFramed DEF ledger
<1>10. ASSUME NEW c \in Callers, ExecuteReject(c)
       PROVE  Rest'
  BY <1>9, <1>10 DEF ExecuteReject
<1>11. ASSUME NEW c \in Callers, ExecuteCommitFails(c)
       PROVE  Rest'
  BY <1>9, <1>11 DEF ExecuteCommitFails
<1>12. ASSUME Restart PROVE Rest'
  <2>1. CallInv'
    BY <1>12 DEF Restart, CallInv, Idle
  <2> QED  BY <1>12, <2>1, LedgerFramed DEF Restart, ledger
<1>13. ASSUME Tick PROVE Rest'
  BY <1>13, LedgerFramed DEF Tick, ledger
<1>14. ASSUME UNCHANGED vars PROVE Rest'
  BY <1>14, LedgerFramed DEF vars
<1> HIDE DEF Rest
<1>15. Rest'
  BY <1>1, <1>2, <1>4, <1>5, <1>6, <1>7, <1>8, <1>10, <1>11, <1>12,
     <1>13, <1>14 DEF Next
<1> QED  BY <1>0, <1>15 DEF IInv, Rest

(* The invariant the four properties below follow from holds always.       *)
THEOREM Invariance == Spec => []IInv
BY InitIInv, StepIInv, PTL DEF Spec

(* Every table and every in-flight call keeps its columns.                 *)
THEOREM Typing == Spec => []TypeOK
BY Invariance, PTL DEF IInv

(* Whatever tokens exist for a packet, it is settled at most once, and it  *)
(* is consumed exactly when one receipt or one dead letter says so.        *)
THEOREM Settlement == Spec => []OneOutcome
BY Invariance, PTL DEF IInv

(* The UNIQUE constraint on receipts never fires after the adapter ran.    *)
THEOREM KeyUniqueness == Spec => []ReceiptKeysUnique
BY Invariance, PTL DEF IInv

(* No call that began at or after the expiry of its packet's approval gets *)
(* past the checks.                                                        *)
THEOREM Timeliness == Spec => []StartedBeforeExpiry
<1>1. IInv => StartedBeforeExpiry
  <2> SUFFICES ASSUME IInv, NEW c \in Callers, calls[c].phase = "checked"
               PROVE  calls[c].at < packet[Called(c)].expires
    BY DEF StartedBeforeExpiry
  <2>1. /\ calls[c].at < token[calls[c].nonce].expires
        /\ token[calls[c].nonce].expires <= packet[Called(c)].expires
    BY DEF IInv, CallInv, TokenInv, Called
  <2>2. /\ calls[c].at \in Int /\ token[calls[c].nonce].expires \in Int
        /\ packet[Called(c)].expires \in Int
    <3>1. /\ calls \in [Callers -> CallType] /\ token \in [Nonces -> TokenType]
          /\ packet \in [PacketIds -> PacketType]
      BY DEF IInv, TypeOK
    <3>2. Times \subseteq Int /\ 0..MaxTime \subseteq Int
      BY ConstantsAssumption DEF Times
    <3> QED  BY <3>1, <3>2, CallFacts DEF CallType, TokenType, PacketType
  <2> QED  BY <2>1, <2>2
<1> QED  BY <1>1, Invariance, PTL

-----------------------------------------------------------------------------
(* The audit rows of a packet and its approval.                            *)

Kinds(t) == [i \in DOMAIN t |-> t[i].type]

(* The rows a packet has in each of its states.                            *)
RowsTell(t, state, got, lost) ==
  /\ state = "absent"   => t = <<>>
  /\ state = "pending"  => Len(t) = 1 /\ t[1].type = "approval_requested"
  /\ state = "approved" => /\ Len(t) = 2
                           /\ t[1].type = "approval_requested"
                           /\ t[2].type = "approval_granted"
  /\ state = "consumed" => /\ Len(t) = 3
                           /\ t[1].type = "approval_requested"
                           /\ t[2].type = "approval_granted"
                           /\ \/ got /\ t[3].type = "action_succeeded"
                              \/ lost /\ t[3].type = "action_failed"
  /\ state # "expired"

Settled(p, set) == \E n \in set : token[n].packet = p

(* The approver of a packet is another person of the group named, and the  *)
(* second row is theirs.                                                   *)
Granted(pk, t) ==
  /\ pk.approver # pk.request.initiator
  /\ t[2].actor = pk.approver
  /\ \E ctx \in Contexts : /\ ctx.user = pk.approver
                           /\ pk.group \in ctx.groups
                           /\ InScope(pk.request, ctx)

TrailTells(p) ==
  /\ RowsTell(trail[p], packet[p].state, Settled(p, receipts), Settled(p, dead))
  /\ packet[p].state \in {"approved", "consumed"} => Granted(packet[p], trail[p])

TrailInv == \A p \in PacketIds : TrailTells(p)

(* One more row keeps the rows before it.                                  *)
LEMMA OneMoreRow ==
  ASSUME NEW E, NEW t \in Seq(E), NEW e
  PROVE  /\ Len(Append(t, e)) = Len(t) + 1
         /\ Append(t, e)[Len(t) + 1] = e
         /\ \A i \in 1..Len(t) : Append(t, e)[i] = t[i]
OBVIOUS

(* What TrailInv says of rows, said of their kinds.                        *)
LEMMA RowsKinds ==
  ASSUME NEW E, NEW t \in Seq(E)
  PROVE  /\ t = <<>> => Kinds(t) = <<>>
         /\ Len(t) = 1 /\ t[1].type = "approval_requested"
              => Kinds(t) = <<"approval_requested">>
         /\ Len(t) = 2 /\ t[1].type = "approval_requested"
              /\ t[2].type = "approval_granted"
              => Kinds(t) = <<"approval_requested", "approval_granted">>
         /\ \A last : /\ Len(t) = 3 /\ t[1].type = "approval_requested"
                      /\ t[2].type = "approval_granted" /\ t[3].type = last
              => Kinds(t) = <<"approval_requested", "approval_granted", last>>
<1>1. DOMAIN t = 1..Len(t) /\ Len(t) \in Nat
  OBVIOUS
<1>2. t = <<>> => Kinds(t) = <<>>
  BY DEF Kinds
<1>3. Len(t) = 1 => Kinds(t) = <<t[1].type>>
  BY <1>1 DEF Kinds
<1>4. Len(t) = 2 => Kinds(t) = <<t[1].type, t[2].type>>
  BY <1>1 DEF Kinds
<1>5. Len(t) = 3 => Kinds(t) = <<t[1].type, t[2].type, t[3].type>>
  BY <1>1 DEF Kinds
<1> QED BY <1>2, <1>3, <1>4, <1>5

(* What settled a packet stays, and a row is added to one packet.          *)
Steady ==
  /\ receipts \subseteq receipts' /\ dead \subseteq dead'
  /\ \A n \in receipts \cup dead : token'[n].packet = token[n].packet

(* A packet that no step touches keeps rows that tell its state, since     *)
(* receipts and dead letters are only added.                               *)
LEMMA OtherTrails ==
  ASSUME TrailInv, Steady, NEW p \in PacketIds,
         packet'[p] = packet[p], trail'[p] = trail[p]
  PROVE  TrailTells(p)'
<1>1. Settled(p, receipts) => Settled(p, receipts)'
  BY DEF Settled, Steady
<1>2. Settled(p, dead) => Settled(p, dead)'
  BY DEF Settled, Steady
<1> QED BY <1>1, <1>2 DEF TrailInv, TrailTells, RowsTell, Granted

(* Audit adds one row to the trail of its packet and leaves every other    *)
(* trail alone.                                                            *)
LEMMA AuditRow ==
  ASSUME IInv, NEW p \in PacketIds, NEW e, NEW u, trail' = Audit(p, e, u)
  PROVE  /\ \A q \in PacketIds : q # p => trail'[q] = trail[q]
         /\ Len(trail[p]) \in Nat /\ Len(trail'[p]) = Len(trail[p]) + 1
         /\ trail'[p][Len(trail[p]) + 1].type = e
         /\ trail'[p][Len(trail[p]) + 1].actor = u
         /\ \A i \in 1..Len(trail[p]) : trail'[p][i] = trail[p][i]
<1> DEFINE E   == [type : EventTypes, actor : Users]
           row == [type |-> e, actor |-> u]
<1>1. trail \in [PacketIds -> Seq(E)]
  BY DEF IInv, TypeOK
<1>2. trail[p] \in Seq(E)
  BY <1>1
<1>3. trail' = [trail EXCEPT ![p] = Append(trail[p], row)]
  BY DEF Audit
<1>4. row.type = e /\ row.actor = u
  OBVIOUS
<1> HIDE DEF E, row
<1>5. trail'[p] = Append(trail[p], row) /\ \A q \in PacketIds : q # p => trail'[q] = trail[q]
  BY <1>1, <1>3
<1>6. Len(trail[p]) \in Nat
  BY <1>2
<1> QED BY <1>2, <1>4, <1>5, <1>6, OneMoreRow

(* The row of an outcome is written in the transaction that consumes the   *)
(* packet and writes the receipt or dead letter.                           *)
LEMMA SettleTrail ==
  ASSUME IInv, TrailInv, NEW c \in Callers, calls[c].phase = "checked", Executable(c),
         packet' = Consumed(Called(c)), UNCHANGED token,
         \/ /\ receipts' = receipts \cup {calls[c].nonce} /\ UNCHANGED dead
            /\ trail' = Audit(Called(c), "action_succeeded", calls[c].user)
         \/ /\ dead' = dead \cup {calls[c].nonce} /\ UNCHANGED receipts
            /\ trail' = Audit(Called(c), "action_failed", calls[c].user)
  PROVE  TrailInv'
<1>0. PICK n \in Nonces, p \in PacketIds : n = calls[c].nonce /\ p = Called(c)
  BY CallFacts
<1>1. n \in Nonces /\ p \in PacketIds /\ token[n].packet = p
  BY <1>0 DEF Called
<1>2. packet[p].state = "approved"
  BY <1>0 DEF Executable, TokenAccepted
<1>3. packet \in [PacketIds -> PacketType]
  BY DEF IInv, TypeOK
<1>4. /\ \A q \in PacketIds : q # p => packet'[q] = packet[q]
      /\ packet'[p] = [packet[p] EXCEPT !.state = "consumed"]
  BY <1>0, <1>1, <1>3 DEF Consumed
<1>5. packet[p] \in PacketType
  BY <1>1, <1>3
<1>6. /\ packet'[p].state = "consumed"
      /\ packet'[p].approver = packet[p].approver
      /\ packet'[p].request = packet[p].request
      /\ packet'[p].group = packet[p].group
  BY <1>4, <1>5 DEF PacketType
<1>7. Steady
  BY DEF Steady
<1>8. Granted(packet[p], trail[p]) /\ Len(trail[p]) = 2
      /\ trail[p][1].type = "approval_requested" /\ trail[p][2].type = "approval_granted"
  BY <1>1, <1>2 DEF TrailInv, TrailTells, RowsTell
<1>9. ASSUME NEW e, trail' = Audit(p, e, calls[c].user)
      PROVE  /\ \A q \in PacketIds : q # p => trail'[q] = trail[q]
             /\ Len(trail'[p]) = 3 /\ trail'[p][3].type = e
             /\ trail'[p][1] = trail[p][1] /\ trail'[p][2] = trail[p][2]
  <2>1. 1 \in 1..Len(trail[p]) /\ 2 \in 1..Len(trail[p]) /\ Len(trail[p]) + 1 = 3
    BY <1>8
  <2>2. /\ \A q \in PacketIds : q # p => trail'[q] = trail[q]
        /\ Len(trail'[p]) = Len(trail[p]) + 1
        /\ trail'[p][Len(trail[p]) + 1].type = e
        /\ \A i \in 1..Len(trail[p]) : trail'[p][i] = trail[p][i]
    BY <1>1, <1>9, AuditRow, Zenon
  <2> QED BY <2>1, <2>2, Zenon
<1>10. ASSUME NEW e, trail' = Audit(p, e, calls[c].user),
              \/ e = "action_succeeded" /\ Settled(p, receipts)'
              \/ e = "action_failed" /\ Settled(p, dead)'
       PROVE  TrailInv'
  <2>0. /\ \A q \in PacketIds : q # p => trail'[q] = trail[q]
        /\ Len(trail'[p]) = 3 /\ trail'[p][3].type = e
        /\ trail'[p][1] = trail[p][1] /\ trail'[p][2] = trail[p][2]
    BY <1>9, <1>10, Zenon
  <2>1. TrailTells(p)'
    <3>1. Granted(packet'[p], trail'[p])
      BY <1>6, <1>8, <2>0 DEF Granted, InScope
    <3>2. RowsTell(trail'[p], packet'[p].state, Settled(p, receipts)', Settled(p, dead)')
      BY <1>6, <1>8, <1>10, <2>0 DEF RowsTell
    <3> QED BY <3>1, <3>2 DEF TrailTells
  <2>2. ASSUME NEW q \in PacketIds, q # p PROVE TrailTells(q)'
    BY <1>4, <1>7, <2>0, <2>2, OtherTrails, Zenon
  <2> QED BY <2>1, <2>2 DEF TrailInv
<1>11. CASE receipts' = receipts \cup {n} /\ trail' = Audit(p, "action_succeeded", calls[c].user)
  <2>1. n \in receipts' /\ token'[n].packet = p
    BY <1>1, <1>11
  <2>2. Settled(p, receipts)'
    BY <2>1 DEF Settled
  <2> QED BY <1>10, <1>11, <2>2, Zenon
<1>12. CASE dead' = dead \cup {n} /\ trail' = Audit(p, "action_failed", calls[c].user)
  <2>1. n \in dead' /\ token'[n].packet = p
    BY <1>1, <1>12
  <2>2. Settled(p, dead)'
    BY <2>1 DEF Settled
  <2> QED BY <1>10, <1>12, <2>2, Zenon
<1> QED BY <1>0, <1>11, <1>12

(* A step that leaves packets and rows alone keeps all trails.             *)
LEMMA SteadyTrails ==
  ASSUME TrailInv, Steady, UNCHANGED <<packet, trail>>
  PROVE  TrailInv'
BY OtherTrails DEF TrailInv

(* At the start there is no packet and no row.                             *)
LEMMA InitTrail == Init => TrailInv
BY DEF Init, TrailInv, TrailTells, RowsTell, Granted, NoPacket

(* Each row is written with the change it tells of.                        *)
LEMMA StepTrail == IInv /\ TrailInv /\ [Next]_vars => TrailInv'
<1> SUFFICES ASSUME IInv, TrailInv, [Next]_vars PROVE TrailInv'
  OBVIOUS
<1>a. /\ packet \in [PacketIds -> PacketType] /\ token \in [Nonces -> TokenType]
      /\ trail \in [PacketIds -> Seq([type : EventTypes, actor : Users])]
  BY DEF IInv, TypeOK
<1>1. ASSUME NEW ctx \in Contexts, NEW r \in Requests, NEW g \in Groups,
             NEW p \in PacketIds, Submit(ctx, r, g, p)
      PROVE  TrailInv'
  <2>1. /\ packet[p].state = "absent" /\ packet'[p].state = "pending"
        /\ \A q \in PacketIds : q # p => packet'[q] = packet[q]
    BY <1>1, <1>a DEF Submit
  <2>2. Steady
    BY <1>1 DEF Submit, Steady
  <2>6. trail' = Audit(p, "approval_requested", ctx.user)
    BY <1>1 DEF Submit
  <2>3. trail[p] = <<>>
    BY <2>1 DEF TrailInv, TrailTells, RowsTell
  <2>4. Len(trail'[p]) = 1 /\ trail'[p][1].type = "approval_requested"
        /\ \A q \in PacketIds : q # p => trail'[q] = trail[q]
    <3>1. Len(trail[p]) + 1 = 1
      BY <2>3
    <3>2. /\ \A q \in PacketIds : q # p => trail'[q] = trail[q]
          /\ Len(trail'[p]) = Len(trail[p]) + 1
          /\ trail'[p][Len(trail[p]) + 1].type = "approval_requested"
      BY <2>6, AuditRow, Zenon
    <3> QED BY <3>1, <3>2, Zenon
  <2>5. TrailTells(p)'
    BY <2>1, <2>4 DEF TrailTells, RowsTell
  <2> QED BY <2>1, <2>2, <2>4, <2>5, OtherTrails DEF TrailInv
<1>2. ASSUME NEW ctx \in Contexts, NEW p \in PacketIds, Approve(ctx, p)
      PROVE  TrailInv'
  <2>1. /\ packet[p].state = "pending"
        /\ packet'[p] = [packet[p] EXCEPT !.state = "approved", !.approver = ctx.user]
        /\ \A q \in PacketIds : q # p => packet'[q] = packet[q]
    BY <1>2, <1>a DEF Approve
  <2>2. packet[p] \in PacketType
    BY <1>a
  <2>3. /\ packet'[p].state = "approved" /\ packet'[p].approver = ctx.user
        /\ packet'[p].request = packet[p].request /\ packet'[p].group = packet[p].group
    BY <2>1, <2>2 DEF PacketType
  <2>4. Steady
    BY <1>2 DEF Approve, Steady
  <2>9. trail' = Audit(p, "approval_granted", ctx.user)
    BY <1>2 DEF Approve
  <2>5. Len(trail[p]) = 1 /\ trail[p][1].type = "approval_requested"
    BY <2>1 DEF TrailInv, TrailTells, RowsTell
  <2>6. /\ Len(trail'[p]) = 2 /\ trail'[p][1].type = "approval_requested"
        /\ trail'[p][2].type = "approval_granted" /\ trail'[p][2].actor = ctx.user
        /\ \A q \in PacketIds : q # p => trail'[q] = trail[q]
    <3>1. 1 \in 1..Len(trail[p]) /\ Len(trail[p]) + 1 = 2
      BY <2>5
    <3>2. /\ \A q \in PacketIds : q # p => trail'[q] = trail[q]
          /\ Len(trail'[p]) = Len(trail[p]) + 1
          /\ trail'[p][Len(trail[p]) + 1].type = "approval_granted"
      BY <2>9, AuditRow, Zenon
    <3>3. trail'[p][Len(trail[p]) + 1].actor = ctx.user
      <4>1. PICK u : u = ctx.user
        OBVIOUS
      <4>2. trail' = Audit(p, "approval_granted", u)
        BY <2>9, <4>1
      <4>3. trail'[p][Len(trail[p]) + 1].actor = u
        BY <4>2, AuditRow, Zenon
      <4> QED BY <4>1, <4>3
    <3>4. \A i \in 1..Len(trail[p]) : trail'[p][i] = trail[p][i]
      BY <2>9, AuditRow, Zenon
    <3> QED BY <2>5, <3>1, <3>2, <3>3, <3>4, Zenon
  <2>7. /\ ctx.user # packet[p].request.initiator
        /\ packet[p].group \in ctx.groups /\ InScope(packet[p].request, ctx)
    BY <1>2 DEF Approve, MayApprove
  <2>8. TrailTells(p)'
    BY <2>3, <2>6, <2>7 DEF TrailTells, RowsTell, Granted
  <2> QED BY <2>1, <2>4, <2>6, <2>8, OtherTrails DEF TrailInv
<1>3. ASSUME NEW p \in PacketIds, NEW n \in Nonces, IssueToken(p, n)
      PROVE  TrailInv'
  <2>1. n \notin receipts \cup dead
    BY <1>3 DEF IssueToken, IInv, SpentInv, OneOutcome
  <2>2. \A m \in Nonces : m # n => token'[m] = token[m]
    BY <1>3, <1>a DEF IssueToken
  <2>3. Steady /\ UNCHANGED <<packet, trail>>
    BY <1>3, <2>1, <2>2 DEF IssueToken, Steady, IInv, TypeOK
  <2> QED BY <2>3, SteadyTrails
<1>4. ASSUME NEW c \in Callers, ExecuteSucceed(c) PROVE TrailInv'
  BY <1>4, SettleTrail DEF ExecuteSucceed
<1>5. ASSUME NEW c \in Callers, ExecuteDeadLetter(c) PROVE TrailInv'
  BY <1>5, SettleTrail DEF ExecuteDeadLetter
<1>6. ASSUME UNCHANGED <<packet, token, receipts, dead, trail>> PROVE TrailInv'
  BY <1>6, SteadyTrails DEF Steady
<1>7. ASSUME NEW ctx \in Contexts, NEW a \in Switches, NEW active \in BOOLEAN,
             SetKillSwitch(ctx, a, active)
      PROVE  TrailInv'
  BY <1>6, <1>7 DEF SetKillSwitch
<1>8. ASSUME NEW c \in Callers, NEW ctx \in Contexts, NEW r \in Requests,
             NEW n \in Nonces, ExecuteBegin(c, ctx, r, n)
      PROVE  TrailInv'
  BY <1>6, <1>8 DEF ExecuteBegin
<1>9. ASSUME NEW c \in Callers, ExecuteReject(c) \/ ExecuteCommitFails(c) PROVE TrailInv'
  BY <1>6, <1>9 DEF ExecuteReject, ExecuteCommitFails, ledger
<1>10. CASE Restart \/ Tick \/ UNCHANGED vars
  BY <1>6, <1>10 DEF Restart, Tick, vars, ledger
<1> QED BY <1>1, <1>2, <1>3, <1>4, <1>5, <1>7, <1>8, <1>9, <1>10 DEF Next

(* In every state the audit rows of each packet tell its state: what       *)
(* submit, approve, issue and execute wrote of it, in the order they did.  *)
THEOREM Trails == Spec => [](IInv /\ TrailInv)
<1>1. Init => IInv /\ TrailInv
  BY InitIInv, InitTrail
<1>2. IInv /\ TrailInv /\ [Next]_vars => (IInv /\ TrailInv)'
  BY StepIInv, StepTrail
<1> QED BY <1>1, <1>2, PTL DEF Spec

(* The audit rows of every packet tell exactly how far it has come, and    *)
(* whether it was performed or given up.                                   *)
THEOREM Audited == Spec => []TrailTellsState
<1>1. IInv /\ TrailInv => TrailTellsState
  <2> SUFFICES ASSUME IInv, TrailInv PROVE TrailTellsState
    OBVIOUS
  <2>1. trail \in [PacketIds -> Seq([type : EventTypes, actor : Users])]
    BY DEF IInv, TypeOK
  <2>2. \A p \in PacketIds : TrailTells(p)
    BY DEF TrailInv
  <2>4. ASSUME NEW p \in PacketIds
        PROVE  LET kinds   == Kinds(trail[p])
                   granted == <<"approval_requested", "approval_granted">>
               IN  /\ packet[p].state = "absent"   => kinds = <<>>
                   /\ packet[p].state = "pending"  => kinds = <<"approval_requested">>
                   /\ packet[p].state = "approved" => kinds = granted
                   /\ packet[p].state = "consumed" =>
                        \/ /\ Settled(p, receipts)
                           /\ kinds = <<"approval_requested", "approval_granted", "action_succeeded">>
                        \/ /\ Settled(p, dead)
                           /\ kinds = <<"approval_requested", "approval_granted", "action_failed">>
                   /\ packet[p].state # "expired"
    <3>1. trail[p] \in Seq([type : EventTypes, actor : Users])
      BY <2>1
    <3> DEFINE t == trail[p]
    <3>2. RowsTell(t, packet[p].state, Settled(p, receipts), Settled(p, dead))
      BY <2>2 DEF TrailTells
    <3>3. /\ t = <<>> => Kinds(t) = <<>>
          /\ Len(t) = 1 /\ t[1].type = "approval_requested"
               => Kinds(t) = <<"approval_requested">>
          /\ Len(t) = 2 /\ t[1].type = "approval_requested"
               /\ t[2].type = "approval_granted"
               => Kinds(t) = <<"approval_requested", "approval_granted">>
          /\ \A last : /\ Len(t) = 3 /\ t[1].type = "approval_requested"
                       /\ t[2].type = "approval_granted" /\ t[3].type = last
               => Kinds(t) = <<"approval_requested", "approval_granted", last>>
      BY <3>1, RowsKinds, Zenon
    <3> HIDE DEF t
    <3>4. Len(t) = 3 => Len(t) >= 1 /\ Len(t) >= 2
      OBVIOUS
    <3>5. (Len(t) = 1 => Len(t) >= 1) /\ (Len(t) = 2 => Len(t) >= 1 /\ Len(t) >= 2)
      OBVIOUS
    <3> QED BY <3>2, <3>3, <3>4, <3>5, Zenon DEF RowsTell, t
  <2> QED BY <2>4 DEF TrailTellsState, Kinds, Settled
<1> QED BY <1>1, Trails, PTL

(* Every token that exists goes back to an approval by another person of   *)
(* the group named, in the request's scope, who is the actor of its row.   *)
THEOREM Approval == Spec => []ApprovedByAnother
<1>1. IInv /\ TrailInv => ApprovedByAnother
  <2> SUFFICES ASSUME IInv, TrailInv, NEW n \in Issued
               PROVE  Granted(packet[token[n].packet], trail[token[n].packet])
    BY DEF ApprovedByAnother, Granted
  <2> QED BY DEF IInv, TokenInv, Issued, TrailInv, TrailTells
<1> QED BY <1>1, Trails, PTL

-----------------------------------------------------------------------------
(* The service implements GatedAction, its faults included.                *)

(* What the adapter's records show is what the receipts say.               *)
EffectsInv == \A n \in Nonces : effects[n] = IF n \in receipts THEN 1 ELSE 0

(* A step that neither settles a packet nor fails leaves both alone.       *)
LEMMA StepEffects ==
  ASSUME faults' = 0, IInv, EffectsInv, [Next]_vars
  PROVE  EffectsInv'
<1>a. /\ effects \in [Nonces -> Nat] /\ faults \in Nat /\ receipts \subseteq spent
  BY ConstantsAssumption DEF IInv, TypeOK, OneOutcome
<1>1. ASSUME UNCHANGED <<receipts, effects>> PROVE EffectsInv'
  BY <1>1 DEF EffectsInv
<1>2. ASSUME NEW c \in Callers, ExecuteSucceed(c) PROVE EffectsInv'
  <2>1. PICK n \in Nonces : n = calls[c].nonce
    BY <1>2, CallFacts DEF ExecuteSucceed
  <2>2. n \notin receipts /\ receipts' = receipts \cup {n}
    BY <1>2, <1>a, <2>1 DEF ExecuteSucceed, Executable, TokenAccepted
  <2>3. effects' = [effects EXCEPT ![n] = @ + 1]
    BY <1>2, <2>1 DEF ExecuteSucceed, Apply
  <2> QED BY <1>a, <2>2, <2>3 DEF EffectsInv
<1>3. ASSUME NEW c \in Callers, ExecuteReject(c) \/ ExecuteDeadLetter(c)
      PROVE  EffectsInv'
  BY <1>1, <1>3 DEF ExecuteReject, ExecuteDeadLetter, ledger
<1>4. ASSUME NEW c \in Callers, ExecuteCommitFails(c) PROVE FALSE
  BY <1>4, <1>a DEF ExecuteCommitFails
<1>5. ~Restart
  BY <1>a DEF Restart
<1>6. CASE Tick \/ UNCHANGED vars
  BY <1>1, <1>6 DEF Tick, vars, ledger
<1> QED BY <1>1, <1>2, <1>3, <1>4, <1>5, <1>6
        DEF Next, Submit, Approve, IssueToken, SetKillSwitch, ExecuteBegin

(* What changed the records since they were loaded is a token that has     *)
(* been handed out.                                                        *)
ChangedIssued == Changed \subseteq Issued

(* At the start nothing has been changed.                                  *)
LEMMA InitChanged == Init => ChangedIssued
BY DEF Init, ChangedIssued, Changed

(* Only a call past its checks changes a record, and a token once handed   *)
(* out stays.                                                              *)
LEMMA StepChanged ==
  ASSUME IInv, ChangedIssued, [Next]_vars
  PROVE  ChangedIssued'
<1>a. /\ effects \in [Nonces -> Nat] /\ token \in [Nonces -> TokenType]
  BY DEF IInv, TypeOK
<1>1. ASSUME UNCHANGED <<token, effects>> PROVE ChangedIssued'
  BY <1>1 DEF ChangedIssued, Changed, Issued, NoToken
<1>2. ASSUME NEW c \in Callers, calls[c].phase = "checked", Apply(c), token' = token
      PROVE  ChangedIssued'
  <2>1. PICK n \in Nonces : n = calls[c].nonce /\ token[n] # NoToken
    BY <1>2, CallFacts DEF IInv, CallInv
  <2>2. \A m \in Nonces : m # n => effects'[m] = effects[m]
    BY <1>a, <1>2, <2>1 DEF Apply
  <2> QED BY <1>2, <2>1, <2>2 DEF ChangedIssued, Changed, Issued, NoToken
<1>3. ASSUME NEW p \in PacketIds, NEW n \in Nonces, IssueToken(p, n)
      PROVE  ChangedIssued'
  <2>1. effects' = effects /\ token'[n] # NoToken
        /\ \A m \in Nonces : m # n => token'[m] = token[m]
    <3>1. token'[n].packet = p /\ p # None
      BY <1>a, <1>3, ConstantsAssumption DEF IssueToken
    <3> QED BY <1>a, <1>3, <3>1 DEF IssueToken, NoToken
  <2> QED BY <2>1 DEF ChangedIssued, Changed, Issued, NoToken
<1>4. ASSUME NEW c \in Callers, ExecuteSucceed(c) \/ ExecuteCommitFails(c)
      PROVE  ChangedIssued'
  BY <1>1, <1>2, <1>4 DEF ExecuteSucceed, ExecuteCommitFails, ledger
<1>5. ASSUME NEW c \in Callers, ExecuteReject(c) \/ ExecuteDeadLetter(c)
      PROVE  ChangedIssued'
  BY <1>1, <1>5 DEF ExecuteReject, ExecuteDeadLetter, ledger
<1>6. CASE Restart
  BY <1>6 DEF Restart, ChangedIssued, Changed
<1>7. CASE Tick \/ UNCHANGED vars
  BY <1>1, <1>7 DEF Tick, vars, ledger
<1> QED BY <1>1, <1>3, <1>4, <1>5, <1>6, <1>7
        DEF Next, Submit, Approve, SetKillSwitch, ExecuteBegin

(* Who changes no record and no token that did, performs nothing.          *)
LEMMA SamePerformed ==
  ASSUME effects' = effects, \A n \in Changed : token'[n] = token[n]
  PROVE  Performed' = Performed
<1>1. Changed' = Changed
  BY DEF Changed
<1> QED BY <1>1 DEF Performed

(* An adapter that changed a record performed the packet of the call.      *)
LEMMA OnePerformed ==
  ASSUME IInv, NEW c \in Callers, calls[c].phase = "checked", Apply(c), token' = token
  PROVE  Performed' = Performed \cup {Called(c)}
<1>1. PICK n \in Nonces : n = calls[c].nonce
  BY CallFacts
<1>2. effects \in [Nonces -> Nat] /\ effects' = [effects EXCEPT ![n] = @ + 1]
  BY <1>1 DEF IInv, TypeOK, Apply
<1>3. Changed' = Changed \cup {n}
  BY <1>2 DEF Changed
<1> QED BY <1>1, <1>3 DEF Performed, Called

(* A packet that keeps its row and settles nothing looks as it did.        *)
LEMMA SameLook ==
  ASSUME Steady, NEW q \in PacketIds, packet'[q] = packet[q],
         \A n \in receipts' : n \in receipts \/ token'[n].packet # q
  PROVE  StageOf(q)' = StageOf(q) /\ KeyOf(q)' = KeyOf(q)
<1>1. (\E n \in receipts' : token'[n].packet = q) <=> (\E n \in receipts : token[n].packet = q)
  BY DEF Steady
<1> QED BY <1>1 DEF StageOf, KeyOf

(* The service starts where the abstract gate starts.                      *)
LEMMA InitGated ==
  ASSUME Init PROVE Gated!Init
<1>1. Performed = {} /\ faults = 0
  BY DEF Init, Performed, Changed
<1>2. StageMap = [p \in PacketIds |-> "none"] /\ KeyMap = [p \in PacketIds |-> None]
  BY DEF Init, StageMap, KeyMap, StageOf, KeyOf, NoPacket
<1> QED BY <1>1, <1>2 DEF Gated!Init

(* Submit asks, Approve grants, the two ways an execution settles a packet *)
(* perform it or give it up, a failed commit and a restart are faults, and *)
(* every other step shows nothing.                                         *)
LEMMA StepGated ==
  ASSUME IInv, ChangedIssued, IInv', [Next]_vars
  PROVE  [Gated!Next]_(Gated!vars)
<1>a. /\ packet \in [PacketIds -> PacketType] /\ token \in [Nonces -> TokenType]
      /\ receipts \subseteq spent /\ receipts \subseteq Nonces
  BY DEF IInv, TypeOK, OneOutcome
<1>b. ASSUME UNCHANGED <<token, effects>> PROVE Performed' = Performed
  BY <1>b, SamePerformed
<1>d. ASSUME NEW p \in PacketIds, NEW s,
             \A q \in PacketIds : q # p => StageOf(q)' = StageOf(q), StageOf(p)' = s
      PROVE  StageMap' = [StageMap EXCEPT ![p] = s]
  BY <1>d DEF StageMap
<1>e. ASSUME \A q \in PacketIds : KeyOf(q)' = KeyOf(q) PROVE KeyMap' = KeyMap
  BY <1>e DEF KeyMap
<1>1. ASSUME Steady, UNCHANGED <<packet, receipts>>
      PROVE  UNCHANGED <<StageMap, KeyMap>>
  <2>1. \A q \in PacketIds : StageOf(q)' = StageOf(q) /\ KeyOf(q)' = KeyOf(q)
    BY <1>1, SameLook
  <2> QED BY <2>1 DEF StageMap, KeyMap
<1>2. ASSUME NEW ctx \in Contexts, NEW r \in Requests, NEW g \in Groups,
             NEW p \in PacketIds, Submit(ctx, r, g, p)
      PROVE  Gated!Ask(p)
  <2>1. /\ packet[p].state = "absent" /\ packet'[p].state = "pending"
        /\ packet'[p].request = r
        /\ \A q \in PacketIds : q # p => packet'[q] = packet[q]
    BY <1>2, <1>a DEF Submit
  <2>2. Steady /\ UNCHANGED <<token, receipts, effects, faults>>
    BY <1>2 DEF Submit, Steady
  <2>3. \A q \in PacketIds : q # p => StageOf(q)' = StageOf(q) /\ KeyOf(q)' = KeyOf(q)
    BY <2>1, <2>2, SameLook
  <2>4. StageOf(p) = "none" /\ StageOf(p)' = "asked" /\ KeyOf(p)' = r.key
    BY <2>1 DEF StageOf, KeyOf
  <2>5. StageMap[p] = "none" /\ StageMap' = [StageMap EXCEPT ![p] = "asked"]
    BY <2>3, <2>4, <1>d DEF StageMap
  <2>6. KeyMap' = [KeyMap EXCEPT ![p] = r.key]
    BY <2>3, <2>4 DEF KeyMap
  <2>7. Performed' = Performed
    BY <2>2, <1>b
  <2> QED BY <2>2, <2>5, <2>6, <2>7 DEF Gated!Ask, Gated!Move
<1>3. ASSUME NEW ctx \in Contexts, NEW p \in PacketIds, Approve(ctx, p)
      PROVE  Gated!Grant(p)
  <2>1. /\ packet[p].state = "pending" /\ packet'[p].state = "approved"
        /\ packet'[p].request = packet[p].request
        /\ \A q \in PacketIds : q # p => packet'[q] = packet[q]
    <3>1. /\ packet'[p] = [packet[p] EXCEPT !.state = "approved", !.approver = ctx.user]
          /\ \A q \in PacketIds : q # p => packet'[q] = packet[q]
      BY <1>3, <1>a DEF Approve
    <3>2. packet[p] \in PacketType
      BY <1>a
    <3>3. packet'[p].state = "approved" /\ packet'[p].request = packet[p].request
      BY <3>1, <3>2 DEF PacketType
    <3> QED BY <1>3, <3>1, <3>3 DEF Approve
  <2>2. Steady /\ UNCHANGED <<token, receipts, effects, faults>>
    BY <1>3 DEF Approve, Steady
  <2>3. \A q \in PacketIds : q # p => StageOf(q)' = StageOf(q) /\ KeyOf(q)' = KeyOf(q)
    BY <2>1, <2>2, SameLook
  <2>4. StageOf(p) = "asked" /\ StageOf(p)' = "granted" /\ KeyOf(p)' = KeyOf(p)
    BY <2>1 DEF StageOf, KeyOf
  <2>5. StageMap[p] = "asked" /\ StageMap' = [StageMap EXCEPT ![p] = "granted"]
    BY <2>3, <2>4, <1>d DEF StageMap
  <2>6. KeyMap' = KeyMap
    BY <2>3, <2>4, <1>e
  <2>7. Performed' = Performed
    BY <2>2, <1>b
  <2> QED BY <2>2, <2>5, <2>6, <2>7 DEF Gated!Grant, Gated!Move
<1>k. ASSUME NEW c \in Callers, calls[c].phase = "checked", Executable(c)
      PROVE  /\ Called(c) \in PacketIds
             /\ StageMap[Called(c)] = "granted"
             /\ Gated!Fresh(Called(c))
  <2>0. PICK n \in Nonces, p \in PacketIds : n = calls[c].nonce /\ p = Called(c)
    BY <1>k, CallFacts
  <2>1. /\ packet[p].state = "approved" /\ packet[p].request = calls[c].request
    BY <1>k, <2>0 DEF Executable, TokenAccepted
  <2>2. StageMap[p] = "granted" /\ KeyMap[p] = packet[p].request.key
    BY <2>1 DEF StageOf, StageMap, KeyOf, KeyMap
  <2>3. ASSUME NEW q \in PacketIds, StageMap[q] = "done" PROVE KeyMap[q] # KeyMap[p]
    <3>1. StageOf(q) = "done"
      BY <2>3 DEF StageMap
    <3>2. PICK m \in receipts : token[m].packet = q /\ packet[q].state # "absent"
      BY <3>1 DEF StageOf
    <3>3. packet[q].request.key # packet[p].request.key
      BY <1>k, <2>1, <3>2 DEF Executable, AlreadyExecuted
    <3> QED BY <2>2, <3>2, <3>3 DEF KeyMap, KeyOf
  <2>4. Gated!Fresh(p)
    BY <2>3 DEF Gated!Fresh
  <2> QED BY <2>0, <2>2, <2>4
<1>4. ASSUME NEW c \in Callers, calls[c].phase = "checked", Executable(c),
             packet' = Consumed(Called(c)), token' = token,
             \/ receipts' = receipts
             \/ receipts' = receipts \cup {calls[c].nonce},
             dead \subseteq dead'
      PROVE  /\ calls[c].nonce \in receipts' =>
                  StageMap' = [StageMap EXCEPT ![Called(c)] = "done"]
             /\ calls[c].nonce \notin receipts' =>
                  StageMap' = [StageMap EXCEPT ![Called(c)] = "given up"]
             /\ KeyMap' = KeyMap
  <2>0. PICK n \in Nonces, p \in PacketIds : n = calls[c].nonce /\ p = Called(c)
    BY <1>4, CallFacts
  <2>1. /\ packet[p].state = "approved" /\ n \notin receipts /\ token[n].packet = p
        /\ packet[p].request = calls[c].request
    BY <1>4, <2>0, <1>a DEF Executable, TokenAccepted, Called
  <2>2. /\ packet'[p].state = "consumed" /\ packet'[p].request = packet[p].request
        /\ \A q \in PacketIds : q # p => packet'[q] = packet[q]
    <3>1. packet[p] \in PacketType
      BY <1>a
    <3> QED BY <1>4, <2>0, <1>a, <3>1 DEF Consumed, PacketType
  <2>3. Steady
    BY <1>4, <2>0 DEF Steady
  <2>4. \A q \in PacketIds : q # p => StageOf(q)' = StageOf(q) /\ KeyOf(q)' = KeyOf(q)
    BY <1>4, <2>0, <2>1, <2>2, <2>3, SameLook
  <2>5. \A m \in receipts : token[m].packet # p
    BY <1>a, <2>1 DEF IInv, OneOutcome
  <2>6. /\ KeyOf(p)' = KeyOf(p)
        /\ n \in receipts' => StageOf(p)' = "done"
        /\ n \notin receipts' => StageOf(p)' = "given up"
    BY <1>4, <2>0, <2>1, <2>2, <2>5 DEF StageOf, KeyOf
  <2>8. KeyMap' = KeyMap
    BY <2>4, <2>6, <1>e
  <2> QED BY <2>0, <2>4, <2>6, <2>8, <1>d
<1>5. ASSUME NEW c \in Callers, ExecuteSucceed(c)
      PROVE  \E p \in PacketIds : Gated!Perform(p)
  <2>1. PICK n \in Nonces, p \in PacketIds : n = calls[c].nonce /\ p = Called(c)
    BY <1>5, CallFacts DEF ExecuteSucceed
  <2>2. /\ calls[c].phase = "checked" /\ Executable(c) /\ Apply(c)
        /\ token' = token /\ dead \subseteq dead' /\ faults' = faults
        /\ packet' = Consumed(Called(c)) /\ receipts' = receipts \cup {n}
    BY <1>5, <2>1 DEF ExecuteSucceed
  <2>3. StageMap' = [StageMap EXCEPT ![p] = "done"] /\ KeyMap' = KeyMap
    <3>1. calls[c].nonce \in receipts' /\ receipts' = receipts \cup {calls[c].nonce}
      BY <2>1, <2>2
    <3>2. /\ StageMap' = [StageMap EXCEPT ![Called(c)] = "done"]
          /\ KeyMap' = KeyMap
      BY <2>2, <3>1, <1>4, Zenon
    <3> QED BY <2>1, <3>2
  <2>4. StageMap[p] = "granted" /\ Gated!Fresh(p)
    BY <2>1, <2>2, <1>k
  <2>5. Performed' = Performed \cup {p}
    BY <2>1, <2>2, OnePerformed
  <2> QED BY <2>2, <2>3, <2>4, <2>5 DEF Gated!Perform, Gated!Move
<1>6. ASSUME NEW c \in Callers, ExecuteDeadLetter(c)
      PROVE  \E p \in PacketIds : Gated!GiveUp(p)
  <2>1. PICK n \in Nonces, p \in PacketIds : n = calls[c].nonce /\ p = Called(c)
    BY <1>6, CallFacts DEF ExecuteDeadLetter
  <2>2. /\ calls[c].phase = "checked" /\ Executable(c)
        /\ UNCHANGED <<token, receipts, effects, faults>>
        /\ packet' = Consumed(Called(c)) /\ dead \subseteq dead'
    BY <1>6 DEF ExecuteDeadLetter
  <2>3. n \notin receipts
    BY <1>a, <2>1, <2>2 DEF Executable, TokenAccepted
  <2>4. StageMap' = [StageMap EXCEPT ![p] = "given up"] /\ KeyMap' = KeyMap
    <3>1. calls[c].nonce \notin receipts'
      BY <2>1, <2>2, <2>3
    <3>2. /\ StageMap' = [StageMap EXCEPT ![Called(c)] = "given up"]
          /\ KeyMap' = KeyMap
      BY <2>2, <3>1, <1>4, Zenon
    <3> QED BY <2>1, <3>2
  <2>5. Performed' = Performed
    BY <2>2, <1>b
  <2>6. StageMap[p] = "granted"
    BY <2>1, <2>2, <1>k
  <2> QED BY <2>2, <2>4, <2>5, <2>6 DEF Gated!GiveUp, Gated!Move
<1>7. ASSUME NEW p \in PacketIds, NEW n \in Nonces, IssueToken(p, n)
      PROVE  UNCHANGED Gated!vars
  <2>1. n \notin receipts \cup dead /\ n \notin Changed
    BY <1>7 DEF IssueToken, IInv, SpentInv, OneOutcome, ChangedIssued, Issued
  <2>2. \A m \in Nonces : m # n => token'[m] = token[m]
    BY <1>7, <1>a DEF IssueToken
  <2>3. Steady /\ UNCHANGED <<packet, receipts>>
    BY <1>7, <2>1, <2>2 DEF IssueToken, Steady, IInv, TypeOK
  <2>4. Performed' = Performed
    <3>1. effects' = effects /\ \A m \in Changed : token'[m] = token[m]
      BY <1>7, <2>1, <2>2 DEF IssueToken, Changed
    <3> QED BY <3>1, SamePerformed
  <2>5. faults' = faults
    BY <1>7 DEF IssueToken
  <2> QED BY <1>1, <2>3, <2>4, <2>5 DEF Gated!vars
<1>8. ASSUME UNCHANGED <<packet, token, receipts, dead>>
      PROVE  UNCHANGED <<StageMap, KeyMap>>
  BY <1>1, <1>8 DEF Steady
<1>9. ASSUME UNCHANGED <<packet, token, receipts, dead, effects, faults>>
      PROVE  UNCHANGED Gated!vars
  <2>1. Performed' = Performed
    BY <1>9, <1>b
  <2> QED BY <1>8, <1>9, <2>1 DEF Gated!vars
<1>10. ASSUME NEW c \in Callers, ExecuteReject(c) PROVE UNCHANGED Gated!vars
  BY <1>9, <1>10 DEF ExecuteReject, ledger
<1>11. ASSUME NEW c \in Callers, ExecuteCommitFails(c) PROVE Gated!Fault
  <2>1. /\ calls[c].phase = "checked" /\ Executable(c) /\ faults' = faults + 1
        /\ UNCHANGED <<packet, token, receipts, dead>>
        /\ Apply(c) \/ effects' = effects
    BY <1>11 DEF ExecuteCommitFails, ledger
  <2>2. UNCHANGED <<StageMap, KeyMap>>
    BY <2>1, <1>8
  <2>3. CASE Apply(c)
    <3>1. Performed' = Performed \cup {Called(c)}
      BY <2>1, <2>3, OnePerformed
    <3>2. Called(c) \in PacketIds /\ StageMap[Called(c)] = "granted"
          /\ Gated!Fresh(Called(c))
      BY <2>1, <1>k
    <3> QED BY <2>1, <2>2, <3>1, <3>2 DEF Gated!Fault
  <2>4. CASE effects' = effects
    <3>1. Performed' = Performed
      BY <2>1, <2>4, <1>b
    <3> QED BY <2>1, <2>2, <3>1 DEF Gated!Fault
  <2> QED BY <2>1, <2>3, <2>4
<1>12. ASSUME Restart PROVE Gated!Fault
  <2>1. /\ UNCHANGED <<packet, token, receipts, dead>> /\ faults' = faults + 1
        /\ \A n \in Nonces : effects'[n] = 0
    BY <1>12 DEF Restart, ledger
  <2>2. UNCHANGED <<StageMap, KeyMap>>
    BY <2>1, <1>8
  <2>3. Performed' = {}
    BY <2>1 DEF Performed, Changed
  <2> QED BY <2>1, <2>2, <2>3 DEF Gated!Fault
<1>13. ASSUME NEW ctx \in Contexts, NEW a \in Switches, NEW active \in BOOLEAN,
              SetKillSwitch(ctx, a, active)
       PROVE  UNCHANGED Gated!vars
  BY <1>9, <1>13 DEF SetKillSwitch
<1>14. ASSUME NEW c \in Callers, NEW ctx \in Contexts, NEW r \in Requests,
              NEW n \in Nonces, ExecuteBegin(c, ctx, r, n)
       PROVE  UNCHANGED Gated!vars
  BY <1>9, <1>14 DEF ExecuteBegin
<1>15. CASE Tick \/ UNCHANGED vars
  BY <1>9, <1>15 DEF Tick, vars, ledger
<1> QED BY <1>2, <1>3, <1>5, <1>6, <1>7, <1>10, <1>11, <1>12, <1>13, <1>14, <1>15, Zenon
        DEF Next, Gated!Next

(* Every run of the service is a run of GatedAction: an action is asked    *)
(* for, granted, and performed or given up once, one idempotency key is    *)
(* recorded as done once, and a change nothing records is a counted fault. *)
THEOREM Refinement == Spec => ImplementsGatedAction
<1>1. Init => IInv /\ ChangedIssued
  BY InitIInv, InitChanged
<1>2. IInv /\ ChangedIssued /\ [Next]_vars => (IInv /\ ChangedIssued)'
  BY StepIInv, StepChanged
<1>3. Init => Gated!Init
  BY InitGated
<1>4. IInv /\ ChangedIssued /\ IInv' /\ [Next]_vars => [Gated!Next]_(Gated!vars)
  BY StepGated
<1> QED BY <1>1, <1>2, <1>3, <1>4, PTL DEF Spec, ImplementsGatedAction, Gated!Spec

-----------------------------------------------------------------------------
(* Kill switches stop every call that has not begun.                       *)

(* A call past its checks began by now.                                    *)
SwitchInv ==
  \A c \in Callers : calls[c].phase = "checked" => calls[c].at <= now

(* At the start no switch is set and no call is under way.                 *)
LEMMA InitSwitch == Init => SwitchInv /\ OnlyStragglers
BY DEF Init, SwitchInv, OnlyStragglers, Idle

(* A row of a switch is written at the time it names, and the calls it     *)
(* lets through were checked against an older one.                         *)
LEMMA StepSwitch ==
  ASSUME IInv, IInv', SwitchInv, OnlyStragglers, [Next]_vars
  PROVE  (SwitchInv /\ OnlyStragglers)'
<1> USE ConstantsAssumption
<1>a. /\ TypeOK /\ now \in Nat /\ calls \in [Callers -> CallType]
      /\ \A c \in Callers : calls[c].at \in Nat
  <2>1. TypeOK /\ now \in 0..MaxTime /\ calls \in [Callers -> CallType]
    BY DEF IInv, TypeOK
  <2>2. ASSUME NEW c \in Callers PROVE calls[c].at \in 0..MaxTime
    <3>1. calls[c] \in CallType
      BY <2>1
    <3> QED BY <3>1 DEF CallType
  <2> QED BY <2>1, <2>2
<1>1. ASSUME now' = now, kill' = kill,
             \A c \in Callers : \/ calls'[c] = calls[c]
                               \/ calls'[c].phase # "checked"
      PROVE  (SwitchInv /\ OnlyStragglers)'
  BY <1>1 DEF SwitchInv, OnlyStragglers, BeganBefore, NoSwitch
<1>2. ASSUME NEW ctx \in Contexts, NEW a \in Switches, NEW active \in BOOLEAN,
             SetKillSwitch(ctx, a, active)
      PROVE  (SwitchInv /\ OnlyStragglers)'
  <2> DEFINE row == [active |-> IF active THEN "on" ELSE "off", changed |-> now]
  <2>1. row # NoSwitch /\ row.changed = now
    BY <1>a DEF NoSwitch
  <2>2. kill' = [kill EXCEPT ![ctx.tenant][a] = row] /\ UNCHANGED <<now, calls>>
    BY <1>2 DEF SetKillSwitch
  <2> HIDE DEF row
  <2>3. ASSUME NEW t \in Tenants, NEW b \in Switches
        PROVE  kill'[t][b] \in {kill[t][b], row}
    <3>1. kill \in [Tenants -> [Switches -> SwitchType]]
      BY <1>a DEF TypeOK
    <3> QED BY <2>2, <3>1
  <2>4. SwitchInv'
    BY <2>2 DEF SwitchInv
  <2>5. ASSUME NEW c \in Callers, calls'[c].phase = "checked",
               NEW b \in {calls[c].request.type, "*"}
        PROVE  /\ BeganBefore(c, b) => BeganBefore(c, b)'
               /\ kill[calls[c].request.tenant][b] # NoSwitch =>
                    kill'[calls[c].request.tenant][b] # NoSwitch
    <3>1. calls' = calls /\ calls[c].phase = "checked" /\ calls[c].at <= now
      BY <2>2, <2>5 DEF SwitchInv
    <3>2. calls[c].request \in Requests
      BY <3>1 DEF IInv, CallInv
    <3>3. calls[c].request.tenant \in Tenants /\ b \in Switches
      BY <2>5, <3>2 DEF Switches, ActionTypes
    <3>4. kill'[calls[c].request.tenant][b] \in {kill[calls[c].request.tenant][b], row}
      BY <2>3, <3>3
    <3> QED BY <2>1, <3>1, <3>4 DEF BeganBefore
  <2>6. OnlyStragglers'
    <3> SUFFICES ASSUME NEW c \in Callers, calls'[c].phase = "checked",
                        NEW b, b = calls[c].request.type
                 PROVE  /\ BeganBefore(c, b)'
                        /\ \/ BeganBefore(c, "*")'
                           \/ kill'[calls[c].request.tenant][b] # NoSwitch
      BY <2>2 DEF OnlyStragglers, BeganBefore, NoSwitch
    <3>1. /\ BeganBefore(c, b)
          /\ BeganBefore(c, "*") \/ kill[calls[c].request.tenant][b] # NoSwitch
      BY <2>2 DEF OnlyStragglers
    <3>2. /\ BeganBefore(c, b) => BeganBefore(c, b)'
          /\ kill[calls[c].request.tenant][b] # NoSwitch =>
               kill'[calls[c].request.tenant][b] # NoSwitch
      BY <2>5
    <3>3. BeganBefore(c, "*") => BeganBefore(c, "*")'
      BY <2>5
    <3> QED BY <3>1, <3>2, <3>3
  <2> QED BY <2>4, <2>6
<1>3. ASSUME NEW c \in Callers, NEW ctx \in Contexts, NEW r \in Requests,
             NEW n \in Nonces, ExecuteBegin(c, ctx, r, n)
      PROVE  (SwitchInv /\ OnlyStragglers)'
  <2>1. /\ \A d \in Callers : d # c => calls'[d] = calls[d]
        /\ calls'[c].request = r /\ calls'[c].at = now
        /\ now' = now /\ kill' = kill /\ SwitchRow(r.tenant, r.type).active # "on"
    BY <1>3, <1>a DEF ExecuteBegin, KillSwitchActive
  <2>2. SwitchInv'
    BY <1>a, <2>1 DEF SwitchInv
  <2>3. /\ kill[r.tenant][r.type].active # "on"
        /\ kill[r.tenant]["*"].active # "on" \/ kill[r.tenant][r.type] # NoSwitch
    BY <2>1 DEF SwitchRow, NoSwitch
  <2>4. OnlyStragglers'
    BY <2>1, <2>3 DEF OnlyStragglers, BeganBefore, NoSwitch
  <2> QED BY <2>2, <2>4
<1>4. ASSUME NEW c \in Callers, Return(c), now' = now, kill' = kill
      PROVE  (SwitchInv /\ OnlyStragglers)'
  <2>1. \A d \in Callers : d # c => calls'[d] = calls[d]
    BY <1>4, <1>a DEF Return
  <2>2. calls'[c].phase # "checked"
    BY <1>4, <1>a DEF Return, Idle
  <2> QED BY <1>1, <1>4, <2>1, <2>2
<1>5. ASSUME NEW c \in Callers,
             \/ ExecuteSucceed(c) \/ ExecuteDeadLetter(c)
             \/ ExecuteReject(c) \/ ExecuteCommitFails(c)
      PROVE  (SwitchInv /\ OnlyStragglers)'
  BY <1>4, <1>5
     DEF ExecuteSucceed, ExecuteDeadLetter, ExecuteReject, ExecuteCommitFails, ledger
<1>6. CASE Restart
  <2>1. \A c \in Callers : calls'[c].phase # "checked"
    BY <1>6 DEF Restart, Idle
  <2> QED BY <2>1 DEF SwitchInv, OnlyStragglers
<1>7. CASE Tick
  <2>1. now' = now + 1 /\ UNCHANGED <<kill, calls>>
    BY <1>7 DEF Tick, ledger
  <2> QED BY <1>a, <2>1 DEF SwitchInv, OnlyStragglers, BeganBefore, NoSwitch
<1>8. ASSUME UNCHANGED <<now, kill, calls>> PROVE (SwitchInv /\ OnlyStragglers)'
  BY <1>1, <1>8
<1>9. CASE UNCHANGED vars
  BY <1>8, <1>9 DEF vars
<1> QED BY <1>2, <1>3, <1>5, <1>6, <1>7, <1>8, <1>9
        DEF Next, Submit, Approve, IssueToken

(* A kill switch of an action type that is on lets through only calls that *)
(* had begun before its row was written; so does the '*' switch of a       *)
(* tenant for every type that has no row of its own.                       *)
THEOREM SwitchesStop == Spec => []OnlyStragglers
<1>1. Init => IInv /\ SwitchInv /\ OnlyStragglers
  BY InitIInv, InitSwitch
<1>2. IInv /\ IInv' /\ SwitchInv /\ OnlyStragglers /\ [Next]_vars
        => SwitchInv' /\ OnlyStragglers'
  BY StepSwitch
<1> QED BY <1>1, <1>2, Invariance, PTL DEF Spec

-----------------------------------------------------------------------------
(* Sums.  A property of finite sets is proved through the set of those     *)
(* subsets that have it: the least counterexample stands in for induction. *)

(* A set of numbers with 0 and every successor is all of them.             *)
LEMMA Counting ==
  ASSUME NEW G \in SUBSET Nat, 0 \in G, \A n \in G : n + 1 \in G
  PROVE  G = Nat
<1> DEFINE less == {pair \in Nat \X Nat : pair[1] < pair[2]}
           Bad == Nat \ G
<1>1. IsWellFoundedOn(less, Nat)
  BY NatLessThanWellFounded DEF OpToRel
<1>2. ASSUME Bad # {} PROVE FALSE
  <2>1. PICK n \in Bad : \A m \in Bad : ~(<<m, n>> \in less)
    <3>1. Bad \subseteq Nat
      OBVIOUS
    <3> HIDE DEF less, Bad
    <3> QED BY <1>1, <1>2, <3>1, WFMin
  <2>2. n \in Nat \ {0} /\ n - 1 \in Nat
    OBVIOUS
  <2>3. <<n - 1, n>> \in less
    BY <2>2
  <2>4. n - 1 \in G
    BY <2>1, <2>2, <2>3
  <2>5. (n - 1) + 1 = n
    BY <2>2
  <2> QED BY <2>4, <2>5
<1> QED BY <1>2

(* Subsets of a finite set that include one whenever they include what is  *)
(* left of it without any one of its elements include the set itself.      *)
LEMMA Shrinking ==
  ASSUME NEW S, IsFiniteSet(S), NEW Good \in SUBSET (SUBSET S),
         {} \in Good,
         \A s \in SUBSET S : s # {} /\ (\A x \in s : s \ {x} \in Good) => s \in Good
  PROVE  S \in Good
<1> DEFINE G == {n \in Nat : \A s \in SUBSET S : Cardinality(s) = n => s \in Good}
<1>1. \A s \in SUBSET S : IsFiniteSet(s) /\ Cardinality(s) \in Nat
  BY FS_Subset, FS_CardinalityType
<1>2. 0 \in G
  BY <1>1, FS_EmptySet
<1>3. ASSUME NEW n \in G PROVE n + 1 \in G
  <2>1. ASSUME NEW s \in SUBSET S, Cardinality(s) = n + 1 PROVE s \in Good
    <3>1. s # {}
      BY <1>1, <2>1, FS_EmptySet
    <3>2. ASSUME NEW x \in s PROVE s \ {x} \in Good
      <4>1. Cardinality(s \ {x}) = Cardinality(s) - 1
        BY <1>1, FS_RemoveElement
      <4>2. Cardinality(s \ {x}) = n
        BY <2>1, <4>1
      <4> QED BY <4>2
    <3> QED BY <3>1, <3>2
  <2> QED BY <2>1
<1>4. G = Nat
  <2>1. G \in SUBSET Nat
    OBVIOUS
  <2> HIDE DEF G
  <2> QED BY <1>2, <1>3, <2>1, Counting
<1> QED BY <1>1, <1>4

(* The sum of the library takes an element of the set after the other.     *)
First(s) == CHOOSE x \in s : TRUE
Rest(s)  == s \ {First(s)}
Adds(g, w, s) == IF s = {} THEN 0 ELSE w[First(s)] + g[Rest(s)]
Summing(w, S) == CHOOSE g : g = [s \in SUBSET S |-> Adds(g, w, s)]

(* A total is the value of a recursive function on the finite set summed.  *)
LEMMA TotalIsSumming ==
  ASSUME NEW w, NEW S
  PROVE  Total(w, S) = Summing(w, S)[S]
BY DEF Total, MapThenSumSet, MapThenFoldSet, Summing, Adds, First, Rest

(* The element a total takes out first is one of the set.                  *)
LEMMA FirstOf ==
  ASSUME NEW s, s # {}
  PROVE  First(s) \in s
BY DEF First

(* The recursion has a solution over a finite set.                         *)
LEMMA SummingExists ==
  ASSUME NEW w, NEW S, IsFiniteSet(S)
  PROVE  \A s \in SUBSET S : Summing(w, S)[s] = Adds(Summing(w, S), w, s)
<1> DEFINE Upto(g, n) == \A s \in SUBSET S : Cardinality(s) <= n => g[s] = Adds(g, w, s)
           G == {n \in Nat : \E g : g = [s \in SUBSET S |-> g[s]] /\ Upto(g, n)}
<1>1. \A s \in SUBSET S : IsFiniteSet(s) /\ Cardinality(s) \in Nat
                          /\ (Cardinality(s) = 0 <=> s = {})
  BY FS_Subset, FS_CardinalityType, FS_EmptySet
<1>2. 0 \in G
  <2> DEFINE g == [s \in SUBSET S |-> 0]
  <2>1. g = [s \in SUBSET S |-> g[s]] /\ Upto(g, 0)
    BY <1>1 DEF Adds
  <2> QED BY <2>1
<1>3. ASSUME NEW n \in G PROVE n + 1 \in G
  <2>1. PICK g : g = [s \in SUBSET S |-> g[s]] /\ Upto(g, n)
    OBVIOUS
  <2> DEFINE f == [s \in SUBSET S |-> IF Cardinality(s) <= n THEN g[s] ELSE Adds(g, w, s)]
  <2>2. f = [s \in SUBSET S |-> f[s]]
    OBVIOUS
  <2>3. \A s \in SUBSET S : f[s] = Adds(g, w, s)
    BY <2>1
  <2>4. ASSUME NEW s \in SUBSET S, Cardinality(s) <= n + 1, s # {} PROVE f[Rest(s)] = g[Rest(s)]
    <3>1. First(s) \in s /\ Rest(s) \in SUBSET S
      BY <2>4, FirstOf DEF Rest
    <3>2. Cardinality(Rest(s)) = Cardinality(s) - 1
      BY <1>1, <3>1, FS_RemoveElement DEF Rest
    <3>3. Cardinality(Rest(s)) <= n
      BY <1>1, <2>4, <3>2
    <3> QED BY <3>1, <3>3
  <2> HIDE DEF f
  <2>5. Upto(f, n + 1)
    BY <2>3, <2>4 DEF Adds
  <2>6. \E h : h = [s \in SUBSET S |-> h[s]] /\ Upto(h, n + 1)
    <3> HIDE DEF Upto
    <3> QED BY <2>2, <2>5
  <2> HIDE DEF Upto
  <2> QED BY <2>6
<1>4. G = Nat
  <2>1. G \in SUBSET Nat
    OBVIOUS
  <2> HIDE DEF G
  <2> QED BY <1>2, <1>3, <2>1, Counting
<1>5. PICK g : g = [s \in SUBSET S |-> g[s]] /\ Upto(g, Cardinality(S))
  <2>1. Cardinality(S) \in Nat
    BY FS_CardinalityType
  <2> QED BY <1>4, <2>1
<1>6. \A s \in SUBSET S : g[s] = Adds(g, w, s)
  <2>1. \A s \in SUBSET S : Cardinality(s) <= Cardinality(S)
    BY FS_Subset
  <2> QED BY <1>5, <2>1
<1>7. g = [s \in SUBSET S |-> Adds(g, w, s)]
  BY <1>5, <1>6
<1>8. PICK f : f = Summing(w, S) /\ f = [s \in SUBSET S |-> Adds(f, w, s)]
  BY <1>7 DEF Summing
<1>9. \A s \in SUBSET S : f[s] = Adds(f, w, s)
  BY <1>8
<1> QED BY <1>8, <1>9

(* It takes the same elements of a subset whatever set it is within.       *)
LEMMA SummingWithin ==
  ASSUME NEW w, NEW S, IsFiniteSet(S), NEW T \in SUBSET S
  PROVE  Summing(w, S)[T] = Total(w, T)
<1> DEFINE Good == {s \in SUBSET T : Summing(w, S)[s] = Summing(w, T)[s]}
<1>1. IsFiniteSet(T)
  BY FS_Subset
<1>2. /\ \A s \in SUBSET T : Summing(w, S)[s] = Adds(Summing(w, S), w, s)
      /\ \A s \in SUBSET T : Summing(w, T)[s] = Adds(Summing(w, T), w, s)
  BY <1>1, SummingExists
<1>3. {} \in Good
  BY <1>2 DEF Adds
<1>4. ASSUME NEW s \in SUBSET T, s # {}, \A x \in s : s \ {x} \in Good
      PROVE  s \in Good
  <2>1. Rest(s) \in Good
    BY <1>4, FirstOf DEF Rest
  <2>2. Adds(Summing(w, S), w, s) = Adds(Summing(w, T), w, s)
    BY <1>4, <2>1 DEF Adds
  <2> QED BY <1>2, <2>2
<1>5. T \in Good
  <2>1. Good \in SUBSET (SUBSET T)
    OBVIOUS
  <2> HIDE DEF Good
  <2> QED BY <1>1, <1>3, <1>4, <2>1, Shrinking
<1> QED BY <1>5, TotalIsSumming

(* The total over nothing is 0.                                            *)
LEMMA TotalEmpty ==
  ASSUME NEW w
  PROVE  Total(w, {}) = 0
<1>1. Summing(w, {})[{}] = Adds(Summing(w, {}), w, {})
  BY SummingExists, FS_EmptySet
<1> QED BY <1>1, TotalIsSumming DEF Adds

(* A total is the weight of its first element and the total of the rest.   *)
LEMMA TotalFirst ==
  ASSUME NEW w, NEW S, IsFiniteSet(S), S # {}
  PROVE  Total(w, S) = w[First(S)] + Total(w, Rest(S))
<1>2. Summing(w, S)[S] = Adds(Summing(w, S), w, S)
  BY SummingExists
<1>3. Rest(S) \in SUBSET S
  BY DEF Rest
<1>4. Summing(w, S)[Rest(S)] = Total(w, Rest(S))
  BY <1>3, SummingWithin
<1> QED BY <1>2, <1>4, TotalIsSumming DEF Adds

(* The sum of integers is one, in whatever order it is taken.              *)
LEMMA TotalInt ==
  ASSUME NEW w, NEW S, IsFiniteSet(S), \A x \in S : w[x] \in Int
  PROVE  Total(w, S) \in Int
<1> DEFINE Good == {s \in SUBSET S : Total(w, s) \in Int}
<1>1. {} \in Good
  BY TotalEmpty
<1>2. ASSUME NEW s \in SUBSET S, s # {}, \A x \in s : s \ {x} \in Good PROVE s \in Good
  <2>1. Total(w, s) = w[First(s)] + Total(w, Rest(s))
    BY <1>2, TotalFirst, FS_Subset
  <2>2. First(s) \in S /\ Total(w, Rest(s)) \in Int
    BY <1>2, FirstOf DEF Rest
  <2> QED BY <2>1, <2>2
<1>3. S \in Good
  <2>1. Good \in SUBSET (SUBSET S)
    OBVIOUS
  <2> HIDE DEF Good
  <2> QED BY <1>1, <1>2, <2>1, Shrinking
<1> QED BY <1>3

(* Any element may be taken out first: the order of summing is of no       *)
(* account.                                                                *)
LEMMA TotalAny ==
  ASSUME NEW w, NEW S, IsFiniteSet(S), \A x \in S : w[x] \in Int
  PROVE  \A x \in S : Total(w, S) = w[x] + Total(w, S \ {x})
<1> DEFINE Good == {s \in SUBSET S : \A x \in s : Total(w, s) = w[x] + Total(w, s \ {x})}
<1>1. {} \in Good
  OBVIOUS
<1>2. ASSUME NEW s \in SUBSET S, s # {}, \A x \in s : s \ {x} \in Good PROVE s \in Good
  <2> SUFFICES ASSUME NEW x \in s PROVE Total(w, s) = w[x] + Total(w, s \ {x})
    OBVIOUS
  <2>1. PICK y \in s : y = First(s) /\ Total(w, s) = w[y] + Total(w, s \ {y})
    BY <1>2, TotalFirst, FirstOf, FS_Subset DEF Rest
  <2>2. CASE x = y
    BY <2>1, <2>2
  <2>3. CASE x # y
    <3>1. Total(w, s \ {y}) = w[x] + Total(w, (s \ {y}) \ {x})
      BY <1>2, <2>3
    <3>2. Total(w, s \ {x}) = w[y] + Total(w, (s \ {x}) \ {y})
      BY <1>2, <2>3
    <3>3. (s \ {y}) \ {x} = (s \ {x}) \ {y}
      OBVIOUS
    <3>4. PICK z \in Int : z = Total(w, (s \ {x}) \ {y})
      <4>1. (s \ {x}) \ {y} \in SUBSET S
        OBVIOUS
      <4> QED BY <4>1, TotalInt, FS_Subset
    <3>5. w[x] \in Int /\ w[y] \in Int
      OBVIOUS
    <3>6. Total(w, s \ {y}) = w[x] + z /\ Total(w, s \ {x}) = w[y] + z
      BY <3>1, <3>2, <3>3, <3>4
    <3>7. w[y] + (w[x] + z) = w[x] + (w[y] + z)
      BY <3>4, <3>5
    <3> QED BY <2>1, <3>6, <3>7
  <2> QED BY <2>2, <2>3
<1>3. S \in Good
  <2>1. Good \in SUBSET (SUBSET S)
    OBVIOUS
  <2> HIDE DEF Good
  <2> QED BY <1>1, <1>2, <2>1, Shrinking
<1> QED BY <1>3

(* Equal terms have equal sums, and terms of zero none.                    *)
LEMMA TotalSame ==
  ASSUME NEW w, NEW u, NEW S, IsFiniteSet(S), \A x \in S : w[x] = u[x]
  PROVE  Total(w, S) = Total(u, S)
<1> DEFINE Good == {s \in SUBSET S : Total(w, s) = Total(u, s)}
<1>1. {} \in Good
  BY TotalEmpty
<1>2. ASSUME NEW s \in SUBSET S, s # {}, \A x \in s : s \ {x} \in Good PROVE s \in Good
  <2>1. /\ Total(w, s) = w[First(s)] + Total(w, Rest(s))
        /\ Total(u, s) = u[First(s)] + Total(u, Rest(s))
    BY <1>2, TotalFirst, FS_Subset
  <2>2. First(s) \in S /\ Total(w, Rest(s)) = Total(u, Rest(s))
    BY <1>2, FirstOf DEF Rest
  <2> QED BY <2>1, <2>2
<1>3. S \in Good
  <2>1. Good \in SUBSET (SUBSET S)
    OBVIOUS
  <2> HIDE DEF Good
  <2> QED BY <1>1, <1>2, <2>1, Shrinking
<1> QED BY <1>3

(* Elements of weight 0 do not count.                                      *)
LEMMA TotalSupport ==
  ASSUME NEW w, NEW S, IsFiniteSet(S), \A x \in S : w[x] \in Int,
         NEW T \in SUBSET S, \A x \in S \ T : w[x] = 0
  PROVE  Total(w, S) = Total(w, T)
<1> DEFINE Good == {s \in SUBSET S : Total(w, s) = Total(w, s \cap T)}
<1>1. {} \in Good
  <2>1. {} \cap T = {}
    OBVIOUS
  <2> QED BY <2>1
<1>2. ASSUME NEW s \in SUBSET S, s # {}, \A x \in s : s \ {x} \in Good PROVE s \in Good
  <2>1. PICK x \in s : Total(w, s) = w[x] + Total(w, s \ {x})
    BY <1>2, TotalAny, FS_Subset
  <2>2. Total(w, s \ {x}) = Total(w, (s \ {x}) \cap T)
    BY <1>2
  <2>3. ASSUME x \in T PROVE Total(w, s) = Total(w, s \cap T)
    <3>1. (s \ {x}) \cap T = (s \cap T) \ {x} /\ x \in s \cap T /\ s \cap T \in SUBSET S
      BY <2>3
    <3>2. Total(w, s \cap T) = w[x] + Total(w, (s \cap T) \ {x})
      <4>1. IsFiniteSet(s \cap T) /\ \A y \in s \cap T : w[y] \in Int
        BY <3>1, FS_Subset
      <4> QED BY <3>1, <4>1, TotalAny
    <3> QED BY <2>1, <2>2, <3>1, <3>2
  <2>4. ASSUME x \notin T PROVE Total(w, s) = Total(w, s \cap T)
    <3>1. (s \ {x}) \cap T = s \cap T /\ w[x] = 0
      BY <2>4
    <3>2. Total(w, s \cap T) \in Int
      <4>1. IsFiniteSet(s \cap T) /\ \A y \in s \cap T : w[y] \in Int
        BY FS_Subset
      <4> QED BY <4>1, TotalInt
    <3>3. Total(w, s \ {x}) = Total(w, s \cap T)
      BY <2>2, <3>1, Zenon
    <3> QED BY <2>1, <3>1, <3>2, <3>3
  <2>5. Total(w, s) = Total(w, s \cap T)
    BY <2>3, <2>4
  <2> QED BY <2>5
<1>3. S \in Good
  <2>1. Good \in SUBSET (SUBSET S)
    OBVIOUS
  <2> HIDE DEF Good
  <2> QED BY <1>1, <1>2, <2>1, Shrinking
<1>4. S \cap T = T
  OBVIOUS
<1> QED BY <1>3, <1>4

(* One term that changes changes the sum by as much.                       *)
LEMMA TotalChange ==
  ASSUME NEW w, NEW u, NEW S, IsFiniteSet(S), NEW n \in S,
         \A x \in S : w[x] \in Int, u[n] \in Int, \A x \in S \ {n} : u[x] = w[x]
  PROVE  Total(u, S) = Total(w, S) + (u[n] - w[n])
<1>1. IsFiniteSet(S \ {n})
  BY FS_RemoveElement
<1>2. Total(w, S) = w[n] + Total(w, S \ {n}) /\ Total(u, S) = u[n] + Total(u, S \ {n})
  <2>1. \A x \in S : u[x] \in Int
    OBVIOUS
  <2> QED BY <2>1, TotalAny
<1>3. Total(u, S \ {n}) = Total(w, S \ {n})
  BY <1>1, TotalSame
<1>4. Total(w, S \ {n}) \in Int
  BY <1>1, TotalInt
<1> QED BY <1>2, <1>3, <1>4

-----------------------------------------------------------------------------
(* What the adapter's records owe to whom.                                 *)

(* Before the first failed commit the records show the receipts, and after *)
(* it one change more for each failure at most.                            *)
AccountInv ==
  /\ Total(effects, Nonces) <= Cardinality(receipts) + faults
  /\ faults = 0 => EffectsInv

(* At the start nothing has happened and nothing is to be accounted for.   *)
LEMMA InitAccount == Init => AccountInv
<1> SUFFICES ASSUME Init PROVE AccountInv
  OBVIOUS
<1>1. effects = [n \in Nonces |-> 0] /\ receipts = {} /\ faults = 0
  BY DEF Init
<1>2. Total(effects, Nonces) = Total(effects, {})
  <2>1. \A n \in Nonces : effects[n] = 0 /\ effects[n] \in Int
    BY <1>1
  <2> QED BY <2>1, ConstantsAssumption, TotalSupport
<1>3. Total(effects, Nonces) = 0 /\ Cardinality(receipts) = 0
  BY <1>1, <1>2, TotalEmpty, FS_EmptySet
<1> QED BY <1>1, <1>3 DEF AccountInv, EffectsInv

(* One change by one token adds one to the sum.                            *)
LEMMA TotalApplied ==
  ASSUME IInv, NEW n \in Nonces, effects' = [effects EXCEPT ![n] = @ + 1]
  PROVE  Total(effects', Nonces) = Total(effects, Nonces) + 1
<1>1. PICK e \in [Nonces -> Nat] : e = effects
  BY DEF IInv, TypeOK
<1> DEFINE f == [e EXCEPT ![n] = @ + 1]
<1>2. /\ \A x \in Nonces : e[x] \in Int
      /\ f[n] \in Int /\ f[n] = e[n] + 1
      /\ \A x \in Nonces \ {n} : f[x] = e[x]
  BY <1>1
<1> HIDE DEF f
<1>3. Total(f, Nonces) = Total(e, Nonces) + (f[n] - e[n])
  BY <1>2, ConstantsAssumption, TotalChange
<1>4. Total(e, Nonces) \in Int
  BY <1>2, ConstantsAssumption, TotalInt
<1>5. Total(f, Nonces) = Total(e, Nonces) + 1
  BY <1>2, <1>3, <1>4
<1>6. effects' = f
  BY <1>1 DEF f
<1> QED BY <1>1, <1>5, <1>6

(* An effect comes with its receipt or with the failed commit that lost    *)
(* it.                                                                     *)
LEMMA StepAccount ==
  ASSUME IInv, AccountInv, [Next]_vars
  PROVE  AccountInv'
<1>a. /\ effects \in [Nonces -> Nat] /\ faults \in Nat
      /\ receipts \subseteq spent /\ receipts \in SUBSET Nonces
  BY ConstantsAssumption DEF IInv, TypeOK, OneOutcome
<1>b. /\ Total(effects, Nonces) \in Int /\ IsFiniteSet(receipts)
      /\ Cardinality(receipts) \in Nat
  <2>1. IsFiniteSet(receipts)
    BY <1>a, ConstantsAssumption, FS_Subset
  <2>2. \A n \in Nonces : effects[n] \in Int
    BY <1>a
  <2> QED BY <2>1, <2>2, ConstantsAssumption, TotalInt, FS_CardinalityType
<1>c. faults' = 0 => EffectsInv'
  <2>1. faults' \in {faults, faults + 1}
    BY DEF Next, Submit, Approve, IssueToken, SetKillSwitch, ExecuteBegin, ExecuteSucceed,
           ExecuteDeadLetter, ExecuteReject, ExecuteCommitFails, Restart, Tick, vars
  <2>2. faults' = 0 => faults = 0
    BY <1>a, <2>1
  <2> QED BY <2>2, StepEffects DEF AccountInv
<1>1. ASSUME UNCHANGED <<receipts, effects, faults>> PROVE AccountInv'
  BY <1>1 DEF AccountInv, EffectsInv
<1>2. ASSUME NEW c \in Callers, ExecuteSucceed(c) PROVE AccountInv'
  <2>1. PICK n \in Nonces : n = calls[c].nonce
    BY <1>2, CallFacts DEF ExecuteSucceed
  <2>2. n \notin receipts /\ receipts' = receipts \cup {n} /\ UNCHANGED faults
    BY <1>2, <1>a, <2>1 DEF ExecuteSucceed, Executable, TokenAccepted
  <2>3. effects' = [effects EXCEPT ![n] = @ + 1]
    BY <1>2, <2>1 DEF ExecuteSucceed, Apply
  <2>4. Total(effects', Nonces) = Total(effects, Nonces) + 1
    BY <2>3, TotalApplied
  <2>5. Cardinality(receipts') = Cardinality(receipts) + 1
    BY <1>b, <2>2, FS_AddElement
  <2>6. Total(effects', Nonces) <= Cardinality(receipts') + faults'
    BY <1>a, <1>b, <2>2, <2>4, <2>5 DEF AccountInv
  <2> QED BY <1>c, <2>6 DEF AccountInv
<1>3. ASSUME NEW c \in Callers, ExecuteCommitFails(c) PROVE AccountInv'
  <2>1. PICK n \in Nonces : n = calls[c].nonce
    BY <1>3, CallFacts DEF ExecuteCommitFails
  <2>2. faults' = faults + 1 /\ UNCHANGED receipts
    BY <1>3 DEF ExecuteCommitFails, ledger
  <2>3. Total(effects', Nonces) <= Total(effects, Nonces) + 1
    <3>1. CASE UNCHANGED effects
      BY <1>b, <3>1
    <3>2. CASE effects' = [effects EXCEPT ![n] = @ + 1]
      <4>1. Total(effects', Nonces) = Total(effects, Nonces) + 1
        BY <3>2, TotalApplied
      <4> QED BY <1>b, <4>1
    <3> QED BY <1>3, <2>1, <3>1, <3>2 DEF ExecuteCommitFails, Apply
  <2>4. Total(effects', Nonces) \in Int
    <3>1. IInv'
      BY StepIInv
    <3>2. \A m \in Nonces : effects'[m] \in Int
      BY <3>1 DEF IInv, TypeOK
    <3> QED BY <3>2, ConstantsAssumption, TotalInt
  <2>5. Total(effects', Nonces) <= Cardinality(receipts') + faults'
    BY <1>a, <1>b, <2>2, <2>3, <2>4 DEF AccountInv
  <2> QED BY <1>c, <2>5 DEF AccountInv
<1>4. CASE Restart
  <2>1. effects' = [n \in Nonces |-> 0] /\ faults' = faults + 1 /\ UNCHANGED receipts
    BY <1>4 DEF Restart, ledger
  <2>2. Total(effects', Nonces) = Total(effects', {})
    <3>1. \A n \in Nonces : effects'[n] = 0 /\ effects'[n] \in Int
      BY <2>1
    <3> QED BY <3>1, ConstantsAssumption, TotalSupport
  <2>3. Total(effects', Nonces) = 0
    BY <2>2, TotalEmpty
  <2>4. Total(effects', Nonces) <= Cardinality(receipts') + faults'
    BY <1>a, <1>b, <2>1, <2>3
  <2> QED BY <1>c, <2>4 DEF AccountInv
<1> QED BY <1>1, <1>2, <1>3, <1>4
        DEF Next, Submit, Approve, IssueToken, SetKillSwitch, ExecuteBegin, ExecuteDeadLetter,
            ExecuteReject, Tick, vars, ledger

(* Every change of the adapter's records is told by a receipt or owed to a *)
(* failed commit, however many tokens, calls and failures there are.       *)
THEOREM Accounting == Spec => []EffectsAccounted
<1>1. AccountInv => EffectsAccounted
  BY DEF AccountInv, EffectsInv, EffectsAccounted
<1>2. IInv /\ AccountInv /\ [Next]_vars => IInv' /\ AccountInv'
  BY StepIInv, StepAccount
<1> QED BY InitIInv, InitAccount, <1>1, <1>2, PTL DEF Spec

-----------------------------------------------------------------------------
(* What happened to a target forms a chain.                                *)

(* The part of one token in the balance of v, and all of them.             *)
Swing(r, v) == One(After(r) = v) - One(r.expected = v)
Share(n, t, v) ==
  IF effects[n] > 0 /\ RequestOf(n).target = t THEN effects[n] * Swing(RequestOf(n), v) ELSE 0
Shares(t, v) == [n \in Nonces |-> Share(n, t, v)]

(* Every target is where the chain of its changes ends, seen from every    *)
(* value at all, and only tokens that were handed out changed anything.    *)
ChainInv ==
  /\ records = [t \in Targets |-> records[t]]
  /\ \A n \in Nonces : effects[n] > 0 => n \in Issued
  /\ \A t \in Targets : \A v :
       Total(Shares(t, v), Nonces) = One(records[t] = v) - One(InitialRecords[t] = v)

(* An action moves the balance of a value by at most one.                  *)
LEMMA SwingInt ==
  ASSUME NEW r, NEW v
  PROVE  Swing(r, v) \in {-1, 0, 1}
BY DEF Swing, One

(* The balance over the tokens that changed t is that over all of them.    *)
LEMMA ChainHolds == IInv /\ ChainInv => EffectsChain
<1> SUFFICES ASSUME IInv, ChainInv, NEW t \in Targets, NEW v
             PROVE  Total(Net(t, v), Done(t)) = One(records[t] = v) - One(InitialRecords[t] = v)
  BY DEF EffectsChain
<1>1. effects \in [Nonces -> Nat]
  BY DEF IInv, TypeOK
<1>2. \A n \in Nonces : Shares(t, v)[n] \in Int
  <2>1. ASSUME NEW n \in Nonces PROVE Share(n, t, v) \in Int
    <3>1. Swing(RequestOf(n), v) \in Int /\ effects[n] \in Int
      BY <1>1, SwingInt
    <3> QED BY <3>1 DEF Share
  <2> QED BY <2>1 DEF Shares
<1>3. Done(t) \in SUBSET Nonces
  BY DEF Done, Issued
<1>4. \A n \in Nonces \ Done(t) : Shares(t, v)[n] = 0
  BY DEF Done, Shares, Share, ChainInv
<1>5. \A n \in Done(t) : Net(t, v)[n] = Shares(t, v)[n]
  <2>1. ASSUME NEW n \in Done(t) PROVE Net(t, v)[n] = Shares(t, v)[n]
    <3>1. n \in Nonces /\ effects[n] > 0 /\ RequestOf(n).target = t
      BY DEF Done, Issued
    <3>2. Net(t, v)[n] = effects[n] * Swing(RequestOf(n), v)
      BY DEF Net, Swing
    <3>3. Shares(t, v)[n] = effects[n] * Swing(RequestOf(n), v)
      BY <3>1 DEF Shares, Share
    <3> QED BY <3>2, <3>3
  <2> QED BY <2>1
<1>6. Total(Net(t, v), Done(t)) = Total(Shares(t, v), Done(t))
  BY <1>3, <1>5, ConstantsAssumption, FS_Subset, TotalSame
<1>7. Total(Shares(t, v), Nonces) = Total(Shares(t, v), Done(t))
  BY <1>2, <1>3, <1>4, ConstantsAssumption, TotalSupport
<1> QED BY <1>6, <1>7 DEF ChainInv

(* Requests of tokens that were handed out stay what they are.             *)
Told == \A n \in Issued : token'[n] = token[n] /\ RequestOf(n)' = RequestOf(n)

(* The share of a token in a balance changes only with its effects.        *)
LEMMA SharesTold ==
  ASSUME ChainInv, Told, UNCHANGED effects, NEW t, NEW v
  PROVE  Shares(t, v)' = Shares(t, v)
<1>1. \A n \in Nonces : Share(n, t, v)' = Share(n, t, v)
  BY DEF ChainInv, Told, Share
<1> QED BY <1>1 DEF Shares

(* A step that applies no action leaves every balance as it is.            *)
LEMMA ChainTold ==
  ASSUME ChainInv, Told, UNCHANGED <<effects, records>>
  PROVE  ChainInv'
<1>1. \A t, v : Shares(t, v)' = Shares(t, v)
  BY SharesTold
<1>2. \A n \in Nonces : n \in Issued => (n \in Issued)'
  BY DEF Told, Issued
<1>3. \A t \in Targets : \A v :
        Total(Shares(t, v)', Nonces) = One(records'[t] = v) - One(InitialRecords[t] = v)
  BY <1>1 DEF ChainInv
<1> QED BY <1>2, <1>3 DEF ChainInv

(* A token handed out is never rewritten, nor is the request of its        *)
(* packet.                                                                 *)
LEMMA StepTold == IInv /\ [Next]_vars => Told
<1> SUFFICES ASSUME IInv, [Next]_vars PROVE Told
  OBVIOUS
<1>a. /\ packet \in [PacketIds -> PacketType] /\ token \in [Nonces -> TokenType]
      /\ \A n \in Issued : /\ token[n].packet \in PacketIds
                           /\ packet[token[n].packet].state # "absent"
  BY DEF IInv, TypeOK, TokenInv, Issued
<1>1. ASSUME UNCHANGED token, \A p \in PacketIds : packet[p].state # "absent" =>
                                packet'[p].request = packet[p].request
      PROVE  Told
  BY <1>1, <1>a DEF Told, RequestOf
<1>2. ASSUME NEW ctx \in Contexts, NEW r \in Requests, NEW g \in Groups, NEW p \in PacketIds,
             Submit(ctx, r, g, p)
      PROVE  Told
  BY <1>1, <1>2, <1>a DEF Submit
<1>3. ASSUME NEW ctx \in Contexts, NEW p \in PacketIds, Approve(ctx, p) PROVE Told
  <2>1. \A q \in PacketIds : packet'[q].request = packet[q].request
    BY <1>3, <1>a DEF Approve, PacketType
  <2> QED BY <1>1, <1>3, <2>1 DEF Approve
<1>4. ASSUME NEW p \in PacketIds, NEW n \in Nonces, IssueToken(p, n) PROVE Told
  BY <1>4, <1>a DEF IssueToken, Told, RequestOf, Issued
<1>5. ASSUME NEW c \in Callers, ExecuteSucceed(c) \/ ExecuteDeadLetter(c) PROVE Told
  <2>1. packet' = Consumed(Called(c)) /\ UNCHANGED token
    BY <1>5 DEF ExecuteSucceed, ExecuteDeadLetter
  <2>2. \A q \in PacketIds : packet'[q].request = packet[q].request
    BY <2>1, <1>a DEF Consumed, PacketType
  <2> QED BY <1>1, <2>1, <2>2
<1>6. UNCHANGED <<packet, token>> => Told
  BY <1>1
<1> QED BY <1>2, <1>3, <1>4, <1>5, <1>6
        DEF Next, SetKillSwitch, ExecuteBegin, ExecuteReject, ExecuteCommitFails, Restart,
            Tick, vars, ledger

(* An action that the adapter performs moves its target from the record    *)
(* that it expects to the one it leaves, and no other target.              *)
LEMMA ChainApplied ==
  ASSUME IInv, ChainInv, Told, NEW c \in Callers, calls[c].phase = "checked",
         ~AdapterRaises(calls[c].request), Apply(c)
  PROVE  ChainInv'
<1>1. PICK n \in Nonces, r \in Requests :
        /\ n = calls[c].nonce /\ r = calls[c].request /\ r = RequestOf(n) /\ n \in Issued
  BY CallFacts DEF IInv, CallInv, Called, RequestOf, Issued
<1>2. r.target \in Targets /\ records[r.target] = r.expected
  BY <1>1 DEF AdapterRaises
<1>3. /\ records' = [records EXCEPT ![r.target] = After(r)]
      /\ effects' = [effects EXCEPT ![n] = @ + 1]
  BY <1>1, <1>2 DEF Apply, Updated, After
<1>4. PICK e \in [Nonces -> Nat] : e = effects
  BY DEF IInv, TypeOK
<1>5. /\ \A x \in Nonces \ {n} : effects'[x] = e[x]
      /\ effects'[n] = e[n] + 1
  BY <1>3, <1>4
<1>6. \A x \in Issued : RequestOf(x)' = RequestOf(x)
  BY DEF Told
<1>7. ASSUME NEW x \in Nonces, effects'[x] > 0 PROVE (x \in Issued)'
  BY <1>1, <1>4, <1>5, <1>7 DEF ChainInv, Told, Issued
<1>8. ASSUME NEW t \in Targets, NEW v
      PROVE  Total(Shares(t, v)', Nonces) = One(records'[t] = v) - One(InitialRecords[t] = v)
  <2>1. PICK w : w = Shares(t, v)
    OBVIOUS
  <2>2. PICK u : u = Shares(t, v)'
    OBVIOUS
  <2>3. \A x \in Nonces : w[x] \in Int /\ w[x] = Share(x, t, v) /\ u[x] = Share(x, t, v)'
    <3>1. ASSUME NEW x \in Nonces PROVE Share(x, t, v) \in Int
      <4>1. Swing(RequestOf(x), v) \in Int /\ effects[x] \in Int
        BY <1>4, SwingInt
      <4> QED BY <4>1 DEF Share
    <3> QED BY <3>1, <2>1, <2>2 DEF Shares
  <2>4. \A x \in Nonces \ {n} : u[x] = w[x]
    <3>1. ASSUME NEW x \in Nonces \ {n} PROVE Share(x, t, v)' = Share(x, t, v)
      BY <1>4, <1>5, <1>6 DEF ChainInv, Share
    <3> QED BY <2>3, <3>1
  <2>5. PICK a \in {-1, 0, 1} : a = Swing(r, v)
    BY SwingInt
  <2>6. u[n] = w[n] + (IF r.target = t THEN a ELSE 0)
    <3>1. w[n] = IF e[n] > 0 /\ r.target = t THEN e[n] * a ELSE 0
      BY <1>1, <1>4, <2>3, <2>5 DEF Share
    <3>2. u[n] = IF e[n] + 1 > 0 /\ r.target = t THEN (e[n] + 1) * a ELSE 0
      BY <1>1, <1>5, <1>6, <2>3, <2>5 DEF Share
    <3>3. e[n] \in Nat
      BY <1>4
    <3>4. (e[n] + 1) * a = e[n] * a + a
      BY <2>5, <3>3
    <3>5. e[n] = 0 => e[n] * a = 0
      BY <2>5
    <3>6. PICK b \in Int : b = e[n] * a
      BY <2>5, <3>3
    <3>7. u[n] = IF r.target = t THEN b + a ELSE 0
      BY <3>2, <3>3, <3>4, <3>6
    <3>8. w[n] = IF r.target = t THEN b ELSE 0
      BY <3>1, <3>3, <3>5, <3>6
    <3> QED BY <2>5, <3>6, <3>7, <3>8
  <2>7. Total(u, Nonces) = Total(w, Nonces) + (IF r.target = t THEN a ELSE 0)
    <3>1. Total(u, Nonces) = Total(w, Nonces) + (u[n] - w[n])
      <4>1. u[n] \in Int
        BY <2>3, <2>5, <2>6
      <4> QED BY <2>3, <2>4, <4>1, ConstantsAssumption, TotalChange
    <3>2. w[n] \in Int /\ Total(w, Nonces) \in Int
      BY <2>3, ConstantsAssumption, TotalInt
    <3> QED BY <2>5, <2>6, <3>1, <3>2
  <2>8. Total(w, Nonces) = One(records[t] = v) - One(InitialRecords[t] = v)
    BY <2>1 DEF ChainInv
  <2>9. CASE r.target = t
    <3>1. records'[t] = After(r) /\ records[t] = r.expected
      BY <1>2, <1>3, <2>9 DEF ChainInv
    <3>2. a = One(records'[t] = v) - One(records[t] = v)
      BY <2>5, <3>1 DEF Swing
    <3> QED BY <2>2, <2>7, <2>8, <2>9, <3>2 DEF One
  <2>10. CASE r.target # t
    <3>1. records'[t] = records[t]
      BY <1>2, <1>3, <2>10 DEF ChainInv
    <3> QED BY <2>2, <2>7, <2>8, <2>10, <3>1 DEF One
  <2> QED BY <2>9, <2>10
<1>9. records' = [t \in Targets |-> records'[t]]
  BY <1>3 DEF ChainInv
<1> QED BY <1>7, <1>8, <1>9 DEF ChainInv

(* A target that nothing has changed is its own chain.                     *)
LEMMA ChainFresh ==
  ASSUME NEW w, NEW v, NEW x,
         w = [n \in Nonces |-> 0]
  PROVE  Total(w, Nonces) = One(x = v) - One(x = v)
<1>1. Total(w, Nonces) = Total(w, {})
  <2>1. \A n \in Nonces : w[n] = 0 /\ w[n] \in Int
    OBVIOUS
  <2> QED BY <2>1, ConstantsAssumption, TotalSupport
<1> QED BY <1>1, TotalEmpty DEF One

(* An action applied takes the value found from the balance and adds the   *)
(* one it sets; a restart puts records and shares back to the start.       *)
LEMMA StepChain ==
  ASSUME IInv, ChainInv, [Next]_vars
  PROVE  ChainInv'
<1>1. Told
  BY StepTold
<1>2. ASSUME NEW c \in Callers, ExecuteSucceed(c) PROVE ChainInv'
  BY <1>1, <1>2, ChainApplied DEF ExecuteSucceed
<1>3. ASSUME NEW c \in Callers, ExecuteCommitFails(c) PROVE ChainInv'
  <2>1. CASE AdapterRaises(calls[c].request)
    BY <1>1, <1>3, <2>1, ChainTold DEF ExecuteCommitFails
  <2>2. CASE ~AdapterRaises(calls[c].request)
    BY <1>1, <1>3, <2>2, ChainApplied DEF ExecuteCommitFails
  <2> QED BY <2>1, <2>2
<1>4. CASE Restart
  <2>1. /\ effects' = [n \in Nonces |-> 0] /\ records' = InitialRecords
    BY <1>4 DEF Restart
  <2>2. \A t, v : Shares(t, v)' = [n \in Nonces |-> 0]
    BY <2>1 DEF Shares, Share
  <2>3. \A t, v : Total(Shares(t, v)', Nonces)
                    = One(records'[t] = v) - One(InitialRecords[t] = v)
    BY <2>1, <2>2, ChainFresh
  <2>4. records' = [t \in Targets |-> records'[t]]
    BY <2>1, ConstantsAssumption, Zenon
  <2>5. \A n \in Nonces : ~(effects'[n] > 0)
    BY <2>1
  <2> QED BY <2>3, <2>4, <2>5 DEF ChainInv
<1> QED BY <1>1, <1>2, <1>3, <1>4, ChainTold
        DEF Next, Submit, Approve, IssueToken, SetKillSwitch, ExecuteBegin, ExecuteDeadLetter,
            ExecuteReject, Tick, vars, ledger

(* At the start every record is as it was given and every share is 0.      *)
LEMMA InitChain == Init => ChainInv
<1> SUFFICES ASSUME Init PROVE ChainInv
  OBVIOUS
<1>1. effects = [n \in Nonces |-> 0] /\ records = InitialRecords
  BY DEF Init
<1>2. \A t, v : Shares(t, v) = [n \in Nonces |-> 0]
  BY <1>1 DEF Shares, Share
<1>3. \A t, v : Total(Shares(t, v), Nonces) = One(records[t] = v) - One(InitialRecords[t] = v)
  BY <1>1, <1>2, ChainFresh
<1>4. records = [t \in Targets |-> records[t]]
  BY <1>1, ConstantsAssumption, Zenon
<1>5. \A n \in Nonces : ~(effects[n] > 0)
  BY <1>1
<1> QED BY <1>3, <1>4, <1>5 DEF ChainInv

(* Whoever executes when, and whatever fails or restarts between, no       *)
(* action overwrites a record that it did not expect.                      *)
THEOREM Chain == Spec => []EffectsChain
<1>1. IInv /\ ChainInv /\ [Next]_vars => IInv' /\ ChainInv'
  BY StepIInv, StepChain
<1> QED BY InitIInv, InitChain, ChainHolds, <1>1, PTL DEF Spec
=============================================================================
