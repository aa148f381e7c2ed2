--------------------------- MODULE MCActionControl ---------------------------
(***************************************************************************)
(* Small instances of ActionControl.  One synthetic target with one tag;   *)
(* the records, the requests and the people are those of the phase 5       *)
(* tests, reduced to what tells them apart.                                *)
(***************************************************************************)
EXTENDS ActionControl, TLC

Record(status) == [status |-> status]
MCRecords == [task |-> Record("reviewed")]

Tag(project, from, to, key) ==
  [tenant |-> "synthetic", project |-> project, initiator |-> "ann",
   type |-> "tag", target |-> "task", tag |-> "status", value |-> to,
   record |-> None, expected |-> Record(from), key |-> key]

Restore(from, to, key) ==
  [tenant |-> "synthetic", project |-> "aurora", initiator |-> "ann",
   type |-> "restore", target |-> "task", tag |-> None, value |-> None,
   record |-> Record(to), expected |-> Record(from), key |-> key]

\* An action, the rollback its receipt offers, and a rival of the action: the
\* same key in another project of the tenant.
RollbackRequests ==
  {Tag("aurora", "reviewed", "done", "k1"),
   Restore("done", "reviewed", "k2"),
   Tag("tidepool", "reviewed", "held", "k1")}

OneRequest == {Tag("aurora", "reviewed", "done", "k1")}

Person(user, projects, groups) ==
  [tenant |-> "synthetic", user |-> user, projects |-> projects,
   groups |-> groups]

\* The approver belongs to the group that policy.py names for an agent, and may
\* grant but neither ask nor execute; an administrator throws switches.
Ann == Person("ann", {"aurora", "tidepool"},
              {"automation_approver", "records_approver"})
Bob == Person("bob", {"aurora", "tidepool"}, {"records_approver"})
Adm == Person("adm", {}, {"automation_admin"})

People   == {Ann, Bob, Adm}
MCGroups == {"records_approver"}

\* Packet ids, nonces and threads carry no meaning of their own.
Symmetric == Permutations(PacketIds) \cup Permutations(Nonces)
               \cup Permutations(Callers)
=============================================================================
