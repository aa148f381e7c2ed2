----------------------------- MODULE GatedAction -----------------------------
(***************************************************************************)
(* What the gated-action service promises: every action is asked for, then *)
(* granted, then performed or given up, each at most once; it changes the  *)
(* world in the same step in which it is recorded as done, and one         *)
(* idempotency key is recorded as done once.  A fault may change the world *)
(* for a granted action without recording it, or take all changes back;    *)
(* each is counted, so while there was none the world shows exactly the    *)
(* actions that are recorded as done.                                      *)
(***************************************************************************)
EXTENDS Naturals

CONSTANTS Packets, Keys, None

VARIABLES
  stage,      \* how far each packet has come
  key,        \* the idempotency key it was asked for under
  performed,  \* packets whose action has changed the world
  faults      \* how often something went wrong

vars == <<stage, key, performed, faults>>

Init ==
  /\ stage = [p \in Packets |-> "none"]
  /\ key = [p \in Packets |-> None]
  /\ performed = {}
  /\ faults = 0

Move(p, from, to) ==
  /\ stage[p] = from
  /\ stage' = [stage EXCEPT ![p] = to]
  /\ UNCHANGED faults

Ask(p) ==
  /\ Move(p, "none", "asked")
  /\ \E k \in Keys : key' = [key EXCEPT ![p] = k]
  /\ UNCHANGED performed

Grant(p) == Move(p, "asked", "granted") /\ UNCHANGED <<key, performed>>

Fresh(p) == \A q \in Packets : stage[q] = "done" => key[q] # key[p]

Perform(p) ==
  /\ Move(p, "granted", "done")
  /\ Fresh(p)
  /\ performed' = performed \cup {p}
  /\ UNCHANGED key

GiveUp(p) == Move(p, "granted", "given up") /\ UNCHANGED <<key, performed>>

Fault ==
  /\ faults' = faults + 1
  /\ UNCHANGED <<stage, key>>
  /\ \/ performed' \in {performed, {}}
     \/ \E p \in Packets : /\ stage[p] = "granted" /\ Fresh(p)
                           /\ performed' = performed \cup {p}

Next ==
  \/ \E p \in Packets : Ask(p) \/ Grant(p) \/ Perform(p) \/ GiveUp(p)
  \/ Fault

Spec == Init /\ [][Next]_vars
=============================================================================
