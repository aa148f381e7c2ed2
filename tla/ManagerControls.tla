--------------------------- MODULE ManagerControls ---------------------------
(***************************************************************************)
(* What the specialist managers share (tessera_os/manager_controls.py):    *)
(* scope, citations, and how long evidence supports a draft.  Time is      *)
(* counted in days; amounts are integers.                                  *)
(***************************************************************************)
EXTENDS ReviewQueue, Integers, SequencesExt

CONSTANT FreshFor   \* days a source supports a draft, by manager

ASSUME FreshAssumption == \A m \in DOMAIN FreshFor : FreshFor[m] \in Nat

Authorized(access, ctx) ==
  /\ access.project \in ctx.projects
  /\ access.tenant = ctx.tenant

(* A record's evidence maps source ids to the day each was retrieved, None *)
(* for a date that is absent or cannot be parsed.                          *)
Cited(sources, evidence) == sources # {} /\ sources \subseteq DOMAIN evidence

\* Mutant of IsStale: evidence counts once it is old enough.
IsYoung(retrieved, day, window) == retrieved = None \/ retrieved >= day - window

IsStale(retrieved, day, window) == retrieved = None \/ retrieved < day - window

StaleAmong(sources, evidence, day, window) ==
  {s \in sources : s \in DOMAIN evidence /\ IsStale(evidence[s], day, window)}

(* Decimal.quantize: to the nearest integer, ties to the even one.         *)
HalfEven(num, den) ==
  LET whole == num \div den
      rest  == num % den
  IN IF 2 * rest < den \/ (2 * rest = den /\ whole % 2 = 0) THEN whole ELSE whole + 1
=============================================================================
