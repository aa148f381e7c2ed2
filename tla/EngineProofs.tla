----------------------------- MODULE EngineProofs -----------------------------
(***************************************************************************)
(* Theorems about the structure engine and the selection of clauses, for   *)
(* every venture: no constant bounds the profiles, the thresholds or the   *)
(* variants they speak of.  The last part is the clause library: what the  *)
(* paper of any deal cites, relies on and has a place for.                 *)
(***************************************************************************)
EXTENDS ClauseAssembly, TLAPS

-----------------------------------------------------------------------------
(* Rounding to the even thousand keeps the order of two amounts.           *)
LEMMA RoundingMonotone ==
  ASSUME NEW a \in Nat, NEW b \in Nat, a <= b
  PROVE  FiftiethInThousands(a) \in Nat /\ FiftiethInThousands(a) <= FiftiethInThousands(b)
<1> DEFINE qa == a \div 50000  ra == a % 50000  qb == b \div 50000  rb == b % 50000
<1>1. /\ qa \in Int /\ ra \in Int /\ 0 <= ra /\ ra < 50000 /\ a = 50000 * qa + ra
  BY SMT
<1>2. /\ qb \in Int /\ rb \in Int /\ 0 <= rb /\ rb < 50000 /\ b = 50000 * qb + rb
  BY SMT
<1>3. /\ FiftiethInThousands(a) =
           IF ra > 25000 \/ (ra = 25000 /\ qa % 2 = 1) THEN (qa + 1) * 1000 ELSE qa * 1000
      /\ FiftiethInThousands(b) =
           IF rb > 25000 \/ (rb = 25000 /\ qb % 2 = 1) THEN (qb + 1) * 1000 ELSE qb * 1000
  BY DEF FiftiethInThousands
<1> HIDE DEF qa, ra, qb, rb
<1>4. qa >= 0 /\ qb >= 0 /\ (qa < qb \/ (qa = qb /\ ra <= rb))
  BY <1>1, <1>2, SMT
<1>5. /\ FiftiethInThousands(a) \in Nat
      /\ qa * 1000 <= FiftiethInThousands(a) /\ FiftiethInThousands(a) <= (qa + 1) * 1000
  BY <1>1, <1>3, <1>4, SMT
<1>6. /\ FiftiethInThousands(b) \in Nat
      /\ qb * 1000 <= FiftiethInThousands(b) /\ FiftiethInThousands(b) <= (qb + 1) * 1000
  BY <1>2, <1>3, <1>4, SMT
<1>7. CASE qa < qb
  BY <1>1, <1>2, <1>5, <1>6, <1>7, SMT
<1>8. CASE qa = qb /\ ra <= rb
  BY <1>1, <1>2, <1>3, <1>5, <1>8, SMT
<1> QED BY <1>4, <1>5, <1>7, <1>8

(* Whatever capital a venture states, the ordinary-course threshold it is  *)
(* proposed lies between the floor and the cap                             *)
(* (governance.py, _ordinary_course_threshold).                            *)
THEOREM ThresholdBand ==
  ASSUME NEW p, p.initial_capital \in Nat, p.initial_capital > 0
  PROVE  10000 <= OrdinaryCourseThreshold(p) /\ OrdinaryCourseThreshold(p) <= 250000
<1>1. FiftiethInThousands(p.initial_capital) \in Nat
  BY RoundingMonotone
<1> QED BY <1>1, SMT DEF OrdinaryCourseThreshold

(* More capital is never proposed a lower threshold.                       *)
THEOREM ThresholdMonotone ==
  ASSUME NEW p, NEW q, p.initial_capital \in Nat, q.initial_capital \in Nat,
         0 < p.initial_capital, p.initial_capital <= q.initial_capital
  PROVE  OrdinaryCourseThreshold(p) <= OrdinaryCourseThreshold(q)
<1>1. /\ FiftiethInThousands(p.initial_capital) \in Nat
      /\ FiftiethInThousands(q.initial_capital) \in Nat
      /\ FiftiethInThousands(p.initial_capital) <= FiftiethInThousands(q.initial_capital)
  BY RoundingMonotone
<1> QED BY <1>1, SMT DEF OrdinaryCourseThreshold

-----------------------------------------------------------------------------
(* Rounding the members up to whole ones says "all of them" exactly when   *)
(* all but one fall short.                                                 *)
LEMMA AllButOneFallShort ==
  ASSUME NEW n \in Nat, NEW x \in Nat
  PROVE  (x + 99) \div 100 >= n <=> (n - 1) * 100 < x
BY SMT

(* For three or more equal owners and any threshold people may confirm, a  *)
(* ladder is needed exactly when one dissent blocks (_deadlock_needed).    *)
THEOREM LadderNeeded ==
  ASSUME NEW p, NEW t \in Nat, total_members(p) \in Nat, total_members(p) > 2,
         p.equal_ownership
  PROVE  DeadlockNeeded(p, t) <=> (total_members(p) - 1) * 100 < total_members(p) * t
<1>1. total_members(p) # 2
  BY SMT
<1>2. ApprovalRule(p) = "supermajority"
  BY <1>1, Zenon DEF ApprovalRule
<1>3. total_members(p) * t \in Nat
  BY SMT
<1>4. MembersRequired(total_members(p), t) >= total_members(p)
        <=> (total_members(p) - 1) * 100 < total_members(p) * t
  BY <1>3, AllButOneFallShort, SMT DEF MembersRequired
<1> QED BY <1>2, <1>4, Zenon DEF DeadlockNeeded

(* Of the six contradictions _conflicts looks for, the engine can only     *)
(* ever produce two: the others look for choices it never makes together.  *)
THEOREM LiveConflicts ==
  ASSUME NEW p, NEW t, total_members(p) \in Nat
  PROVE  Conflicts(p, t) \subseteq
           {"Manager management and a long unanimous list",
            "Outside capital and the equity itself"}
<1>1. TaxTreatment(p) # "s_corp"
  BY Zenon DEF TaxTreatment
<1>2. ~( /\ Control(p, t).deadlock_ladder
         /\ Control(p, t).approval_rule = "majority_with_minority_veto")
  BY Zenon DEF Control, DeadlockNeeded
<1>3. ~(Control(p, t).buy_sell = "shotgun" /\ has_passive_capital(p))
  BY Zenon DEF Control, BuySell
<1>4. ApprovalRule(p) = "unanimous" => total_members(p) = 2
  BY Zenon DEF ApprovalRule
<1>5. ~(total_members(p) >= 3 /\ Control(p, t).approval_rule = "unanimous")
  BY <1>4, SMT DEF Control
<1> SUFFICES ASSUME NEW c \in Conflicts(p, t)
             PROVE  c \in {"Manager management and a long unanimous list",
                           "Outside capital and the equity itself"}
  BY Zenon
<1>6. When(p.tiered_economics /\ TaxTreatment(p) = "s_corp",
           {"S-corporation election and tiered economics"}) = {}
  BY <1>1, Zenon DEF When
<1>7. When(/\ Control(p, t).deadlock_ladder
           /\ Control(p, t).approval_rule = "majority_with_minority_veto",
           {"Deadlock ladder and majority control"}) = {}
  BY <1>2, Zenon DEF When
<1>8. When(Control(p, t).buy_sell = "shotgun" /\ has_passive_capital(p),
           {"Shotgun buy-sell and passive investors"}) = {}
  BY <1>3, Zenon DEF When
<1>9. When(total_members(p) >= 3 /\ Control(p, t).approval_rule = "unanimous",
           {"Unanimity and three or more members"}) = {}
  BY <1>5, Zenon DEF When
<1>10. \A x : /\ When(x, {"Manager management and a long unanimous list"})
                  \subseteq {"Manager management and a long unanimous list"}
              /\ When(x, {"Outside capital and the equity itself"})
                  \subseteq {"Outside capital and the equity itself"}
  BY Zenon DEF When
<1> QED BY <1>6, <1>7, <1>8, <1>9, <1>10, Zenon DEF Conflicts

(* The paper of every venture without a conflict is at the protective      *)
(* posture: the others are out of reach of a structure                     *)
(* (to_deal_profile, DealProfile.posture).                                 *)
THEOREM ProtectivePaper ==
  ASSUME NEW p, NEW t, NEW picks, Conflicts(p, t) = {}
  PROVE  Posture(DealProfile(p, picks)) = "protective"
<1>1. When(p.capital_source \in OutsideSources,
           {"Outside capital and the equity itself"}) = {}
  BY Zenon DEF Conflicts
<1>2. p.capital_source # "institutional"
  BY <1>1, Zenon DEF When, OutsideSources
<1>3. ~DealProfile(p, picks).represented
  BY <1>2, Zenon DEF DealProfile
<1> QED BY <1>3, Zenon DEF Posture

-----------------------------------------------------------------------------
(* In a library that has a variant as protective as asked for, the variant *)
(* chosen is at least as protective; in any other, none is more protective *)
(* than the one chosen (Clause.variant_for).                               *)
THEOREM NearestProtects ==
  ASSUME NEW variants, variants # {}, NEW posture \in DOMAIN Rank,
         \A v \in variants : v.posture \in DOMAIN Rank
  PROVE  LET chosen == Nearest(variants, posture) IN
           /\ chosen \in variants
           /\ (\E v \in variants : Rank[v.posture] <= Rank[posture])
                => Rank[chosen.posture] <= Rank[posture]
           /\ (\A v \in variants : Rank[v.posture] > Rank[posture])
                => \A v \in variants : Rank[chosen.posture] <= Rank[v.posture]
<1> DEFINE firm == {v \in variants : Rank[v.posture] <= Rank[posture]}
<1>1. \A q \in DOMAIN Rank : Rank[q] \in {0, 1, 2}
  BY DEF Rank
<1>2. \A v \in variants : Rank[v.posture] \in {0, 1, 2}
  BY <1>1, Zenon
<1>3. Rank[posture] \in {0, 1, 2}
  BY <1>1, Zenon
<1>4. CASE firm # {}
  <2>0. \A v \in firm : Rank[v.posture] \in {0, 1, 2}
    BY <1>2, Zenon
  <2> HIDE DEF firm
  <2>1. \E v \in firm : \A w \in firm : Rank[w.posture] <= Rank[v.posture]
    <3>1. CASE \E v \in firm : Rank[v.posture] = 2
      BY <2>0, <3>1, SMT
    <3>2. CASE /\ \A v \in firm : Rank[v.posture] # 2
               /\ \E v \in firm : Rank[v.posture] = 1
      BY <2>0, <3>2, SMT
    <3>3. CASE \A v \in firm : Rank[v.posture] = 0
      BY <1>4, <3>3, SMT
    <3> QED BY <2>0, <3>1, <3>2, <3>3, SMT
  <2>2. Nearest(variants, posture) \in firm
    BY <1>4, <2>1, Zenon DEF Nearest, firm
  <2> QED BY <2>2, <2>0, <1>2, <1>3, SMT DEF firm
<1>5. CASE firm = {}
  <2>1. \E v \in variants : \A w \in variants : Rank[v.posture] <= Rank[w.posture]
    <3>1. CASE \E v \in variants : Rank[v.posture] = 0
      BY <1>2, <3>1, SMT
    <3>2. CASE /\ \A v \in variants : Rank[v.posture] # 0
               /\ \E v \in variants : Rank[v.posture] = 1
      BY <1>2, <3>2, SMT
    <3>3. CASE \A v \in variants : Rank[v.posture] = 2
      BY <3>3, SMT
    <3> QED BY <1>2, <3>1, <3>2, <3>3, SMT
  <2>2. /\ Nearest(variants, posture) \in variants
        /\ \A w \in variants : Rank[Nearest(variants, posture).posture] <= Rank[w.posture]
    BY <1>5, <2>1, Zenon DEF Nearest
  <2> QED BY <1>5, <2>2, <1>3, <1>2, SMT
<1> QED BY <1>4, <1>5, Zenon

-----------------------------------------------------------------------------
(* The clause library: every clause fits into every paper it goes into.    *)

\* The terms clauses rely on, the clauses other ones cite, and the
\* categories of which there is a clause for each management model.
ReliedTerms ==
  {"Member", "Units", "Company", "Affiliate", "Manager", "Capital Contribution",
   "Unreturned Capital", "Transfer", "Certificate of Formation"}
CitedIds ==
  {"capital-call-default", "restrictive-covenants", "permitted-estate-transfer",
   "buyout-payment", "fair-market-value"}
OwnCategories == {"governance", "authority"}

\* Clauses and variants are records of these fields.
IsClause(c) ==
  c = [id |-> c.id, category |-> c.category, condition |-> c.condition,
       required |-> c.required, defines |-> c.defines, relies |-> c.relies,
       variants |-> c.variants]

IsVariant(v) ==
  v = [posture |-> v.posture, option |-> v.option, refs |-> v.refs, figures |-> v.figures]

\* Two clauses that say the same; and that apply to the same deals, too.
SameText(c, e) ==
  c.id = e.id /\ c.category = e.category /\ c.defines = e.defines /\ c.relies = e.relies
Same(c, e) == SameText(c, e) /\ c.condition = e.condition

\* A clause that cites no others than refs, and that has a variant to offer
\* whatever option is picked.
Fits(c, refs) ==
  /\ IsClause(c)
  /\ \A v \in c.variants : /\ IsVariant(v) /\ v.posture \in DOMAIN Rank
                            /\ v.refs \subseteq refs
  /\ \E v \in c.variants : v.option = None

\* A clause with one of its fields replaced.
WithVariants(c, x)  == [c EXCEPT !.variants = x]
WithCondition(c, x) == [c EXCEPT !.condition = x]
WithRequired(c, x)  == [c EXCEPT !.required = x]

(* Replacing a field of a clause leaves the others alone.                  *)
LEMMA Replaced ==
  ASSUME NEW c, IsClause(c), NEW x
  PROVE  /\ /\ IsClause(WithVariants(c, x)) /\ Same(WithVariants(c, x), c)
            /\ WithVariants(c, x).variants = x
         /\ /\ IsClause(WithCondition(c, x)) /\ WithCondition(c, x).condition = x
            /\ WithCondition(c, x).variants = c.variants
            /\ SameText(WithCondition(c, x), c)
         /\ /\ IsClause(WithRequired(c, x)) /\ WithRequired(c, x).condition = c.condition
            /\ WithRequired(c, x).variants = c.variants
            /\ SameText(WithRequired(c, x), c)
<1>1. PICK i, k, q, r, d, l, v :
        c = [id |-> i, category |-> k, condition |-> q, required |-> r,
             defines |-> d, relies |-> l, variants |-> v]
  BY Zenon DEF IsClause
<1>2. /\ c.id = i /\ c.category = k /\ c.condition = q /\ c.required = r
      /\ c.defines = d /\ c.relies = l /\ c.variants = v
  BY <1>1
<1>3. WithVariants(c, x) =
        [id |-> i, category |-> k, condition |-> q, required |-> r,
         defines |-> d, relies |-> l, variants |-> x]
  BY <1>1 DEF WithVariants
<1>4. WithCondition(c, x) =
        [id |-> i, category |-> k, condition |-> x, required |-> r,
         defines |-> d, relies |-> l, variants |-> v]
  BY <1>1 DEF WithCondition
<1>5. WithRequired(c, x) =
        [id |-> i, category |-> k, condition |-> q, required |-> x,
         defines |-> d, relies |-> l, variants |-> v]
  BY <1>1 DEF WithRequired
<1>6. ASSUME NEW e, NEW q2, NEW r2, NEW v2,
             e = [id |-> i, category |-> k, condition |-> q2, required |-> r2,
                  defines |-> d, relies |-> l, variants |-> v2]
      PROVE  /\ e.condition = q2 /\ e.variants = v2 /\ SameText(e, c) /\ IsClause(e)
  <2>1. /\ e.condition = q2 /\ e.required = r2 /\ e.variants = v2
        /\ e.id = i /\ e.category = k /\ e.defines = d /\ e.relies = l
    BY <1>6
  <2>2. IsClause(e)
    BY <1>6, <2>1, Zenon DEF IsClause
  <2> QED BY <1>2, <2>1, <2>2, Zenon DEF SameText
<1>7. /\ WithVariants(c, x).condition = q /\ WithVariants(c, x).variants = x
      /\ SameText(WithVariants(c, x), c) /\ IsClause(WithVariants(c, x))
  BY <1>3, <1>6
<1>8. /\ WithCondition(c, x).condition = x /\ WithCondition(c, x).variants = v
      /\ SameText(WithCondition(c, x), c) /\ IsClause(WithCondition(c, x))
  BY <1>4, <1>6
<1>9. /\ WithRequired(c, x).condition = q /\ WithRequired(c, x).variants = v
      /\ SameText(WithRequired(c, x), c) /\ IsClause(WithRequired(c, x))
  BY <1>5, <1>6
<1> QED BY <1>2, <1>7, <1>8, <1>9, Zenon DEF Same

(* A clause as the library first describes it has its fields and cites     *)
(* nothing.                                                                *)
LEMMA NewClause ==
  ASSUME NEW id, NEW category, NEW postures, NEW defines, NEW relies,
         postures # {}, postures \subseteq DOMAIN Rank
  PROVE  /\ Fits(Clause(id, category, postures, defines, relies), {})
         /\ Clause(id, category, postures, defines, relies).id = id
         /\ Clause(id, category, postures, defines, relies).category = category
         /\ Clause(id, category, postures, defines, relies).condition = Always
         /\ Clause(id, category, postures, defines, relies).defines = defines
         /\ Clause(id, category, postures, defines, relies).relies = relies
<1> DEFINE c == Clause(id, category, postures, defines, relies)
<1>1. /\ IsClause(c) /\ c.id = id /\ c.category = category /\ c.condition = Always
      /\ c.defines = defines /\ c.relies = relies
  BY Zenon DEF Clause, IsClause
<1>2. c.variants = {Variant(q, None, {}) : q \in postures}
  BY Zenon DEF Clause
<1>3. \A q : /\ IsVariant(Variant(q, None, {})) /\ Variant(q, None, {}).refs = {}
             /\ Variant(q, None, {}).option = None /\ Variant(q, None, {}).posture = q
  BY Zenon DEF Variant, IsVariant
<1> HIDE DEF c
<1>4. Fits(c, {})
  <2>1. \E v \in c.variants : v.option = None
    <3>1. PICK q : q \in postures
      OBVIOUS
    <3>2. Variant(q, None, {}) \in c.variants
      BY <1>2, <3>1, Zenon
    <3> QED BY <1>3, <3>2, Zenon
  <2>2. ASSUME NEW v \in c.variants
        PROVE  IsVariant(v) /\ v.posture \in DOMAIN Rank /\ v.refs \subseteq {}
    <3>1. PICK q \in postures : v = Variant(q, None, {})
      BY <1>2, Zenon
    <3>2. q \in DOMAIN Rank
      BY <3>1
    <3> QED BY <1>3, <3>1, <3>2, Zenon
  <2> QED BY <1>1, <2>1, <2>2, Zenon DEF Fits
<1> QED BY <1>1, <1>4, Zenon DEF c

(* Adding citations to a clause adds these and nothing else.               *)
LEMMA CitesFits ==
  ASSUME NEW c, NEW old, Fits(c, old), NEW refs, NEW postures
  PROVE  Fits(Cites(refs, postures, c), old \cup refs) /\ Same(Cites(refs, postures, c), c)
<1> DEFINE f(v) == IF v.posture \in postures THEN [v EXCEPT !.refs = refs] ELSE v
           e == Cites(refs, postures, c)
<1>1. e.variants = {f(v) : v \in c.variants} /\ IsClause(e) /\ Same(e, c)
  <2>1. PICK x : x = {f(v) : v \in c.variants}
    OBVIOUS
  <2>2. e = WithVariants(c, x)
    BY <2>1, Zenon DEF Cites, WithVariants
  <2>3. IsClause(c)
    BY DEF Fits
  <2> HIDE DEF e, f
  <2>4. /\ IsClause(WithVariants(c, x)) /\ Same(WithVariants(c, x), c)
        /\ WithVariants(c, x).variants = x
    BY <2>3, Replaced, Zenon
  <2> QED BY <2>1, <2>2, <2>4, Zenon
<1>2. ASSUME NEW v \in c.variants
      PROVE  /\ IsVariant(f(v)) /\ f(v).posture \in DOMAIN Rank
             /\ f(v).refs \subseteq old \cup refs /\ f(v).option = v.option
  <2>1. IsVariant(v) /\ v.posture \in DOMAIN Rank /\ v.refs \subseteq old
    BY DEF Fits
  <2> QED BY <2>1, Zenon DEF IsVariant
<1> HIDE DEF f, e
<1>3. Fits(e, old \cup refs)
  BY <1>1, <1>2, Zenon DEF Fits
<1> QED BY <1>1, <1>3 DEF e

(* Adding figures to a clause adds no citation.                            *)
LEMMA CarriesFits ==
  ASSUME NEW c, NEW old, Fits(c, old), NEW figures, NEW postures
  PROVE  Fits(Carries(figures, postures, c), old) /\ Same(Carries(figures, postures, c), c)
<1> DEFINE f(v) == IF v.posture \in postures THEN [v EXCEPT !.figures = figures] ELSE v
           e == Carries(figures, postures, c)
<1>1. e.variants = {f(v) : v \in c.variants} /\ IsClause(e) /\ Same(e, c)
  <2>1. PICK x : x = {f(v) : v \in c.variants}
    OBVIOUS
  <2>2. e = WithVariants(c, x)
    BY <2>1, Zenon DEF Carries, WithVariants
  <2>3. IsClause(c)
    BY DEF Fits
  <2> HIDE DEF e, f
  <2>4. /\ IsClause(WithVariants(c, x)) /\ Same(WithVariants(c, x), c)
        /\ WithVariants(c, x).variants = x
    BY <2>3, Replaced, Zenon
  <2> QED BY <2>1, <2>2, <2>4, Zenon
<1>2. ASSUME NEW v \in c.variants
      PROVE  /\ IsVariant(f(v)) /\ f(v).posture \in DOMAIN Rank
             /\ f(v).refs \subseteq old /\ f(v).option = v.option
  <2>1. IsVariant(v) /\ v.posture \in DOMAIN Rank /\ v.refs \subseteq old
    BY DEF Fits
  <2> QED BY <2>1, Zenon DEF IsVariant
<1> HIDE DEF f, e
<1>3. Fits(e, old)
  BY <1>1, <1>2, Zenon DEF Fits
<1> QED BY <1>1, <1>3 DEF e

(* Adding a variant for an option adds no citation.                        *)
LEMMA OptionFits ==
  ASSUME NEW c, NEW old, Fits(c, old), NEW option, NEW figures
  PROVE  Fits(ForOption(option, figures, c), old) /\ Same(ForOption(option, figures, c), c)
<1> DEFINE e == ForOption(option, figures, c)
           w == Variant("standard", option, figures)
<1>1. e.variants = c.variants \cup {w} /\ IsClause(e) /\ Same(e, c)
  <2>1. PICK x : x = c.variants \cup {w}
    OBVIOUS
  <2>2. e = WithVariants(c, x)
    BY <2>1, Zenon DEF ForOption, WithVariants
  <2>3. IsClause(c)
    BY DEF Fits
  <2> HIDE DEF e, w
  <2>4. /\ IsClause(WithVariants(c, x)) /\ Same(WithVariants(c, x), c)
        /\ WithVariants(c, x).variants = x
    BY <2>3, Replaced, Zenon
  <2> QED BY <2>1, <2>2, <2>4, Zenon
<1>2. IsVariant(w) /\ w.refs = {} /\ w.posture = "standard"
  BY Zenon DEF Variant, IsVariant
<1>4. "standard" \in DOMAIN Rank
  BY DEF Rank
<1> HIDE DEF e, w
<1>3. Fits(e, old)
  BY <1>1, <1>2, <1>4, Zenon DEF Fits
<1> QED BY <1>1, <1>3 DEF e

(* A clause under another condition has the same variants.                 *)
LEMMA UnderFits ==
  ASSUME NEW c, NEW old, Fits(c, old), NEW condition
  PROVE  LET e == Under(condition, c) IN
           /\ Fits(e, old) /\ e.condition = condition
           /\ SameText(e, c)
<1> DEFINE e == Under(condition, c)
<1>1. /\ e.variants = c.variants /\ IsClause(e) /\ e.condition = condition
      /\ SameText(e, c)
  <2>1. PICK x : x = condition
    OBVIOUS
  <2>2. e = WithCondition(c, x)
    BY <2>1, Zenon DEF Under, WithCondition
  <2>3. IsClause(c)
    BY DEF Fits
  <2> HIDE DEF e
  <2>4. /\ IsClause(WithCondition(c, x)) /\ WithCondition(c, x).condition = x
        /\ WithCondition(c, x).variants = c.variants /\ SameText(WithCondition(c, x), c)
    BY <2>3, Replaced, Zenon
  <2> QED BY <2>1, <2>2, <2>4, Zenon
<1> HIDE DEF e
<1>2. Fits(e, old)
  BY <1>1, Zenon DEF Fits
<1> QED BY <1>1, <1>2 DEF e

(* A clause that can be left out has the same variants.                    *)
LEMMA OptionalFits ==
  ASSUME NEW c, NEW old, Fits(c, old)
  PROVE  LET e == Optional(c) IN
           /\ Fits(e, old) /\ e.condition = c.condition
           /\ SameText(e, c)
<1> DEFINE e == Optional(c)
<1>1. /\ e.variants = c.variants /\ IsClause(e) /\ e.condition = c.condition
      /\ SameText(e, c)
  <2>1. PICK x : x = FALSE
    OBVIOUS
  <2>2. e = WithRequired(c, x)
    BY <2>1, Zenon DEF Optional, WithRequired
  <2>3. IsClause(c)
    BY DEF Fits
  <2> HIDE DEF e
  <2>4. /\ IsClause(WithRequired(c, x)) /\ WithRequired(c, x).condition = c.condition
        /\ WithRequired(c, x).variants = c.variants /\ SameText(WithRequired(c, x), c)
    BY <2>3, Replaced, Zenon
  <2> QED BY <2>1, <2>2, <2>4, Zenon
<1> HIDE DEF e
<1>2. Fits(e, old)
  BY <1>1, Zenon DEF Fits
<1> QED BY <1>1, <1>2 DEF e

\* A clause that cites and relies on only what every paper contains.
Ordinary(c) ==
  Fits(c, CitedIds) /\ c.relies \subseteq ReliedTerms /\ c.category \notin OwnCategories

(* A clause fits where more may be cited.                                  *)
LEMMA FitsMore ==
  ASSUME NEW c, NEW refs, NEW more, Fits(c, refs), refs \subseteq more
  PROVE  Fits(c, more)
BY Zenon DEF Fits

(* A clause that relies on common terms starts out as an ordinary one ...  *)
LEMMA OrdinaryNew ==
  ASSUME NEW id, NEW category, NEW postures, NEW defines, NEW relies,
         postures # {}, postures \subseteq DOMAIN Rank, relies \subseteq ReliedTerms,
         category \notin OwnCategories
  PROVE  Ordinary(Clause(id, category, postures, defines, relies))
<1> DEFINE c == Clause(id, category, postures, defines, relies)
<1>1. Fits(c, {}) /\ c.category = category /\ c.relies = relies
  BY NewClause
<1> HIDE DEF c
<1>2. Fits(c, CitedIds)
  BY <1>1, FitsMore, Zenon
<1>3. Ordinary(c)
  BY <1>1, <1>2, Zenon DEF Ordinary
<1> QED BY <1>3 DEF c

(* ... and stays one whatever the library adds to it.                      *)
LEMMA OrdinaryKept ==
  ASSUME NEW c, Ordinary(c)
  PROVE  /\ \A refs, postures : refs \subseteq CitedIds => Ordinary(Cites(refs, postures, c))
         /\ \A figures, postures : Ordinary(Carries(figures, postures, c))
         /\ \A option, figures : Ordinary(ForOption(option, figures, c))
         /\ \A condition : Ordinary(Under(condition, c))
         /\ Ordinary(Optional(c))
<1>1. Fits(c, CitedIds)
  BY DEF Ordinary
<1>2. ASSUME NEW e, Fits(e, CitedIds), SameText(e, c) PROVE Ordinary(e)
  BY <1>2, Zenon DEF Ordinary, SameText
<1>3. ASSUME NEW refs, NEW postures, refs \subseteq CitedIds
      PROVE  Ordinary(Cites(refs, postures, c))
  <2>1. /\ Fits(Cites(refs, postures, c), CitedIds \cup refs)
        /\ Same(Cites(refs, postures, c), c)
    BY <1>1, CitesFits, Zenon
  <2>2. Fits(Cites(refs, postures, c), CitedIds)
    BY <1>3, <2>1, FitsMore, Zenon
  <2> QED BY <1>2, <2>1, <2>2, Zenon DEF Same
<1>4. ASSUME NEW figures, NEW postures PROVE Ordinary(Carries(figures, postures, c))
  BY <1>1, <1>2, CarriesFits, Zenon DEF Same
<1>5. ASSUME NEW option, NEW figures PROVE Ordinary(ForOption(option, figures, c))
  BY <1>1, <1>2, OptionFits, Zenon DEF Same
<1>6. ASSUME NEW condition PROVE Ordinary(Under(condition, c))
  BY <1>1, <1>2, UnderFits, Zenon
<1>7. Ordinary(Optional(c))
  BY <1>1, <1>2, OptionalFits, Zenon
<1> QED BY <1>3, <1>4, <1>5, <1>6, <1>7, Zenon

(* The postures and the terms the library's clauses are described with.    *)
LEMMA LibrarySets ==
  /\ Firm # {} /\ {"protective", "accommodating"} # {}
  /\ {"protective"} # {} /\ {"standard"} # {}
  /\ Firm \subseteq DOMAIN Rank /\ {"protective", "accommodating"} \subseteq DOMAIN Rank
  /\ {"protective"} \subseteq DOMAIN Rank /\ {"standard"} \subseteq DOMAIN Rank
  /\ {} \subseteq ReliedTerms /\ {"Member", "Company"} \subseteq ReliedTerms
  /\ {"Company", "Manager"} \subseteq ReliedTerms /\ Owners \subseteq ReliedTerms
  /\ {"Member", "Units", "Capital Contribution", "Unreturned Capital", "Manager"}
       \subseteq ReliedTerms
  /\ {"Member", "Units", "Transfer", "Company"} \subseteq ReliedTerms
  /\ {"Manager", "Member", "Company", "Affiliate"} \subseteq ReliedTerms
  /\ {"Member", "Manager", "Company"} \subseteq ReliedTerms
  /\ {"Member", "Company", "Manager", "Certificate of Formation"} \subseteq ReliedTerms
BY DEF Firm, ReliedTerms, Owners, Rank

(* The categories with one clause for both management models.              *)
LEMMA OrdinaryCategories ==
  /\ "confidentiality" \notin OwnCategories /\ "dispute" \notin OwnCategories
  /\ "purpose" \notin OwnCategories /\ "capital" \notin OwnCategories
  /\ "distributions" \notin OwnCategories /\ "transfer" \notin OwnCategories
  /\ "duties" \notin OwnCategories /\ "information" \notin OwnCategories
  /\ "exit" \notin OwnCategories
  /\ "titles" \notin OwnCategories /\ "triggering_events" \notin OwnCategories
  /\ "valuation" \notin OwnCategories /\ "buysell" \notin OwnCategories
  /\ "buyout_payment" \notin OwnCategories /\ "tax_distributions" \notin OwnCategories
  /\ "work_product" \notin OwnCategories /\ "capital_default" \notin OwnCategories
  /\ "deadlock" \notin OwnCategories /\ "estate_transfer" \notin OwnCategories
  /\ "restrictive_covenants" \notin OwnCategories
BY DEF OwnCategories

(* The citations of the ordinary clauses.                                  *)
LEMMA CitedClauses ==
  /\ {"capital-call-default"} \subseteq CitedIds
  /\ {"permitted-estate-transfer"} \subseteq CitedIds
  /\ {"buyout-payment", "fair-market-value"} \subseteq CitedIds
BY DEF CitedIds

(* All clauses but the four on management are ordinary.                    *)
LEMMA OrdinaryClauses ==
  \A c \in Library \ {ManagerManaged, MemberManaged, ManagerAuthority, MemberAuthority} :
    Ordinary(c)
<1> USE OrdinaryNew, OrdinaryKept, LibrarySets, OrdinaryCategories, CitedClauses
<1>1. Ordinary(Confidentiality)
  BY Zenon DEF Confidentiality
<1>2. Ordinary(GoverningLaw)
  BY Zenon DEF GoverningLaw
<1>3. Ordinary(Purpose)
  BY Zenon DEF Purpose
<1>4. Ordinary(Capital)
  BY Zenon DEF Capital
<1>5. Ordinary(Distributions)
  BY Zenon DEF Distributions
<1>6. Ordinary(TransferOfInterests)
  BY Zenon DEF TransferOfInterests
<1>7. Ordinary(DragTag)
  BY Zenon DEF DragTag
<1>8. Ordinary(Fiduciary)
  BY Zenon DEF Fiduciary
<1>9. Ordinary(Information)
  BY Zenon DEF Information
<1>10. Ordinary(Dissolution)
  BY Zenon DEF Dissolution
<1>11. Ordinary(TitlesAuthority)
  BY Zenon DEF TitlesAuthority
<1>12. Ordinary(TriggeringEvents)
  BY Zenon DEF TriggeringEvents
<1>13. Ordinary(FairMarketValue)
  BY Zenon DEF FairMarketValue
<1>14. Ordinary(BuySellOffer)
  BY Zenon DEF BuySellOffer
<1>15. Ordinary(BuyoutPayment)
  BY Zenon DEF BuyoutPayment
<1>16. Ordinary(TaxDistributions)
  BY Zenon DEF TaxDistributions
<1>17. Ordinary(WorkProduct)
  BY Zenon DEF WorkProduct
<1>18. Ordinary(CapitalCallDefault)
  BY Zenon DEF CapitalCallDefault
<1>19. Ordinary(DeadlockLadder)
  BY Zenon DEF DeadlockLadder
<1>20. Ordinary(EstateTransfer)
  BY Zenon DEF EstateTransfer
<1>21. Ordinary(RestrictiveCovenants)
  BY Zenon DEF RestrictiveCovenants
<1> HIDE OrdinaryNew, OrdinaryKept, LibrarySets, OrdinaryCategories, CitedClauses
<1> QED BY <1>1, <1>2, <1>3, <1>4, <1>5, <1>6, <1>7, <1>8, <1>9, <1>10, <1>11, <1>12,
           <1>13, <1>14, <1>15, <1>16, <1>17, <1>18, <1>19, <1>20, <1>21, Zenon
           DEF Library

(* The four on management: two for each model, the first of which cites    *)
(* the second.                                                             *)
LEMMA GoverningClauses ==
  /\ /\ Fits(ManagerManaged, {"ordinary-course-authority"})
     /\ ManagerManaged.category = "governance" /\ ManagerManaged.relies = Owners
     /\ ManagerManaged.defines = {"Manager", "Affiliate"}
     /\ ManagerManaged.condition = Managed("manager_managed")
  /\ /\ Fits(MemberManaged, {"authority-partners", "restrictive-covenants"})
     /\ MemberManaged.category = "governance" /\ MemberManaged.relies = Owners
     /\ MemberManaged.defines = {"Manager", "Affiliate"}
     /\ MemberManaged.condition = Managed("member_managed")
  /\ /\ Fits(ManagerAuthority, {}) /\ ManagerAuthority.category = "authority"
     /\ ManagerAuthority.id = "ordinary-course-authority" /\ ManagerAuthority.relies = {}
     /\ ManagerAuthority.condition = Managed("manager_managed")
  /\ /\ Fits(MemberAuthority, {}) /\ MemberAuthority.category = "authority"
     /\ MemberAuthority.id = "authority-partners" /\ MemberAuthority.relies = {}
     /\ MemberAuthority.condition = Managed("member_managed")
<1>0. {"protective"} # {} /\ {"protective"} \subseteq DOMAIN Rank /\ \A x : {} \cup x = x
  BY LibrarySets
<1>1. /\ Fits(ManagerManaged, {"ordinary-course-authority"})
      /\ ManagerManaged.category = "governance" /\ ManagerManaged.relies = Owners
      /\ ManagerManaged.condition = Managed("manager_managed")
      /\ ManagerManaged.defines = {"Manager", "Affiliate"}
  <2> DEFINE c == Clause("management", "governance", {"protective"},
                         {"Manager", "Affiliate"}, Owners)
             e == Cites({"ordinary-course-authority"}, {"protective"}, c)
  <2>1. /\ Fits(c, {}) /\ c.category = "governance" /\ c.relies = Owners
        /\ c.defines = {"Manager", "Affiliate"}
    BY <1>0, NewClause
  <2> HIDE DEF c
  <2>5. Fits(e, {} \cup {"ordinary-course-authority"}) /\ Same(e, c)
    BY <2>1, CitesFits
  <2>2. Fits(e, {"ordinary-course-authority"}) /\ SameText(e, c)
    BY <1>0, <2>5, Zenon DEF Same
  <2>3. ManagerManaged = Under(Managed("manager_managed"), e)
    BY Zenon DEF ManagerManaged, c
  <2> HIDE DEF e
  <2>4. /\ Fits(ManagerManaged, {"ordinary-course-authority"})
        /\ SameText(ManagerManaged, e)
        /\ ManagerManaged.condition = Managed("manager_managed")
    BY <2>2, <2>3, UnderFits, Zenon
  <2> QED BY <2>1, <2>2, <2>4, Zenon DEF SameText
<1>2. /\ Fits(MemberManaged, {"authority-partners", "restrictive-covenants"})
      /\ MemberManaged.category = "governance" /\ MemberManaged.relies = Owners
      /\ MemberManaged.condition = Managed("member_managed")
      /\ MemberManaged.defines = {"Manager", "Affiliate"}
  <2> DEFINE c == Clause("management-members", "governance", {"protective"},
                         {"Manager", "Affiliate"}, Owners)
             e == Cites({"authority-partners", "restrictive-covenants"}, {"protective"}, c)
  <2>1. /\ Fits(c, {}) /\ c.category = "governance" /\ c.relies = Owners
        /\ c.defines = {"Manager", "Affiliate"}
    BY <1>0, NewClause
  <2> HIDE DEF c
  <2>5. Fits(e, {} \cup {"authority-partners", "restrictive-covenants"}) /\ Same(e, c)
    BY <2>1, CitesFits
  <2>2. Fits(e, {"authority-partners", "restrictive-covenants"}) /\ SameText(e, c)
    BY <1>0, <2>5, Zenon DEF Same
  <2>3. MemberManaged = Under(Managed("member_managed"), e)
    BY Zenon DEF MemberManaged, c
  <2> HIDE DEF e
  <2>4. /\ Fits(MemberManaged, {"authority-partners", "restrictive-covenants"})
        /\ SameText(MemberManaged, e)
        /\ MemberManaged.condition = Managed("member_managed")
    BY <2>2, <2>3, UnderFits, Zenon
  <2> QED BY <2>1, <2>2, <2>4, Zenon DEF SameText
<1>3. /\ Fits(ManagerAuthority, {}) /\ ManagerAuthority.category = "authority"
      /\ ManagerAuthority.relies = {}
      /\ ManagerAuthority.condition = Managed("manager_managed")
      /\ ManagerAuthority.id = "ordinary-course-authority"
  <2> DEFINE c == Clause("ordinary-course-authority", "authority", {"protective"},
                      {"Ordinary Course Threshold", "Major Decision"}, {})
             e == Carries({"ordinary_course_threshold"}, {"protective"}, c)
  <2>1. /\ Fits(c, {}) /\ c.category = "authority" /\ c.relies = {}
        /\ c.id = "ordinary-course-authority"
    <3>1. Fits(c, {})
      BY <1>0, NewClause
    <3>2. c.category = "authority"
      BY Zenon DEF Clause
    <3>3. c.relies = {}
      BY Zenon DEF Clause
    <3>4. c.id = "ordinary-course-authority"
      BY Zenon DEF Clause
    <3> HIDE DEF c
    <3> QED BY <3>1, <3>2, <3>3, <3>4
  <2> HIDE DEF c
  <2>2. Fits(e, {}) /\ SameText(e, c)
    BY <1>0, <2>1, CarriesFits, Zenon DEF Same
  <2>3. ManagerAuthority = Under(Managed("manager_managed"), e)
    BY Zenon DEF ManagerAuthority, c
  <2> HIDE DEF e
  <2>4. /\ Fits(ManagerAuthority, {}) /\ SameText(ManagerAuthority, e)
        /\ ManagerAuthority.condition = Managed("manager_managed")
    BY <2>2, <2>3, UnderFits, Zenon
  <2> QED BY <2>1, <2>2, <2>4, Zenon DEF SameText
<1>4. /\ Fits(MemberAuthority, {}) /\ MemberAuthority.category = "authority"
      /\ MemberAuthority.relies = {}
      /\ MemberAuthority.condition = Managed("member_managed")
      /\ MemberAuthority.id = "authority-partners"
  <2> DEFINE c == Clause("authority-partners", "authority", {"protective"},
                      {"Ordinary Course Threshold", "Major Decision", "Managing Member"}, {})
             e == Carries({"ordinary_course_threshold"}, {"protective"}, c)
  <2>1. /\ Fits(c, {}) /\ c.category = "authority" /\ c.relies = {}
        /\ c.id = "authority-partners"
    <3>1. Fits(c, {})
      BY <1>0, NewClause
    <3>2. c.category = "authority"
      BY Zenon DEF Clause
    <3>3. c.relies = {}
      BY Zenon DEF Clause
    <3>4. c.id = "authority-partners"
      BY Zenon DEF Clause
    <3> HIDE DEF c
    <3> QED BY <3>1, <3>2, <3>3, <3>4
  <2> HIDE DEF c
  <2>2. Fits(e, {}) /\ SameText(e, c)
    BY <1>0, <2>1, CarriesFits, Zenon DEF Same
  <2>3. MemberAuthority = Under(Managed("member_managed"), e)
    BY Zenon DEF MemberAuthority, c
  <2> HIDE DEF e
  <2>4. /\ Fits(MemberAuthority, {}) /\ SameText(MemberAuthority, e)
        /\ MemberAuthority.condition = Managed("member_managed")
    BY <2>2, <2>3, UnderFits, Zenon
  <2> QED BY <2>1, <2>2, <2>4, Zenon DEF SameText
<1> QED BY <1>1, <1>2, <1>3, <1>4, Zenon

(* What the clauses that go into every agreement say.                      *)
LEMMA CommonClauses ==
  /\ \A c \in {Purpose, Capital, TransferOfInterests, Dissolution, CapitalCallDefault,
               RestrictiveCovenants, EstateTransfer, BuyoutPayment, FairMarketValue} :
       c \in Library /\ c.condition = Always
  /\ Purpose.defines = {"Company", "Agreement"}
  /\ Capital.defines =
       {"Member", "Units", "Capital Contribution", "Unreturned Capital"}
  /\ TransferOfInterests.defines = {"Transfer"}
  /\ Dissolution.defines = {"Certificate of Formation"}
  /\ CapitalCallDefault.id = "capital-call-default"
  /\ RestrictiveCovenants.id = "restrictive-covenants"
  /\ EstateTransfer.id = "permitted-estate-transfer"
  /\ BuyoutPayment.id = "buyout-payment" /\ BuyoutPayment.category = "buyout_payment"
  /\ FairMarketValue.id = "fair-market-value" /\ FairMarketValue.category = "valuation"
<1>1. /\ Purpose.condition = Always /\ Purpose.defines = {"Company", "Agreement"}
      /\ Dissolution.condition = Always
      /\ Dissolution.defines = {"Certificate of Formation"}
      /\ CapitalCallDefault.condition = Always
      /\ CapitalCallDefault.id = "capital-call-default"
      /\ RestrictiveCovenants.condition = Always
      /\ RestrictiveCovenants.id = "restrictive-covenants"
  BY Zenon DEF Clause, Purpose, Dissolution, CapitalCallDefault, RestrictiveCovenants
<1>2. Capital.condition = Always /\ Capital.defines =
        {"Member", "Units", "Capital Contribution", "Unreturned Capital"}
  BY Zenon DEF Clause, Cites, Capital
<1>3. TransferOfInterests.condition = Always /\ TransferOfInterests.defines = {"Transfer"}
  BY Zenon DEF Clause, Cites, TransferOfInterests
<1>4. EstateTransfer.condition = Always /\ EstateTransfer.id = "permitted-estate-transfer"
  BY Zenon DEF Clause, Optional, EstateTransfer
<1>5. /\ BuyoutPayment.condition = Always /\ BuyoutPayment.id = "buyout-payment"
      /\ BuyoutPayment.category = "buyout_payment"
  BY Zenon DEF Clause, Carries, ForOption, BuyoutPayment
<1>6. /\ FairMarketValue.condition = Always /\ FairMarketValue.id = "fair-market-value"
      /\ FairMarketValue.category = "valuation"
  BY Zenon DEF Clause, Carries, ForOption, FairMarketValue
<1>7. {Purpose, Capital, TransferOfInterests, Dissolution, CapitalCallDefault,
       RestrictiveCovenants, EstateTransfer, BuyoutPayment, FairMarketValue} \subseteq Library
  BY Zenon DEF Library
<1> QED BY <1>1, <1>2, <1>3, <1>4, <1>5, <1>6, <1>7, Zenon

(* Whatever option is picked, every clause has a variant for it.           *)
LEMMA GroupSome ==
  ASSUME NEW variants, NEW option, \E v \in variants : v.option = None
  PROVE  Group(variants, option) # {} /\ Group(variants, option) \subseteq variants
<1> DEFINE tagged == {v.option : v \in variants} \ {None}
<1>1. CASE tagged = {}
  BY <1>1, Zenon DEF Group
<1>2. CASE tagged # {} /\ option \in tagged
  <2>1. \E v \in variants : v.option = option
    BY <1>2, Zenon
  <2> QED BY <1>2, <2>1, Zenon DEF Group
<1>3. CASE tagged # {} /\ option \notin tagged
  BY <1>3, Zenon DEF Group
<1> QED BY <1>1, <1>2, <1>3

(* Every clause of the library fits somewhere.                             *)
LEMMA EachFits == \A c \in Library : \E refs : Fits(c, refs)
<1>1. \A c \in Library : \/ Ordinary(c)
                         \/ c \in {ManagerManaged, MemberManaged, ManagerAuthority,
                                   MemberAuthority}
  BY OrdinaryClauses, Zenon
<1> QED BY <1>1, GoverningClauses, Zenon DEF Ordinary

(* The paper has one section for each clause that applies, with one of the *)
(* clause's variants.                                                      *)
LEMMA EachSection ==
  ASSUME NEW d
  PROVE  /\ Usable(d) = Applicable(d)
         /\ \A s \in Sections(d) : /\ s.clause \in Applicable(d)
                                   /\ s.variant \in s.clause.variants
         /\ \A c \in Applicable(d) : \E s \in Sections(d) : s.clause = c
         /\ \A s1, s2 \in Sections(d) : s1.clause = s2.clause => s1 = s2
<1> DEFINE group(c) == Group(c.variants, Option(c, d))
           section(c) == [clause |-> c, variant |-> Nearest(group(c), Posture(d))]
<1>1. ASSUME NEW c \in Applicable(d)
      PROVE  group(c) # {} /\ Nearest(group(c), Posture(d)) \in c.variants
  <2>1. PICK refs : Fits(c, refs)
    BY EachFits, Zenon DEF Applicable
  <2>2. group(c) # {} /\ group(c) \subseteq c.variants
    BY <2>1, GroupSome, Zenon DEF Fits
  <2>3. \A v \in group(c) : v.posture \in DOMAIN Rank
    BY <2>1, <2>2, Zenon DEF Fits
  <2>4. Posture(d) \in DOMAIN Rank
    BY DEF Posture, Rank
  <2> HIDE DEF group
  <2>5. Nearest(group(c), Posture(d)) \in group(c)
    BY <2>2, <2>3, <2>4, NearestProtects, Zenon
  <2> QED BY <2>2, <2>5, Zenon
<1>2. Usable(d) = Applicable(d)
  BY <1>1, Zenon DEF Usable
<1>3. Sections(d) = {section(c) : c \in Applicable(d)}
  BY <1>2, Zenon DEF Sections
<1>4. \A c : section(c).clause = c
             /\ section(c).variant = Nearest(group(c), Posture(d))
  BY Zenon
<1> HIDE DEF section, group
<1>5. ASSUME NEW s \in Sections(d)
      PROVE  s.clause \in Applicable(d) /\ s = section(s.clause)
             /\ s.variant \in s.clause.variants
  <2>1. PICK c \in Applicable(d) : s = section(c)
    BY <1>3, Zenon
  <2> QED BY <1>1, <1>4, <2>1, Zenon
<1>6. ASSUME NEW c \in Applicable(d) PROVE \E s \in Sections(d) : s.clause = c
  BY <1>3, <1>4, Zenon
<1>7. ASSUME NEW s1 \in Sections(d), NEW s2 \in Sections(d), s1.clause = s2.clause
      PROVE  s1 = s2
  BY <1>5, <1>7, Zenon
<1> QED BY <1>2, <1>5, <1>6, <1>7, Zenon

\* The management models.
Models == {"manager_managed", "member_managed"}

(* The conditions of the common clauses and of those on management.        *)
LEMMA ConditionFields ==
  /\ Always.management = Models /\ Always.min = 1 /\ Always.max = 99
  /\ Always.shapes = {"single", "equal", "majority_minority"}
  /\ \A m : /\ Managed(m).management = {m} /\ Managed(m).min = 1 /\ Managed(m).max = 99
            /\ Managed(m).shapes = {"single", "equal", "majority_minority"}
<1>1. /\ Always.management = {"member_managed", "manager_managed"}
      /\ Always.min = 1 /\ Always.max = 99
      /\ Always.shapes = {"single", "equal", "majority_minority"}
  BY Zenon DEF Always
<1>2. ASSUME NEW m
      PROVE  /\ Managed(m).management = {m} /\ Managed(m).min = 1 /\ Managed(m).max = 99
             /\ Managed(m).shapes = {"single", "equal", "majority_minority"}
  BY DEF Always, Managed
<1>3. {"member_managed", "manager_managed"} = Models
  BY DEF Models
<1> QED BY <1>1, <1>2, <1>3, Zenon

(* A deal that has a section on governance is one every common clause      *)
(* applies to, and of the four on management exactly the two for its own.  *)
LEMMA Reach ==
  ASSUME NEW d, "governance" \in Categories(Sections(d)), d.management \in Models
  PROVE  /\ \A c \in Library : c.condition = Always => c \in Applicable(d)
         /\ \A c \in Library : \A m : c.condition = Managed(m) =>
              (c \in Applicable(d) <=> m = d.management)
<1>1. PICK g \in Applicable(d) : g.category = "governance"
  <2>1. PICK s \in Sections(d) : s.clause.category = "governance"
    BY Zenon DEF Categories
  <2> QED BY <2>1, EachSection, Zenon
<1>2. g \in Library /\ Matches(g, d)
  BY Zenon DEF Applicable
<1>3. PICK m \in Models : g.condition = Managed(m)
  <2>1. ~Ordinary(g)
    BY <1>1 DEF Ordinary, OwnCategories
  <2>2. g \in {ManagerManaged, MemberManaged, ManagerAuthority, MemberAuthority}
    BY <1>2, <2>1, OrdinaryClauses, Zenon
  <2>3. "manager_managed" \in Models /\ "member_managed" \in Models
    BY DEF Models
  <2> QED BY <2>2, <2>3, GoverningClauses, Zenon
<1>4. d.shape \in {"single", "equal", "majority_minority"} /\ d.members \in 1..99
  <2>1. /\ g.condition.min = 1 /\ g.condition.max = 99
        /\ g.condition.shapes = {"single", "equal", "majority_minority"}
    BY <1>3, ConditionFields
  <2>2. /\ d.shape \in g.condition.shapes
        /\ d.members \in g.condition.min..g.condition.max
    BY <1>2, Zenon DEF Matches
  <2> QED BY <2>1, <2>2
<1>5. ASSUME NEW c \in Library, c.condition = Always PROVE c \in Applicable(d)
  BY <1>4, <1>5, ConditionFields, Zenon DEF Applicable, Matches
<1>6. ASSUME NEW c \in Library, NEW n, c.condition = Managed(n)
      PROVE  c \in Applicable(d) <=> n = d.management
  <2>1. /\ c.condition.min = 1 /\ c.condition.max = 99 /\ c.condition.management = {n}
        /\ c.condition.shapes = {"single", "equal", "majority_minority"}
    BY <1>6, ConditionFields
  <2>2. Matches(c, d) <=> /\ d.management \in {n}
                          /\ d.shape \in {"single", "equal", "majority_minority"}
                          /\ d.members \in 1..99
    BY <2>1, Zenon DEF Matches
  <2>3. d.management \in {n} <=> n = d.management
    BY Zenon
  <2> QED BY <1>4, <2>2, <2>3, Zenon DEF Applicable
<1> QED BY <1>5, <1>6, Zenon

\* The sections of a category.
InCategory(d, category) == {s \in Sections(d) : s.clause.category = category}

(* Such a paper has one section on governance and one on authority.        *)
LEMMA OneGoverning ==
  ASSUME NEW d, "governance" \in Categories(Sections(d)), d.management \in Models,
         NEW category \in OwnCategories
  PROVE  \E s : InCategory(d, category) = {s}
<1> DEFINE mgr == IF category = "governance" THEN ManagerManaged ELSE ManagerAuthority
           mem == IF category = "governance" THEN MemberManaged ELSE MemberAuthority
           own == IF d.management = "manager_managed" THEN mgr ELSE mem
<1>1. category \in {"governance", "authority"} /\ "governance" # "authority"
  BY DEF OwnCategories
<1>2. {ManagerManaged, MemberManaged, ManagerAuthority, MemberAuthority} \subseteq Library
  BY Zenon DEF Library
<1>3. /\ mgr.category = category /\ mgr.condition = Managed("manager_managed")
      /\ mem.category = category /\ mem.condition = Managed("member_managed")
      /\ mgr \in Library /\ mem \in Library
  BY <1>1, <1>2, GoverningClauses, Zenon
<1>4. \A c \in Library : c.category = category => c \in {mgr, mem}
  <2>1. \A c \in Library : c.category = category =>
          c \in {ManagerManaged, MemberManaged, ManagerAuthority, MemberAuthority}
    BY OrdinaryClauses, Zenon DEF Ordinary
  <2> QED BY <1>1, <2>1, GoverningClauses, Zenon
<1>5. d.management \in {"manager_managed", "member_managed"}
        /\ "manager_managed" # "member_managed"
  BY DEF Models
<1> HIDE DEF mgr, mem
<1>6. /\ mgr \in Applicable(d) <=> "manager_managed" = d.management
      /\ mem \in Applicable(d) <=> "member_managed" = d.management
  BY <1>3, Reach, Zenon
<1>7. own \in Applicable(d) /\ own.category = category
  BY <1>3, <1>5, <1>6, Zenon
<1>8. \A c \in Applicable(d) : c.category = category => c = own
  BY <1>4, <1>5, <1>6, Zenon DEF Applicable
<1> HIDE DEF own
<1>9. PICK s \in Sections(d) : s.clause = own
  BY <1>7, EachSection, Zenon
<1>10. ASSUME NEW x \in Sections(d), x.clause.category = category PROVE x = s
  <2>1. x.clause = own
    BY <1>8, <1>10, EachSection, Zenon
  <2> QED BY <1>9, <2>1, EachSection, Zenon
<1>11. InCategory(d, category) = {s}
  BY <1>7, <1>9, <1>10, Zenon DEF InCategory
<1> QED BY <1>11

(* No clause of the paper cites one it does not have.                      *)
LEMMA ReferencesKept ==
  ASSUME NEW d, "governance" \in Categories(Sections(d)), d.management \in Models
  PROVE  BrokenReferences(Sections(d)) = {}
<1>1. ASSUME NEW s \in Sections(d), NEW x \in s.variant.refs
      PROVE  \E c \in Applicable(d) : c.id = x
  <2> DEFINE c == s.clause
  <2>1. c \in Applicable(d) /\ c \in Library /\ s.variant \in c.variants
    BY EachSection, Zenon DEF Applicable
  <2>2. ASSUME x \in CitedIds PROVE \E e \in Applicable(d) : e.id = x
    <3>1. x \in {"capital-call-default", "restrictive-covenants",
                 "permitted-estate-transfer", "buyout-payment", "fair-market-value"}
      BY <2>2 DEF CitedIds
    <3> QED BY <3>1, CommonClauses, Reach, Zenon
  <2>3. CASE Ordinary(c)
    BY <2>1, <2>2, <2>3, Zenon DEF Ordinary, Fits
  <2>4. CASE c = ManagerManaged
    <3>1. x = "ordinary-course-authority"
      BY <2>1, <2>4, GoverningClauses, Zenon DEF Fits
    <3>2. ManagerAuthority \in Library
      BY Zenon DEF Library
    <3>3. ManagerAuthority \in Applicable(d)
      BY <2>1, <2>4, <3>2, GoverningClauses, Reach, Zenon
    <3> QED BY <3>1, <3>3, GoverningClauses, Zenon
  <2>5. CASE c = MemberManaged
    <3>1. x \in {"authority-partners", "restrictive-covenants"}
      BY <2>1, <2>5, GoverningClauses, Zenon DEF Fits
    <3>2. MemberAuthority \in Library
      BY Zenon DEF Library
    <3>3. MemberAuthority \in Applicable(d)
      BY <2>1, <2>5, <3>2, GoverningClauses, Reach, Zenon
    <3>4. "restrictive-covenants" \in CitedIds
      BY DEF CitedIds
    <3> QED BY <2>2, <3>1, <3>3, <3>4, GoverningClauses, Zenon
  <2>6. CASE c \in {ManagerAuthority, MemberAuthority}
    BY <2>1, <2>6, GoverningClauses, Zenon DEF Fits
  <2> QED BY <2>1, <2>3, <2>4, <2>5, <2>6, OrdinaryClauses, Zenon
<1> DEFINE refs == UNION {s.variant.refs : s \in Sections(d)}
           ids  == {s.clause.id : s \in Sections(d)}
<1>2. ASSUME NEW x \in refs PROVE x \in ids
  <2>1. PICK s \in Sections(d) : x \in s.variant.refs
    BY Zenon
  <2>2. PICK c \in Applicable(d) : c.id = x
    BY <1>1, <2>1, Zenon
  <2>3. PICK z \in Sections(d) : z.clause = c
    BY EachSection, Zenon
  <2> QED BY <2>2, <2>3, Zenon
<1>3. BrokenReferences(Sections(d)) = refs \ ids
  BY Zenon DEF BrokenReferences
<1> HIDE DEF refs, ids
<1> QED BY <1>2, <1>3, Zenon

(* No clause relies on a term that no clause of the paper defines.         *)
LEMMA TermsDefined ==
  ASSUME NEW d, "governance" \in Categories(Sections(d)), d.management \in Models
  PROVE  UndefinedTerms(Sections(d)) = {}
<1>1. \A c \in Library : c.relies \subseteq ReliedTerms
  <2>1. Owners \subseteq ReliedTerms /\ {} \subseteq ReliedTerms
    BY LibrarySets
  <2> QED BY <2>1, OrdinaryClauses, GoverningClauses, Zenon DEF Ordinary
<1> DEFINE own == IF d.management = "manager_managed" THEN ManagerManaged ELSE MemberManaged
<1>2. own \in Applicable(d) /\ own.defines = {"Manager", "Affiliate"}
  <2>1. /\ {ManagerManaged, MemberManaged} \subseteq Library
        /\ d.management \in {"manager_managed", "member_managed"}
    BY Zenon DEF Library, Models
  <2> QED BY <2>1, GoverningClauses, Reach, Zenon
<1>3. {Purpose, Capital, TransferOfInterests, Dissolution} \subseteq Applicable(d)
  BY CommonClauses, Reach, Zenon
<1> DEFINE defined == UNION {s.clause.defines : s \in Sections(d)}
<1>4. \A c \in Applicable(d) : c.defines \subseteq defined
  <2>1. ASSUME NEW c \in Applicable(d) PROVE c.defines \subseteq defined
    <3>1. PICK s \in Sections(d) : s.clause = c
      BY EachSection, Zenon
    <3> QED BY <3>1, Zenon
  <2> QED BY <2>1
<1> HIDE DEF own, defined
<1>5. ReliedTerms \subseteq defined
  <2>1. /\ {"Manager", "Affiliate"} \subseteq defined /\ {"Transfer"} \subseteq defined
        /\ {"Company", "Agreement"} \subseteq defined
        /\ {"Member", "Units", "Capital Contribution", "Unreturned Capital"} \subseteq defined
        /\ {"Certificate of Formation"} \subseteq defined
    BY <1>2, <1>3, <1>4, CommonClauses, Zenon
  <2> QED BY <2>1, Zenon DEF ReliedTerms
<1> DEFINE relied == UNION {s.clause.relies : s \in Sections(d)}
<1>6. ASSUME NEW x \in relied PROVE x \in defined
  <2>1. PICK s \in Sections(d) : x \in s.clause.relies
    BY Zenon
  <2> QED BY <1>1, <1>5, <2>1, EachSection, Zenon DEF Applicable
<1>7. UndefinedTerms(Sections(d)) = relied \ defined
  BY Zenon DEF UndefinedTerms, defined
<1> HIDE DEF relied
<1> QED BY <1>6, <1>7, Zenon

\* Three variants of a clause: two of them stand for an option.
Priced(f0, o1, f1, o2, f2) ==
  {Variant("standard", None, f0), Variant("standard", o1, f1), Variant("standard", o2, f2)}

\* The figures carried by the variant selected.
FiguresFor(variants, option, posture) == Nearest(Group(variants, option), posture).figures

(* With two of three variants standing for an option, the one for the      *)
(* option picked is chosen, or else the one that stands for none.          *)
LEMMA OfThree ==
  ASSUME NEW o1, NEW o2, NEW f0, NEW f1, NEW f2, NEW option, NEW posture \in DOMAIN Rank,
         o1 # None, o2 # None, o1 # o2
  PROVE  /\ option = o1 => FiguresFor(Priced(f0, o1, f1, o2, f2), option, posture) = f1
         /\ option = o2 => FiguresFor(Priced(f0, o1, f1, o2, f2), option, posture) = f2
         /\ option \notin {o1, o2} =>
              FiguresFor(Priced(f0, o1, f1, o2, f2), option, posture) = f0
<1> DEFINE a == Variant("standard", None, f0)
           b == Variant("standard", o1, f1)
           c == Variant("standard", o2, f2)
           all == {a, b, c}
           tagged == {v.option : v \in all} \ {None}
           one == IF option = o1 THEN b ELSE IF option = o2 THEN c ELSE a
<1>1. /\ a.option = None /\ b.option = o1 /\ c.option = o2
      /\ a.posture = "standard" /\ b.posture = "standard" /\ c.posture = "standard"
  BY Zenon DEF Variant
<1> HIDE DEF a, b, c
<1>2. tagged = {o1, o2}
  BY <1>1, Zenon
<1>3. Group(all, option) = {v \in all : v.option = IF option \in tagged THEN option ELSE None}
  BY <1>2, Zenon DEF Group
<1>4. Group(all, option) = {one}
  BY <1>1, <1>2, <1>3, Zenon
<1>5. one.posture \in DOMAIN Rank
  BY <1>1 DEF Rank
<1> HIDE DEF one
<1>6. Nearest({one}, posture) \in {one}
  BY <1>5, NearestProtects, Zenon
<1>7. FiguresFor(Priced(f0, o1, f1, o2, f2), option, posture) = one.figures
  BY <1>4, <1>6, Zenon DEF FiguresFor, Priced, a, b, c
<1>8. one = IF option = o1 THEN b ELSE IF option = o2 THEN c ELSE a
  BY DEF one
<1>9. a.figures = f0 /\ b.figures = f1 /\ c.figures = f2
  BY Zenon DEF Variant, a, b, c
<1> QED BY <1>7, <1>8, <1>9, Zenon

\* The figures in the text on fair market value for an appraisal.
FairValueDays ==
  {"fmv_agreement_days", "fmv_appraiser_days", "fmv_convergence_percent",
   "fmv_determination_days"}

(* The variants of the two clauses that a menu picks from.                 *)
LEMMA PricedVariants ==
  /\ FairMarketValue.variants =
       {Variant("standard", None, FairValueDays),
        Variant("standard", "formula", {"earnings_multiple"}),
        Variant("standard", "fixed", {"fixed_value", "fixed_value_reset_months"})}
  /\ BuyoutPayment.variants =
       {Variant("standard", None, {"buyout_cash_percent", "buyout_note_months"}),
        Variant("standard", "earnout", {"earnout_period_months", "earnout_price_percent"}),
        Variant("standard", "cash", {})}
<1>1. ASSUME NEW id, NEW category, NEW defines, NEW figures
      PROVE  Carries(figures, {"standard"},
               Clause(id, category, {"standard"}, defines, {})).variants
                 = {Variant("standard", None, figures)}
  <2> DEFINE c == Clause(id, category, {"standard"}, defines, {})
             v == Variant("standard", None, {})
             f(x) == IF x.posture \in {"standard"} THEN [x EXCEPT !.figures = figures] ELSE x
  <2>1. c.variants = {v}
    BY Zenon DEF Clause
  <2>2. Carries(figures, {"standard"}, c).variants = {f(x) : x \in c.variants}
    BY Zenon DEF Carries, Clause
  <2>3. v.posture = "standard"
    BY Zenon DEF Variant
  <2>4. [v EXCEPT !.figures = figures] = Variant("standard", None, figures)
    BY DEF Variant
  <2>5. f(v) = Variant("standard", None, figures)
    BY <2>3, <2>4, Zenon
  <2> HIDE DEF c, v, f
  <2>6. {f(x) : x \in c.variants} = {f(v)}
    BY <2>1, Zenon
  <2> QED BY <2>2, <2>5, <2>6, Zenon DEF c
<1>2. ASSUME NEW id, NEW category, NEW defines, NEW f0, NEW o1, NEW f1, NEW o2, NEW f2
      PROVE  ForOption(o2, f2, ForOption(o1, f1, Carries(f0, {"standard"},
               Clause(id, category, {"standard"}, defines, {})))).variants
                 = {Variant("standard", None, f0), Variant("standard", o1, f1),
                    Variant("standard", o2, f2)}
  <2> DEFINE c == Carries(f0, {"standard"}, Clause(id, category, {"standard"}, defines, {}))
  <2>1. c.variants = {Variant("standard", None, f0)}
    BY <1>1, Zenon
  <2>2. ForOption(o1, f1, c).variants = c.variants \cup {Variant("standard", o1, f1)}
    BY Zenon DEF ForOption, Carries, Clause
  <2>3. ForOption(o2, f2, ForOption(o1, f1, c)).variants =
          ForOption(o1, f1, c).variants \cup {Variant("standard", o2, f2)}
    BY Zenon DEF ForOption, Carries, Clause
  <2> HIDE DEF c
  <2>4. ForOption(o2, f2, ForOption(o1, f1, c)).variants =
          {Variant("standard", None, f0), Variant("standard", o1, f1),
           Variant("standard", o2, f2)}
    BY <2>1, <2>2, <2>3, Zenon
  <2> QED BY <2>4 DEF c
<1>3. FairMarketValue.variants =
       {Variant("standard", None, FairValueDays),
        Variant("standard", "formula", {"earnings_multiple"}),
        Variant("standard", "fixed", {"fixed_value", "fixed_value_reset_months"})}
  <2>1. FairMarketValue =
          ForOption("fixed", {"fixed_value", "fixed_value_reset_months"},
            ForOption("formula", {"earnings_multiple"}, Carries(FairValueDays, {"standard"},
              Clause("fair-market-value", "valuation", {"standard"},
                     {"Fair Market Value"}, {}))))
    BY Zenon DEF FairMarketValue, FairValueDays
  <2>2. ASSUME NEW f0, NEW f1, NEW f2, NEW defines,
               FairMarketValue =
                 ForOption("fixed", f2, ForOption("formula", f1, Carries(f0, {"standard"},
                   Clause("fair-market-value", "valuation", {"standard"}, defines, {}))))
        PROVE  FairMarketValue.variants =
                 {Variant("standard", None, f0), Variant("standard", "formula", f1),
                  Variant("standard", "fixed", f2)}
    BY <1>2, <2>2
  <2> QED BY <2>1, <2>2
<1>4. BuyoutPayment.variants =
       {Variant("standard", None, {"buyout_cash_percent", "buyout_note_months"}),
        Variant("standard", "earnout", {"earnout_period_months", "earnout_price_percent"}),
        Variant("standard", "cash", {})}
  BY <1>2 DEF BuyoutPayment
<1> QED BY <1>3, <1>4

(* The figures of a clause that applies have a place in the paper.         *)
LEMMA SectionOf ==
  ASSUME NEW d, NEW c \in Applicable(d)
  PROVE  Nearest(Group(c.variants, Option(c, d)), Posture(d)).figures
           \subseteq OpenFigures(Sections(d))
<1> DEFINE v == Nearest(Group(c.variants, Option(c, d)), Posture(d))
           s == [clause |-> c, variant |-> v]
<1>1. s \in Sections(d)
  BY EachSection, Zenon DEF Sections
<1>2. s.variant = v
  OBVIOUS
<1> HIDE DEF s, v
<1>3. v.figures \subseteq OpenFigures(Sections(d))
  BY <1>1, <1>2, Zenon DEF OpenFigures
<1> QED BY <1>3 DEF v

(* The figures inside the valuation and the payment picked have a place.   *)
LEMMA FiguresPlaced ==
  ASSUME NEW p, NEW picks,
         "governance" \in Categories(Sections(DealProfile(p, picks))),
         picks["valuation"] \in DOMAIN ValuationMenu(p),
         picks["payment"] \in DOMAIN PaymentMenu
  PROVE  LET open == OpenFigures(Sections(DealProfile(p, picks))) IN
           /\ \A label \in DOMAIN ValuationMenu(p)[picks["valuation"]] :
                VariableOf[label] \in open
           /\ \A label \in DOMAIN PaymentMenu[picks["payment"]] :
                VariableOf[label] \in open
<1> DEFINE d == DealProfile(p, picks)
           open == OpenFigures(Sections(d))
<1>1. d.management \in Models /\ d.terms = [c \in DOMAIN MenuOf |-> picks[MenuOf[c]]]
  BY Zenon DEF DealProfile, ManagementModel, Models
<1>2. /\ "valuation" \in DOMAIN d.terms /\ d.terms["valuation"] = picks["valuation"]
      /\ "buyout_payment" \in DOMAIN d.terms
      /\ d.terms["buyout_payment"] = picks["payment"]
  BY <1>1 DEF MenuOf
<1>3. "governance" \in Categories(Sections(d)) /\ Posture(d) \in DOMAIN Rank
  BY DEF Posture, Rank
<1> HIDE DEF d
<1>4. FairMarketValue \in Applicable(d) /\ BuyoutPayment \in Applicable(d)
  BY <1>1, <1>3, CommonClauses, Reach, Zenon
<1>5. /\ Option(FairMarketValue, d) = picks["valuation"]
      /\ Option(BuyoutPayment, d) = picks["payment"]
  BY <1>2, CommonClauses, Zenon DEF Option
<1>6. \A o, f : Variant("standard", o, f).figures = f
  BY Zenon DEF Variant
<1>7. /\ "formula" # None /\ "fixed" # None /\ "formula" # "fixed"
      /\ "earnout" # None /\ "cash" # None /\ "earnout" # "cash"
  <2>1. "formula" # "fixed" /\ "earnout" # "cash"
    OBVIOUS
  <2> QED BY <2>1, ClauseAssumption, Zenon
<1>8. ASSUME NEW label \in DOMAIN ValuationMenu(p)[picks["valuation"]]
      PROVE  VariableOf[label] \in open
  <2> DEFINE v == Nearest(Group(FairMarketValue.variants, picks["valuation"]), Posture(d))
  <2>1. v.figures \subseteq open
    BY <1>4, <1>5, SectionOf, Zenon
  <2>2. /\ picks["valuation"] = "formula" => v.figures = {"earnings_multiple"}
        /\ picks["valuation"] = "fixed" =>
             v.figures = {"fixed_value", "fixed_value_reset_months"}
        /\ picks["valuation"] \notin {"formula", "fixed"} =>
             v.figures = FairValueDays
    <3>1. ASSUME NEW f0, NEW f1, NEW f2, NEW option, NEW variants,
                 variants = Priced(f0, "formula", f1, "fixed", f2)
          PROVE  /\ option = "formula" => FiguresFor(variants, option, Posture(d)) = f1
                 /\ option = "fixed" => FiguresFor(variants, option, Posture(d)) = f2
                 /\ option \notin {"formula", "fixed"} =>
                      FiguresFor(variants, option, Posture(d)) = f0
      BY <1>3, <1>7, <3>1, OfThree
    <3>2. FairMarketValue.variants =
            Priced(FairValueDays, "formula", {"earnings_multiple"},
                   "fixed", {"fixed_value", "fixed_value_reset_months"})
      BY PricedVariants, Zenon DEF Priced
    <3>3. v.figures = FiguresFor(FairMarketValue.variants, picks["valuation"], Posture(d))
      BY Zenon DEF FiguresFor
    <3> HIDE DEF v
    <3> QED BY <3>1, <3>2, <3>3
  <2> HIDE DEF v, open
  <2>3. picks["valuation"] \in {"appraisal", "formula", "fixed"}
    BY DEF ValuationMenu
  <2>4. CASE picks["valuation"] = "appraisal"
    <3>1. v.figures = FairValueDays
      BY <2>2, <2>4
    <3>2. label \in {"agreement_days", "appraiser_days", "convergence_percent",
                     "determination_days"}
      BY <2>4 DEF ValuationMenu
    <3>3. VariableOf[label] \in FairValueDays
      BY <3>2 DEF VariableOf, FairValueDays
    <3> QED BY <2>1, <3>1, <3>3, Zenon
  <2>5. CASE picks["valuation"] = "formula"
    <3>1. v.figures = {"earnings_multiple"}
      BY <2>2, <2>5
    <3>2. label = "earnings_multiple"
      BY <2>5 DEF ValuationMenu
    <3>3. VariableOf[label] = "earnings_multiple"
      BY <3>2 DEF VariableOf
    <3> QED BY <2>1, <3>1, <3>3, Zenon
  <2>6. CASE picks["valuation"] = "fixed"
    <3>1. v.figures = {"fixed_value", "fixed_value_reset_months"}
      BY <2>2, <2>6
    <3>2. label \in {"fixed_value", "reset_months"}
      BY <2>6 DEF ValuationMenu
    <3>3. VariableOf[label] \in {"fixed_value", "fixed_value_reset_months"}
      BY <3>2 DEF VariableOf
    <3> QED BY <2>1, <3>1, <3>3, Zenon
  <2> QED BY <2>3, <2>4, <2>5, <2>6
<1>9. ASSUME NEW label \in DOMAIN PaymentMenu[picks["payment"]]
      PROVE  VariableOf[label] \in open
  <2> DEFINE v == Nearest(Group(BuyoutPayment.variants, picks["payment"]), Posture(d))
  <2>1. v.figures \subseteq open
    BY <1>4, <1>5, SectionOf, Zenon
  <2>2. /\ picks["payment"] = "earnout" =>
             v.figures = {"earnout_period_months", "earnout_price_percent"}
        /\ picks["payment"] = "cash" => v.figures = {}
        /\ picks["payment"] \notin {"earnout", "cash"} =>
             v.figures = {"buyout_cash_percent", "buyout_note_months"}
    <3>1. ASSUME NEW f0, NEW f1, NEW f2, NEW option, NEW variants,
                 variants = Priced(f0, "earnout", f1, "cash", f2)
          PROVE  /\ option = "earnout" => FiguresFor(variants, option, Posture(d)) = f1
                 /\ option = "cash" => FiguresFor(variants, option, Posture(d)) = f2
                 /\ option \notin {"earnout", "cash"} =>
                      FiguresFor(variants, option, Posture(d)) = f0
      BY <1>3, <1>7, <3>1, OfThree
    <3>2. BuyoutPayment.variants =
            Priced({"buyout_cash_percent", "buyout_note_months"}, "earnout",
                   {"earnout_period_months", "earnout_price_percent"}, "cash", {})
      BY PricedVariants, Zenon DEF Priced
    <3>3. v.figures = FiguresFor(BuyoutPayment.variants, picks["payment"], Posture(d))
      BY Zenon DEF FiguresFor
    <3> HIDE DEF v
    <3> QED BY <3>1, <3>2, <3>3
  <2> HIDE DEF v, open
  <2>3. picks["payment"] \in {"cash", "note", "earnout"}
    BY DEF PaymentMenu
  <2>4. CASE picks["payment"] = "cash"
    <3>1. PaymentMenu[picks["payment"]] = NoFigures
      BY <2>4 DEF PaymentMenu
    <3>2. DOMAIN NoFigures = {}
      BY Zenon DEF NoFigures
    <3> QED BY <3>1, <3>2
  <2>5. CASE picks["payment"] = "note"
    <3>1. v.figures = {"buyout_cash_percent", "buyout_note_months"}
      BY <2>2, <2>5
    <3>2. label \in {"cash_percent", "note_months"}
      BY <2>5 DEF PaymentMenu
    <3>3. VariableOf[label] \in {"buyout_cash_percent", "buyout_note_months"}
      BY <3>2 DEF VariableOf
    <3> QED BY <2>1, <3>1, <3>3, Zenon
  <2>6. CASE picks["payment"] = "earnout"
    <3>1. v.figures = {"earnout_period_months", "earnout_price_percent"}
      BY <2>2, <2>6
    <3>2. label \in {"earnout_percent", "earnout_months"}
      BY <2>6 DEF PaymentMenu
    <3>3. VariableOf[label] \in {"earnout_period_months", "earnout_price_percent"}
      BY <3>2 DEF VariableOf
    <3> QED BY <2>1, <3>1, <3>3, Zenon
  <2> QED BY <2>3, <2>4, <2>5, <2>6
<1> QED BY <1>8, <1>9, Zenon DEF d
=============================================================================
