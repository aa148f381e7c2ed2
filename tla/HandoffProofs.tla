---------------------------- MODULE HandoffProofs -----------------------------
(***************************************************************************)
(* Theorems about the hand-off from a structure memo to an agreement, for  *)
(* any ventures, figures and options, any number of threads and artifacts, *)
(* and whatever is confirmed, selected, decided or reset in between.       *)
(*                                                                         *)
(* The hand-off reads four databases one after the other.  What it has     *)
(* read may be stale when it is used, but each thing a thread holds stays  *)
(* true of it: the memo is never written again, an acceptance is final,    *)
(* and a figure once confirmed was once confirmed (TermJobOK).  What a     *)
(* memo and an agreement say is a function of their venture and of the     *)
(* options picked (MemoOK, PaperOK), so that what every chart and every    *)
(* paper has follows from the engine and the clause library.               *)
(***************************************************************************)
EXTENDS StructureHandoff, ArtifactReviewProofs, EngineProofs, FiniteSetTheorems

-----------------------------------------------------------------------------
(* What the engine does with figures and options.                          *)

(* Each value of an agreement is a figure that was stated, and each figure *)
(* of an option picked that the library has a variable for is a value.     *)
Matched(values, figures, menu, picks) ==
  /\ \A v \in values : \E d \in figures :
       /\ d[2] = v[2]
       /\ \/ d[1] \in DOMAIN VariableOf /\ VariableOf[d[1]] = v[1]
          \/ <<d[1], v[1]>> \in
               {<<Threshold, "ordinary_course_threshold">>,
                <<Approval, "member_approval_threshold">>,
                <<ShotgunDays, "buysell_election_days">>}
  /\ \A m \in DOMAIN picks :
       \A label \in DOMAIN menu[m][picks[m]] \cap DOMAIN VariableOf :
         \E v \in values : v[1] = VariableOf[label]

(* A figure that was stated is among those recorded.                       *)
LEMMA EachRecorded ==
  ASSUME NEW figures, NEW label \in DOMAIN figures, figures[label] # None
  PROVE  <<label, figures[label]>> \in Recorded(figures)
  BY DEF Recorded

(* The labels the engine reads and names variables after are labels it     *)
(* asks for.                                                               *)
LEMMA LabelsHold ==
  /\ Threshold \in Labels /\ Approval \in Labels /\ ShotgunDays \in Labels
  /\ DOMAIN VariableOf \subseteq Labels
  BY DEF Labels

\* A figure that is due and not missing was stated.
LEMMA StatedFigures ==
  ASSUME NEW p, NEW figures, NEW picks, Unconfirmed(p, figures, picks) = {},
         NEW g \in PickedFigures(p, picks)
  PROVE  figures[g[1]] # None
<1> DEFINE n == Number(g[1], g[2], figures)
<1>1. n \in DerivedNumbers(p, figures, picks)
  BY Zenon DEF DerivedNumbers
<1>2. n.state = "stated"
  BY <1>1, Zenon DEF Unconfirmed
<1> QED BY <1>2 DEF Number

(* A figure of a picked option is one the engine derives.                  *)
LEMMA PickedFigure ==
  ASSUME NEW p, NEW picks, NEW m \in DOMAIN picks, picks[m] # None,
         NEW label \in DOMAIN menus(p)[m][picks[m]]
  PROVE  <<label, menus(p)[m][picks[m]][label]>> \in PickedFigures(p, picks)
<1> DEFINE pairs(area) == LET figures == menus(p)[area][picks[area]]
                          IN  {<<x, figures[x]>> : x \in DOMAIN figures}
           areas == {n \in DOMAIN picks : picks[n] # None}
<1>1. <<label, menus(p)[m][picks[m]][label]>> \in pairs(m)
  BY Zenon
<1>2. pairs(m) \in {pairs(area) : area \in areas}
  <2>1. m \in areas
    OBVIOUS
  <2> HIDE DEF pairs, areas
  <2> QED BY <2>1, Zenon
<1>3. PickedFigures(p, picks) = UNION {pairs(area) : area \in areas}
  BY Zenon DEF PickedFigures
<1> HIDE DEF pairs, areas
<1> QED BY <1>1, <1>2, <1>3, Zenon

(* Nothing decided is lost and nothing invented when figures and picks are *)
(* turned into the values of a draft.                                      *)
LEMMA ValuesMatch ==
  ASSUME NEW p, NEW figures, NEW picks, DOMAIN figures = Labels,
         Unconfirmed(p, figures, picks) = {}, Unselected(picks) = {}
  PROVE  Matched(DerivedValues(p, figures, picks), Recorded(figures), menus(p), picks)
<1> DEFINE values == DerivedValues(p, figures, picks)
           inText == {f[1] : f \in {g \in PickedFigures(p, picks) :
                                      /\ g[1] \in DOMAIN VariableOf
                                      /\ figures[g[1]] # None}}
<1>1. ASSUME NEW v \in values
      PROVE  \/ v = <<"ordinary_course_threshold", figures[Threshold]>>
                  /\ figures[Threshold] # None
             \/ v = <<"member_approval_threshold", figures[Approval]>>
                  /\ figures[Approval] # None
             \/ v = <<"buysell_election_days", figures[ShotgunDays]>>
                  /\ figures[ShotgunDays] # None
             \/ \E label \in DOMAIN VariableOf :
                  /\ v = <<VariableOf[label], figures[label]>>
                  /\ figures[label] # None
  BY <1>1, Zenon DEF DerivedValues, When
<1>2. ASSUME NEW v \in values
      PROVE  \E d \in Recorded(figures) :
               /\ d[2] = v[2]
               /\ \/ d[1] \in DOMAIN VariableOf /\ VariableOf[d[1]] = v[1]
                  \/ <<d[1], v[1]>> \in
                       {<<Threshold, "ordinary_course_threshold">>,
                        <<Approval, "member_approval_threshold">>,
                        <<ShotgunDays, "buysell_election_days">>}
  <2> HIDE DEF values
  <2>1. CASE v = <<"ordinary_course_threshold", figures[Threshold]>>
               /\ figures[Threshold] # None
    <3>1. <<Threshold, figures[Threshold]>> \in Recorded(figures)
      BY <2>1, LabelsHold, EachRecorded
    <3> QED BY <2>1, <3>1
  <2>2. CASE v = <<"member_approval_threshold", figures[Approval]>>
               /\ figures[Approval] # None
    <3>1. <<Approval, figures[Approval]>> \in Recorded(figures)
      BY <2>2, LabelsHold, EachRecorded
    <3> QED BY <2>2, <3>1
  <2>3. CASE v = <<"buysell_election_days", figures[ShotgunDays]>>
               /\ figures[ShotgunDays] # None
    <3>1. <<ShotgunDays, figures[ShotgunDays]>> \in Recorded(figures)
      BY <2>3, LabelsHold, EachRecorded
    <3> QED BY <2>3, <3>1
  <2>4. CASE \E label \in DOMAIN VariableOf :
               /\ v = <<VariableOf[label], figures[label]>>
               /\ figures[label] # None
    <3>1. PICK label \in DOMAIN VariableOf :
            /\ v = <<VariableOf[label], figures[label]>>
            /\ figures[label] # None
      BY <2>4
    <3>2. <<label, figures[label]>> \in Recorded(figures)
      BY <3>1, LabelsHold, EachRecorded
    <3> QED BY <3>1, <3>2
  <2> QED BY <1>1, <1>2, <2>1, <2>2, <2>3, <2>4 DEF values
<1>3. ASSUME NEW m \in DOMAIN picks,
             NEW label \in DOMAIN menus(p)[m][picks[m]] \cap DOMAIN VariableOf
      PROVE  \E v \in values : v[1] = VariableOf[label]
  <2> DEFINE g == <<label, menus(p)[m][picks[m]][label]>>
             w == <<VariableOf[label], figures[label]>>
  <2>1. picks[m] # None
    BY Zenon DEF Unselected
  <2>2. g \in PickedFigures(p, picks) /\ g[1] = label
    BY <2>1, PickedFigure
  <2>3. figures[label] # None
    BY <2>2, StatedFigures
  <2>4. label \in inText
    BY <2>2, <2>3, Zenon
  <2>5. w \in values
    BY <2>4, Zenon DEF DerivedValues
  <2>6. w[1] = VariableOf[label]
    OBVIOUS
  <2> HIDE DEF w, values
  <2> QED BY <2>5, <2>6, Zenon
<1> QED BY <1>2, <1>3, Zenon DEF Matched

(* An option that counts is the one selected.                              *)
LEMMA PicksSelected ==
  ASSUME NEW p, NEW sel, DOMAIN sel = MenuAreas
  PROVE  /\ DOMAIN Picks(p, sel) = DOMAIN menus(p)
         /\ \A m \in DOMAIN menus(p) :
              /\ m \in MenuAreas
              /\ Picks(p, sel)[m] \in DOMAIN menus(p)[m] \cup {None}
              /\ Picks(p, sel)[m] # None => <<m, Picks(p, sel)[m]>> \in Recorded(sel)
<1>1. DOMAIN Picks(p, sel) = DOMAIN menus(p)
  BY Zenon DEF Picks
<1>2. DOMAIN menus(p) \subseteq MenuAreas
  BY Zenon DEF menus
<1>3. ASSUME NEW m \in DOMAIN menus(p)
      PROVE  /\ Picks(p, sel)[m] \in DOMAIN menus(p)[m] \cup {None}
             /\ Picks(p, sel)[m] # None => Picks(p, sel)[m] = sel[m]
  BY Zenon DEF Picks
<1> QED BY <1>1, <1>2, <1>3, EachRecorded, Zenon

(* An agreement that can be drafted has a section on governance, and its   *)
(* options are on the menus of its venture.                                *)
LEMMA DraftablePaper ==
  ASSUME NEW r, NEW figures, NEW picks, Draftable(r, figures, picks),
         DOMAIN picks = DOMAIN menus(r.profile),
         \A m \in DOMAIN picks : picks[m] \in DOMAIN menus(r.profile)[m] \cup {None}
  PROVE  /\ "governance" \in Categories(Sections(DealProfile(r.profile, picks)))
         /\ \A m \in {"valuation", "payment"} : picks[m] \in DOMAIN menus(r.profile)[m]
<1> DEFINE p == r.profile
           sections == Sections(DealProfile(p, picks))
           t == ApprovalThreshold(p, figures)
<1>1. Unmet(p, t, sections) = {} /\ Unselected(picks) = {}
  BY Zenon DEF Draftable, Undecided
<1>2. "governance" \in ExpectedCategories(p, t)
  BY Zenon DEF ExpectedCategories
<1> HIDE DEF sections, t
<1>3. "governance" \in Categories(sections)
  BY <1>1, <1>2, Zenon DEF Unmet
<1>4. {"valuation", "payment"} \subseteq DOMAIN picks
  <2>1. MenuAreas \ {"waterfall"} \subseteq DOMAIN menus(p)
    BY Zenon DEF menus
  <2>2. {"valuation", "payment"} \subseteq MenuAreas \ {"waterfall"}
    BY DEF MenuAreas
  <2> QED BY <2>1, <2>2
<1>5. \A m \in DOMAIN picks : picks[m] # None
  BY <1>1, Zenon DEF Unselected
<1> QED BY <1>3, <1>4, <1>5, Zenon DEF sections

(* The threshold a memo is computed with is a number.                      *)
LEMMA ThresholdNat ==
  ASSUME NEW p, NEW figures, figures[Approval] \in Nat \cup {None}
  PROVE  ApprovalThreshold(p, figures) \in Nat
<1>1. ProposedApproval[ApprovalRule(p)] \in Nat
  <2>1. ApprovalRule(p) \in {"unanimous", "supermajority", "majority_with_minority_veto"}
    BY Zenon DEF ApprovalRule
  <2> QED BY <2>1 DEF ProposedApproval
<1>2. \A x, proposed : Number(x, proposed, figures).value =
        IF figures[x] # None THEN figures[x] ELSE proposed
  BY DEF Number
<1> QED BY <1>1, <1>2, Zenon DEF ApprovalThreshold

-----------------------------------------------------------------------------
(* The chart of a venture.                                                 *)

\* A layer of a sector holds the licence exactly when it stands in for the
\* licensing entity, and the rights exactly when for the IP entity; such a
\* layer is there once.  No layer is an operating company.
LayerOnce(a) ==
  /\ a.role # "OpCo"
  /\ a.role \in LicenceRoles <=> a.supersedes = "licence"
  /\ a.role \in RightsRoles <=> a.supersedes = "ip"
  /\ a.supersedes # "" => ~a.perUnit

\* The layers of a sector, at most one in place of each general entity.
LayersOnce(layers) ==
  \A a \in layers :
    /\ LayerOnce(a)
    /\ \A b \in layers : a.supersedes = b.supersedes /\ a.supersedes # "" => a = b

(* What a layer that replaces nothing says ...                             *)
LEMMA LayerFields ==
  \A stem, role :
    /\ Layer(stem, role).role = role /\ Layer(stem, role).supersedes = ""
    /\ PerUnit(Layer(stem, role)).role = role
    /\ PerUnit(Layer(stem, role)).supersedes = ""
BY Zenon DEF Layer, PerUnit

(* ... and what one that replaces a general entity says.                   *)
LEMMA InsteadFields ==
  \A kind, stem, role :
    /\ InsteadOf(kind, Layer(stem, role)).role = role
    /\ InsteadOf(kind, Layer(stem, role)).supersedes = kind
    /\ ~InsteadOf(kind, Layer(stem, role)).perUnit
BY Zenon DEF Layer, InsteadOf

(* The layers of a pattern are those it was written with.                  *)
LEMMA PatternLayers ==
  \A l, r, p, q : Pattern(l, r, p, q).layers = l
BY DEF Pattern

(* The two general entities that can be replaced, and none of them.        *)
LEMMA KindsDiffer == "licence" # "ip" /\ "licence" # "" /\ "ip" # ""
OBVIOUS

(* A layer for another job than the licence, the rights and the operations *)
(* is right, once or per unit.                                             *)
LEMMA PlainLayer ==
  ASSUME NEW stem, NEW role, role \notin LicenceRoles \cup RightsRoles \cup {"OpCo"}
  PROVE  LayerOnce(Layer(stem, role)) /\ LayerOnce(PerUnit(Layer(stem, role)))
<1> DEFINE l == Layer(stem, role)
<1>1. l.role = role /\ l.supersedes = ""
  BY LayerFields, Zenon
<1>2. PerUnit(l).role = role /\ PerUnit(l).supersedes = ""
  BY LayerFields, Zenon
<1> HIDE DEF l
<1>3. LayerOnce(l)
  BY <1>1, KindsDiffer, Zenon DEF LayerOnce
<1>4. LayerOnce(PerUnit(l))
  BY <1>2, KindsDiffer, Zenon DEF LayerOnce
<1> QED BY <1>3, <1>4 DEF l

(* A layer for the licence is right in place of the licensing entity.      *)
LEMMA LicenceLayer ==
  ASSUME NEW stem, NEW role \in LicenceRoles
  PROVE  LayerOnce(InsteadOf("licence", Layer(stem, role)))
<1> DEFINE l == InsteadOf("licence", Layer(stem, role))
<1>1. role # "OpCo" /\ role \notin RightsRoles
  BY DEF LicenceRoles, RightsRoles
<1>2. l.role = role /\ l.supersedes = "licence" /\ ~l.perUnit
  BY InsteadFields
<1> HIDE DEF l
<1>3. LayerOnce(l)
  BY <1>1, <1>2, KindsDiffer, Zenon DEF LayerOnce
<1> QED BY <1>3 DEF l

(* A layer for the rights is right in place of the IP entity.              *)
LEMMA RightsLayer ==
  ASSUME NEW stem, NEW role \in RightsRoles
  PROVE  LayerOnce(InsteadOf("ip", Layer(stem, role)))
<1> DEFINE l == InsteadOf("ip", Layer(stem, role))
<1>1. role # "OpCo" /\ role \notin LicenceRoles
  BY DEF LicenceRoles, RightsRoles
<1>2. l.role = role /\ l.supersedes = "ip" /\ ~l.perUnit
  BY InsteadFields
<1> HIDE DEF l
<1>3. LayerOnce(l)
  BY <1>1, <1>2, KindsDiffer, Zenon DEF LayerOnce
<1> QED BY <1>3 DEF l

(* The layers of film.                                                     *)
LEMMA FilmLayers == LayersOnce(FILM.layers)
<1> DEFINE a == PerUnit(Layer("Productions", "Production vehicle"))
           b == InsteadOf("ip", Layer("Rights", "Rights and library entity"))
<1>1. FILM.layers = {a, b}
  BY PatternLayers, Zenon DEF FILM
<1>2. LayerOnce(a)
  <2>1. "Production vehicle" \notin LicenceRoles \cup RightsRoles \cup {"OpCo"}
    BY DEF LicenceRoles, RightsRoles
  <2> QED BY <2>1, PlainLayer, Zenon
<1>3. LayerOnce(b)
  <2>1. "Rights and library entity" \in RightsRoles
    BY DEF RightsRoles
  <2> QED BY <2>1, RightsLayer, Zenon
<1>4. a.supersedes = "" /\ b.supersedes = "ip"
  <2>1. a.supersedes = ""
    BY LayerFields, Zenon
  <2>2. b.supersedes = "ip"
    BY InsteadFields
  <2> QED BY <2>1, <2>2
<1> HIDE DEF a, b
<1> QED BY <1>1, <1>2, <1>3, <1>4, KindsDiffer, Zenon DEF LayersOnce

(* The layers of skilled trades.                                           *)
LEMMA TradeLayers == LayersOnce(SKILLED_TRADES.layers)
<1> DEFINE a == InsteadOf("licence", Layer("Licensing", "Licence and qualifier entity"))
           b == Layer("Fleet", "Equipment and vehicle entity")
<1>1. SKILLED_TRADES.layers = {a, b}
  BY PatternLayers, Zenon DEF SKILLED_TRADES
<1>2. LayerOnce(a)
  <2>1. "Licence and qualifier entity" \in LicenceRoles
    BY DEF LicenceRoles
  <2> QED BY <2>1, LicenceLayer, Zenon
<1>3. LayerOnce(b)
  <2>1. "Equipment and vehicle entity" \notin LicenceRoles \cup RightsRoles \cup {"OpCo"}
    BY DEF LicenceRoles, RightsRoles
  <2> QED BY <2>1, PlainLayer, Zenon
<1>4. a.supersedes = "licence" /\ b.supersedes = ""
  <2>1. a.supersedes = "licence"
    BY InsteadFields
  <2>2. b.supersedes = ""
    BY LayerFields, Zenon
  <2> QED BY <2>1, <2>2
<1> HIDE DEF a, b
<1> QED BY <1>1, <1>2, <1>3, <1>4, KindsDiffer, Zenon DEF LayersOnce

(* The layers of hospitality.                                              *)
LEMMA HospitalityLayers == LayersOnce(HOSPITALITY.layers)
<1> DEFINE a == InsteadOf("ip", Layer("Brand", "Brand and recipe entity"))
           b == PerUnit(Layer("Location", "Location operating entity"))
           c == InsteadOf("licence", Layer("Beverage", "Liquor licence entity"))
<1>1. HOSPITALITY.layers = {a, b, c}
  BY PatternLayers, Zenon DEF HOSPITALITY
<1>2. LayerOnce(a)
  <2>1. "Brand and recipe entity" \in RightsRoles
    BY DEF RightsRoles
  <2> QED BY <2>1, RightsLayer, Zenon
<1>3. LayerOnce(b)
  <2>1. "Location operating entity" \notin LicenceRoles \cup RightsRoles \cup {"OpCo"}
    BY DEF LicenceRoles, RightsRoles
  <2> QED BY <2>1, PlainLayer, Zenon
<1>4. LayerOnce(c)
  <2>1. "Liquor licence entity" \in LicenceRoles
    BY DEF LicenceRoles
  <2> QED BY <2>1, LicenceLayer, Zenon
<1>5. a.supersedes = "ip" /\ b.supersedes = "" /\ c.supersedes = "licence"
  <2>1. a.supersedes = "ip"
    BY InsteadFields
  <2>2. b.supersedes = ""
    BY LayerFields, Zenon
  <2>3. c.supersedes = "licence"
    BY InsteadFields
  <2> QED BY <2>1, <2>2, <2>3
<1> HIDE DEF a, b, c
<1> QED BY <1>1, <1>2, <1>3, <1>4, <1>5, KindsDiffer, Zenon DEF LayersOnce

(* The layers of property held.                                            *)
LEMMA PropertyHoldLayers == LayersOnce(REAL_ESTATE_HOLD.layers)
<1> DEFINE a == Layer("Property Management", "Property management entity")
<1>1. REAL_ESTATE_HOLD.layers = {a}
  BY PatternLayers, Zenon DEF REAL_ESTATE_HOLD
<1>2. LayerOnce(a)
  <2>1. "Property management entity" \notin LicenceRoles \cup RightsRoles \cup {"OpCo"}
    BY DEF LicenceRoles, RightsRoles
  <2> QED BY <2>1, PlainLayer, Zenon
<1>3. a.supersedes = ""
  BY LayerFields, InsteadFields
<1> HIDE DEF a
<1> QED BY <1>1, <1>2, <1>3, KindsDiffer, Zenon DEF LayersOnce

(* The layers of development.                                              *)
LEMMA DevelopmentLayers == LayersOnce(DEVELOPMENT.layers)
<1> DEFINE a == PerUnit(Layer("Development", "Development entity"))
<1>1. DEVELOPMENT.layers = {a}
  BY PatternLayers, Zenon DEF DEVELOPMENT
<1>2. LayerOnce(a)
  <2>1. "Development entity" \notin LicenceRoles \cup RightsRoles \cup {"OpCo"}
    BY DEF LicenceRoles, RightsRoles
  <2> QED BY <2>1, PlainLayer, Zenon
<1>3. a.supersedes = ""
  BY LayerFields, InsteadFields
<1> HIDE DEF a
<1> QED BY <1>1, <1>2, <1>3, KindsDiffer, Zenon DEF LayersOnce

(* The layers of funds.                                                    *)
LEMMA FundLayers == LayersOnce(FUND.layers)
<1> DEFINE a == PerUnit(Layer("Fund", "Fund entity"))
           b == Layer("GP", "General partner entity")
           c == Layer("Management Company", "Management company")
<1>1. FUND.layers = {a, b, c}
  BY PatternLayers, Zenon DEF FUND
<1>2. LayerOnce(a)
  <2>1. "Fund entity" \notin LicenceRoles \cup RightsRoles \cup {"OpCo"}
    BY DEF LicenceRoles, RightsRoles
  <2> QED BY <2>1, PlainLayer, Zenon
<1>3. LayerOnce(b)
  <2>1. "General partner entity" \notin LicenceRoles \cup RightsRoles \cup {"OpCo"}
    BY DEF LicenceRoles, RightsRoles
  <2> QED BY <2>1, PlainLayer, Zenon
<1>4. LayerOnce(c)
  <2>1. "Management company" \notin LicenceRoles \cup RightsRoles \cup {"OpCo"}
    BY DEF LicenceRoles, RightsRoles
  <2> QED BY <2>1, PlainLayer, Zenon
<1>5. a.supersedes = "" /\ b.supersedes = "" /\ c.supersedes = ""
  <2>1. a.supersedes = ""
    BY LayerFields, Zenon
  <2>2. b.supersedes = ""
    BY LayerFields, Zenon
  <2>3. c.supersedes = ""
    BY LayerFields, Zenon
  <2> QED BY <2>1, <2>2, <2>3
<1> HIDE DEF a, b, c
<1> QED BY <1>1, <1>2, <1>3, <1>4, <1>5, KindsDiffer, Zenon DEF LayersOnce

(* The layers of IP licensing.                                             *)
LEMMA LicensingLayers == LayersOnce(IP_LICENSING.layers)
<1> DEFINE a == InsteadOf("ip", Layer("IP Holdings", "IP portfolio entity"))
           b == Layer("Licensing", "Licensing and royalty administration entity")
<1>1. IP_LICENSING.layers = {a, b}
  BY PatternLayers, Zenon DEF IP_LICENSING
<1>2. LayerOnce(a)
  <2>1. "IP portfolio entity" \in RightsRoles
    BY DEF RightsRoles
  <2> QED BY <2>1, RightsLayer, Zenon
<1>3. LayerOnce(b)
  <2>1. "Licensing and royalty administration entity" \notin LicenceRoles \cup RightsRoles \cup {"OpCo"}
    BY DEF LicenceRoles, RightsRoles
  <2> QED BY <2>1, PlainLayer, Zenon
<1>4. a.supersedes = "ip" /\ b.supersedes = ""
  <2>1. a.supersedes = "ip"
    BY InsteadFields
  <2>2. b.supersedes = ""
    BY LayerFields, Zenon
  <2> QED BY <2>1, <2>2
<1> HIDE DEF a, b
<1> QED BY <1>1, <1>2, <1>3, <1>4, KindsDiffer, Zenon DEF LayersOnce

(* The layers of professional services.                                    *)
LEMMA ProfessionalLayers == LayersOnce(PROFESSIONAL_SERVICES.layers)
<1> DEFINE a == Layer("Professional PLLC", "Professional entity")
           b == Layer("Management Company", "Management services entity")
<1>1. PROFESSIONAL_SERVICES.layers = {a, b}
  BY PatternLayers, Zenon DEF PROFESSIONAL_SERVICES
<1>2. LayerOnce(a)
  <2>1. "Professional entity" \notin LicenceRoles \cup RightsRoles \cup {"OpCo"}
    BY DEF LicenceRoles, RightsRoles
  <2> QED BY <2>1, PlainLayer, Zenon
<1>3. LayerOnce(b)
  <2>1. "Management services entity" \notin LicenceRoles \cup RightsRoles \cup {"OpCo"}
    BY DEF LicenceRoles, RightsRoles
  <2> QED BY <2>1, PlainLayer, Zenon
<1>4. a.supersedes = "" /\ b.supersedes = ""
  <2>1. a.supersedes = ""
    BY LayerFields, Zenon
  <2>2. b.supersedes = ""
    BY LayerFields, Zenon
  <2> QED BY <2>1, <2>2
<1> HIDE DEF a, b
<1> QED BY <1>1, <1>2, <1>3, <1>4, KindsDiffer, Zenon DEF LayersOnce

(* The layers of an operating business.                                    *)
LEMMA OperatingLayers == LayersOnce(OPERATING.layers)
<1>1. OPERATING.layers = {}
  BY PatternLayers, Zenon DEF OPERATING
<1> QED BY <1>1 DEF LayersOnce

(* The layers of every sector (sectors.py).                                *)
LEMMA SectorOnce == \A p : LayersOnce(SectorSpecs(p))
<1> SUFFICES ASSUME NEW p PROVE LayersOnce(SectorSpecs(p))
  OBVIOUS
<1>1. CASE sector(p) = None
  BY <1>1, Zenon DEF SectorSpecs, LayersOnce
<1>2. CASE sector(p) # None
  <2>1. p.activity \in DOMAIN SECTOR_PATTERNS /\ sector(p) = SECTOR_PATTERNS[p.activity]
    BY <1>2, Zenon DEF sector, pattern_for
  <2>2. SectorSpecs(p) = SECTOR_PATTERNS[p.activity].layers
    BY <1>2, <2>1, Zenon DEF SectorSpecs
  <2>3. SECTOR_PATTERNS[p.activity] \in
          {FILM, SKILLED_TRADES, HOSPITALITY, REAL_ESTATE_HOLD, DEVELOPMENT, FUND,
           IP_LICENSING, PROFESSIONAL_SERVICES, OPERATING}
    BY <2>1 DEF SECTOR_PATTERNS
  <2> QED BY <2>2, <2>3, FilmLayers, TradeLayers, HospitalityLayers, PropertyHoldLayers,
             DevelopmentLayers, FundLayers, LicensingLayers, ProfessionalLayers, OperatingLayers,
             Zenon
<1> QED BY <1>1, <1>2

-----------------------------------------------------------------------------
(* What the layers of the sectors are called, and whose licence they hold. *)

GeneralStems == {"Holdings", "IP", "PropCo", "Operations"}

\* No layer is called like a general entity, or like another layer.
Named(layers) ==
  \A a \in layers : /\ a.stem \notin GeneralStems
                     /\ \A b \in layers : a.stem = b.stem => a = b

NoLicence(layers)   == \A a \in layers : a.supersedes # "licence"
NoLicensing(layers) == \A a \in layers : a.stem # "Licensing"

(* A layer is called what it was written with.                             *)
LEMMA LayerStems ==
  \A kind, stem, role :
    /\ Layer(stem, role).stem = stem /\ PerUnit(Layer(stem, role)).stem = stem
    /\ InsteadOf(kind, Layer(stem, role)).stem = stem
BY Zenon DEF Layer, PerUnit, InsteadOf

(* The names of the layers of film.                                        *)
LEMMA FilmNames ==
  /\ Named(FILM.layers)
  /\ NoLicence(FILM.layers)
  /\ NoLicensing(FILM.layers)
<1> DEFINE a == PerUnit(Layer("Productions", "Production vehicle"))
           b == InsteadOf("ip", Layer("Rights", "Rights and library entity"))
<1>1. FILM.layers = {a, b}
  BY PatternLayers, Zenon DEF FILM
<1>2. /\ a.stem = "Productions" /\ a.role = "Production vehicle"
      /\ b.stem = "Rights" /\ b.role = "Rights and library entity"
  <2>1. a.stem = "Productions" /\ a.role = "Production vehicle"
    BY LayerStems, LayerFields, Zenon
  <2>2. b.stem = "Rights" /\ b.role = "Rights and library entity"
    <3>1. b.stem = "Rights"
      BY Zenon DEF InsteadOf, Layer
    <3>2. b.role = "Rights and library entity"
      BY Zenon DEF InsteadOf, Layer
    <3> QED BY <3>1, <3>2
  <2> QED BY <2>1, <2>2
<1>3. a.supersedes = ""
  BY LayerFields, Zenon
<1>4. b.supersedes = "ip"
  BY InsteadFields
<1> HIDE DEF a, b
<1> QED BY <1>1, <1>2, <1>3, <1>4 DEF Named, GeneralStems, NoLicence, NoLicensing

(* The names of the layers of the trades.                                  *)
LEMMA TradeNames ==
  /\ Named(SKILLED_TRADES.layers)
  /\ \A x \in SKILLED_TRADES.layers : x.supersedes = "licence" <=> x.role = "Licence and qualifier entity"
  /\ \A x \in SKILLED_TRADES.layers : x.stem = "Licensing" => x.supersedes = "licence"
  /\ \E x \in SKILLED_TRADES.layers : x.supersedes = "licence"
<1> DEFINE a == InsteadOf("licence", Layer("Licensing", "Licence and qualifier entity"))
           b == Layer("Fleet", "Equipment and vehicle entity")
<1>1. SKILLED_TRADES.layers = {a, b}
  BY PatternLayers, Zenon DEF SKILLED_TRADES
<1>2. /\ a.stem = "Licensing" /\ a.role = "Licence and qualifier entity"
      /\ b.stem = "Fleet" /\ b.role = "Equipment and vehicle entity"
  <2>1. a.stem = "Licensing" /\ a.role = "Licence and qualifier entity"
    <3>1. a.stem = "Licensing"
      BY Zenon DEF InsteadOf, Layer
    <3>2. a.role = "Licence and qualifier entity"
      BY Zenon DEF InsteadOf, Layer
    <3> QED BY <3>1, <3>2
  <2>2. b.stem = "Fleet" /\ b.role = "Equipment and vehicle entity"
    BY LayerStems, LayerFields, Zenon
  <2> QED BY <2>1, <2>2
<1>3. a.supersedes = "licence"
  BY InsteadFields
<1>4. b.supersedes = ""
  BY LayerFields, Zenon
<1> HIDE DEF a, b
<1> QED BY <1>1, <1>2, <1>3, <1>4 DEF Named, GeneralStems, NoLicence, NoLicensing

(* The names of the layers of hospitality.                                 *)
LEMMA HospitalityNames ==
  /\ Named(HOSPITALITY.layers)
  /\ NoLicensing(HOSPITALITY.layers)
  /\ \A x \in HOSPITALITY.layers : x.supersedes = "licence" <=> x.role = "Liquor licence entity"
  /\ \A x \in HOSPITALITY.layers : x.stem = "Licensing" => x.supersedes = "licence"
  /\ \E x \in HOSPITALITY.layers : x.supersedes = "licence"
<1> DEFINE a == InsteadOf("ip", Layer("Brand", "Brand and recipe entity"))
           b == PerUnit(Layer("Location", "Location operating entity"))
           c == InsteadOf("licence", Layer("Beverage", "Liquor licence entity"))
<1>1. HOSPITALITY.layers = {a, b, c}
  BY PatternLayers, Zenon DEF HOSPITALITY
<1>2. /\ a.stem = "Brand" /\ a.role = "Brand and recipe entity"
      /\ b.stem = "Location" /\ b.role = "Location operating entity"
      /\ c.stem = "Beverage" /\ c.role = "Liquor licence entity"
  <2>1. a.stem = "Brand" /\ a.role = "Brand and recipe entity"
    <3>1. a.stem = "Brand"
      BY Zenon DEF InsteadOf, Layer
    <3>2. a.role = "Brand and recipe entity"
      BY Zenon DEF InsteadOf, Layer
    <3> QED BY <3>1, <3>2
  <2>2. b.stem = "Location" /\ b.role = "Location operating entity"
    BY LayerStems, LayerFields, Zenon
  <2>3. c.stem = "Beverage" /\ c.role = "Liquor licence entity"
    <3>1. c.stem = "Beverage"
      BY Zenon DEF InsteadOf, Layer
    <3>2. c.role = "Liquor licence entity"
      BY Zenon DEF InsteadOf, Layer
    <3> QED BY <3>1, <3>2
  <2> QED BY <2>1, <2>2, <2>3
<1>3. a.supersedes = "ip"
  BY InsteadFields
<1>4. b.supersedes = ""
  BY LayerFields, Zenon
<1>5. c.supersedes = "licence"
  BY InsteadFields
<1> HIDE DEF a, b, c
<1> QED BY <1>1, <1>2, <1>3, <1>4, <1>5 DEF Named, GeneralStems, NoLicence, NoLicensing

(* The names of the layers of property held.                               *)
LEMMA PropertyHoldNames ==
  /\ Named(REAL_ESTATE_HOLD.layers)
  /\ NoLicence(REAL_ESTATE_HOLD.layers)
  /\ NoLicensing(REAL_ESTATE_HOLD.layers)
<1> DEFINE a == Layer("Property Management", "Property management entity")
<1>1. REAL_ESTATE_HOLD.layers = {a}
  BY PatternLayers, Zenon DEF REAL_ESTATE_HOLD
<1>2. /\ a.stem = "Property Management" /\ a.role = "Property management entity"
  <2>1. a.stem = "Property Management" /\ a.role = "Property management entity"
    BY LayerStems, LayerFields, Zenon
  <2> QED BY <2>1
<1>3. a.supersedes = ""
  BY LayerFields, Zenon
<1> HIDE DEF a
<1> QED BY <1>1, <1>2, <1>3 DEF Named, GeneralStems, NoLicence, NoLicensing

(* The names of the layers of a development.                               *)
LEMMA DevelopmentNames ==
  /\ Named(DEVELOPMENT.layers)
  /\ NoLicence(DEVELOPMENT.layers)
  /\ NoLicensing(DEVELOPMENT.layers)
<1> DEFINE a == PerUnit(Layer("Development", "Development entity"))
<1>1. DEVELOPMENT.layers = {a}
  BY PatternLayers, Zenon DEF DEVELOPMENT
<1>2. /\ a.stem = "Development" /\ a.role = "Development entity"
  <2>1. a.stem = "Development" /\ a.role = "Development entity"
    BY LayerStems, LayerFields, Zenon
  <2> QED BY <2>1
<1>3. a.supersedes = ""
  BY LayerFields, Zenon
<1> HIDE DEF a
<1> QED BY <1>1, <1>2, <1>3 DEF Named, GeneralStems, NoLicence, NoLicensing

(* The names of the layers of a fund.                                      *)
LEMMA FundNames ==
  /\ Named(FUND.layers)
  /\ NoLicence(FUND.layers)
  /\ NoLicensing(FUND.layers)
<1> DEFINE a == PerUnit(Layer("Fund", "Fund entity"))
           b == Layer("GP", "General partner entity")
           c == Layer("Management Company", "Management company")
<1>1. FUND.layers = {a, b, c}
  BY PatternLayers, Zenon DEF FUND
<1>2. /\ a.stem = "Fund" /\ a.role = "Fund entity"
      /\ b.stem = "GP" /\ b.role = "General partner entity"
      /\ c.stem = "Management Company" /\ c.role = "Management company"
  <2>1. a.stem = "Fund" /\ a.role = "Fund entity"
    BY LayerStems, LayerFields, Zenon
  <2>2. b.stem = "GP" /\ b.role = "General partner entity"
    BY LayerStems, LayerFields, Zenon
  <2>3. c.stem = "Management Company" /\ c.role = "Management company"
    BY LayerStems, LayerFields, Zenon
  <2> QED BY <2>1, <2>2, <2>3
<1>3. a.supersedes = ""
  BY LayerFields, Zenon
<1>4. b.supersedes = ""
  BY LayerFields, Zenon
<1>5. c.supersedes = ""
  BY LayerFields, Zenon
<1> HIDE DEF a, b, c
<1> QED BY <1>1, <1>2, <1>3, <1>4, <1>5 DEF Named, GeneralStems, NoLicence, NoLicensing

(* The names of the layers of licensing.                                   *)
LEMMA LicensingNames ==
  /\ Named(IP_LICENSING.layers)
  /\ NoLicence(IP_LICENSING.layers)
<1> DEFINE a == InsteadOf("ip", Layer("IP Holdings", "IP portfolio entity"))
           b == Layer("Licensing", "Licensing and royalty administration entity")
<1>1. IP_LICENSING.layers = {a, b}
  BY PatternLayers, Zenon DEF IP_LICENSING
<1>2. /\ a.stem = "IP Holdings" /\ a.role = "IP portfolio entity"
      /\ b.stem = "Licensing" /\ b.role = "Licensing and royalty administration entity"
  <2>1. a.stem = "IP Holdings" /\ a.role = "IP portfolio entity"
    <3>1. a.stem = "IP Holdings"
      BY Zenon DEF InsteadOf, Layer
    <3>2. a.role = "IP portfolio entity"
      BY Zenon DEF InsteadOf, Layer
    <3> QED BY <3>1, <3>2
  <2>2. b.stem = "Licensing" /\ b.role = "Licensing and royalty administration entity"
    BY LayerStems, LayerFields, Zenon
  <2> QED BY <2>1, <2>2
<1>3. a.supersedes = "ip"
  BY InsteadFields
<1>4. b.supersedes = ""
  BY LayerFields, Zenon
<1> HIDE DEF a, b
<1> QED BY <1>1, <1>2, <1>3, <1>4 DEF Named, GeneralStems, NoLicence, NoLicensing

(* The names of the layers of a practice.                                  *)
LEMMA ProfessionalNames ==
  /\ Named(PROFESSIONAL_SERVICES.layers)
  /\ NoLicence(PROFESSIONAL_SERVICES.layers)
  /\ NoLicensing(PROFESSIONAL_SERVICES.layers)
<1> DEFINE a == Layer("Professional PLLC", "Professional entity")
           b == Layer("Management Company", "Management services entity")
<1>1. PROFESSIONAL_SERVICES.layers = {a, b}
  BY PatternLayers, Zenon DEF PROFESSIONAL_SERVICES
<1>2. /\ a.stem = "Professional PLLC" /\ a.role = "Professional entity"
      /\ b.stem = "Management Company" /\ b.role = "Management services entity"
  <2>1. a.stem = "Professional PLLC" /\ a.role = "Professional entity"
    BY LayerStems, LayerFields, Zenon
  <2>2. b.stem = "Management Company" /\ b.role = "Management services entity"
    BY LayerStems, LayerFields, Zenon
  <2> QED BY <2>1, <2>2
<1>3. a.supersedes = ""
  BY LayerFields, Zenon
<1>4. b.supersedes = ""
  BY LayerFields, Zenon
<1> HIDE DEF a, b
<1> QED BY <1>1, <1>2, <1>3, <1>4 DEF Named, GeneralStems, NoLicence, NoLicensing

(* Every sector calls its layers by names of their own ...                 *)
LEMMA SectorNames ==
  ASSUME NEW p
  PROVE  /\ Named(SectorSpecs(p))
         /\ p.activity # "ip_licensing" =>
              \A a \in SectorSpecs(p) : a.stem = "Licensing" => a.supersedes = "licence"
         /\ \A a \in SectorSpecs(p) : a.supersedes = "licence" =>
              \/ p.activity = "skilled_trades" /\ a.role = "Licence and qualifier entity"
              \/ p.activity = "hospitality" /\ a.role = "Liquor licence entity"
         /\ p.activity \in {"skilled_trades", "hospitality"} =>
              "licence" \in Superseded(p)
<1>0. OPERATING.layers = {}
  BY PatternLayers, Zenon DEF OPERATING
<1>1. CASE sector(p) = None
  <2>1. SectorSpecs(p) = {}
    BY <1>1, Zenon DEF SectorSpecs
  <2>2. p.activity \notin {"skilled_trades", "hospitality"}
    <3>1. p.activity \notin DOMAIN SECTOR_PATTERNS
      BY <1>1, PatternsAssumption, Zenon DEF sector, pattern_for
    <3> QED BY <3>1 DEF SECTOR_PATTERNS
  <2> QED BY <2>1, <2>2, Zenon DEF Named
<1>2. CASE sector(p) # None
  <2>1. p.activity \in DOMAIN SECTOR_PATTERNS /\ sector(p) = SECTOR_PATTERNS[p.activity]
    BY <1>2, Zenon DEF sector, pattern_for
  <2>2. SectorSpecs(p) = SECTOR_PATTERNS[p.activity].layers
    BY <1>2, <2>1, Zenon DEF SectorSpecs
  <2>3. CASE p.activity = "skilled_trades"
    <3>1. SectorSpecs(p) = SKILLED_TRADES.layers
      BY <2>2, <2>3 DEF SECTOR_PATTERNS
    <3> QED BY <2>3, <3>1, TradeNames, Zenon DEF Superseded
  <2>4. CASE p.activity = "hospitality"
    <3>1. SectorSpecs(p) = HOSPITALITY.layers
      BY <2>2, <2>4 DEF SECTOR_PATTERNS
    <3> QED BY <2>4, <3>1, HospitalityNames, Zenon DEF Superseded
  <2>5. CASE p.activity = "ip_licensing"
    <3>1. SectorSpecs(p) = IP_LICENSING.layers
      BY <2>2, <2>5 DEF SECTOR_PATTERNS
    <3>2. "ip_licensing" \notin {"skilled_trades", "hospitality"}
      OBVIOUS
    <3> QED BY <2>5, <3>1, <3>2, LicensingNames, Zenon DEF NoLicence
  <2>6. CASE p.activity \notin {"skilled_trades", "hospitality", "ip_licensing"}
    <3>1. SECTOR_PATTERNS[p.activity] \in
            {FILM, REAL_ESTATE_HOLD, DEVELOPMENT, FUND, PROFESSIONAL_SERVICES, OPERATING}
      BY <2>1, <2>6 DEF SECTOR_PATTERNS
    <3>2. /\ Named(SectorSpecs(p)) /\ NoLicence(SectorSpecs(p))
          /\ NoLicensing(SectorSpecs(p))
      <4>1. Named({}) /\ NoLicence({}) /\ NoLicensing({})
        BY Zenon DEF Named, NoLicence, NoLicensing
      <4> QED BY <1>0, <2>2, <3>1, <4>1, FilmNames, PropertyHoldNames, DevelopmentNames, FundNames,
                 ProfessionalNames, Zenon
    <3> QED BY <2>6, <3>2, Zenon DEF NoLicence, NoLicensing
  <2> QED BY <2>3, <2>4, <2>5, <2>6, Zenon
<1> QED BY <1>1, <1>2

\* The entity a layer stands for when there is one of it.
Single(spec, p) == Entity(spec.stem, 0, spec.role, p.home_state, HoldCo)

(* The entities that the layers of a sector stand for.                     *)
LEMMA SectorEntities ==
  ASSUME NEW p
  PROVE  /\ \A e \in SectorLayers(p) : \E spec \in SectorSpecs(p) :
              e.role = spec.role /\ (~spec.perUnit => e = Single(spec, p))
         /\ \A spec \in SectorSpecs(p) : ~spec.perUnit => Single(spec, p) \in SectorLayers(p)
<1>1. Numbered(1) = {0}
  BY DEF Numbered
<1> DEFINE Of(spec) == {Entity(spec.stem, i, spec.role, p.home_state, HoldCo) :
                          i \in Numbered(IF spec.perUnit THEN Units(p) ELSE 1)}
<1>2. SectorLayers(p) = UNION {Of(spec) : spec \in SectorSpecs(p)}
  BY Zenon DEF SectorLayers
<1>3. ASSUME NEW spec, NEW e \in Of(spec)
      PROVE  e.role = spec.role /\ (~spec.perUnit => e = Single(spec, p))
  <2>1. PICK i \in Numbered(IF spec.perUnit THEN Units(p) ELSE 1) :
          e = Entity(spec.stem, i, spec.role, p.home_state, HoldCo)
    OBVIOUS
  <2>2. e.role = spec.role
    BY <2>1, Zenon DEF Entity
  <2>3. ~spec.perUnit => i = 0
    BY <1>1, Zenon
  <2> QED BY <2>1, <2>2, <2>3, Zenon DEF Single
<1>4. ASSUME NEW spec, ~spec.perUnit PROVE Single(spec, p) \in Of(spec)
  BY <1>1, <1>4, Zenon DEF Single
<1> HIDE DEF Of
<1>5. ASSUME NEW e \in SectorLayers(p)
      PROVE  \E spec \in SectorSpecs(p) :
               e.role = spec.role /\ (~spec.perUnit => e = Single(spec, p))
  <2>1. PICK spec \in SectorSpecs(p) : e \in Of(spec)
    BY <1>2, Zenon
  <2> QED BY <1>3, <2>1, Zenon
<1>6. ASSUME NEW spec \in SectorSpecs(p), ~spec.perUnit
      PROVE  Single(spec, p) \in SectorLayers(p)
  BY <1>2, <1>4, <1>6, Zenon
<1> QED BY <1>5, <1>6, Zenon

\* The two general entities.
IPEntity(p)      == Entity("IP", 0, "IP holding entity", HoldCoState(p), HoldCo)
LicenceEntity(p) == Entity("Licensing", 0, "Licence holder", p.home_state, HoldCo)

(* The entities of a chart, by what puts them there.                       *)
LEMMA ChartEntities ==
  ASSUME NEW p, HoldCoNeeded(p)
  PROVE  /\ \A e \in EntityLayers(p) :
              \/ e.role \in {"HoldCo", "Property-owning entity"}
              \/ e.role = "OpCo" /\ \A spec \in SectorSpecs(p) : ~spec.perUnit
              \/ e = IPEntity(p) /\ "ip" \notin Superseded(p)
              \/ e = LicenceEntity(p) /\ "licence" \notin Superseded(p)
              \/ e \in SectorLayers(p)
         /\ SectorLayers(p) \subseteq EntityLayers(p)
         /\ p.material_ip /\ "ip" \notin Superseded(p) => IPEntity(p) \in EntityLayers(p)
         /\ is_regulated(p) /\ "licence" \notin Superseded(p) =>
              LicenceEntity(p) \in EntityLayers(p)
<1> DEFINE H == {Entity("Holdings", 0, "HoldCo", HoldCoState(p), None)}
           I == When(p.material_ip /\ "ip" \notin Superseded(p), {IPEntity(p)})
           R == When(p.real_property, PropertyLayers(p))
           O == When(/\ p.activity # "real_estate_hold" \/ p.operating_liability
                     /\ \A spec \in SectorSpecs(p) : ~spec.perUnit,
                  {Entity("Operations", 0, "OpCo", p.home_state, HoldCo)})
           L == When(is_regulated(p) /\ "licence" \notin Superseded(p), {LicenceEntity(p)})
<1>1. EntityLayers(p) = H \cup I \cup R \cup O \cup L \cup SectorLayers(p)
  BY Zenon DEF EntityLayers, IPEntity, LicenceEntity
<1>2. /\ Entity("Holdings", 0, "HoldCo", HoldCoState(p), None).role = "HoldCo"
      /\ Entity("Operations", 0, "OpCo", p.home_state, HoldCo).role = "OpCo"
  BY Zenon DEF Entity
<1>3. \A e \in H : e.role = "HoldCo"
  BY <1>2, Zenon
<1>4. \A e \in R : e.role = "Property-owning entity"
  <2>1. ASSUME NEW e \in PropertyLayers(p) PROVE e.role = "Property-owning entity"
    <3>1. PICK i : e = Entity("PropCo", i, "Property-owning entity", p.home_state, HoldCo)
      BY Zenon DEF PropertyLayers
    <3> QED BY <3>1, Zenon DEF Entity
  <2> QED BY <2>1, Zenon DEF When
<1>5. \A e \in O : e.role = "OpCo" /\ \A spec \in SectorSpecs(p) : ~spec.perUnit
  BY <1>2, Zenon DEF When
<1>6. /\ \A e \in I : e = IPEntity(p) /\ "ip" \notin Superseded(p)
      /\ p.material_ip /\ "ip" \notin Superseded(p) => IPEntity(p) \in I
  BY Zenon DEF When
<1>7. /\ \A e \in L : e = LicenceEntity(p) /\ "licence" \notin Superseded(p)
      /\ is_regulated(p) /\ "licence" \notin Superseded(p) => LicenceEntity(p) \in L
  BY Zenon DEF When
<1> HIDE DEF H, I, R, O, L
<1> QED BY <1>1, <1>3, <1>4, <1>5, <1>6, <1>7, Zenon

(* The rights of a venture, or its licence, are held by one entity of its  *)
(* chart: the general one or the layer of the sector in its place.         *)
LEMMA HeldOnce ==
  ASSUME NEW p, HoldCoNeeded(p), NEW kind \in {"ip", "licence"}, NEW roles,
         roles = (IF kind = "ip" THEN RightsRoles ELSE LicenceRoles),
         IF kind = "ip" THEN p.material_ip ELSE is_regulated(p)
  PROVE  Cardinality({e \in EntityLayers(p) : e.role \in roles}) = 1
<1> DEFINE held == {e \in EntityLayers(p) : e.role \in roles}
           x == IF kind = "ip" THEN IPEntity(p) ELSE LicenceEntity(p)
<1>1. LayersOnce(SectorSpecs(p))
  BY SectorOnce
<1>2. \A spec \in SectorSpecs(p) :
        /\ spec.role \in roles <=> spec.supersedes = kind
        /\ spec.supersedes = kind => ~spec.perUnit
        /\ \A other \in SectorSpecs(p) :
             spec.supersedes = kind /\ other.supersedes = kind => spec = other
  BY <1>1, KindsDiffer, Zenon DEF LayersOnce, LayerOnce
<1>3. /\ IPEntity(p).role = "IP holding entity" /\ LicenceEntity(p).role = "Licence holder"
  BY Zenon DEF IPEntity, LicenceEntity, Entity
<1>4. /\ x.role \in roles
      /\ kind = "ip" => LicenceEntity(p).role \notin roles
      /\ kind = "licence" => IPEntity(p).role \notin roles
      /\ roles \cap {"HoldCo", "Property-owning entity", "OpCo"} = {}
  BY <1>3, KindsDiffer DEF RightsRoles, LicenceRoles
<1>5. \A e \in held : \/ e = x /\ kind \notin Superseded(p)
                      \/ e \in SectorLayers(p)
  BY <1>4, ChartEntities, KindsDiffer, Zenon
<1>6. \A e \in held : \/ e = x /\ kind \notin Superseded(p)
                      \/ \E spec \in SectorSpecs(p) :
                           spec.supersedes = kind /\ e = Single(spec, p)
  <2>1. ASSUME NEW e \in held, e \in SectorLayers(p)
        PROVE  \E spec \in SectorSpecs(p) :
                 spec.supersedes = kind /\ e = Single(spec, p)
    <3>1. PICK spec \in SectorSpecs(p) :
            e.role = spec.role /\ (~spec.perUnit => e = Single(spec, p))
      BY <2>1, SectorEntities, Zenon
    <3>2. e.role \in roles
      OBVIOUS
    <3> QED BY <1>2, <3>1, <3>2, Zenon
  <2> QED BY <1>5, <2>1, Zenon
<1>7. CASE kind \notin Superseded(p)
  <2>1. \A spec \in SectorSpecs(p) : spec.supersedes # kind
    BY <1>7, Zenon DEF Superseded
  <2>2. x \in held
    BY <1>4, <1>7, ChartEntities, KindsDiffer, Zenon
  <2>3. held = {x}
    BY <1>6, <2>1, <2>2, Zenon
  <2> QED BY <2>3, FS_Singleton, Zenon
<1>8. CASE kind \in Superseded(p)
  <2>1. PICK spec \in SectorSpecs(p) : spec.supersedes = kind
    BY <1>8, Zenon DEF Superseded
  <2>2. Single(spec, p) \in held
    <3>1. Single(spec, p).role = spec.role
      BY Zenon DEF Single, Entity
    <3> QED BY <1>2, <2>1, <3>1, ChartEntities, SectorEntities, Zenon
  <2>3. held = {Single(spec, p)}
    BY <1>2, <1>6, <1>8, <2>1, <2>2, Zenon
  <2> QED BY <2>3, FS_Singleton, Zenon
<1> QED BY <1>7, <1>8

\* What an entity is besides its number; the kinds of a chart.
Made(k, i) == Entity(k[1], i, k[2], k[3], k[4])
GeneralKinds(p) ==
  {<<"Holdings", "HoldCo", HoldCoState(p), None>>,
   <<"IP", "IP holding entity", HoldCoState(p), HoldCo>>,
   <<"PropCo", "Property-owning entity", p.home_state, HoldCo>>,
   <<"Operations", "OpCo", p.home_state, HoldCo>>}
LicenceKind(p)     == <<"Licensing", "Licence holder", p.home_state, HoldCo>>
LayerKind(spec, p) == <<spec.stem, spec.role, p.home_state, HoldCo>>
KindOf(k, p) ==
  \/ k \in GeneralKinds(p)
  \/ k = LicenceKind(p) /\ is_regulated(p) /\ "licence" \notin Superseded(p)
  \/ \E spec \in SectorSpecs(p) : k = LayerKind(spec, p)

(* Every entity of a chart is of one of its kinds.                         *)
LEMMA ChartKinds ==
  ASSUME NEW p, HoldCoNeeded(p), NEW e \in EntityLayers(p)
  PROVE  \E k, i : KindOf(k, p) /\ e = Made(k, i)
<1> DEFINE H == Entity("Holdings", 0, "HoldCo", HoldCoState(p), None)
           I == When(p.material_ip /\ "ip" \notin Superseded(p), {IPEntity(p)})
           R == When(p.real_property, PropertyLayers(p))
           O == Entity("Operations", 0, "OpCo", p.home_state, HoldCo)
           C == /\ p.activity # "real_estate_hold" \/ p.operating_liability
                /\ \A spec \in SectorSpecs(p) : ~spec.perUnit
           L == When(is_regulated(p) /\ "licence" \notin Superseded(p), {LicenceEntity(p)})
<1>1. EntityLayers(p) = {H} \cup I \cup R \cup When(C, {O}) \cup L \cup SectorLayers(p)
  BY Zenon DEF EntityLayers, IPEntity, LicenceEntity
<1>2. /\ e = H \/ e = IPEntity(p) \/ e \in PropertyLayers(p) \/ e = O
         \/ (e = LicenceEntity(p) /\ is_regulated(p) /\ "licence" \notin Superseded(p))
         \/ e \in SectorLayers(p)
  BY <1>1, Zenon DEF When
<1>3. ASSUME NEW k \in GeneralKinds(p), NEW i, e = Made(k, i)
      PROVE  \E kk, ii : KindOf(kk, p) /\ e = Made(kk, ii)
  BY <1>3, Zenon DEF KindOf
<1>4. CASE e = H
  <2> DEFINE k == <<"Holdings", "HoldCo", HoldCoState(p), None>>
  <2>1. k[1] = "Holdings" /\ k[2] = "HoldCo" /\ k[3] = HoldCoState(p) /\ k[4] = None
    OBVIOUS
  <2>2. k \in GeneralKinds(p)
    BY Zenon DEF GeneralKinds
  <2> HIDE DEF k
  <2>3. e = Made(k, 0)
    BY <1>4, <2>1, Zenon DEF Made
  <2> QED BY <1>3, <2>2, <2>3, Zenon
<1>5. CASE e = IPEntity(p)
  <2> DEFINE k == <<"IP", "IP holding entity", HoldCoState(p), HoldCo>>
  <2>1. k[1] = "IP" /\ k[2] = "IP holding entity" /\ k[3] = HoldCoState(p) /\ k[4] = HoldCo
    OBVIOUS
  <2>2. k \in GeneralKinds(p)
    BY Zenon DEF GeneralKinds
  <2> HIDE DEF k
  <2>3. e = Made(k, 0)
    BY <1>5, <2>1, Zenon DEF Made, IPEntity
  <2> QED BY <1>3, <2>2, <2>3, Zenon
<1>6. CASE e \in PropertyLayers(p)
  <2> DEFINE k == <<"PropCo", "Property-owning entity", p.home_state, HoldCo>>
  <2>1. k[1] = "PropCo" /\ k[2] = "Property-owning entity" /\ k[3] = p.home_state
        /\ k[4] = HoldCo
    OBVIOUS
  <2>2. k \in GeneralKinds(p)
    BY Zenon DEF GeneralKinds
  <2>3. PICK i : e = Entity("PropCo", i, "Property-owning entity", p.home_state, HoldCo)
    BY <1>6, Zenon DEF PropertyLayers
  <2> HIDE DEF k
  <2>4. e = Made(k, i)
    BY <2>1, <2>3, Zenon DEF Made
  <2> QED BY <1>3, <2>2, <2>4, Zenon
<1>7. CASE e = O
  <2> DEFINE k == <<"Operations", "OpCo", p.home_state, HoldCo>>
  <2>1. k[1] = "Operations" /\ k[2] = "OpCo" /\ k[3] = p.home_state /\ k[4] = HoldCo
    OBVIOUS
  <2>2. k \in GeneralKinds(p)
    BY Zenon DEF GeneralKinds
  <2> HIDE DEF k
  <2>3. e = Made(k, 0)
    BY <1>7, <2>1, Zenon DEF Made
  <2> QED BY <1>3, <2>2, <2>3, Zenon
<1>8. CASE e = LicenceEntity(p) /\ is_regulated(p) /\ "licence" \notin Superseded(p)
  <2> DEFINE k == LicenceKind(p)
  <2>1. k[1] = "Licensing" /\ k[2] = "Licence holder" /\ k[3] = p.home_state /\ k[4] = HoldCo
    BY DEF LicenceKind
  <2> HIDE DEF k
  <2>2. e = Made(k, 0)
    BY <1>8, <2>1, Zenon DEF Made, LicenceEntity
  <2>3. KindOf(k, p)
    BY <1>8, Zenon DEF KindOf, k
  <2> QED BY <2>2, <2>3, Zenon
<1>9. CASE e \in SectorLayers(p)
  <2>0. PICK spec \in SectorSpecs(p) :
          \E j : e = Entity(spec.stem, j, spec.role, p.home_state, HoldCo)
    BY <1>9, Zenon DEF SectorLayers
  <2>1. PICK i : e = Entity(spec.stem, i, spec.role, p.home_state, HoldCo)
    BY <2>0
  <2> DEFINE k == LayerKind(spec, p)
  <2>2. k[1] = spec.stem /\ k[2] = spec.role /\ k[3] = p.home_state /\ k[4] = HoldCo
    BY DEF LayerKind
  <2>3. KindOf(k, p)
    BY Zenon DEF KindOf
  <2> HIDE DEF k
  <2>4. e = Made(k, i)
    BY <2>1, <2>2, Zenon DEF Made
  <2> QED BY <2>3, <2>4, Zenon
<1> QED BY <1>2, <1>4, <1>5, <1>6, <1>7, <1>8, <1>9, Zenon

(* Two kinds of one stem are one kind, except in a regulated licensing     *)
(* business.                                                               *)
LEMMA StemsDiffer ==
  ASSUME NEW p, ~(p.activity = "ip_licensing" /\ is_regulated(p)),
         NEW k, NEW l, KindOf(k, p), KindOf(l, p), k[1] = l[1]
  PROVE  k = l
<1>1. ASSUME NEW x \in GeneralKinds(p)
      PROVE  x[1] \in GeneralStems /\ \A y \in GeneralKinds(p) : x[1] = y[1] => x = y
  <2> DEFINE h == <<"Holdings", "HoldCo", HoldCoState(p), None>>
             i == <<"IP", "IP holding entity", HoldCoState(p), HoldCo>>
             r == <<"PropCo", "Property-owning entity", p.home_state, HoldCo>>
             o == <<"Operations", "OpCo", p.home_state, HoldCo>>
  <2>1. h[1] = "Holdings" /\ i[1] = "IP" /\ r[1] = "PropCo" /\ o[1] = "Operations"
    OBVIOUS
  <2>2. GeneralKinds(p) = {h, i, r, o}
    BY Zenon DEF GeneralKinds
  <2> HIDE DEF h, i, r, o
  <2> QED BY <1>1, <2>1, <2>2 DEF GeneralStems
<1>2. LicenceKind(p)[1] = "Licensing" /\ "Licensing" \notin GeneralStems
  BY DEF LicenceKind, GeneralStems
<1>3. \A spec : LayerKind(spec, p)[1] = spec.stem
  BY DEF LayerKind
<1>4. /\ \A a \in SectorSpecs(p) : a.stem \notin GeneralStems
      /\ \A a, b \in SectorSpecs(p) : a.stem = b.stem => a = b
  BY SectorNames, Zenon DEF Named
<1>5. is_regulated(p) /\ "licence" \notin Superseded(p) =>
        \A a \in SectorSpecs(p) : a.stem # "Licensing"
  <2>1. SUFFICES ASSUME is_regulated(p), "licence" \notin Superseded(p),
                        NEW a \in SectorSpecs(p), a.stem = "Licensing"
                 PROVE  FALSE
    BY Zenon
  <2>2. a.supersedes = "licence"
    BY <2>1, SectorNames, Zenon
  <2> QED BY <2>1, <2>2, Zenon DEF Superseded
<1>6. ASSUME NEW x \in GeneralKinds(p), NEW y, KindOf(y, p), x[1] = y[1]
      PROVE  x = y
  BY <1>1, <1>2, <1>3, <1>4, <1>6, Zenon DEF KindOf
<1>7. CASE k \in GeneralKinds(p) \/ l \in GeneralKinds(p)
  BY <1>6, <1>7, Zenon
<1>8. CASE k \notin GeneralKinds(p) /\ l \notin GeneralKinds(p)
  BY <1>2, <1>3, <1>4, <1>5, <1>8, Zenon DEF KindOf
<1> QED BY <1>7, <1>8

(* No two entities of a chart have the same name, except in a regulated    *)
(* licensing business.                                                     *)
LEMMA ChartNames ==
  ASSUME NEW p, NEW e \in EntityLayers(p), NEW f \in EntityLayers(p), e.name = f.name,
         ~(p.activity = "ip_licensing" /\ is_regulated(p))
  PROVE  e = f
<1>1. CASE ~HoldCoNeeded(p)
  BY <1>1, Zenon DEF EntityLayers
<1>2. CASE HoldCoNeeded(p)
  <2>1. PICK k, i : KindOf(k, p) /\ e = Made(k, i)
    BY <1>2, ChartKinds, Zenon
  <2>2. PICK l, j : KindOf(l, p) /\ f = Made(l, j)
    BY <1>2, ChartKinds, Zenon
  <2>3. e.name = <<k[1], i>> /\ f.name = <<l[1], j>>
    BY <2>1, <2>2, Zenon DEF Made, Entity
  <2>4. k[1] = l[1] /\ i = j
    <3>1. ASSUME NEW a, NEW b, NEW m, NEW n, <<a, m>> = <<b, n>> PROVE a = b /\ m = n
      BY <3>1
    <3>2. <<k[1], i>> = <<l[1], j>>
      BY <2>3
    <3> QED BY <3>1, <3>2, Zenon
  <2>5. k = l
    BY <2>1, <2>2, <2>4, StemsDiffer, Zenon
  <2> QED BY <2>1, <2>2, <2>4, <2>5, Zenon
<1> QED BY <1>1, <1>2

(* An entity holds the licence of the venture's regime unless the sector   *)
(* brings one for another licence.                                         *)
LEMMA LicenceHeld ==
  ASSUME NEW p, is_regulated(p)
  PROVE  (\E e \in EntityLayers(p) : HoldsLicence(e.role, p.regulated_regime)) <=> ~OtherLicence(p)
<1>0. HoldCoNeeded(p)
  BY Zenon DEF HoldCoNeeded
<1>1. PICK e \in EntityLayers(p) : e.role \in LicenceRoles
  <2> DEFINE held == {x \in EntityLayers(p) : x.role \in LicenceRoles}
  <2>1. Cardinality(held) = 1
    BY <1>0, KindsDiffer, HeldOnce, Zenon
  <2>2. held # {}
    <3> HIDE DEF held
    <3> QED BY <2>1, FS_EmptySet, SMT
  <2> QED BY <2>2, Zenon
<1>r. /\ \A r, of : HoldsLicence(r, of) => r \in LicenceRoles
      /\ \A of : HoldsLicence("Licence holder", of)
  BY Zenon DEF HoldsLicence, LicenceRoles
<1>2. ASSUME NEW x \in EntityLayers(p), x.role \in LicenceRoles
      PROVE  \/ x.role = "Licence holder" /\ "licence" \notin Superseded(p)
             \/ p.activity = "skilled_trades" /\ x.role = "Licence and qualifier entity"
             \/ p.activity = "hospitality" /\ x.role = "Liquor licence entity"
  <2>1. /\ LicenceEntity(p).role = "Licence holder" /\ IPEntity(p).role = "IP holding entity"
    BY Zenon DEF LicenceEntity, IPEntity, Entity
  <2>2. x.role \notin {"HoldCo", "Property-owning entity", "OpCo", "IP holding entity"}
    BY <1>2 DEF LicenceRoles
  <2>3. \/ x = LicenceEntity(p) /\ "licence" \notin Superseded(p)
        \/ x \in SectorLayers(p)
    BY <1>0, <2>1, <2>2, ChartEntities, Zenon
  <2>4. CASE x \in SectorLayers(p)
    <3>1. PICK spec \in SectorSpecs(p) : x.role = spec.role
      BY <2>4, SectorEntities, Zenon
    <3>2. spec.supersedes = "licence"
      BY <1>2, <3>1, SectorOnce, Zenon DEF LayersOnce, LayerOnce
    <3> QED BY <3>1, <3>2, SectorNames, Zenon
  <2> QED BY <2>1, <2>3, <2>4, Zenon
<1>3. p.activity \in {"skilled_trades", "hospitality"} => "licence" \in Superseded(p)
  BY SectorNames, Zenon
<1>d. /\ "skilled_trades" # "hospitality" /\ "Licence holder" # "Licence and qualifier entity"
      /\ "Licence holder" # "Liquor licence entity"
      /\ "Licence and qualifier entity" # "Liquor licence entity"
  OBVIOUS
<1>4. CASE OtherLicence(p)
  <2>1. ASSUME NEW x \in EntityLayers(p), HoldsLicence(x.role, p.regulated_regime) PROVE FALSE
    <3>1. \/ x.role = "Licence holder" /\ "licence" \notin Superseded(p)
          \/ p.activity = "skilled_trades" /\ x.role = "Licence and qualifier entity"
          \/ p.activity = "hospitality" /\ x.role = "Liquor licence entity"
      BY <1>2, <1>r, <2>1, Zenon
    <3> QED BY <1>3, <1>4, <1>d, <2>1, <3>1, Zenon DEF OtherLicence, HoldsLicence
  <2> QED BY <1>4, <2>1, Zenon
<1>5. CASE ~OtherLicence(p)
  <2>1. HoldsLicence(e.role, p.regulated_regime)
    <3>1. \/ e.role = "Licence holder" /\ "licence" \notin Superseded(p)
          \/ p.activity = "skilled_trades" /\ e.role = "Licence and qualifier entity"
          \/ p.activity = "hospitality" /\ e.role = "Liquor licence entity"
      BY <1>1, <1>2, Zenon
    <3> QED BY <1>5, <3>1, Zenon DEF OtherLicence, HoldsLicence
  <2> QED BY <1>5, <2>1, Zenon
<1> QED BY <1>4, <1>5

(* There is no operating company beside entities per unit.                 *)
LEMMA NotBoth ==
  ASSUME NEW p,
         Cardinality({e \in EntityLayers(p) : e.role \in {"OpCo"}}) > 0
  PROVE  Cardinality({e \in EntityLayers(p) : e.role \in
           {spec.role : spec \in {s \in SectorSpecs(p) : s.perUnit}}}) = 0
<1>1. PICK e \in EntityLayers(p) : e.role = "OpCo"
  <2>1. {e \in EntityLayers(p) : e.role \in {"OpCo"}} # {}
    BY FS_EmptySet, SMT
  <2> QED BY <2>1
<1>2. HoldCoNeeded(p)
  <2>1. SoleEntity(p).role = "Sole entity"
    BY Zenon DEF SoleEntity, Entity
  <2>2. "OpCo" # "Sole entity"
    OBVIOUS
  <2> QED BY <1>1, <2>1, <2>2, Zenon DEF EntityLayers
<1>3. \A spec \in SectorSpecs(p) : ~spec.perUnit
  <2>1. \A spec \in SectorSpecs(p) : spec.role # "OpCo"
    BY SectorOnce, Zenon DEF LayersOnce, LayerOnce
  <2>2. \A f \in SectorLayers(p) : \E spec \in SectorSpecs(p) : f.role = spec.role
    BY SectorEntities, Zenon
  <2>3. e \notin SectorLayers(p)
    BY <1>1, <2>1, <2>2, Zenon
  <2>4. e # IPEntity(p) /\ e # LicenceEntity(p)
    <3>1. IPEntity(p).role = "IP holding entity" /\ LicenceEntity(p).role = "Licence holder"
      BY Zenon DEF IPEntity, LicenceEntity, Entity
    <3>2. "OpCo" \notin {"IP holding entity", "Licence holder"}
      OBVIOUS
    <3> QED BY <1>1, <3>1, <3>2, Zenon
  <2>5. "OpCo" \notin {"HoldCo", "Property-owning entity"}
    OBVIOUS
  <2> QED BY <1>1, <1>2, <2>3, <2>4, <2>5, ChartEntities, Zenon
<1>4. {f \in EntityLayers(p) : f.role \in
         {spec.role : spec \in {s \in SectorSpecs(p) : s.perUnit}}} = {}
  BY <1>3, Zenon
<1> QED BY <1>4, FS_EmptySet, Zenon

-----------------------------------------------------------------------------
(* What stays true of the memos, the agreements and the threads.           *)

\* A review that was accepted, by somebody in counsel (QualifiedDecisions).
Accepted(i, its) ==
  \/ its[i] = DeletedItem
  \/ its[i].status = "accepted" /\ its[i].group = Counsel

\* A review that only somebody in counsel may decide.
OfCounsel(i, its) ==
  \/ its[i] = DeletedItem
  \/ its[i] \in Item /\ its[i].group = Counsel

Figures == [Labels -> Nat \cup {None}]

\* What a step may do: memos are never written again, and what was stated
\* and chosen is not forgotten.
MemosKept(mems, memz) == \A a \in ArtifactIds : mems[a] # None => memz[a] = mems[a]
HistoryKept(h, hz)    == \A k \in Keys : h[k] \subseteq hz[k]

MemoOK(m, requests) ==
  LET p == m.request.profile IN
    /\ m.request \in requests /\ m.refused \in BOOLEAN
    /\ m.threshold \in Nat /\ m.control = Control(p, m.threshold)
    /\ m.chart = EntityLayers(p)
    /\ DOMAIN m.picks = DOMAIN menus(p)
    /\ \A x \in DOMAIN m.picks : m.picks[x] \in DOMAIN menus(p)[x] \cup {None}

Source(a, r, mems) ==
  a \in ArtifactIds /\ mems[a] # None /\ mems[a].request = r /\ ~mems[a].refused

TermJobOK(j, its, mems, sts, requests) ==
  /\ j.phase \in {"recommend", "review", "figures", "draft"} =>
       /\ j.ctx \in Contexts /\ j.request \in requests
       /\ j.request.project \in j.ctx.projects
  /\ j.phase \in {"review", "figures", "draft"} =>
       /\ Source(j.id, j.request, mems) /\ j.item \in ItemIds
       /\ OfCounsel(j.item, its)
  /\ j.phase \in {"figures", "draft"} => Accepted(j.item, its)
  /\ j.phase \in {"recommend", "draft"} =>
       j.figures \in Figures /\ Recorded(j.figures) \subseteq sts[Key(j.ctx, j.request)]

\* The paper is for the deal the memo's venture makes with the options
\* picked, which are on its menus, and it has a section on governance.
PaperOK(deal, p, picks) ==
  /\ deal = DealProfile(p, picks)
  /\ "governance" \in Categories(Sections(deal))
  /\ \A m \in {"valuation", "payment"} : picks[m] \in DOMAIN menus(p)[m]

AgreementOK(g, its, mems, sts, chs) ==
  /\ g.source \in ArtifactIds /\ mems[g.source] # None /\ ~mems[g.source].refused
  /\ g.item \in ItemIds /\ Accepted(g.item, its) /\ g.key \in Keys
  /\ Matched(g.values, sts[g.key], menus(mems[g.source].request.profile), g.picks)
  /\ \A m \in DOMAIN g.picks : <<m, g.picks[m]>> \in chs[g.key]
  /\ PaperOK(g.deal, mems[g.source].request.profile, g.picks)

TermsInv ==
  /\ engagement \in Engagements /\ now \in 0..engagement.days
  /\ confirmed \in [Keys -> Figures]
  /\ selected = [k \in Keys |-> [area \in MenuAreas |-> selected[k][area]]]
  /\ stated = [k \in Keys |-> stated[k]] /\ chosen = [k \in Keys |-> chosen[k]]
  /\ \A k \in Keys : /\ Recorded(confirmed[k]) \subseteq stated[k]
                     /\ Recorded(selected[k]) \subseteq chosen[k]

MemosInv ==
  /\ memos = [a \in ArtifactIds |-> memos[a]]
  /\ agreements = [b \in ArtifactIds |-> agreements[b]]
  /\ \A a \in ArtifactIds : memos[a] # None =>
       /\ artifacts[a] # NoArtifact
       /\ artifacts[a] \in Artifact => artifacts[a].group = Counsel
       /\ MemoOK(memos[a], engagement.requests)
  /\ \A b \in ArtifactIds : agreements[b] # None =>
       AgreementOK(agreements[b], items, memos, stated, chosen)

HandoffInv ==
  /\ DeskInv /\ TermsInv /\ MemosInv
  /\ \A c \in Callers :
       TermJobOK(jobs[c], items, memos, stated, engagement.requests)

-----------------------------------------------------------------------------
(* An item accepted stays accepted.                                        *)
LEMMA AcceptedStays ==
  ASSUME NEW i \in ItemIds, NEW its, NEW itz, Accepted(i, its), Kept(its, itz)
  PROVE  Accepted(i, itz)
<1>1. its[i] # NoItem
  BY MissingItems DEF Accepted
<1>2. "accepted" \in Decided
  BY DEF Decided
<1>3. DeletedItem \notin Item
  BY MissingItems DEF Item, Statuses, Decided
<1> QED BY <1>1, <1>2, <1>3, Zenon DEF Accepted, Kept

(* An item routed to counsel stays with counsel.                           *)
LEMMA CounselStays ==
  ASSUME NEW i \in ItemIds, NEW its, NEW itz, Kept(its, itz), OfCounsel(i, its)
  PROVE  OfCounsel(i, itz)
<1>1. DeletedItem \notin Item /\ NoItem \notin Item /\ NoItem # DeletedItem
  BY MissingItems DEF Item, Statuses, Decided
<1> QED BY <1>1, Zenon DEF Kept, OfCounsel

(* A request in its sender's scope has a key of the two stores.            *)
LEMMA KeyInKeys ==
  ASSUME NEW ctx \in Contexts, NEW r, r.project \in ctx.projects
  PROVE  Key(ctx, r) \in Keys
  BY QueueAssumption DEF Key, Keys

(* What a thread has read stays true whatever others do.                   *)
LEMMA TermJobStays ==
  ASSUME NEW j, NEW its, NEW itz, NEW mems, NEW memz, NEW sts, NEW stz, NEW requests,
         TermJobOK(j, its, mems, sts, requests),
         Kept(its, itz), MemosKept(mems, memz), HistoryKept(sts, stz)
  PROVE  TermJobOK(j, itz, memz, stz, requests)
<1>1. ASSUME j.phase \in {"review", "figures", "draft"}
      PROVE  /\ Source(j.id, j.request, memz) /\ j.item \in ItemIds
             /\ OfCounsel(j.item, itz)
  BY <1>1, CounselStays, Zenon DEF TermJobOK, Source, MemosKept
<1>2. ASSUME j.phase \in {"figures", "draft"} PROVE Accepted(j.item, itz)
  BY <1>2, AcceptedStays, Zenon DEF TermJobOK
<1>3. ASSUME j.phase \in {"recommend", "draft"}
      PROVE  Recorded(j.figures) \subseteq stz[Key(j.ctx, j.request)]
  BY <1>3, KeyInKeys, Zenon DEF TermJobOK, HistoryKept
<1> QED BY <1>1, <1>2, <1>3, Zenon DEF TermJobOK

(* What an agreement rests on stays true whatever others do.               *)
LEMMA AgreementStays ==
  ASSUME NEW g, NEW its, NEW itz, NEW mems, NEW memz, NEW sts, NEW stz,
         NEW chs, NEW chz, AgreementOK(g, its, mems, sts, chs), Kept(its, itz),
         MemosKept(mems, memz), HistoryKept(sts, stz), HistoryKept(chs, chz)
  PROVE  AgreementOK(g, itz, memz, stz, chz)
<1>1. /\ g.source \in ArtifactIds /\ g.key \in Keys /\ g.item \in ItemIds
      /\ memz[g.source] = mems[g.source]
      /\ Accepted(g.item, itz)
  BY AcceptedStays, Zenon DEF AgreementOK, MemosKept
<1>2. sts[g.key] \subseteq stz[g.key] /\ chs[g.key] \subseteq chz[g.key]
  BY <1>1, Zenon DEF HistoryKept
<1>3. Matched(g.values, stz[g.key], menus(memz[g.source].request.profile), g.picks)
  BY <1>1, <1>2, Zenon DEF AgreementOK, Matched
<1> QED BY <1>1, <1>2, <1>3, Zenon DEF AgreementOK

-----------------------------------------------------------------------------
(* Lemmas about the parts of a step.                                       *)

(* Doing nothing keeps memos, histories and items.                         *)
LEMMA KeptItself ==
  ASSUME NEW its, NEW mems, NEW h
  PROVE  /\ MemosKept(mems, mems) /\ HistoryKept(h, h)
         /\ its \in [ItemIds -> Item \cup {NoItem, DeletedItem}] => Kept(its, its)
  BY DEF MemosKept, HistoryKept, Kept

(* A step of the desk, with new memos, agreements and jobs that are right. *)
LEMMA HandoffFrame ==
  ASSUME HandoffInv, Advance, TermsInv', UNCHANGED engagement,
         MemosKept(memos, memos'), HistoryKept(stated, stated'),
         HistoryKept(chosen, chosen'),
         memos' = [a \in ArtifactIds |-> memos'[a]],
         agreements' = [b \in ArtifactIds |-> agreements'[b]],
         \A a \in ArtifactIds : memos'[a] # None =>
           \/ memos'[a] = memos[a]
           \/ /\ artifacts'[a] \in Artifact /\ artifacts'[a].group = Counsel
              /\ MemoOK(memos'[a], engagement.requests),
         \A b \in ArtifactIds : agreements'[b] # None =>
           \/ agreements'[b] = agreements[b]
           \/ AgreementOK(agreements'[b], items', memos', stated', chosen'),
         \A c \in Callers :
           \/ jobs'[c] = jobs[c]
           \/ TermJobOK(jobs'[c], items', memos', stated', engagement.requests)
  PROVE  HandoffInv'
<1>1. Kept(items, items') /\ Carried(artifacts, artifacts') /\ DeskInv'
  BY DEF Advance
<1>2. ASSUME NEW a \in ArtifactIds, memos'[a] # None
      PROVE  /\ artifacts'[a] # NoArtifact
             /\ artifacts'[a] \in Artifact => artifacts'[a].group = Counsel
             /\ MemoOK(memos'[a], engagement'.requests)
  <2>1. CASE memos'[a] = memos[a]
    BY <1>1, <1>2, <2>1, MissingArtifacts, Zenon DEF HandoffInv, MemosInv, Carried
  <2>2. CASE memos'[a] # memos[a]
    BY <1>2, <2>2, MissingArtifacts, Zenon
  <2> QED BY <2>1, <2>2
<1>3. ASSUME NEW b \in ArtifactIds, agreements'[b] # None
      PROVE  AgreementOK(agreements'[b], items', memos', stated', chosen')
  BY <1>1, <1>3, AgreementStays, Zenon DEF HandoffInv, MemosInv
<1>4. ASSUME NEW c \in Callers
      PROVE  TermJobOK(jobs'[c], items', memos', stated', engagement'.requests)
  BY <1>1, TermJobStays, Zenon DEF HandoffInv
<1>5. MemosInv'
  BY <1>2, <1>3, Zenon DEF MemosInv
<1> QED BY <1>1, <1>4, <1>5, Zenon DEF HandoffInv

\* The same, when nothing but the desk and the jobs moves.
LEMMA JobsFrame ==
  ASSUME HandoffInv, Advance, UNCHANGED handoffVars,
         \A c \in Callers :
           \/ jobs'[c] = jobs[c]
           \/ TermJobOK(jobs'[c], items', memos, stated, engagement.requests)
  PROVE  HandoffInv'
<1>1. /\ TermsInv' /\ memos' = memos /\ agreements' = agreements
      /\ stated' = stated /\ chosen' = chosen /\ engagement' = engagement
  BY DEF handoffVars, termVars, TermsInv, HandoffInv
<1>2. /\ memos' = [a \in ArtifactIds |-> memos'[a]]
      /\ agreements' = [b \in ArtifactIds |-> agreements'[b]]
  BY <1>1, Zenon DEF HandoffInv, MemosInv
<1> QED BY <1>1, <1>2, KeptItself, HandoffFrame, Zenon

\* A thread that holds nothing of the hand-off.
LEMMA OtherJobs ==
  ASSUME NEW j, NEW its, NEW mems, NEW sts, NEW requests,
         j.phase \notin {"recommend", "review", "figures", "draft"}
  PROVE  TermJobOK(j, its, mems, sts, requests)
  BY Zenon DEF TermJobOK

(* The threads of the desk hold nothing of the hand-off.                   *)
LEMMA OtherPhases ==
  /\ \A ph \in Phases : ph \notin {"recommend", "review", "figures", "draft"}
  /\ IdleJob.phase \in Phases
  BY DEF Phases, IdleJob

(* The desk's own steps.                                                   *)
LEMMA ReviewHandoff == HandoffInv /\ ReviewNext /\ UNCHANGED handoffVars => HandoffInv'
<1> SUFFICES ASSUME HandoffInv, ReviewNext, UNCHANGED handoffVars PROVE HandoffInv'
  OBVIOUS
<1>1. Advance /\ Moved
  BY ReviewStepInv, Moves DEF HandoffInv
<1>2. ASSUME NEW c \in Callers
      PROVE  \/ jobs'[c] = jobs[c]
             \/ TermJobOK(jobs'[c], items', memos, stated, engagement.requests)
  BY <1>1, OtherPhases, OtherJobs, Zenon DEF Moved
<1> QED BY <1>1, <1>2, JobsFrame

\* A step in which the thread c takes up j, and no artifact or item changes.
LEMMA QuietStep ==
  ASSUME HandoffInv, NEW c \in Callers, NEW j, jobs' = [jobs EXCEPT ![c] = j],
         UNCHANGED <<items, artifacts, handoffVars>>, j.phase \notin Holding \cup {"reset"},
         TermJobOK(j, items, memos, stated, engagement.requests)
  PROVE  HandoffInv'
<1>1. JobOK(j, items', artifacts')
  BY Zenon DEF JobOK, Holding
<1>2. Advance
  BY <1>1, ItemsSame, ArtifactsSame, JobStep1, Zenon DEF HandoffInv, DeskInv
<1>3. \A k \in Callers : jobs'[k] = jobs[k] \/ jobs'[k] = j
  BY DEF HandoffInv, DeskInv
<1> QED BY <1>2, <1>3, JobsFrame, Zenon

-----------------------------------------------------------------------------
(* Every operation keeps the invariant.                                    *)

(* recommend has read the confirmations and selections.                    *)
LEMMA RecommendReadInv ==
  ASSUME HandoffInv, NEW c \in Callers, NEW ctx \in Contexts,
         NEW r \in engagement.requests, RecommendRead(c, ctx, r)
  PROVE  HandoffInv'
<1> DEFINE j == [phase |-> "recommend", ctx |-> ctx, request |-> r,
                 figures |-> confirmed[Key(ctx, r)]]
<1>1. Key(ctx, r) \in Keys
  BY KeyInKeys DEF RecommendRead
<1>2. /\ confirmed[Key(ctx, r)] \in Figures
      /\ Recorded(confirmed[Key(ctx, r)]) \subseteq stated[Key(ctx, r)]
  BY <1>1, Zenon DEF HandoffInv, TermsInv
<1>3. TermJobOK(j, items, memos, stated, engagement.requests)
  BY <1>2 DEF TermJobOK, RecommendRead
<1>4. j.phase \notin Holding \cup {"reset"}
  BY DEF Holding
<1> QED BY <1>3, <1>4, QuietStep, Zenon DEF RecommendRead

(* to_draft_request has read the memo.                                     *)
LEMMA HandoffReadInv ==
  ASSUME HandoffInv, NEW c \in Callers, NEW ctx \in Contexts, NEW a \in ArtifactIds,
         NEW r \in engagement.requests, HandoffRead(c, ctx, a, r)
  PROVE  HandoffInv'
<1> DEFINE j == Hold("review", ctx, r, a, artifacts[a].item)
<1>1. Source(a, r, memos)
  BY Zenon DEF HandoffRead, Eligible, Source
<1>2. Good(artifacts[a], items) /\ artifacts[a].item # None
  BY ReadOK DEF HandoffRead, HandoffInv
<1>3. artifacts[a] \in Artifact /\ artifacts[a].item \in ItemIds
  BY <1>2 DEF Good, Artifact
<1>4. artifacts[a].group = Counsel
  BY <1>1, <1>3 DEF HandoffInv, MemosInv, Source
<1>5. OfCounsel(artifacts[a].item, items)
  BY <1>2, <1>4, Zenon DEF Good, Linked, OfCounsel
<1>6. TermJobOK(j, items, memos, stated, engagement.requests)
  BY <1>1, <1>3, <1>5 DEF TermJobOK, HandoffRead, Hold
<1>7. j.phase \notin Holding \cup {"reset"}
  BY DEF Holding, Hold
<1> QED BY <1>6, <1>7, QuietStep, Zenon DEF HandoffRead

(* A request that ends leaves all it read alone.                           *)
LEMMA IdleHandoff ==
  ASSUME HandoffInv, NEW c \in Callers, Finish(c), UNCHANGED <<items, artifacts, handoffVars>>
  PROVE  HandoffInv'
<1>1. /\ IdleJob.phase \notin Holding \cup {"reset"}
      /\ TermJobOK(IdleJob, items, memos, stated, engagement.requests)
  BY DEF IdleJob, Holding, TermJobOK
<1> QED BY <1>1, QuietStep, Zenon DEF Finish

(* to_draft_request has read the review item, and goes on only when it is  *)
(* accepted.                                                               *)
LEMMA HandoffReviewInv ==
  ASSUME HandoffInv, NEW c \in Callers, HandoffReview(c)
  PROVE  HandoffInv'
<1> DEFINE j == Hold("figures", jobs[c].ctx, jobs[c].request, jobs[c].id, jobs[c].item)
<1>1. CASE items[jobs[c].item].status = "accepted"
  <2>1. TermJobOK(jobs[c], items, memos, stated, engagement.requests)
    BY DEF HandoffInv
  <2>2. Accepted(jobs[c].item, items)
    BY <1>1, <2>1, Zenon DEF TermJobOK, HandoffReview, OfCounsel, Accepted
  <2>3. TermJobOK(j, items, memos, stated, engagement.requests)
    BY <2>1, <2>2 DEF TermJobOK, HandoffReview, Hold
  <2>4. j.phase \notin Holding \cup {"reset"}
    BY DEF Holding, Hold
  <2> QED BY <1>1, <2>3, <2>4, QuietStep, Zenon DEF HandoffReview
<1>2. CASE items[jobs[c].item].status # "accepted"
  BY <1>2, IdleHandoff, Zenon DEF HandoffReview
<1> QED BY <1>1, <1>2

(* to_draft_request has read the confirmed figures.                        *)
LEMMA HandoffFiguresInv ==
  ASSUME HandoffInv, NEW c \in Callers, HandoffFigures(c)
  PROVE  HandoffInv'
<1> DEFINE key == Key(jobs[c].ctx, jobs[c].request)
           j == [phase |-> "draft", ctx |-> jobs[c].ctx, request |-> jobs[c].request,
                 id |-> jobs[c].id, item |-> jobs[c].item, figures |-> confirmed[key]]
<1>1. TermJobOK(jobs[c], items, memos, stated, engagement.requests)
  BY DEF HandoffInv
<1>2. key \in Keys
  BY <1>1, KeyInKeys, Zenon DEF TermJobOK, HandoffFigures
<1>3. confirmed[key] \in Figures /\ Recorded(confirmed[key]) \subseteq stated[key]
  BY <1>2, Zenon DEF HandoffInv, TermsInv
<1>4. TermJobOK(j, items, memos, stated, engagement.requests)
  BY <1>1, <1>3 DEF TermJobOK, HandoffFigures
<1>5. j.phase \notin Holding \cup {"reset"}
  BY DEF Holding
<1> QED BY <1>4, <1>5, QuietStep, Zenon DEF HandoffFigures

(* A hand-off refused writes nothing.                                      *)
LEMMA HandoffRefusedInv ==
  ASSUME HandoffInv, NEW c \in Callers, HandoffRefused(c)
  PROVE  HandoffInv'
  BY IdleHandoff, Zenon DEF HandoffRefused

(* Deciding figures and options, and the passing of time.                  *)
LEMMA DeskIdle ==
  ASSUME HandoffInv, UNCHANGED deskVars
  PROVE  Advance
  BY StutterInv, Zenon DEF HandoffInv, deskVars

(* A request names a project and a venture with a number of members.       *)
LEMMA RequestsTyped ==
  ASSUME engagement \in Engagements, NEW r \in engagement.requests
  PROVE  /\ r.project \in Projects /\ r # None
         /\ total_members(r.profile) \in Nat
<1>1. /\ r.project \in Projects /\ r # None
      /\ r.profile.active_principals \in Nat /\ r.profile.passive_investors \in Nat
  BY HandoffAssumption, Zenon
<1> QED BY <1>1, SMT DEF total_members

(* A confirmation adds to the history of its project.                      *)
LEMMA ConfirmNumberInv ==
  ASSUME HandoffInv, NEW ctx \in Contexts, NEW p \in Projects,
         NEW d \in engagement.figures, ConfirmNumber(ctx, p, d[1], d[2])
  PROVE  HandoffInv'
<1> DEFINE key == <<ctx.tenant, p>>
<1>1. key \in Keys
  BY QueueAssumption DEF Keys
<1>2. d[1] \in Labels /\ d[2] \in Nat
  BY HandoffAssumption DEF HandoffInv, TermsInv
<1>3. /\ confirmed' = [confirmed EXCEPT ![key][d[1]] = d[2]]
      /\ stated' = [stated EXCEPT ![key] = @ \cup {<<d[1], d[2]>>}]
      /\ UNCHANGED <<deskVars, engagement, now, selected, chosen, memos, agreements>>
  BY DEF ConfirmNumber
<1> HIDE DEF key
<1>4. confirmed' \in [Keys -> Figures]
  BY <1>1, <1>2, <1>3 DEF HandoffInv, TermsInv, Figures
<1>5. stated' = [k \in Keys |-> stated'[k]] /\ HistoryKept(stated, stated')
      /\ <<d[1], d[2]>> \in stated'[key]
  BY <1>1, <1>3 DEF HandoffInv, TermsInv, HistoryKept
<1>6. ASSUME NEW k \in Keys PROVE Recorded(confirmed'[k]) \subseteq stated'[k]
  <2>1. Recorded(confirmed[k]) \subseteq stated'[k]
    BY <1>5, Zenon DEF HistoryKept, HandoffInv, TermsInv
  <2>2. CASE k # key
    BY <1>3, <2>1, <2>2 DEF HandoffInv, TermsInv
  <2>3. CASE k = key
    <3>1. confirmed'[k] = [confirmed[k] EXCEPT ![d[1]] = d[2]]
      BY <1>1, <1>3, <2>3 DEF HandoffInv, TermsInv
    <3>2. confirmed[k] \in Figures
      BY DEF HandoffInv, TermsInv
    <3>3. ASSUME NEW x \in Recorded(confirmed'[k]) PROVE x \in stated'[k]
      <4>1. PICK y \in DOMAIN confirmed'[k] : confirmed'[k][y] # None
                                              /\ x = <<y, confirmed'[k][y]>>
        BY <3>3 DEF Recorded
      <4>2. CASE y = d[1]
        BY <1>2, <1>5, <2>3, <3>1, <3>2, <4>1, <4>2 DEF Figures
      <4>3. CASE y # d[1]
        <5>1. y \in DOMAIN confirmed[k] /\ confirmed'[k][y] = confirmed[k][y]
          BY <3>1, <3>2, <4>1, <4>3 DEF Figures
        <5>2. x \in Recorded(confirmed[k])
          BY <4>1, <5>1, EachRecorded
        <5> QED BY <2>1, <5>2
      <4> QED BY <4>2, <4>3
    <3> QED BY <3>3
  <2> QED BY <2>2, <2>3
<1>7. TermsInv'
  BY <1>3, <1>4, <1>5, <1>6, Zenon DEF HandoffInv, TermsInv
<1>8. /\ memos' = [a \in ArtifactIds |-> memos'[a]]
      /\ agreements' = [b \in ArtifactIds |-> agreements'[b]]
      /\ memos' = memos /\ agreements' = agreements /\ jobs' = jobs
      /\ MemosKept(memos, memos') /\ HistoryKept(chosen, chosen')
      /\ UNCHANGED engagement /\ Advance
  BY <1>3, KeptItself, DeskIdle, Zenon DEF HandoffInv, MemosInv, deskVars
<1> QED BY <1>5, <1>7, <1>8, HandoffFrame, Zenon

(* A selection adds to the history of its project.                         *)
LEMMA SelectMenuOptionInv ==
  ASSUME HandoffInv, NEW ctx \in Contexts, NEW p \in Projects,
         NEW d \in engagement.choices, SelectMenuOption(ctx, p, d[1], d[2])
  PROVE  HandoffInv'
<1> DEFINE key == <<ctx.tenant, p>>
<1>1. key \in Keys
  BY QueueAssumption DEF Keys
<1>2. d[1] \in MenuAreas
  BY HandoffAssumption DEF HandoffInv, TermsInv
<1>3. /\ selected' = [selected EXCEPT ![key][d[1]] = d[2]]
      /\ chosen' = [chosen EXCEPT ![key] = @ \cup {<<d[1], d[2]>>}]
      /\ UNCHANGED <<deskVars, engagement, now, confirmed, stated, memos, agreements>>
  BY DEF SelectMenuOption
<1> HIDE DEF key
<1>4. DOMAIN selected = Keys /\ \A k \in Keys : DOMAIN selected[k] = MenuAreas
  BY Zenon DEF HandoffInv, TermsInv
<1>5. selected' = [k \in Keys |-> [area \in MenuAreas |-> selected'[k][area]]]
  <2>1. selected' = [k \in Keys |-> selected'[k]]
    BY <1>3, <1>4 DEF HandoffInv, TermsInv
  <2>2. \A k \in Keys : selected[k] = [area \in MenuAreas |-> selected[k][area]]
    BY Zenon DEF HandoffInv, TermsInv
  <2>3. ASSUME NEW k \in Keys
        PROVE  selected'[k] = [area \in MenuAreas |-> selected'[k][area]]
    <3>1. CASE k = key
      BY <1>1, <1>2, <1>3, <1>4, <2>2, <3>1
    <3>2. CASE k # key
      BY <1>3, <1>4, <2>2, <3>2
    <3> QED BY <3>1, <3>2
  <2> QED BY <2>1, <2>3, Zenon
<1>6. chosen' = [k \in Keys |-> chosen'[k]] /\ HistoryKept(chosen, chosen')
      /\ <<d[1], d[2]>> \in chosen'[key]
  BY <1>1, <1>3 DEF HandoffInv, TermsInv, HistoryKept
<1>7. ASSUME NEW k \in Keys PROVE Recorded(selected'[k]) \subseteq chosen'[k]
  <2>1. Recorded(selected[k]) \subseteq chosen'[k]
    BY <1>6, Zenon DEF HistoryKept, HandoffInv, TermsInv
  <2>2. CASE k # key
    BY <1>3, <1>4, <2>1, <2>2
  <2>3. CASE k = key
    <3>1. selected'[k] = [selected[k] EXCEPT ![d[1]] = d[2]]
      BY <1>1, <1>3, <1>4, <2>3
    <3>2. ASSUME NEW x \in Recorded(selected'[k]) PROVE x \in chosen'[k]
      <4>1. PICK y \in DOMAIN selected'[k] : selected'[k][y] # None
                                             /\ x = <<y, selected'[k][y]>>
        BY <3>2 DEF Recorded
      <4>2. CASE y = d[1]
        BY <1>2, <1>4, <1>6, <2>3, <3>1, <4>1, <4>2
      <4>3. CASE y # d[1]
        <5>1. y \in DOMAIN selected[k] /\ selected'[k][y] = selected[k][y]
          BY <1>4, <3>1, <4>1, <4>3
        <5>2. x \in Recorded(selected[k])
          BY <4>1, <5>1, EachRecorded
        <5> QED BY <2>1, <5>2
      <4> QED BY <4>2, <4>3
    <3> QED BY <3>2
  <2> QED BY <2>2, <2>3
<1>8. TermsInv'
  BY <1>3, <1>5, <1>6, <1>7, Zenon DEF HandoffInv, TermsInv
<1>9. /\ memos' = [a \in ArtifactIds |-> memos'[a]]
      /\ agreements' = [b \in ArtifactIds |-> agreements'[b]]
      /\ memos' = memos /\ agreements' = agreements /\ jobs' = jobs
      /\ MemosKept(memos, memos') /\ HistoryKept(stated, stated')
      /\ UNCHANGED engagement /\ Advance
  BY <1>3, KeptItself, DeskIdle, Zenon DEF HandoffInv, MemosInv, deskVars
<1> QED BY <1>6, <1>8, <1>9, HandoffFrame, Zenon

(* The clock moves and nothing else does.                                  *)
LEMMA TickInv ==
  ASSUME HandoffInv, Tick
  PROVE  HandoffInv'
<1>1. engagement.days \in Nat
  BY HandoffAssumption, Zenon DEF HandoffInv, TermsInv
<1>2. now' \in 0..engagement.days
  BY <1>1, SMT DEF Tick, HandoffInv, TermsInv
<1>3. TermsInv'
  BY <1>2, Zenon DEF Tick, termVars, HandoffInv, TermsInv
<1>4. /\ memos' = [a \in ArtifactIds |-> memos'[a]]
      /\ agreements' = [b \in ArtifactIds |-> agreements'[b]]
      /\ memos' = memos /\ agreements' = agreements /\ jobs' = jobs
      /\ MemosKept(memos, memos') /\ HistoryKept(stated, stated')
      /\ HistoryKept(chosen, chosen') /\ UNCHANGED engagement /\ Advance
  BY KeptItself, DeskIdle, Zenon DEF Tick, termVars, HandoffInv, MemosInv, deskVars
<1> QED BY <1>3, <1>4, HandoffFrame, Zenon

\* A memo or an agreement is saved, and the thread c is done.
LEMMA SaveStep ==
  ASSUME HandoffInv, NEW c \in Callers, NEW a \in ArtifactIds, NEW ctx \in Contexts,
         NEW p \in Projects, NEW g \in Agents, NEW s \in Drafted,
         Save(a, NewArtifact(ctx, p, g, Counsel, s)), Finish(c), UNCHANGED items
  PROVE  /\ Advance /\ artifacts[a] = NoArtifact
         /\ artifacts'[a] \in Artifact /\ artifacts'[a].group = Counsel
         /\ \A k \in Callers : jobs'[k] = jobs[k] \/ jobs'[k] = IdleJob
<1> DEFINE x == NewArtifact(ctx, p, g, Counsel, s)
<1>1. Counsel \in Groups \cup {None}
  BY HandoffAssumption
<1>2. Good(x, items) /\ x.group = Counsel
  BY <1>1, NewGood
<1> HIDE DEF x
<1>3. ArtifactStep /\ artifacts'[a] = x
  BY <1>2, Saved, Zenon DEF HandoffInv, DeskInv, x
<1>4. Advance
  BY <1>3, ItemsSame, FinishStep, Zenon DEF HandoffInv, DeskInv
<1>5. \A k \in Callers : jobs'[k] = jobs[k] \/ jobs'[k] = IdleJob
  BY DEF Finish, HandoffInv, DeskInv
<1> QED BY <1>2, <1>3, <1>4, <1>5, Zenon DEF Good, Save

(* The memo is saved as it was computed from what was read.                *)
LEMMA RecommendSaveInv ==
  ASSUME HandoffInv, NEW c \in Callers, NEW a \in ArtifactIds, RecommendSave(c, a)
  PROVE  HandoffInv'
<1> DEFINE r == jobs[c].request
           ctx == jobs[c].ctx
           figures == jobs[c].figures
           picks == Picks(r.profile, selected[Key(ctx, r)])
           refused == \/ ~Fresh(r)
                      \/ Unresolved(r, ApprovalThreshold(r.profile, figures))
                      \/ Undecided(r.profile, figures, picks)
           status == IF refused THEN "insufficient_evidence" ELSE "draft"
           m == Memo(r, figures, picks, refused)
<1>1. /\ ctx \in Contexts /\ r \in engagement.requests /\ r.project \in ctx.projects
      /\ figures \in Figures
  BY DEF RecommendSave, HandoffInv, TermJobOK
<1>2. r.project \in Projects
  BY <1>1, RequestsTyped DEF HandoffInv, TermsInv
<1>3. /\ Save(a, NewArtifact(ctx, r.project, StructureAgent, Counsel, status))
      /\ memos' = [memos EXCEPT ![a] = m]
      /\ Finish(c) /\ UNCHANGED <<items, engagement, now, termVars, agreements>>
  BY Zenon DEF RecommendSave
<1>4. status \in Drafted /\ refused \in BOOLEAN
  BY DEF Drafted
<1>5. DOMAIN selected[Key(ctx, r)] = MenuAreas
  <2>1. Key(ctx, r) \in Keys
    BY <1>1, KeyInKeys
  <2> QED BY <2>1, Zenon DEF HandoffInv, TermsInv
<1>6. ApprovalThreshold(r.profile, figures) \in Nat
  <2>1. figures[Approval] \in Nat \cup {None}
    BY <1>1, LabelsHold DEF Figures
  <2> QED BY <2>1, ThresholdNat
<1>7. /\ m.request = r /\ m.picks = picks /\ m.refused = refused
      /\ m.threshold = ApprovalThreshold(r.profile, figures)
      /\ m.control = Control(r.profile, ApprovalThreshold(r.profile, figures))
      /\ m.chart = EntityLayers(r.profile)
  BY DEF Memo
<1> HIDE DEF status, m, picks, refused
<1>8. MemoOK(m, engagement.requests)
  <2>1. /\ DOMAIN picks = DOMAIN menus(r.profile)
        /\ \A x \in DOMAIN picks : picks[x] \in DOMAIN menus(r.profile)[x] \cup {None}
    BY <1>5, PicksSelected, Zenon DEF picks
  <2> QED BY <1>1, <1>4, <1>6, <1>7, <2>1, Zenon DEF MemoOK
<1>9. StructureAgent \in Agents
  BY HandoffAssumption
<1>10. /\ Advance /\ artifacts[a] = NoArtifact
       /\ artifacts'[a] \in Artifact /\ artifacts'[a].group = Counsel
       /\ \A k \in Callers : jobs'[k] = jobs[k] \/ jobs'[k] = IdleJob
  BY <1>1, <1>2, <1>3, <1>4, <1>9, SaveStep, Zenon
<1>11. memos[a] = None
  BY <1>10, Zenon DEF HandoffInv, MemosInv
<1>12. /\ memos' = [x \in ArtifactIds |-> memos'[x]]
       /\ memos'[a] = m
       /\ \A x \in ArtifactIds : x # a => memos'[x] = memos[x]
  BY <1>3 DEF HandoffInv, MemosInv
<1>13. MemosKept(memos, memos')
  BY <1>11, <1>12, Zenon DEF MemosKept
<1>14. TermsInv'
  BY <1>3, Zenon DEF termVars, HandoffInv, TermsInv
<1>15. /\ agreements' = [b \in ArtifactIds |-> agreements'[b]]
       /\ agreements' = agreements /\ HistoryKept(stated, stated')
       /\ HistoryKept(chosen, chosen') /\ UNCHANGED engagement
  BY <1>3, KeptItself, Zenon DEF termVars, HandoffInv, MemosInv
<1>16. TermJobOK(IdleJob, items', memos', stated', engagement.requests)
  BY OtherJobs, OtherPhases
<1> QED BY <1>8, <1>10, <1>12, <1>13, <1>14, <1>15, <1>16, HandoffFrame, Zenon

(* The agreement is drafted from the selections read last and the figures  *)
(* read before.                                                            *)
LEMMA HandoffDraftInv ==
  ASSUME HandoffInv, NEW c \in Callers, NEW b \in ArtifactIds, HandoffDraft(c, b)
  PROVE  HandoffInv'
<1> DEFINE r == jobs[c].request
           ctx == jobs[c].ctx
           figures == jobs[c].figures
           key == Key(ctx, r)
           picks == Picks(r.profile, selected[key])
           g == [source |-> jobs[c].id, item |-> jobs[c].item, key |-> key,
                 picks |-> picks, deal |-> DealProfile(r.profile, picks),
                 values |-> DerivedValues(r.profile, figures, picks)]
<1>1. /\ ctx \in Contexts /\ r \in engagement.requests /\ r.project \in ctx.projects
      /\ Source(jobs[c].id, r, memos) /\ jobs[c].item \in ItemIds
      /\ Accepted(jobs[c].item, items)
      /\ figures \in Figures /\ Recorded(figures) \subseteq stated[key]
  BY DEF HandoffDraft, HandoffInv, TermJobOK
<1>2. r.project \in Projects
  BY <1>1, RequestsTyped DEF HandoffInv, TermsInv
<1>3. /\ Draftable(r, figures, picks)
      /\ Save(b, NewArtifact(ctx, r.project, DraftingAgent, Counsel, "draft"))
      /\ agreements' = [agreements EXCEPT ![b] = g]
      /\ Finish(c) /\ UNCHANGED <<items, engagement, now, termVars, memos>>
  BY Zenon DEF HandoffDraft, SaveAgreement
<1>4. key \in Keys
  BY <1>1, KeyInKeys
<1>5. DOMAIN selected[key] = MenuAreas /\ Recorded(selected[key]) \subseteq chosen[key]
  BY <1>4, Zenon DEF HandoffInv, TermsInv
<1>6. Unconfirmed(r.profile, figures, picks) = {} /\ Unselected(picks) = {}
  BY <1>3, Zenon DEF Draftable, Undecided
<1>7. DOMAIN figures = Labels
  BY <1>1 DEF Figures
<1>8. Matched(DerivedValues(r.profile, figures, picks), Recorded(figures),
              menus(r.profile), picks)
  BY <1>6, <1>7, ValuesMatch, Zenon
<1>9. Matched(DerivedValues(r.profile, figures, picks), stated[key],
              menus(r.profile), picks)
  BY <1>1, <1>8, Zenon DEF Matched
<1>10. \A m \in DOMAIN picks : <<m, picks[m]>> \in chosen[key]
  <2>1. \A m \in DOMAIN picks : picks[m] # None
    BY <1>6, Zenon DEF Unselected
  <2> QED BY <1>5, <2>1, PicksSelected, Zenon
<1>11. /\ g.source = jobs[c].id /\ g.item = jobs[c].item /\ g.key = key
       /\ g.picks = picks /\ g.values = DerivedValues(r.profile, figures, picks)
       /\ g.deal = DealProfile(r.profile, picks)
  OBVIOUS
<1>12. PaperOK(DealProfile(r.profile, picks), r.profile, picks)
  BY <1>3, <1>5, PicksSelected, DraftablePaper, Zenon DEF PaperOK
<1> HIDE DEF g, picks
<1>13. AgreementOK(g, items, memos, stated, chosen)
  BY <1>1, <1>4, <1>9, <1>10, <1>11, <1>12, Zenon DEF AgreementOK, Source
<1>14. DraftingAgent \in Agents /\ "draft" \in Drafted
  BY HandoffAssumption DEF Drafted
<1>15. Advance /\ \A k \in Callers : jobs'[k] = jobs[k] \/ jobs'[k] = IdleJob
  BY <1>1, <1>2, <1>3, <1>14, SaveStep, Zenon
<1>16. /\ agreements' = [x \in ArtifactIds |-> agreements'[x]]
       /\ \A x \in ArtifactIds : agreements'[x] = agreements[x] \/ agreements'[x] = g
  BY <1>3 DEF HandoffInv, MemosInv
<1>17. TermsInv'
  BY <1>3, Zenon DEF termVars, HandoffInv, TermsInv
<1>18. /\ memos' = [a \in ArtifactIds |-> memos'[a]] /\ memos' = memos
       /\ stated' = stated /\ chosen' = chosen /\ items' = items
       /\ MemosKept(memos, memos') /\ HistoryKept(stated, stated')
       /\ HistoryKept(chosen, chosen') /\ UNCHANGED engagement
  BY <1>3, KeptItself, Zenon DEF termVars, HandoffInv, MemosInv
<1>19. AgreementOK(g, items', memos', stated', chosen')
  BY <1>13, <1>18, Zenon
<1>20. TermJobOK(IdleJob, items', memos', stated', engagement.requests)
  BY OtherJobs, OtherPhases
<1> QED BY <1>15, <1>16, <1>17, <1>18, <1>19, <1>20, HandoffFrame, Zenon

(* At the start there is nothing to draft from.                            *)
LEMMA HandoffInitInv == HandoffInit => HandoffInv
<1> SUFFICES ASSUME HandoffInit PROVE HandoffInv
  OBVIOUS
<1>1. DeskInv
  BY DeskInitInv DEF HandoffInit
<1>2. /\ engagement \in Engagements /\ now = 0 /\ engagement.days \in Nat
      /\ engagement.confirmed \in Figures
      /\ engagement.selected = [area \in MenuAreas |-> engagement.selected[area]]
  BY HandoffAssumption, Zenon DEF HandoffInit, Figures
<1>3. /\ confirmed = [k \in Keys |-> engagement.confirmed]
      /\ selected = [k \in Keys |-> engagement.selected]
      /\ stated = [k \in Keys |-> Recorded(engagement.confirmed)]
      /\ chosen = [k \in Keys |-> Recorded(engagement.selected)]
  BY Zenon DEF HandoffInit
<1>4. now \in 0..engagement.days
  BY <1>2, SMT
<1>5. /\ confirmed \in [Keys -> Figures]
      /\ stated = [k \in Keys |-> stated[k]] /\ chosen = [k \in Keys |-> chosen[k]]
      /\ \A k \in Keys : /\ Recorded(confirmed[k]) \subseteq stated[k]
                         /\ Recorded(selected[k]) \subseteq chosen[k]
  BY <1>2, <1>3, Zenon
<1>6. selected = [k \in Keys |-> [area \in MenuAreas |-> selected[k][area]]]
  <2>1. \A k \in Keys : selected[k] = engagement.selected
    BY <1>3, Zenon
  <2> QED BY <1>2, <1>3, <2>1, Zenon
<1>7. TermsInv
  BY <1>2, <1>4, <1>5, <1>6, Zenon DEF TermsInv
<1>8. MemosInv
  BY Zenon DEF HandoffInit, MemosInv
<1>9. ASSUME NEW c \in Callers
      PROVE  TermJobOK(jobs[c], items, memos, stated, engagement.requests)
  <2>1. jobs[c] = IdleJob
    BY Zenon DEF HandoffInit, DeskInit
  <2> QED BY <2>1, OtherJobs, OtherPhases, Zenon
<1> QED BY <1>1, <1>7, <1>8, <1>9, Zenon DEF HandoffInv

(* Every step of the desk and of the hand-off keeps the invariant.         *)
LEMMA HandoffStepInv == HandoffInv /\ [HandoffNext]_allVars => HandoffInv'
<1> SUFFICES ASSUME HandoffInv, [HandoffNext]_allVars PROVE HandoffInv'
  OBVIOUS
<1>1. ASSUME NEW c \in Callers, HandoffStep(c) PROVE HandoffInv'
  BY <1>1, RecommendSaveInv, HandoffReviewInv, HandoffFiguresInv, HandoffDraftInv,
     HandoffRefusedInv, Zenon DEF HandoffStep
<1>2. ASSUME NEW c \in Callers, NEW ctx \in Contexts, NEW r \in engagement.requests,
             RecommendRead(c, ctx, r)
      PROVE  HandoffInv'
  BY <1>2, RecommendReadInv
<1>3. ASSUME NEW c \in Callers, NEW ctx \in Contexts, NEW a \in ArtifactIds,
             NEW r \in engagement.requests, HandoffRead(c, ctx, a, r)
      PROVE  HandoffInv'
  BY <1>3, HandoffReadInv
<1>4. ASSUME NEW ctx \in Contexts, NEW p \in Projects, NEW d \in engagement.figures,
             ConfirmNumber(ctx, p, d[1], d[2])
      PROVE  HandoffInv'
  BY <1>4, ConfirmNumberInv
<1>5. ASSUME NEW ctx \in Contexts, NEW p \in Projects, NEW d \in engagement.choices,
             SelectMenuOption(ctx, p, d[1], d[2])
      PROVE  HandoffInv'
  BY <1>5, SelectMenuOptionInv
<1>6. CASE UNCHANGED allVars
  <2>1. UNCHANGED deskVars /\ UNCHANGED handoffVars /\ UNCHANGED jobs
    BY <1>6, Zenon DEF allVars, deskVars
  <2> QED BY <2>1, DeskIdle, JobsFrame, Zenon
<1> QED BY <1>1, <1>2, <1>3, <1>4, <1>5, <1>6, ReviewHandoff, TickInv, Zenon
       DEF HandoffNext

-----------------------------------------------------------------------------
(* The theorems.                                                           *)

(* The confirmations, selections, memos and agreements keep their columns, *)
(* for any ventures and any number of requests at once.                    *)
THEOREM HandoffTyping == HandoffSpec => []HandoffTypeOK
<1>1. HandoffInv => HandoffTypeOK
  <2> SUFFICES ASSUME HandoffInv PROVE HandoffTypeOK
    OBVIOUS
  <2>1. /\ now \in 0..engagement.days
        /\ confirmed \in [Keys -> [Labels -> Nat \cup {None}]]
        /\ \A k \in Keys : DOMAIN selected[k] = MenuAreas
    BY Zenon DEF HandoffInv, TermsInv, Figures
  <2>2. ASSUME NEW a \in Memos
        PROVE  MemoOK(memos[a], engagement.requests)
    BY Zenon DEF HandoffInv, MemosInv, Memos
  <2>3. ASSUME NEW b \in Drafts
        PROVE  /\ agreements[b].source \in Memos /\ agreements[b].item \in ItemIds
               /\ agreements[b].key \in Keys
    BY Zenon DEF HandoffInv, MemosInv, AgreementOK, Memos, Drafts
  <2> QED BY <2>1, <2>2, <2>3, Zenon DEF HandoffTypeOK, MemoOK
<1> QED BY <1>1, HandoffInitInv, HandoffStepInv, PTL DEF HandoffSpec

(* No agreement is ever drafted from a memo that carried a refusal, or     *)
(* whose review nobody in qualified counsel accepted: an acceptance that   *)
(* a hand-off has read cannot be taken back while it goes on, and a memo   *)
(* that it has found eligible cannot change.                               *)
THEOREM Acceptance == HandoffSpec => []DraftsRestOnAcceptance
<1>1. HandoffInv => DraftsRestOnAcceptance
  <2> SUFFICES ASSUME HandoffInv, NEW b \in Drafts
               PROVE  DraftsRestOnAcceptance!(b)
    BY DEF DraftsRestOnAcceptance
  <2> DEFINE i == agreements[b].item
  <2>1. AgreementOK(agreements[b], items, memos, stated, chosen)
    BY Zenon DEF HandoffInv, MemosInv, Drafts
  <2>2. ~MemoOf(b).refused /\ i \in ItemIds /\ Accepted(i, items)
    BY <2>1, Zenon DEF AgreementOK, MemoOf
  <2>3. "accepted" \in Decided /\ Counsel # None
    BY HandoffAssumption, QueueAssumption DEF Decided
  <2>4. CASE items[i].status = "accepted" /\ items[i].group = Counsel
    <3>1. QualifiedDecisions!(i)
      BY <2>2, Zenon DEF HandoffInv, DeskInv, QueueInv, QualifiedDecisions
    <3>2. \E ctx \in Contexts : /\ items[i].reviewed_by = ctx.user
                                /\ Counsel \in ctx.groups
      BY <2>3, <2>4, <3>1, Zenon
    <3> QED BY <2>2, <2>4, <3>2, Zenon
  <2>5. CASE items[i] = DeletedItem
    BY <2>2, <2>5, Zenon
  <2> QED BY <2>2, <2>4, <2>5, Zenon DEF Accepted
<1> QED BY <1>1, HandoffInitInv, HandoffStepInv, PTL DEF HandoffSpec

(* Every value and every option of an agreement was decided by a person    *)
(* for its project, and no figure of an option it picked is left out,      *)
(* although confirmations and selections are read at different moments and *)
(* keep changing.                                                          *)
THEOREM DecidedTerms == HandoffSpec => []OnlyDecidedTerms
<1>1. HandoffInv => OnlyDecidedTerms
  <2> SUFFICES ASSUME HandoffInv, NEW b \in Drafts
               PROVE  OnlyDecidedTerms!(b)
    BY DEF OnlyDecidedTerms
  <2>1. AgreementOK(agreements[b], items, memos, stated, chosen)
    BY Zenon DEF HandoffInv, MemosInv, Drafts
  <2> QED BY <2>1, Zenon DEF AgreementOK, Matched, MemoOf
<1> QED BY <1>1, HandoffInitInv, HandoffStepInv, PTL DEF HandoffSpec

(* No votes short of all suffice exactly when all but one do not.          *)
LEMMA AllButOneSuffice ==
  ASSUME NEW n \in Nat, n > 2, NEW x \in Nat
  PROVE  (\A votes \in 1..(n - 1) : ~(votes * 100 >= x)) <=> (n - 1) * 100 < x
<1>1. n - 1 \in 1..(n - 1)
  BY SMT
<1>2. ASSUME \A votes \in 1..(n - 1) : ~(votes * 100 >= x) PROVE (n - 1) * 100 < x
  <2>1. ~((n - 1) * 100 >= x)
    BY <1>1, <1>2, Zenon
  <2> QED BY <2>1, SMT
<1>3. ASSUME (n - 1) * 100 < x PROVE \A votes \in 1..(n - 1) : ~(votes * 100 >= x)
  BY <1>3, SMT
<1> QED BY <1>2, <1>3, Zenon

\* LadderIffDissentBlocks of one memo.
LadderRight(memo) ==
  LET p == memo.request.profile
      n == total_members(p)
  IN  memo.control.deadlock_ladder <=>
        /\ p.equal_ownership /\ n > 1
        /\ \A votes \in 1..(n - 1) : ~Suffice(memo, votes)

(* What the rule and the threshold of a memo say decides its ladder: the   *)
(* rule is unanimity between two equal owners, a threshold of the members  *)
(* among more, and neither in any other venture.                           *)
LEMMA LadderByRule ==
  ASSUME NEW memo, NEW p, p = memo.request.profile, NEW t \in Nat, t = memo.threshold,
         NEW n \in Nat, n = total_members(p), memo.control = Control(p, t)
  PROVE  LadderRight(memo)
<1>1. /\ memo.control.deadlock_ladder = DeadlockNeeded(p, t)
      /\ memo.control.approval_rule = ApprovalRule(p)
  BY DEF Control
<1>2. n * t \in Nat /\ (n > 1 <=> n = 2 \/ n > 2) /\ ~(n = 2 /\ n > 2)
  BY SMT
<1>3. "unanimous" # "supermajority" /\ "majority_with_minority_veto" \notin {"unanimous", "supermajority"}
  OBVIOUS
<1>4. CASE p.equal_ownership /\ n > 2
  <2>1. ApprovalRule(p) = "supermajority"
    BY <1>2, <1>4, Zenon DEF ApprovalRule
  <2>2. \A votes : Suffice(memo, votes) <=> votes * 100 >= n * t
    BY <1>1, <1>3, <2>1, Zenon DEF Suffice
  <2>3. DeadlockNeeded(p, t) <=> (n - 1) * 100 < n * t
    BY <1>4, LadderNeeded
  <2>4. (\A votes \in 1..(n - 1) : ~(votes * 100 >= n * t)) <=> (n - 1) * 100 < n * t
    <3> DEFINE x == n * t
    <3>1. x \in Nat /\ n > 2
      BY <1>2, <1>4
    <3> HIDE DEF x
    <3>2. (\A votes \in 1..(n - 1) : ~(votes * 100 >= x)) <=> (n - 1) * 100 < x
      BY <3>1, AllButOneSuffice
    <3> QED BY <3>2 DEF x
  <2> QED BY <1>1, <1>2, <1>4, <2>2, <2>3, <2>4, Zenon DEF LadderRight
<1>5. CASE p.equal_ownership /\ n = 2
  <2>1. ApprovalRule(p) = "unanimous"
    BY <1>5, Zenon DEF ApprovalRule
  <2>2. DeadlockNeeded(p, t)
    BY <1>3, <2>1, Zenon DEF DeadlockNeeded
  <2>3. \A votes \in 1..(n - 1) : votes # n
    BY <1>5, SMT
  <2>4. \A votes : Suffice(memo, votes) => votes = n
    BY <1>1, <2>1, Zenon DEF Suffice
  <2>5. \A votes \in 1..(n - 1) : ~Suffice(memo, votes)
    BY <2>3, <2>4, Zenon
  <2> QED BY <1>1, <1>2, <1>5, <2>2, <2>5, Zenon DEF LadderRight
<1>6. CASE ~(p.equal_ownership /\ n > 1)
  <2>1. ApprovalRule(p) = "majority_with_minority_veto"
    BY <1>2, <1>6, Zenon DEF ApprovalRule
  <2>2. ~DeadlockNeeded(p, t)
    BY <2>1, Zenon DEF DeadlockNeeded
  <2> QED BY <1>1, <1>6, <2>2, Zenon DEF LadderRight
<1> QED BY <1>2, <1>4, <1>5, <1>6, Zenon

(* Whatever owners a venture has and whatever approval threshold people    *)
(* confirm, its memo promises a deadlock ladder exactly when it is owned   *)
(* equally by two or more and, under the rule and threshold the memo       *)
(* states, nothing is carried over one dissent.                            *)
THEOREM Ladder == HandoffSpec => []LadderIffDissentBlocks
<1>1. HandoffInv => LadderIffDissentBlocks
  <2> SUFFICES ASSUME HandoffInv, NEW a \in Memos
               PROVE  LadderRight(memos[a])
    BY DEF LadderIffDissentBlocks, LadderRight
  <2> DEFINE p == memos[a].request.profile
             t == memos[a].threshold
             n == total_members(p)
  <2>1. MemoOK(memos[a], engagement.requests)
    BY Zenon DEF HandoffInv, MemosInv, Memos
  <2>2. n \in Nat /\ t \in Nat /\ memos[a].control = Control(p, t)
    BY <2>1, RequestsTyped DEF MemoOK, HandoffInv, TermsInv
  <2> HIDE DEF p, t, n
  <2> QED BY <2>2, LadderByRule DEF p, t, n
<1> QED BY <1>1, HandoffInitInv, HandoffStepInv, PTL DEF HandoffSpec

(* In the chart of every memo one entity is for the licence, and holds the *)
(* venture's unless its sector has one for another licence; one holds the  *)
(* rights; none has both an operating company and entities per unit; and   *)
(* no name is used twice but in a regulated licensing business, whatever   *)
(* sector the venture is in and however many units it runs.                *)
THEOREM OneEntity == HandoffSpec => []OneEntityPerJob
<1>1. HandoffInv => OneEntityPerJob
  <2> SUFFICES ASSUME HandoffInv, NEW a \in Memos
               PROVE  OneEntityPerJob!(a)
    BY DEF OneEntityPerJob
  <2> DEFINE p == memos[a].request.profile
             chart == memos[a].chart
  <2>1. chart = EntityLayers(p)
    BY Zenon DEF HandoffInv, MemosInv, Memos, MemoOK
  <2>2. is_regulated(p) => HoldCoNeeded(p)
    BY Zenon DEF HoldCoNeeded
  <2>3. p.material_ip => HoldCoNeeded(p)
    BY Zenon DEF HoldCoNeeded
  <2>4. is_regulated(p) => Cardinality({e \in EntityLayers(p) : e.role \in LicenceRoles}) = 1
    BY <2>2, KindsDiffer, HeldOnce, Zenon
  <2>5. p.material_ip => Cardinality({e \in EntityLayers(p) : e.role \in RightsRoles}) = 1
    BY <2>3, KindsDiffer, HeldOnce, Zenon
  <2>6. is_regulated(p) =>
          ((\E e \in EntityLayers(p) : HoldsLicence(e.role, p.regulated_regime)) <=> ~OtherLicence(p))
    BY LicenceHeld, Zenon
  <2>7. \A e, f \in EntityLayers(p) : e.name = f.name =>
          e = f \/ (p.activity = "ip_licensing" /\ is_regulated(p))
    BY ChartNames, Zenon
  <2> HIDE DEF p, chart
  <2> QED BY <2>1, <2>4, <2>5, <2>6, <2>7, NotBoth, Zenon DEF p, chart
<1> QED BY <1>1, HandoffInitInv, HandoffStepInv, PTL DEF HandoffSpec

(* The paper of an agreement cites only what it has, defines what it       *)
(* relies on, leaves out no clause it must have, and has a place for the   *)
(* figures of the valuation and the payment picked, whatever venture the   *)
(* memo was for and whatever was picked since.                             *)
THEOREM PaperComplete == HandoffSpec => []PaperSelfContained
<1>1. HandoffInv => PaperSelfContained
  <2> SUFFICES ASSUME HandoffInv, NEW b \in Drafts
               PROVE  PaperSelfContained!(b)
    BY DEF PaperSelfContained
  <2> DEFINE p == MemoOf(b).request.profile
             picks == agreements[b].picks
             d == DealProfile(p, picks)
  <2>1. /\ agreements[b].deal = d /\ "governance" \in Categories(Sections(d))
        /\ \A m \in {"valuation", "payment"} : picks[m] \in DOMAIN menus(p)[m]
    BY Zenon DEF HandoffInv, MemosInv, AgreementOK, PaperOK, MemoOf, Drafts
  <2>2. d.management \in Models
    BY Zenon DEF DealProfile, ManagementModel, Models
  <2>3. menus(p)["valuation"] = ValuationMenu(p) /\ menus(p)["payment"] = PaymentMenu
    BY DEF menus, MenuAreas
  <2>4. /\ \A label \in DOMAIN ValuationMenu(p)[picks["valuation"]] :
             VariableOf[label] \in OpenFigures(Sections(d))
        /\ \A label \in DOMAIN PaymentMenu[picks["payment"]] :
             VariableOf[label] \in OpenFigures(Sections(d))
    BY <2>1, <2>3, FiguresPlaced, Zenon
  <2> HIDE DEF d, p, picks
  <2>5. BrokenReferences(Sections(d)) = {} /\ UndefinedTerms(Sections(d)) = {}
    BY <2>1, <2>2, ReferencesKept, TermsDefined, Zenon
  <2>6. OmittedRequired(d) = {}
    BY EachSection, Zenon DEF OmittedRequired
  <2>7. ASSUME NEW m \in {"valuation", "payment"}
        PROVE  {VariableOf[label] : label \in DOMAIN menus(p)[m][picks[m]]}
                 \subseteq OpenFigures(Sections(d))
    BY <2>3, <2>4, Zenon
  <2> QED BY <2>1, <2>5, <2>6, <2>7, Zenon DEF Paper, p, picks
<1> QED BY <1>1, HandoffInitInv, HandoffStepInv, PTL DEF HandoffSpec

(* The paper of an agreement is run by the model the accepted memo shows,  *)
(* under one clause on governance and one on authority, and under the law  *)
(* the memo's chart leads to.                                              *)
THEOREM PaperAgrees == HandoffSpec => []PaperAgreesWithMemo
<1>1. HandoffInv => PaperAgreesWithMemo
  <2> SUFFICES ASSUME HandoffInv, NEW b \in Drafts
               PROVE  PaperAgreesWithMemo!(b)
    BY DEF PaperAgreesWithMemo
  <2> DEFINE memo == MemoOf(b)
             p == memo.request.profile
             picks == agreements[b].picks
             d == DealProfile(p, picks)
  <2>1. agreements[b].deal = d /\ "governance" \in Categories(Sections(d))
    BY Zenon DEF HandoffInv, MemosInv, AgreementOK, PaperOK, MemoOf, Drafts
  <2>2. memo.control = Control(p, memo.threshold) /\ memo.chart = EntityLayers(p)
    BY Zenon DEF HandoffInv, MemosInv, AgreementOK, MemoOK, MemoOf, Drafts
  <2>3. /\ d.management = ManagementModel(p) /\ d.management \in Models
        /\ d.jurisdiction = FormationState(p)
    BY Zenon DEF DealProfile, ManagementModel, Models
  <2>4. memo.control.management_model = ManagementModel(p)
    <3>1. \A t : Control(p, t).management_model = ManagementModel(p)
      BY Zenon DEF Control
    <3> QED BY <2>2, <3>1, Zenon
  <2>5. d.jurisdiction = IF \E e \in memo.chart : e.state = "Delaware" THEN "Delaware"
                                                                       ELSE p.home_state
    BY <2>2, <2>3, Zenon DEF FormationState
  <2> HIDE DEF d
  <2>6. ASSUME NEW category \in {"governance", "authority"}
        PROVE  Cardinality({s \in Sections(d) : s.clause.category = category}) = 1
    <3>1. category \in OwnCategories
      BY DEF OwnCategories
    <3>2. \E s : InCategory(d, category) = {s}
      BY <2>1, <2>3, <3>1, OneGoverning, Zenon
    <3>3. Cardinality(InCategory(d, category)) = 1
      BY <3>2, FS_Singleton, Zenon
    <3> QED BY <3>3 DEF InCategory
  <2>7. ASSUME NEW s \in Sections(d)
        PROVE  memo.control.management_model \in s.clause.condition.management
    BY <2>3, <2>4, EachSection, Zenon DEF Applicable, Matches
  <2> HIDE DEF memo, p
  <2> QED BY <2>1, <2>5, <2>6, <2>7, Zenon DEF Paper, memo, p
<1> QED BY <1>1, HandoffInitInv, HandoffStepInv, PTL DEF HandoffSpec

(* Decisions about ventures, recommendations and hand-offs leave the queue *)
(* alone; what else happens is the desk's.                                 *)
LEMMA HandoffQueueStep == HandoffInv /\ [HandoffNext]_allVars => [QueueNext]_items
<1> SUFFICES ASSUME HandoffInv, [HandoffNext]_allVars PROVE [QueueNext]_items
  OBVIOUS
<1>1. ReviewNext => [QueueNext]_items
  BY ReviewQueueStep, Zenon DEF HandoffInv
<1>2. ASSUME NEW c, HandoffStep(c) PROVE UNCHANGED items
  BY <1>2, Zenon DEF HandoffStep, RecommendSave, HandoffReview, HandoffFigures, HandoffDraft,
                     HandoffRefused
<1>3. ASSUME NEW c, NEW ctx, NEW a, NEW r, RecommendRead(c, ctx, r) \/ HandoffRead(c, ctx, a, r)
      PROVE  UNCHANGED items
  BY <1>3, Zenon DEF RecommendRead, HandoffRead
<1>4. ASSUME NEW ctx, NEW p, NEW x, NEW y,
             ConfirmNumber(ctx, p, x, y) \/ SelectMenuOption(ctx, p, x, y)
      PROVE  UNCHANGED items
  BY <1>4 DEF ConfirmNumber, SelectMenuOption, deskVars
<1>5. CASE Tick \/ UNCHANGED allVars
  BY <1>5 DEF Tick, allVars, deskVars
<1> QED BY <1>1, <1>2, <1>3, <1>4, <1>5, Zenon DEF HandoffNext

(* Drafting, too, is a user of the queue: with memos and agreements on the *)
(* desk every run is a run of ReviewQueue, so that the acceptances         *)
(* agreements rest on are those of qualified counsel, and final.           *)
THEOREM HandoffQueue == HandoffSpec => QueueSpec
<1>1. HandoffInit => QueueInit
  BY DEF HandoffInit, DeskInit
<1> QED BY <1>1, HandoffInitInv, HandoffStepInv, HandoffQueueStep, PTL DEF HandoffSpec, QueueSpec

(* What the desk promises of artifacts holds of memos and agreements: they *)
(* show the decisions of their items, and their events are those of the    *)
(* status and link they show.                                              *)
THEOREM HandoffDesk == HandoffSpec => [](DecisionBacked /\ EventsTellStatus)
<1>1. HandoffInv => DecisionBacked /\ EventsTellStatus
  BY DeskBacked, DeskTold DEF HandoffInv
<1> QED BY <1>1, HandoffInitInv, HandoffStepInv, PTL DEF HandoffSpec
=============================================================================
