--------------------------- MODULE MCSpecialistDesk ---------------------------
(***************************************************************************)
(* A small instance of SpecialistDesk: two members of one project, of      *)
(* whom one may review everything, and a reviewer of another project.      *)
(* For each manager a few records on either side of its rules.             *)
(***************************************************************************)
EXTENDS SpecialistDesk, TLC

AllGroups == {ReviewerGroup(m) : m \in Managers}
Context(user, projects, groups) ==
  [tenant |-> "tessera", user |-> user, projects |-> projects, groups |-> groups]
MCContexts == {Context("ava", {"aurora"}, AllGroups), Context("ben", {"aurora"}, AllGroups),
               Context("eve", {"tidepool"}, AllGroups)}
MCGroups   == AllGroups
MCFreshFor == [development |-> 1, contract |-> 1, diligence |-> 2]

Aurora == [tenant |-> "tessera", client |-> "northstar", project |-> "aurora"]
Record(manager, id, fields) ==
  [manager |-> manager, access |-> Aurora, id |-> id] @@ fields
Dated(a, b) == "a" :> a @@ "b" :> b

-----------------------------------------------------------------------------
Line(planned, forecast, actual) == [planned |-> planned, forecast |-> forecast, actual |-> actual]
Version(n, base, item) ==
  [id |-> "s", version |-> n, baseline |-> base, items |-> ("m" :> item), sources |-> {"a"}]
Approved == Version(1, TRUE, Line(2, None, None))
Revised  == Version(2, FALSE, Line(2, 4, 3))
Unplanned == Version(1, TRUE, Line(0, 1, None))
Shift    == Version(2, FALSE, Line(8, 5, None))

Entry1(status, sources) == [id |-> "permit", status |-> status, sources |-> sources]
Gates == [exit |-> {[required |-> "approved", records |-> {"permit"}]},
          entry |-> {[required |-> "approved", records |-> {"permit"}],
                     [required |-> "open", records |-> {"permit", "risk"}]}]
Development(register, schedules, dates) ==
  Record("development", "aurora",
    [register |-> register, schedules |-> schedules, budgets |-> <<Unplanned>>,
     gates |-> Gates, evidence |-> dates])
MCDevelopment ==
  {Development(reg, sch, dates) :
     reg \in {<<Entry1("approved", {"a"})>>, <<Entry1("approved", {"a", "b"})>>,
              <<Entry1("blocked", {"a"}), Entry1("approved", {"b"})>>,
              <<Entry1("approved", {})>>,
              <<Entry1("open", {"a"}), [id |-> "risk", status |-> "open", sources |-> {"b"}]>>},
     sch \in {<<Approved, Revised>>, <<Approved, Approved>>, <<Shift>>},
     dates \in {Dated(0, 1), Dated(0, None)}}

-----------------------------------------------------------------------------
Clause(topic, sources) == [topic |-> topic, sources |-> sources]
Rule(id, risk, approved) ==
  [id |-> id, topic |-> "fees", risk |-> risk, approved |-> approved, sources |-> {"b"}]
MCContracts ==
  {Record("contract", "msa", [clauses |-> <<Clause("fees", {"a"}), Clause("term", {"a"})>>,
     rules |-> rules, evidence |-> Dated(0, 0)]) :
     rules \in {<<Rule("r1", "low", TRUE), Rule("r2", "high", TRUE)>>, <<Rule("r1", "low", FALSE)>>}}

Claim(class, material, sources) ==
  [class |-> class, material |-> material, protected |-> FALSE, sources |-> sources]
MCDiligence ==
  {Record("diligence", "dd", [claims |-> claims, evidence |-> Dated(0, 1)]) :
     claims \in {{Claim("verified_fact", TRUE, {"a", "b"}), Claim("allegation", TRUE, {"a"})},
                 {Claim("verified_fact", TRUE, {"a"})}}}

Source(kind, age) == [kind |-> kind, max_age |-> age, licensed |-> TRUE]
Finding(impact, sources) == [id |-> "f", impact |-> impact, sources |-> sources]
MCIntelligence ==
  {Record("intelligence", "brief",
     [sources |-> ("a" :> Source("primary", 1)) @@ ("b" :> Source(kind, 2)),
      evidence |-> Dated(0, 0), findings |-> {Finding("high", {"a", "b"}), Finding("low", {"b"})}]) :
     kind \in {"primary", "secondary"}}

-----------------------------------------------------------------------------
Signal(severity) == [severity |-> severity, sources |-> {"a"}]
MCConstruction ==
  {Record("construction", "site",
     [milestones |-> ("m" :> [baseline |-> 1, forecast |-> 3, sources |-> {"a"}]),
      costs |-> ("c" :> [budget |-> 4, forecast |-> 5, actual |-> 2, sources |-> {"a"}]),
      tracking |-> ("t" :> [status |-> "open", sources |-> {"b"}]),
      changes |-> ("x" :> [status |-> "open", forecast |-> 3, approved |-> 1, sources |-> {"a"}])
               @@ ("y" :> [status |-> "closed", forecast |-> 9, approved |-> 0, sources |-> {"a"}]),
      safety |-> safety, evidence |-> Dated(0, 0)]) :
     safety \in {("p" :> Signal("imminent")) @@ ("q" :> Signal("high")),
                 ("p" :> Signal("imminent")) @@ ("q" :> Signal("imminent"))}}

Model(version, noi, debt, equity) ==
  [id |-> "base", version |-> version, noi |-> noi, service |-> 800, debt |-> debt,
   value |-> 10000, equity |-> equity, cites |-> {"a"},
   uses |-> ("land" :> debt + equity), sources |-> ("debt" :> debt) @@ ("equity" :> equity)]
Covenant(metric, min, max) == [metric |-> metric, minimum |-> min, maximum |-> max, cites |-> {"b"}]
\* Limits in thousandths: 1.25 and 75.01 %, and 1.253 to 1.258, which a ratio
\* of 1.25375 meets and its rounding to 1.25 does not.
MCCapital ==
  {Record("capital", "deal",
     [models |-> {Model(1, 996, 7501, 100), Model(2, 995, 7500, 100), Model(3, 1004, 7502, 0),
                  Model(4, 1012, 9000, 100), Model(5, 1003, 7503, 100)},
      covenants |-> ("c1" :> Covenant("dscr", 1250, None)) @@ ("c2" :> Covenant("ltv_percent", None, 75010))
                 @@ ("c3" :> Covenant("yield", 1, 2)) @@ ("c4" :> Covenant("dscr", 1253, 1258)),
      evidence |-> Dated(0, 0)])}

-----------------------------------------------------------------------------
Workspace(id, allowed, protected) ==
  [id |-> id, allowed |-> allowed, protected |-> protected, dependencies |-> FALSE, deployment |-> FALSE]
Change(id, workspace, paths) ==
  [id |-> id, workspace |-> workspace, paths |-> paths, checks |-> <<TRUE>>, cites |-> {"a"},
   dependencies |-> FALSE, config |-> FALSE, destructive |-> FALSE]
Engineering(workspace, change) ==
  Record("engineering", workspace.id,
    [workspace |-> workspace, change |-> change, evidence |-> Dated(0, 0)])
MCEngineering ==
  {Engineering(Workspace("docs", {<<"docs">>}, {}), Change("c1", "docs", {<<"docs", "guide">>})),
   Engineering(Workspace("core", {<<"src">>}, {<<"src", "prod">>}),
               Change("c2", "core", {<<"src", "prod", "keys">>})),
   Engineering(Workspace("core", {<<"src">>}, {}), Change("c1", "core", {<<"src", "a">>}))}

Snapshot(version, latency, cases) ==
  [artifact |-> "prompt", version |-> version, day |-> 0, accuracy |-> 90, citations |-> 95,
   unsupported |-> 2, latency |-> latency, cost |-> 0, secure |-> [isolation |-> TRUE],
   cases |-> cases, cites |-> {"a"}]
MCAssurance ==
  {Record("assurance", "prompt",
     [baseline |-> Snapshot("v1", 10, 1), candidate |-> Snapshot("v2", latency, 5),
      policy |-> [cases |-> 5, accuracy |-> 90, citations |-> 95, unsupported |-> 2,
                  latency |-> 10, cost |-> 0, cadence |-> 1],
      evidence |-> Dated(0, 0)]) : latency \in {11, 12}}

MCRecords == MCDevelopment \cup MCContracts \cup MCDiligence \cup MCIntelligence
             \cup MCConstruction \cup MCCapital \cup MCEngineering \cup MCAssurance
MCCreators == {"ava", "ben", "eve"} \cup Managers

\* Ids carry no meaning of their own.
Symmetric == Permutations(DraftIds) \cup Permutations(ItemIds)
=============================================================================
