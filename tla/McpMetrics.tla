------------------------------ MODULE McpMetrics ------------------------------
(***************************************************************************)
(* The twelve metrics of an MCP assessment (mcp/runners), their weighted   *)
(* tree (mcp/spec.py, mcp/engine.py) and the decision (mcp/orchestrator.py).*)
(* A score is a fraction of hundredths, 0 to 100, or NoScore; a veto is    *)
(* none, warning or failure.  Pure operators over what the extractors said.*)
(***************************************************************************)
EXTENDS Naturals, Sequences, SequencesExt, FiniteSets, FiniteSetsExt

NoScore == <<0, 0>>
HasScore(metric) == metric.score # NoScore

Metric(score, status, veto) == [score |-> score, status |-> status, veto |-> veto]
Assessed(hundredths, veto) == Metric(<<hundredths, 1>>, "success", veto)
Skipped == Metric(NoScore, "skipped", "none")
Errored == Metric(NoScore, "error", "none")

-----------------------------------------------------------------------------
(* Who runs the server, and what can be seen of its code.                     *)

HostingOperatorClass(c) ==
    CASE c.officiality = "official" -> Assessed(IF c.local THEN 15 ELSE 0, "none")
      [] c.officiality # "official" /\ c.local  -> Assessed(50, "none")
      [] c.officiality # "official" /\ ~c.local -> Assessed(100, "warning")

SourceOpacity(c) ==
    Assessed(CASE c.repo -> 0
               [] ~c.repo /\ c.officiality = "official" -> IF c.local THEN 40 ELSE 0
               [] ~c.repo /\ c.officiality # "official" -> IF c.local THEN 100 ELSE 70,
             "none")

TransportScore == [https_strong |-> 0, https_safe_redirect |-> 0, https_legacy_tls |-> 40,
                   http_fallback |-> 50, https_unsafe_redirect |-> 60,
                   https_invalid_cert |-> 85, http_only |-> 100]

\* A legacy server is refused only when no modern handshake worked at all.
TransportVeto(f) ==
    CASE f.level \in {"https_invalid_cert", "http_only"} -> "failure"
      [] f.level = "https_legacy_tls" -> IF f.tls = "none" THEN "failure" ELSE "warning"
      [] OTHER -> "none"

TransportSecurity(f) ==
    CASE f.local -> Skipped
      [] ~f.local /\ f.level = "none" -> Errored
      [] ~f.local /\ f.level # "none" -> Assessed(TransportScore[f.level], TransportVeto(f))

AuthStrength(a) ==
    CASE a.local -> Skipped
      [] ~a.local /\ a.modes = {} -> Errored
      [] ~a.local /\ a.modes = {"oauth"} -> Assessed(0, "none")
      [] ~a.local /\ {"oauth"} \subseteq a.modes /\ a.modes # {"oauth"} -> Assessed(60, "none")
      [] ~a.local /\ "oauth" \notin a.modes /\ a.modes \cap {"api_key", "pat"} # {} ->
            Assessed(60, "warning")
      [] OTHER -> Assessed(100, "warning")

\* Without metadata both count as assessed, at the default for unknown.
PkceValidation(a) ==
    CASE a.local -> Skipped
      [] ~a.local /\ a.metadata = <<>> -> Assessed(35, "none")
      [] OTHER -> Assessed(IF ~a.metadata[1].s256 THEN 100 ELSE IF a.metadata[1].plain THEN 60 ELSE 0, "none")

DynamicClientRegistration(a) ==
    CASE a.local -> Skipped
      [] ~a.local /\ a.metadata = <<>> -> Assessed(35, "none")
      [] OTHER -> Assessed(IF a.metadata[1].registers THEN 0 ELSE 100, "none")

-----------------------------------------------------------------------------
(* Dependencies and the package itself.                                       *)

OfDependencies(sca, metric) ==
    CASE ~sca.repo -> Skipped
      [] sca.repo /\ ~sca.success -> Errored
      [] sca.repo /\ sca.success  -> metric

MaliciousDependencies(sca) ==
    OfDependencies(sca, IF \E e \in sca.entries : e.malware # <<>>
                        THEN Assessed(100, "failure") ELSE Assessed(0, "none"))

HighCves(e) == {i \in DOMAIN e.cve : e.cve[i].severity \in {"HIGH", "CRITICAL"}}

ReachabilityScore(v) ==
    IF v.transitive THEN IF v.reachable THEN 60 ELSE 35
    ELSE IF v.reachable THEN 100 ELSE IF v.used > 0 THEN 80 ELSE 75

ManyDirect == 5

VulnerabilityRisk(sca) ==
    LET high == UNION {{e.cve[i] : i \in HighCves(e)} : e \in sca.entries}
        Direct(e) == Cardinality({i \in HighCves(e) : ~e.cve[i].transitive})
        veto == IF \E v \in high : v.reachable THEN "failure"
                ELSE IF \/ MapThenSumSet(Direct, sca.entries) >= ManyDirect
                        \/ \E v \in high : ~v.transitive /\ v.used > 0
                     THEN "warning" ELSE "none"
    IN OfDependencies(sca, Assessed(Max({0} \cup {ReachabilityScore(v) : v \in high}), veto))

\* What affects the newest version weighs more than what is history.
McpPackageCves(answer) ==
    LET known == ToSet(answer.vulns)
        latest == {v \in known : v.affectsLatest}
        high == {v \in known : v.severity = "high"}
        score == IF known = {} THEN 0 ELSE IF latest \cap high # {} THEN 100
                 ELSE IF latest # {} THEN 70 ELSE IF high # {} THEN 80 ELSE 40
    IN CASE ~answer.success -> Errored
         [] answer.success /\ ~answer.queryable -> Skipped
         [] answer.success /\ answer.queryable  ->
               Assessed(score, IF latest # {} THEN "warning" ELSE "none")

-----------------------------------------------------------------------------
(* Tools and secrets.                                                         *)

MetadataSecurity(t) ==
    CASE ~t.tools -> Errored
      [] t.tools /\ t.poisoned  -> Assessed(100, "failure")
      [] t.tools /\ ~t.poisoned -> Assessed(0, "none")

\* The source analysis is only there when there are tools.
ToolSourceCodeSecurity(s) ==
    LET severe == \E f \in s.findings : f.tier = 1 /\ f.severity = "high"
        score == IF s.tier1 = 0 /\ s.tier2 = 0 THEN 0 ELSE IF s.tier1 = 0 THEN 60
                 ELSE IF severe THEN 100 ELSE 75
    IN IF s.ran /\ s.repo THEN Assessed(score, IF severe THEN "failure" ELSE "none") ELSE Skipped

SecretsRisk(s) ==
    CASE ~s.repo -> Skipped
      [] s.repo /\ s.failed -> Errored
      [] s.repo /\ ~s.failed -> IF s.count > 0 THEN Assessed(100, "failure") ELSE Assessed(0, "none")

-----------------------------------------------------------------------------
(* The tree.  A module's score is the weighted mean of the children that have *)
(* one; the weights of remote-auth and of tools are scaled to whole numbers.  *)

Child(weight, metric) == [weight |-> weight, metric |-> metric]

VetoRank == [none |-> 0, warning |-> 1, failure |-> 2]
HigherVeto(vetoes) == CHOOSE v \in vetoes : \A w \in vetoes : VetoRank[w] <= VetoRank[v]

WeightedMean(children) ==
    LET usable == SelectSeq(children, LAMBDA c : HasScore(c.metric))
        weight == FoldLeft(LAMBDA sum, c : sum + c.weight, 0, usable)
        Plus(sum, c) == <<sum[1] * c.metric.score[2] + c.weight * c.metric.score[1] * sum[2],
                          sum[2] * c.metric.score[2]>>
        sum == FoldLeft(Plus, <<0, 1>>, usable)
    IN IF usable = <<>> THEN NoScore ELSE <<sum[1], sum[2] * weight>>

Module(children) ==
    LET score == WeightedMean(children)
    IN Metric(score, IF score = NoScore THEN "skipped" ELSE "success",
              HigherVeto({c.metric.veto : c \in ToSet(children)}))

RemoteAuth(s) == <<Child(6, AuthStrength(s.auth)), Child(3, PkceValidation(s.auth)),
                   Child(1, DynamicClientRegistration(s.auth))>>

SourceCodeRisk(s) == <<Child(2, SourceOpacity(s.classification)), Child(4, MaliciousDependencies(s.sca)),
                       Child(4, VulnerabilityRisk(s.sca)), Child(2, McpPackageCves(s.cves))>>

ToolCapabilityRisk(s) == <<Child(7, MetadataSecurity(s.tools)), Child(13, ToolSourceCodeSecurity(s.tools.source))>>

CatalogRisk(s) ==
    Module(<<Child(3, HostingOperatorClass(s.classification)),
             Child(1, TransportSecurity(s.fingerprint)),
             Child(1, Module(RemoteAuth(s))), Child(2, Module(SourceCodeRisk(s))),
             Child(2, Module(ToolCapabilityRisk(s))), Child(1, SecretsRisk(s.secrets))>>)

Leaves(s) ==
    <<HostingOperatorClass(s.classification), TransportSecurity(s.fingerprint)>>
      \o [i \in 1..3 |-> RemoteAuth(s)[i].metric] \o [i \in 1..4 |-> SourceCodeRisk(s)[i].metric]
      \o [i \in 1..2 |-> ToolCapabilityRisk(s)[i].metric] \o <<SecretsRisk(s.secrets)>>

\* The strictest veto of the leaves, found by sorting them.
\* Mutant: the leaves are not sorted, the first veto counts.
FirstVeto(leaves) ==
    LET vetoing == SelectSeq(leaves, LAMBDA m : m.veto # "none")
    IN IF vetoing = <<>> THEN "none" ELSE vetoing[1].veto
DecisiveVeto(leaves) == HigherVeto({m.veto : m \in ToSet(leaves)})

ReviewThreshold == 60

Decision(s) ==
    LET veto == DecisiveVeto(Leaves(s))
        score == CatalogRisk(s).score
    IN CASE veto = "failure" -> "block"
         [] veto = "warning" -> "review"
         [] veto = "none" -> IF score = NoScore THEN "incomplete"
                             ELSE IF score[1] >= ReviewThreshold * score[2] THEN "review" ELSE "allow"

\* The metrics that count as assessed in the coverage of the report.
AssessedCount(s) == Len(SelectSeq(Leaves(s), LAMBDA m : HasScore(m) /\ m.status = "success"))
=============================================================================
