----------------------------- MODULE McpAssessment -----------------------------
(***************************************************************************)
(* One assessment of an MCP server (mcp/scanner.py, mcp/orchestrator.py):  *)
(* the repository is cloned unless a path is given, seven extractors run at*)
(* once, and their answers come to twelve metrics and a decision.          *)
(*                                                                         *)
(* The dependency scan and the query for advisories take their own steps.  *)
(* The other five extractors share no state with one another and answer in *)
(* one step, before, between or after those.  Some read the checkout that  *)
(* lockfile generators and depscan write to; what a world says of its tools*)
(* and secrets stands for what they find there at that moment.  Any of the *)
(* five may raise first, which ends the assessment while the rest still    *)
(* run.                                                                    *)
(***************************************************************************)
EXTENDS DependencyScan, OsvQuery, ServerProbes, McpMetrics

CONSTANT Worlds    \* the servers, checkouts and answers an assessment may meet

ASSUME WorldsAssumption ==
    \A w \in Worlds :
        /\ w.local \in BOOLEAN /\ w.repo \in {"none", "path", "url"}
        /\ Checkout(w.checkout)
        /\ w.depscan \subseteq DepscanEnd /\ w.osvScanner \subseteq OsvEnd
        /\ OsvSite(w.site)
        /\ w.wire.tls \in {"dns", "badCert", "handshake", "down", "ok"}
        /\ w.secrets.hits \in Seq(ToSet(w.secrets.hits))

VARIABLES world,      \* what this assessment meets; it does not change
          assessment  \* its stage, its checkout, the answers and the decision

vars == <<dependencyVars, osvVars, world, assessment>>

NoAnswers == [known |-> FALSE]

Init ==
    /\ world \in Worlds
    /\ site = world.site /\ query = QueryStart
    /\ assessment = [stage |-> "clone", checkout |-> "none", answers |-> NoAnswers,
                     decision |-> "none", assessed |-> 0]
    /\ DependencyInit

Extracting == assessment.stage = "extract"
HasCheckout == assessment.checkout # "none"
HasRepoUrl == world.repo = "url"

-----------------------------------------------------------------------------
(* _repository_context: a path that is given is used as it is; without one a  *)
(* URL is cloned into a directory of the assessment's own.                    *)

Extract(checkout) ==
    assessment' = [assessment EXCEPT !.stage = "extract", !.checkout = checkout]

\* What is left of the checkout when the assessment ends, however it ends.
Left == IF assessment.checkout = "cloned" THEN "removed" ELSE assessment.checkout

Raises == [assessment EXCEPT !.stage = "done", !.decision = "raised", !.checkout = Left]

UseGivenPath ==
    /\ assessment.stage = "clone" /\ world.repo = "path"
    /\ Extract("given") /\ DependencyStart(world.checkout)
    /\ UNCHANGED <<osvVars, world>>

UseNoRepository ==
    /\ assessment.stage = "clone" /\ world.repo = "none"
    /\ Extract("none") /\ NoCheckout
    /\ UNCHANGED <<osvVars, world>>

CloneRepository ==
    /\ assessment.stage = "clone" /\ HasRepoUrl
    /\ Extract("cloned") /\ DependencyStart(world.checkout)
    /\ UNCHANGED <<osvVars, world>>

\* git fails or runs into its time limit.
CloneFails ==
    /\ assessment.stage = "clone" /\ HasRepoUrl /\ world.clone = "mayFail"
    /\ assessment' = Raises
    /\ UNCHANGED <<dependencyVars, osvVars, world>>

-----------------------------------------------------------------------------
(* The extractors, gathered without return_exceptions.                       *)

ScanDependencies ==
    /\ Extracting /\ DependencyStep(world)
    /\ UNCHANGED <<osvVars, world, assessment>>

QueryAdvisories ==
    /\ Extracting /\ QueryStep
    /\ UNCHANGED <<dependencyVars, world, assessment>>

Escapes ==
    \/ ClassificationEscapes(HasRepoUrl, world.saas)
    \/ ToolAnalysisEscapes(world.tools)
    \/ SecretsEscape(HasCheckout, world.secrets)

ExtractorsAnswer ==
    /\ Extracting /\ ~assessment.answers.known /\ ~Escapes
    /\ assessment' = [assessment EXCEPT !.answers =
          [known |-> TRUE,
           classification |-> Classification(world.local, HasRepoUrl, world.saas),
           fingerprint |-> Fingerprint(world.local, world.wire),
           auth |-> AuthModes(world.local, world.auth),
           tools |-> ToolAnalysis(world.local, HasCheckout, world.tools),
           secrets |-> SecretsScan(HasCheckout, world.secrets)]]
    /\ UNCHANGED <<dependencyVars, osvVars, world>>

\* The exception of one extractor ends the assessment without an answer.
ExtractorRaises ==
    /\ Extracting /\ ~assessment.answers.known /\ Escapes
    /\ assessment' = Raises
    /\ UNCHANGED <<dependencyVars, osvVars, world>>

-----------------------------------------------------------------------------
Subject ==
    [classification |-> assessment.answers.classification,
     fingerprint |-> assessment.answers.fingerprint,
     auth |-> assessment.answers.auth,
     sca |-> [repo |-> HasCheckout, success |-> result.success, entries |-> result.entries],
     cves |-> query.answer,
     tools |-> assessment.answers.tools,
     secrets |-> assessment.answers.secrets]

Evaluate ==
    /\ Extracting /\ assessment.answers.known
    /\ phase = "done" /\ query.stage = "done"
    /\ assessment' = [assessment EXCEPT !.stage = "done", !.checkout = Left,
                                        !.decision = Decision(Subject),
                                        !.assessed = AssessedCount(Subject)]
    /\ UNCHANGED <<dependencyVars, osvVars, world>>

Finished == assessment.stage = "done" /\ UNCHANGED vars

Next ==
    \/ UseGivenPath \/ UseNoRepository \/ CloneRepository \/ CloneFails
    \/ ScanDependencies \/ QueryAdvisories
    \/ ExtractorsAnswer \/ ExtractorRaises
    \/ Evaluate
    \/ Finished

Spec == Init /\ [][Next]_vars

-----------------------------------------------------------------------------
(* Properties.                                                               *)

Decided == assessment.stage = "done" /\ assessment.decision # "raised"
CheckoutRead == world.repo # "none"

\* An advisory that shares no identifier with another of its package.
Unrivalled(a) ==
    \A b \in AdvisoriesUsed \ {a} : b.package = a.package => b.ids \cap a.ids = {}

\* The scan answered, and told of malware or of a serious flaw in code that the
\* server reaches; or a dependency is on the list of malicious packages.
DangerousDependency ==
    /\ CheckoutRead /\ result.success
    /\ \/ \E d \in result.dependencies : d[1] \in {"npm", "pypi"} /\ <<d[1], d[2]>> \in world.listed
       \/ \E a \in AdvisoriesUsed : Unrivalled(a) /\ a.ids \cap MalwareIds # {}
       \/ \E a \in (UNION {ToSet(r) : r \in ToSet(Reports)}) \cap AdvisoriesUsed :
             Unrivalled(a) /\ a.reachable /\ a.severity \in {"HIGH", "CRITICAL"}

\* A certificate that does not verify, or no HTTPS at all.
DangerousTransport ==
    ~world.local /\ \/ world.wire.tls = "badCert"
                    \/ world.wire.tls = "down" /\ world.wire.scheme = "http"

\* Poisoned tool descriptions, or a finding in the tools' code that is severe
\* for a server of this kind.
DangerousTools ==
    /\ ToolsBuilt(CheckoutRead, world.tools)
    /\ \/ world.tools.metadata = "poisoned"
       \/ /\ world.tools.metadata = "clean" /\ CheckoutRead /\ world.tools.source = "ok"
          /\ \/ "t1" \in world.tools.findings
             \/ "t1_08" \in world.tools.findings /\ ~world.local
             \/ "t1_09" \in world.tools.findings /\ world.local

\* A secret the judge confirmed.
LeakedSecret ==
    /\ CheckoutRead /\ world.secrets.gitleaks = "ok" /\ world.secrets.judge = "answers"
    /\ \E i \in DOMAIN world.secrets.hits :
          i \in world.secrets.leaks \cap LlmContext(world.secrets.hits)

\* A danger that any of the extractors reported blocks the server: whatever the
\* other metrics are, failed, skipped or good, and however low the mean comes
\* out, the decision is neither to allow nor to review (orchestrator.py sorts
\* the vetoes of all leaves, engine.py takes the worst up the tree).
ReportedDangerBlocks ==
    Decided /\ (DangerousDependency \/ DangerousTransport \/ DangerousTools \/ LeakedSecret)
        => assessment.decision = "block"
=============================================================================
