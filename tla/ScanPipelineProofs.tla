------------------------- MODULE ScanPipelineProofs -------------------------
(***************************************************************************)
(* What a scan request concludes about its extensions is earned, for any   *)
(* number of targets, artifacts, runs, requests and relationships.         *)
(*                                                                         *)
(* The static analyzers' statuses tell whether the whole package was read  *)
(* (HonestCover); the receipts and the evidence of the sandbox agree with  *)
(* each other and with the places of the reports (RunsOK); the coverage    *)
(* admits what is missing through every phase that computes it again       *)
(* (CoverOK).  From these follow what is approved, and its converse; where *)
(* evidence lands (EvidenceOK), that danger blocks (DangerOK) and that     *)
(* relationships are answered (RelatedOK) each rest on an invariant more.  *)
(***************************************************************************)
EXTENDS ScanPipeline, FiniteSetTheorems, SequenceTheorems, TLAPS

-----------------------------------------------------------------------------
(* What is opened of a package, and what is loaded of it. *)

\* Where the edges stay within the package, a closure is closed.
LEMMA ClosureIsClosed ==
  ASSUME NEW roots \in SUBSET Paths, NEW next,
         \A p \in DOMAIN next : next[p] \subseteq Paths
  PROVE  /\ Closure(roots, next) \subseteq Paths
         /\ roots \subseteq Closure(roots, next)
         /\ Closed(Closure(roots, next), next)
<1>1. Closure(roots, next) \subseteq Paths /\ roots \subseteq Closure(roots, next)
  BY DEF Closure
<1>2. ASSUME NEW p \in Closure(roots, next) \cap DOMAIN next, NEW q \in next[p],
             NEW set \in SUBSET Paths, roots \subseteq set, Closed(set, next)
      PROVE  q \in set
  BY <1>2 DEF Closure, Closed
<1>3. ASSUME NEW p \in Closure(roots, next) \cap DOMAIN next
      PROVE  next[p] \subseteq Closure(roots, next)
  BY <1>2, <1>3 DEF Closure
<1> QED BY <1>1, <1>3 DEF Closed

\* And it is the least set that is.
LEMMA ClosureIsLeast ==
  ASSUME NEW roots, NEW next, NEW set \in SUBSET Paths,
         roots \subseteq set, Closed(set, next)
  PROVE  Closure(roots, next) \subseteq set
BY DEF Closure

LEMMA PresentFile ==
  ASSUME NEW a \in Package
  PROVE  /\ Present(a) \subseteq Paths
         /\ \A p \in Present(a) : a.files[p] \in File
         /\ Entrypoints(a) \subseteq Paths
         /\ a.node \in BOOLEAN /\ a.tangled \in BOOLEAN
         /\ a.manifest \in {"valid", "anonymous", "unreadable"}
         /\ a.semgrep \in Engine /\ a.yara \in Engine
BY StaticAssumption DEF Package, Present, Entrypoints, Declared

\* The sets of files that the analysers ask about, file by file.
LEMMA OpenedFile ==
  ASSUME NEW a \in Package, NEW p \in Present(a)
  PROVE  LET f == a.files[p] IN
         /\ p \in InScope(a) <=> ~f.asset \/ p \in Entrypoints(a)
         /\ p \in Candidates(a) <=> Executable(f) /\ p \in InScope(a)
         /\ p \in ReadFailures(a) <=> p \in Candidates(a) /\ ~Readable(f)
         /\ p \in Oversized(a) <=> p \in InScope(a) /\ Huge(f)
         /\ p \in Analyzed(a) <=> /\ p \in Candidates(a)
                                  /\ Readable(f) /\ p \notin Oversized(a)
         /\ p \in Modules(a) <=> p \in Analyzed(a) /\ f.lang = "js"
         /\ p \in Carried(a) <=> Executable(f) /\ ~f.asset
BY DEF InScope, Candidates, ReadFailures, Oversized, Analyzed, Modules, Carried,
   Select, NotAsset, Executable, Readable, Huge

LEMMA OpenedIsPresent ==
  ASSUME NEW a \in Package
  PROVE  /\ Candidates(a) \subseteq Present(a) /\ Excluded(a) \subseteq Present(a)
         /\ ReadFailures(a) \subseteq Present(a) /\ Oversized(a) \subseteq Present(a)
         /\ Analyzed(a) \subseteq Present(a) /\ Modules(a) \subseteq Present(a)
         /\ Carried(a) \subseteq Present(a)
         /\ Select(a, Executable) \subseteq Present(a)
BY DEF Candidates, Excluded, ReadFailures, Oversized, Analyzed, Modules, Carried,
   InScope, Select

\* What the coverage means by inspected is what the analysers admit.
LEMMA InspectedFile ==
  ASSUME NEW a \in Package, NEW p \in Paths
  PROVE  Inspected(a, p) <=> /\ p \in Analyzed(a)
                             /\ a.files[p].lang = "js" => AstStatus(a, p) # "failed"
<1>1. CASE p \in Present(a)
  BY <1>1, PresentFile, OpenedFile
     DEF Inspected, AstStatus, Executable, Readable, Textual, Huge, File
<1>2. CASE p \notin Present(a)
  BY <1>2, OpenedIsPresent DEF Inspected
<1> QED BY <1>1, <1>2

LEMMA ModuleImports ==
  ASSUME NEW a \in Package
  PROVE  /\ \A p \in Present(a) : Imports(a, p) \subseteq Paths
         /\ \A p \in Present(a) : a.files[p].lang # "js" => Imports(a, p) = {}
BY PresentFile DEF Imports, File

LEMMA ReachableModules ==
  ASSUME NEW a \in Package
  PROVE  /\ Reachable(a) \subseteq Modules(a)
         /\ Entrypoints(a) \cap Modules(a) \subseteq Reachable(a)
         /\ \A p \in Reachable(a) : Imports(a, p) \cap Modules(a) \subseteq Reachable(a)
<1> DEFINE next == [p \in Modules(a) |-> Imports(a, p) \cap Modules(a)]
           roots == Entrypoints(a) \cap Modules(a)
<1>1. Modules(a) \subseteq Paths
  BY PresentFile, OpenedIsPresent
<1>2. roots \subseteq Paths /\ \A p \in DOMAIN next : next[p] \subseteq Paths
  BY <1>1
<1>3. Closed(Modules(a), next) /\ roots \subseteq Modules(a)
  BY DEF Closed
<1>4. Reachable(a) = Closure(roots, next)
  BY DEF Reachable
<1> HIDE DEF next, roots
<1>5. Reachable(a) \subseteq Modules(a)
  BY <1>1, <1>3, <1>4, ClosureIsLeast
<1>6. roots \subseteq Reachable(a) /\ Closed(Reachable(a), next)
  BY <1>2, <1>4, ClosureIsClosed
<1> QED BY <1>5, <1>6 DEF Closed, next, roots

LEMMA LoadedFiles ==
  ASSUME NEW a \in Package
  PROVE  /\ Loaded(a) \subseteq Paths
         /\ \A p \in Entrypoints(a) : p \notin Present(a) \/ Executable(a.files[p])
                                        => p \in Loaded(a)
         /\ \A p \in Loaded(a) \cap Present(a) : Imports(a, p) \subseteq Loaded(a)
<1> DEFINE next == [p \in Present(a) |-> Imports(a, p)]
           roots == {p \in Entrypoints(a) : p \notin Present(a) \/ Executable(a.files[p])}
<1>1. roots \subseteq Paths /\ \A p \in DOMAIN next : next[p] \subseteq Paths
  BY PresentFile, ModuleImports
<1>2. Loaded(a) = Closure(roots, next)
  BY DEF Loaded
<1> HIDE DEF next, roots
<1>3. Loaded(a) \subseteq Paths /\ roots \subseteq Loaded(a) /\ Closed(Loaded(a), next)
  BY <1>1, <1>2, ClosureIsClosed
<1> QED BY <1>3 DEF Closed, next, roots

\* Nothing is loaded that the module flow does not follow, provided it follows
\* every import of what it reaches.
LEMMA LoadedIsFollowed ==
  ASSUME NEW a \in Package, Entrypoints(a) \subseteq Present(a),
         \A p \in Entrypoints(a) : Executable(a.files[p]) => p \in Analyzed(a),
         \A p \in Reachable(a) : Imports(a, p) \subseteq Modules(a)
  PROVE  \A p \in Loaded(a) : /\ p \in Analyzed(a)
                              /\ Imports(a, p) \subseteq Modules(a)
<1> DEFINE next == [p \in Present(a) |-> Imports(a, p)]
           roots == {p \in Entrypoints(a) : p \notin Present(a) \/ Executable(a.files[p])}
           followed == Reachable(a) \cup
                         {p \in Entrypoints(a) \cap Analyzed(a) : a.files[p].lang # "js"}
<1>1. /\ followed \subseteq Analyzed(a) /\ Analyzed(a) \subseteq Present(a)
      /\ Present(a) \subseteq Paths /\ Modules(a) \subseteq Analyzed(a)
  BY ReachableModules, OpenedIsPresent, PresentFile DEF Modules
<1>2. roots \subseteq followed
  BY ReachableModules, <1>1, PresentFile, OpenedFile
<1>3. \A p \in followed : Imports(a, p) \subseteq Modules(a)
  BY <1>1, ModuleImports
<1>4. Closed(followed, next)
  <2> SUFFICES ASSUME NEW p \in followed, p \in Present(a)
               PROVE  Imports(a, p) \subseteq followed
    BY DEF Closed
  <2> QED BY <1>1, <1>3, ReachableModules, ModuleImports
<1>5. Loaded(a) = Closure(roots, next)
  BY DEF Loaded
<1> HIDE DEF next, roots, followed
<1>6. Loaded(a) \subseteq followed
  BY <1>1, <1>2, <1>4, <1>5, ClosureIsLeast
<1> QED BY <1>1, <1>3, <1>6

\* Whoever is a module was inspected, if the AST walker gave up on none.
LEMMA FewModules ==
  ASSUME NEW a \in Package, NEW S \in SUBSET Paths,
         {p \in S : a.files[p].lang = "js"} \subseteq Modules(a),
         Cardinality(Modules(a)) <= MaxModules
  PROVE  Cardinality({p \in S : a.files[p].lang = "js"}) <= MaxModules
<1>1. IsFiniteSet(Modules(a))
  BY StaticAssumption, PresentFile, OpenedIsPresent, FS_Subset
<1>2. /\ Cardinality({p \in S : a.files[p].lang = "js"}) <= Cardinality(Modules(a))
      /\ Cardinality({p \in S : a.files[p].lang = "js"}) \in Nat
      /\ Cardinality(Modules(a)) \in Nat
  BY <1>1, FS_Subset, FS_CardinalityType
<1> QED BY <1>2, StaticAssumption

LEMMA CoveredIsWhole ==
  ASSUME NEW a \in Package, ~Flawed(a), StaticStatus(a) = "completed"
  PROVE  Whole(a)
<1>1. AstCompleted(a) /\ FlowCompleted(a)
  BY DEF StaticStatus
<1>2. /\ a.manifest = "valid" /\ Entrypoints(a) \subseteq Present(a)
      /\ ReadFailures(a) = {} /\ Oversized(a) = {}
      /\ Candidates(a) = {} => Excluded(a) = {}
  BY DEF Flawed
<1>3. \A p \in Candidates(a) : p \in Analyzed(a)
  BY <1>2, OpenedFile, OpenedIsPresent
<1>4. \A p \in Entrypoints(a) : Executable(a.files[p]) => p \in Analyzed(a)
  BY <1>2, <1>3, OpenedFile
<1>5. \A p \in Loaded(a) : p \in Analyzed(a) /\ Imports(a, p) \subseteq Modules(a)
  BY <1>1, <1>2, <1>4, LoadedIsFollowed DEF FlowCompleted
<1>6. \A p \in Carried(a) : p \in Analyzed(a)
  BY <1>3, OpenedFile, OpenedIsPresent
<1>7. \A p \in Analyzed(a) : a.files[p].lang = "js" => AstStatus(a, p) # "failed"
  BY <1>1, OpenedFile, OpenedIsPresent DEF AstCompleted
<1>8. \A p \in Loaded(a) \cup Carried(a) : Inspected(a, p)
  BY <1>5, <1>6, <1>7, InspectedFile, OpenedIsPresent, PresentFile
<1>9. \A p \in Loaded(a) : \A q \in Imports(a, p) : a.files[q].lang = "js"
  BY <1>5 DEF Modules
<1>10. ASSUME Select(a, Executable) # {}
       PROVE  Loaded(a) \cup Carried(a) # {}
  <2>1. Candidates(a) # {}
    BY <1>2, <1>10 DEF Candidates, Excluded
  <2>2. PICK p \in Candidates(a) : TRUE
    BY <2>1
  <2> QED BY <2>2, OpenedFile, OpenedIsPresent, LoadedFiles
<1>11. ASSUME NEW p \in Present(a), a.files[p].lang = "text", a.files[p].readable,
              ~a.files[p].link, a.files[p].size = "huge"
       PROVE  a.files[p].asset /\ p \notin Entrypoints(a)
  BY <1>2, <1>11, OpenedFile, PresentFile DEF Huge, Readable, Textual, File
<1>12. Cardinality({p \in Loaded(a) \cup Carried(a) : a.files[p].lang = "js"}) <= MaxModules
  <2>1. Loaded(a) \cup Carried(a) \in SUBSET Paths
    BY LoadedFiles, OpenedIsPresent, PresentFile
  <2>2. {p \in Loaded(a) \cup Carried(a) : a.files[p].lang = "js"} \subseteq Modules(a)
    BY <1>5, <1>6 DEF Modules
  <2> QED BY <1>1, <2>1, <2>2, FewModules DEF FlowCompleted
<1> QED BY <1>1, <1>2, <1>8, <1>9, <1>10, <1>11, <1>12 DEF Whole, FlowCompleted

\* The modules of a package that is whole are the scripts that it loads or carries.
LEMMA WholeModules ==
  ASSUME NEW a \in Package, Whole(a)
  PROVE  Modules(a) = {p \in Loaded(a) \cup Carried(a) : a.files[p].lang = "js"}
<1>1. \A p \in Loaded(a) \cup Carried(a) : Inspected(a, p) /\ p \in Paths
  BY LoadedFiles, OpenedIsPresent, PresentFile DEF Whole
<1>2. \A p \in Modules(a) : p \in Loaded(a) \cup Carried(a)
  BY OpenedFile, OpenedIsPresent, LoadedFiles
<1> QED BY <1>1, <1>2, InspectedFile DEF Modules

LEMMA WholeIsCovered ==
  ASSUME NEW a \in Package, Whole(a)
  PROVE  ~Flawed(a) /\ StaticStatus(a) = "completed"
<1>1. \A p \in Loaded(a) \cup Carried(a) :
        /\ p \in Analyzed(a) /\ p \in Present(a)
        /\ a.files[p].lang = "js" => AstStatus(a, p) # "failed"
  BY InspectedFile, LoadedFiles, OpenedIsPresent, PresentFile DEF Whole
<1>2. \A p \in Candidates(a) : p \in Loaded(a) \cup Carried(a)
  BY OpenedFile, OpenedIsPresent, LoadedFiles
<1>3. \A p \in Entrypoints(a) : p \in Present(a)
  BY <1>1, LoadedFiles
<1>4. ReadFailures(a) = {}
  BY <1>1, <1>2, OpenedFile, OpenedIsPresent
<1>5. Oversized(a) = {}
  <2> SUFFICES ASSUME NEW p \in Oversized(a)
               PROVE  FALSE
    OBVIOUS
  <2>1. p \in Present(a) /\ p \in InScope(a) /\ Huge(a.files[p]) /\ a.files[p] \in File
    BY OpenedFile, OpenedIsPresent, PresentFile
  <2>2. CASE Executable(a.files[p])
    BY <1>1, <1>2, <2>1, <2>2, OpenedFile
  <2>3. CASE ~Executable(a.files[p])
    BY <2>1, <2>3, OpenedFile DEF Whole, Huge, Readable, Textual, Executable, File
  <2> QED BY <2>2, <2>3
<1>6. Candidates(a) \subseteq Analyzed(a)
  BY <1>1, <1>2
<1>7. ASSUME Excluded(a) # {}
      PROVE  Candidates(a) # {}
  <2>1. Loaded(a) \cup Carried(a) # {}
    BY <1>7 DEF Excluded, Whole
  <2> QED BY <1>1, <2>1, OpenedFile
<1>8. ~Flawed(a)
  BY <1>3, <1>4, <1>5, <1>6, <1>7 DEF Flawed, Whole
<1>9. AstCompleted(a)
  BY <1>1, WholeModules DEF AstCompleted
<1>10. FlowCompleted(a)
  <2>1. Cardinality(Modules(a)) <= MaxModules /\ ~a.tangled
    BY WholeModules DEF Whole
  <2>2. Reachable(a) \subseteq Loaded(a)
    <3> DEFINE next == [p \in Modules(a) |-> Imports(a, p) \cap Modules(a)]
               roots == Entrypoints(a) \cap Modules(a)
    <3>1. roots \subseteq Loaded(a)
      BY OpenedFile, OpenedIsPresent, LoadedFiles
    <3>2. Closed(Loaded(a), next)
      BY OpenedIsPresent, LoadedFiles DEF Closed
    <3>3. Reachable(a) = Closure(roots, next)
      BY DEF Reachable
    <3> HIDE DEF next, roots
    <3> QED BY <3>1, <3>2, <3>3, LoadedFiles, ClosureIsLeast
  <2>3. \A p \in Reachable(a) : Imports(a, p) \subseteq Modules(a)
    <3> SUFFICES ASSUME NEW p \in Reachable(a), NEW q \in Imports(a, p)
                 PROVE  q \in Modules(a)
      OBVIOUS
    <3>1. p \in Loaded(a) /\ p \in Present(a)
      BY <2>2, <1>1
    <3>2. q \in Loaded(a) /\ a.files[q].lang = "js"
      BY <3>1, LoadedFiles DEF Whole
    <3> QED BY <3>2, WholeModules
  <2> QED BY <2>1, <2>3 DEF FlowCompleted
<1> QED BY <1>8, <1>9, <1>10 DEF StaticStatus

\* An engine that counts as completed did its part, and one that did its part
\* counts.
LEMMA WholeEngines ==
  ASSUME NEW a \in Package, Whole(a)
  PROVE  /\ SemgrepStatus(a) = "completed" <=> "semgrep" \in Engines(a)
         /\ YaraStatus(a) = "completed" <=> "yara" \in Engines(a)
<1>1. SemgrepTargets(a) = {} <=>
        \A p \in Present(a) \cap (Loaded(a) \cup Carried(a)) :
          a.files[p].lang # "js" \/ a.files[p].size # "source"
  BY WholeModules, OpenedIsPresent DEF SemgrepTargets
<1>2. a.semgrep \in Engine /\ a.yara \in Engine
  BY PresentFile
<1>3. "semgrep" \in Engines(a) <=> \/ a.semgrep = "works"
                                   \/ a.semgrep = "breaks" /\ SemgrepTargets(a) = {}
  BY <1>1 DEF Engines
<1>4. "yara" \in Engines(a) <=> a.yara = "works"
  BY DEF Engines
<1> QED BY <1>2, <1>3, <1>4 DEF SemgrepStatus, YaraStatus, Engine

LEMMA SeenIsUnderstood ==
  ASSUME NEW a \in Package, Whole(a), Unseen(a) = {}
  PROVE  Understood(a)
<1> SUFFICES ASSUME NEW p \in Entrypoints(a), p \in Present(a), a.files[p].lang = "js"
             PROVE  a.files[p].parse = "ok" /\ a.files[p].size # "large"
  BY DEF Understood
<1>1. p \in Modules(a)
  BY LoadedFiles, WholeModules DEF Executable
<1>2. AstStatus(a, p) \notin {"skipped", "unparsed", "failed"}
  BY <1>1, WholeIsCovered DEF Unseen, StaticStatus, AstCompleted
<1> QED BY <1>2, PresentFile DEF AstStatus, File
-----------------------------------------------------------------------------
(* Reports, field by field. *)

Names    == Ids \cup {Unknown}
Sources  == {"local", "registry-id", "marketplace", "marketplace-error",
             "remote", "artifact-url-error"}
Answers  == {"self", "already", "scanned", "failed", "limit"}
Analyses == {"complete", "failed", "incomplete"}
Decisions == {"block", "incomplete", "review", "allow"}
Outcomes == {"incomplete", "confirmed_threat", "preventive_block", "investigate", "clear"}
Tiers    == {"none", "unanalyzed", "confirmed_risk", "attention", "verified", "analyzed"}

Report ==
    [id: Names, inst: Int, child: BOOLEAN, source: Sources,
     whole: BOOLEAN, understood: BOOLEAN, engines: SUBSET {"semgrep", "yara"},
     needs: BOOLEAN, declares: SUBSET Ids, advised: SUBSET Classes,
     cover: Coverage, stale: BOOLEAN, aborted: BOOLEAN,
     found: SUBSET [class: Classes, of: Int], behaved: BOOLEAN,
     answers: SUBSET [id: Ids, status: Answers], analysis: Analyses,
     decision: Decisions, outcome: Outcomes, tier: Tiers]

\* What no phase changes of a report.
SameOrigin(r, s) ==
    /\ s.id = r.id /\ s.inst = r.inst /\ s.child = r.child /\ s.source = r.source
    /\ s.whole = r.whole /\ s.understood = r.understood /\ s.engines = r.engines
    /\ s.needs = r.needs /\ s.declares = r.declares /\ s.advised = r.advised
    /\ s.aborted = r.aborted

LEMMA FinalizeFields ==
  ASSUME NEW c \in Coverage, NEW env \in SUBSET Providers, NEW d, d = Finalize(c, env)
  PROVE  /\ d \in Coverage
         /\ d.limits = (c.limits \ Completed(c, env)) \cup Missing(c, env)
         /\ d.status = IF d.limits = {} THEN "complete" ELSE "incomplete"
         /\ d.flawed = c.flawed
         /\ \A p \in Providers : /\ d.providers[p].status = c.providers[p].status
                                 /\ d.providers[p].required <=>
                                      c.providers[p].required \/ p \in env
<1>1. /\ (c.limits \ Completed(c, env)) \cup Missing(c, env) \subseteq Limitations
  BY DEF Coverage, Completed, Missing, Required, Limitations
<1> QED BY <1>1 DEF Coverage, Finalize, WithLimits, Result

LEMMA DecideFields ==
  ASSUME NEW r \in Report, NEW changed \in BOOLEAN
  PROVE  LET s == Decide(r, changed)
             incomplete == r.stale \/ r.cover.status = "incomplete"
         IN /\ s \in Report /\ SameOrigin(r, s)
            /\ s.cover = r.cover /\ s.stale = r.stale /\ s.found = r.found
            /\ s.behaved = r.behaved /\ s.answers = r.answers
            /\ s.outcome = r.outcome /\ s.tier = r.tier
            /\ s.analysis = AnalysisStatus(r, incomplete)
            /\ s.decision = Decision(ClassesOf(r), incomplete, changed)
<1>1. \A b \in BOOLEAN : AnalysisStatus(r, b) \in Analyses
  BY DEF AnalysisStatus, Analyses
<1>2. \A b \in BOOLEAN : Decision(ClassesOf(r), b, changed) \in Decisions
  BY DEF Decision, Decisions
<1>3. (r.stale \/ r.cover.status = "incomplete") \in BOOLEAN
  OBVIOUS
<1> QED BY <1>1, <1>2, <1>3 DEF Report, Decide, SameOrigin

LEMMA PublishFields ==
  ASSUME NEW r \in Report
  PROVE  LET s == Publish(r) IN
         /\ s \in Report /\ SameOrigin(r, s)
         /\ s.cover = r.cover /\ s.stale = r.stale /\ s.found = r.found
         /\ s.behaved = r.behaved /\ s.answers = r.answers
         /\ s.analysis = r.analysis /\ s.decision = r.decision
         /\ s.outcome = PublicOutcome(r.decision, ClassesOf(r))
         /\ s.tier = TrustTier(r.decision, r.analysis, ClassesOf(r), r.behaved)
<1>1. PublicOutcome(r.decision, ClassesOf(r)) \in Outcomes
  BY DEF PublicOutcome, Outcomes
<1>2. TrustTier(r.decision, r.analysis, ClassesOf(r), r.behaved) \in Tiers
  BY DEF TrustTier, Tiers
<1> QED BY <1>1, <1>2 DEF Report, Publish, SameOrigin
-----------------------------------------------------------------------------
(* What the coverage of a report says before the request's own providers are *)
(* added to it.                                                              *)

Scanned(r) == r.source \in {"local", "marketplace", "remote"} /\ ~r.aborted

\* The coverage admits everything that the package withheld, and no more.
HonestCover(r) ==
    LET c == r.cover IN
    /\ r.whole => Scanned(r)
    /\ Scanned(r) =>
         /\ c.providers["static"].required
         /\ r.whole <=> /\ c.providers["static"].status = "completed"
                        /\ ~c.flawed /\ "artifact" \notin c.limits
    /\ r.whole =>
         /\ c.providers["semgrep"].status = "completed" <=> "semgrep" \in r.engines
         /\ c.providers["yara"].status = "completed" <=> "yara" \in r.engines
         /\ r.understood \/ "concern" \in ClassesOf(r)
    /\ r.aborted => "artifact" \in c.limits
    /\ c.limits \subseteq {"artifact"} \cup Required(c, request.env)
    /\ \A p \in Providers \ {"static", "sandbox"} :
         c.providers[p].required => p \in request.env
    /\ c.providers["acquisition"].status = "absent"

\* Nobody has asked the sandbox yet.
NoSandboxYet(r) ==
    /\ r.cover.providers["sandbox"].status = "absent"
    /\ r.cover.providers["sandbox"].required => "sandbox" \in request.env

\* As a report leaves its scan.
Fresh(r) ==
    /\ r.answers = {} /\ r.behaved = FALSE
    /\ \A f \in r.found : f.of = 0
    /\ HonestCover(r) /\ NoSandboxYet(r)

LEMMA BareFields ==
  ASSUME NEW id \in Names, NEW inst \in Int,
         NEW source \in {"registry-id", "marketplace-error"}
  PROVE  LET r == BareReport(id, inst, source) IN
         /\ r \in Report /\ Fresh(r) /\ ~r.child /\ ~r.needs /\ r.found = {}
         /\ r.id = id /\ r.inst = inst /\ r.source = source
         /\ r.declares = {} /\ ~r.whole /\ ~r.aborted
<1> DEFINE r == BareReport(id, inst, source)
<1>1. r \in Report /\ r.cover = NoCoverage /\ ~r.whole /\ ~r.aborted /\ r.source = source
  BY DEF BareReport, Report, NoCoverage, Coverage, Result, Statuses, Analyses, Decisions,
     Outcomes, Tiers, Sources
<1>2. NoCoverage.limits = {} /\ \A p \in Providers : /\ NoCoverage.providers[p].status = "absent"
                                                     /\ ~NoCoverage.providers[p].required
  BY DEF NoCoverage, Result
<1> QED BY <1>1, <1>2 DEF BareReport, Fresh, HonestCover, NoSandboxYet, Scanned, Providers

LEMMA AbortedFields ==
  ASSUME NEW id \in Names, NEW inst \in Int,
         NEW source \in {"local", "artifact-url-error"}
  PROVE  LET r == AbortedReport(id, inst, source) IN
         /\ r \in Report /\ Fresh(r) /\ ~r.child /\ ~r.needs /\ r.found = {}
         /\ r.id = id /\ r.inst = inst /\ r.source = source
         /\ r.declares = {} /\ ~r.whole /\ r.aborted
<1> DEFINE b == BareReport(id, inst, source)
           c == [NoCoverage EXCEPT !.flawed = TRUE, !.limits = {"artifact"},
                                   !.status = "incomplete"]
           r == AbortedReport(id, inst, source)
<1>1. b \in Report /\ b.cover = NoCoverage
  BY DEF BareReport, Report, NoCoverage, Coverage, Result, Statuses, Analyses, Decisions,
     Outcomes, Tiers, Sources
<1>2. /\ c \in Coverage /\ c.limits = {"artifact"}
      /\ \A p \in Providers : /\ c.providers[p].status = "absent"
                              /\ ~c.providers[p].required
  BY DEF NoCoverage, Result, Coverage, Statuses, Limitations
<1>3. r = [b EXCEPT !.aborted = TRUE, !.cover = c]
  BY <1>1 DEF AbortedReport, Report, Coverage
<1>4. /\ b.id = id /\ b.inst = inst /\ b.source = source /\ b.child = FALSE
      /\ b.declares = {} /\ ~b.whole /\ ~b.needs /\ b.found = {} /\ b.answers = {}
      /\ b.behaved = FALSE
  BY DEF BareReport
<1> HIDE DEF b, c, r
<1>5. /\ r \in Report /\ r.cover = c /\ r.aborted
      /\ r.id = b.id /\ r.inst = b.inst /\ r.source = b.source /\ r.child = b.child
      /\ r.declares = b.declares /\ r.whole = b.whole /\ r.needs = b.needs
      /\ r.found = b.found /\ r.answers = b.answers /\ r.behaved = b.behaved
  BY <1>1, <1>2, <1>3 DEF Report
<1>6. Fresh(r)
  BY <1>2, <1>4, <1>5 DEF Fresh, HonestCover, NoSandboxYet, Scanned, Providers
<1> QED BY <1>4, <1>5, <1>6 DEF r

LEMMA StaticFields ==
  ASSUME NEW a \in Package
  PROVE  LET c == StaticCoverage(a) IN
         /\ c \in Coverage /\ c.limits = {} /\ (c.flawed <=> Flawed(a))
         /\ c.providers["static"] = Result(StaticStatus(a), TRUE)
         /\ c.providers["semgrep"] = Result(SemgrepStatus(a), FALSE)
         /\ c.providers["yara"] = Result(YaraStatus(a), FALSE)
         /\ \A p \in Providers \ {"static", "semgrep", "yara"} :
              c.providers[p] = Result("absent", FALSE)
<1>1. Flawed(a) \in BOOLEAN /\ a.yara \in Engine
  BY PresentFile DEF Flawed
<1>2. StaticStatus(a) \in Statuses /\ SemgrepStatus(a) \in Statuses /\ YaraStatus(a) \in Statuses
  BY <1>1 DEF StaticStatus, SemgrepStatus, YaraStatus, Engine, Statuses
<1> DEFINE none == [p \in Providers |-> Result("absent", FALSE)]
           table == [none EXCEPT !["static"] = Result(StaticStatus(a), TRUE),
                                 !["semgrep"] = Result(SemgrepStatus(a), FALSE),
                                 !["yara"] = Result(YaraStatus(a), FALSE)]
<1>3. StaticCoverage(a) = [limits |-> {}, flawed |-> Flawed(a), status |-> "pending",
                           providers |-> table]
  <2>1. NoCoverage.providers = none
    BY DEF NoCoverage
  <2>2. StaticCoverage(a) = [NoCoverage EXCEPT !.flawed = Flawed(a), !.providers = table]
    BY <2>1 DEF StaticCoverage
  <2> HIDE DEF table
  <2> QED BY <2>2 DEF NoCoverage
<1>4. table \in [Providers -> [status : Statuses, required : BOOLEAN]]
  BY <1>2 DEF Result, Statuses
<1>5. /\ table["static"] = Result(StaticStatus(a), TRUE)
      /\ table["semgrep"] = Result(SemgrepStatus(a), FALSE)
      /\ table["yara"] = Result(YaraStatus(a), FALSE)
      /\ \A p \in Providers \ {"static", "semgrep", "yara"} : table[p] = Result("absent", FALSE)
  BY DEF Providers
<1> HIDE DEF table
<1> DEFINE c == StaticCoverage(a)
<1>6. /\ c.limits = {} /\ c.flawed = Flawed(a) /\ c.providers = table
  BY <1>3
<1>7. c \in Coverage
  BY <1>1, <1>3, <1>4 DEF Coverage
<1> QED BY <1>1, <1>5, <1>6, <1>7

\* What a scan claims about an artifact it analysed.
LEMMA ScannedFields ==
  ASSUME request \in Request, NEW a \in Artifact,
         NEW id \in Names, NEW inst \in Int, NEW source \in {"local", "marketplace", "remote"}
  PROVE  LET r == ScannedReport(id, inst, source, a) IN
         /\ r \in Report /\ Fresh(r) /\ ~r.child
         /\ r.id = id /\ r.inst = inst /\ r.source = source
         /\ r.declares = a.declares /\ r.advised = a.advised /\ ~r.aborted
         /\ r.needs = NeedsRuntime(a.package)
<1> DEFINE c == Finalize(StaticCoverage(a.package), request.env)
           cover == Unpacked(c, a)
           found == [class: a.shows \cup StaticClasses(a.package), of: {0}]
           whole == Whole(a.package) /\ ~a.refused
           understood == Understood(a.package)
           engines == Engines(a.package)
           needs == NeedsRuntime(a.package)
           stale == cover.status # "complete"
           bare == BareReport(id, inst, source)
           b == [bare EXCEPT
                   !.whole = whole, !.understood = understood, !.engines = engines,
                   !.needs = needs, !.declares = a.declares, !.advised = a.advised,
                   !.cover = cover, !.stale = stale, !.found = found]
           d == Decide(b, FALSE)
           r == ScannedReport(id, inst, source, a)
<1>1. /\ a.package \in Package /\ a.refused \in BOOLEAN /\ a.shows \subseteq Classes
      /\ a.declares \subseteq Ids /\ a.advised \subseteq Classes
      /\ request.env \in SUBSET Providers
  BY DEF Artifact, Request
<1>2. c \in Coverage
  <2> DEFINE k == StaticCoverage(a.package)
  <2>1. k \in Coverage /\ c = Finalize(k, request.env)
    BY <1>1, StaticFields
  <2> HIDE DEF k, c
  <2> QED BY <1>1, <2>1, FinalizeFields
<1>3. /\ cover \in Coverage
      /\ cover.providers = c.providers /\ cover.flawed = c.flawed
      /\ cover.limits = IF a.refused THEN c.limits \cup {"artifact"} ELSE c.limits
  BY <1>1, <1>2 DEF Unpacked, Coverage, Limitations
<1>4. found \subseteq [class: Classes, of: Int]
  BY <1>1 DEF StaticClasses, Classes
<1>5. bare \in Report
  BY DEF BareReport, Report, NoCoverage, Coverage, Result, Statuses, Analyses, Decisions,
     Outcomes, Tiers, Sources
<1>6. /\ whole \in BOOLEAN /\ understood \in BOOLEAN
      /\ engines \in SUBSET {"semgrep", "yara"} /\ needs \in BOOLEAN
      /\ stale \in BOOLEAN
  BY DEF Whole, Understood, Engines, NeedsRuntime
<1>8. /\ bare.id = id /\ bare.inst = inst /\ bare.source = source /\ bare.child = FALSE
      /\ bare.aborted = FALSE /\ bare.answers = {} /\ bare.behaved = FALSE
  BY DEF BareReport
<1>9. r = Publish(d)
  BY DEF ScannedReport
<1> HIDE DEF c, cover, found, whole, understood, engines, needs, stale, bare
<1>7. /\ b \in Report /\ b.cover = cover /\ b.found = found
      /\ b.whole = whole /\ b.understood = understood /\ b.engines = engines
      /\ b.needs = needs /\ b.declares = a.declares /\ b.advised = a.advised
      /\ b.id = bare.id /\ b.inst = bare.inst /\ b.source = bare.source
      /\ b.child = bare.child /\ b.aborted = bare.aborted
      /\ b.answers = bare.answers /\ b.behaved = bare.behaved
  <2>1. /\ a.declares \in SUBSET Ids /\ a.advised \in SUBSET Classes
        /\ found \in SUBSET [class: Classes, of: Int]
    BY <1>1, <1>4
  <2>2. b \in Report
    BY ZenonT(40), <1>3, <1>5, <1>6, <2>1 DEF Report
  <2>3. DOMAIN bare = {"id", "inst", "child", "source", "whole", "understood", "engines",
                       "needs", "declares", "advised", "cover", "stale", "aborted", "found",
                       "behaved", "answers", "analysis", "decision", "outcome", "tier"}
    BY <1>5 DEF Report
  <2>4. /\ b.cover = cover /\ b.found = found /\ b.whole = whole
        /\ b.understood = understood /\ b.engines = engines /\ b.needs = needs
    BY <2>3
  <2>5. /\ b.declares = a.declares /\ b.advised = a.advised
    BY <2>3
  <2>6. /\ b.id = bare.id /\ b.inst = bare.inst /\ b.source = bare.source
    BY <2>3
  <2>7. /\ b.child = bare.child /\ b.aborted = bare.aborted
        /\ b.answers = bare.answers /\ b.behaved = bare.behaved
    BY <2>3
  <2> QED BY <2>2, <2>4, <2>5, <2>6, <2>7
<1> HIDE DEF b, d, r
<1>10. d \in Report /\ SameOrigin(b, d) /\ d.cover = cover /\ d.found = found
       /\ d.answers = {} /\ d.behaved = FALSE
  BY <1>7, <1>8, DecideFields DEF d
<1>11. r \in Report /\ SameOrigin(b, r) /\ r.cover = cover /\ r.found = found
       /\ r.answers = {} /\ r.behaved = FALSE
  BY <1>9, <1>10, PublishFields DEF SameOrigin
<1>12. HonestCover(r)
  <2>1. /\ Scanned(r) /\ ~r.aborted
        /\ r.whole <=> Whole(a.package) /\ ~a.refused
        /\ r.understood <=> Understood(a.package)
        /\ r.engines = Engines(a.package)
    BY <1>7, <1>8, <1>11 DEF SameOrigin, Scanned, whole, understood, engines
  <2>2. /\ c.flawed <=> Flawed(a.package)
        /\ \A p \in Providers :
             /\ c.providers[p].status = StaticCoverage(a.package).providers[p].status
             /\ c.providers[p].required <=>
                  StaticCoverage(a.package).providers[p].required \/ p \in request.env
        /\ c.limits = Missing(StaticCoverage(a.package), request.env)
    <3> DEFINE k == StaticCoverage(a.package)
    <3>1. k \in Coverage /\ k.limits = {} /\ (k.flawed <=> Flawed(a.package))
      BY <1>1, StaticFields
    <3>2. c = Finalize(k, request.env)
      BY DEF c
    <3> HIDE DEF k
    <3>3. /\ c.flawed = k.flawed
          /\ \A p \in Providers :
               /\ c.providers[p].status = k.providers[p].status
               /\ c.providers[p].required <=> k.providers[p].required \/ p \in request.env
          /\ c.limits = Missing(k, request.env)
      <4> HIDE DEF c
      <4>1. c.limits = (k.limits \ Completed(k, request.env)) \cup Missing(k, request.env)
        BY <1>1, <3>1, <3>2 DEF Finalize, WithLimits, Coverage
      <4>2. c.limits = Missing(k, request.env)
        BY <3>1, <4>1
      <4> QED BY <1>1, <3>1, <3>2, <4>2, FinalizeFields
    <3> QED BY <3>1, <3>3 DEF k
  <2>3. /\ c.providers["static"].status = StaticStatus(a.package)
        /\ c.providers["static"].required
        /\ c.providers["semgrep"].status = SemgrepStatus(a.package)
        /\ c.providers["yara"].status = YaraStatus(a.package)
        /\ c.providers["acquisition"].status = "absent"
        /\ \A p \in Providers \ {"static"} : c.providers[p].required => p \in request.env
    <3> DEFINE t == StaticCoverage(a.package).providers
    <3>1. /\ t["static"] = Result(StaticStatus(a.package), TRUE)
          /\ t["semgrep"] = Result(SemgrepStatus(a.package), FALSE)
          /\ t["yara"] = Result(YaraStatus(a.package), FALSE)
          /\ \A p \in Providers \ {"static", "semgrep", "yara"} : t[p] = Result("absent", FALSE)
      BY <1>1, StaticFields
    <3>2. \A p \in Providers : /\ c.providers[p].status = t[p].status
                               /\ c.providers[p].required <=> t[p].required \/ p \in request.env
      BY <2>2
    <3> HIDE DEF t
    <3>3. /\ t["static"].status = StaticStatus(a.package) /\ t["static"].required
          /\ t["semgrep"].status = SemgrepStatus(a.package)
          /\ t["yara"].status = YaraStatus(a.package)
          /\ t["acquisition"].status = "absent"
          /\ \A p \in Providers \ {"static"} : ~t[p].required
      BY <3>1 DEF Result, Providers
    <3> QED BY <3>2, <3>3 DEF Providers
  <2>4. /\ "artifact" \in c.limits <=> Flawed(a.package)
        /\ c.limits \subseteq {"artifact"} \cup Required(c, request.env)
    BY <1>1, <2>2, StaticFields DEF Missing, Required, Completed, Providers
  <2>5. Whole(a.package) <=> ~Flawed(a.package) /\ StaticStatus(a.package) = "completed"
    BY <1>1, CoveredIsWhole, WholeIsCovered
  <2>6. /\ cover.providers["static"].required
        /\ r.whole <=> /\ cover.providers["static"].status = "completed"
                       /\ ~cover.flawed /\ "artifact" \notin cover.limits
    BY <1>1, <1>3, <2>1, <2>2, <2>3, <2>4, <2>5
  <2>7. ASSUME r.whole
        PROVE  /\ cover.providers["semgrep"].status = "completed" <=> "semgrep" \in r.engines
               /\ cover.providers["yara"].status = "completed" <=> "yara" \in r.engines
    BY <1>1, <1>3, <2>1, <2>3, <2>7, WholeEngines
  <2>8. ASSUME r.whole
        PROVE  r.understood \/ "concern" \in ClassesOf(r)
    <3>1. CASE Unseen(a.package) = {}
      BY <1>1, <2>1, <2>8, <3>1, SeenIsUnderstood
    <3>2. CASE Unseen(a.package) # {}
      <4>1. [class |-> "concern", of |-> 0] \in found
        BY <3>2 DEF found, StaticClasses
      <4> QED BY <1>11, <4>1 DEF ClassesOf
    <3> QED BY <3>1, <3>2
  <2>9. cover.limits \subseteq {"artifact"} \cup Required(cover, request.env)
    BY <1>3, <2>4 DEF Required
  <2> QED BY <1>3, <1>11, <2>1, <2>3, <2>6, <2>7, <2>8, <2>9 DEF HonestCover
<1>13. NoSandboxYet(r)
  <2> DEFINE k == StaticCoverage(a.package)
  <2>1. k \in Coverage /\ k.providers["sandbox"] = Result("absent", FALSE)
    BY <1>1, StaticFields DEF Providers
  <2>2. c = Finalize(k, request.env)
    BY DEF c
  <2> HIDE DEF k
  <2>3. /\ c.providers["sandbox"].status = k.providers["sandbox"].status
        /\ c.providers["sandbox"].required <=>
             k.providers["sandbox"].required \/ "sandbox" \in request.env
    BY ZenonT(40), <1>1, <2>1, <2>2, FinalizeFields DEF Providers
  <2>4. k.providers["sandbox"].status = "absent" /\ ~k.providers["sandbox"].required
    BY <2>1 DEF Result
  <2> QED BY <1>3, <1>11, <2>3, <2>4 DEF NoSandboxYet
<1>14. \A f \in r.found : f.of = 0
  BY <1>11 DEF found
<1>15. Fresh(r)
  BY <1>7, <1>8, <1>11, <1>12, <1>13, <1>14 DEF Fresh, SameOrigin
<1> QED BY <1>7, <1>8, <1>11, <1>15 DEF SameOrigin, r, needs
-----------------------------------------------------------------------------
(* Reports that a later phase has touched. *)

\* More findings, an answer or the place in the walk change nothing about what
\* the coverage of a report admits.
LEMMA CoverIsKept ==
  ASSUME NEW r \in Report, NEW s \in Report, r.found \subseteq s.found,
         s.cover = r.cover, s.whole = r.whole, s.source = r.source,
         s.aborted = r.aborted, s.understood = r.understood, s.engines = r.engines
  PROVE  /\ HonestCover(r) => HonestCover(s)
         /\ NoSandboxYet(r) => NoSandboxYet(s)
<1>1. ClassesOf(r) \subseteq ClassesOf(s)
  BY DEF ClassesOf
<1>2. Scanned(s) <=> Scanned(r)
  BY DEF Scanned
<1> QED BY <1>1, <1>2 DEF HonestCover, NoSandboxYet

\* The rest of a report, once it is a child or has answers.
LEMMA ChildFields ==
  ASSUME NEW r \in Report, NEW child \in BOOLEAN, Fresh(r)
  PROVE  LET s == [r EXCEPT !.child = child] IN
         /\ s \in Report /\ s.child = child /\ Fresh(s)
         /\ s.id = r.id /\ s.inst = r.inst /\ s.source = r.source
         /\ s.declares = r.declares /\ s.needs = r.needs /\ s.aborted = r.aborted
<1> DEFINE s == [r EXCEPT !.child = child]
<1>1. /\ s \in Report /\ s.child = child /\ s.found = r.found /\ s.cover = r.cover
      /\ s.id = r.id /\ s.inst = r.inst /\ s.source = r.source /\ s.whole = r.whole
      /\ s.declares = r.declares /\ s.needs = r.needs /\ s.aborted = r.aborted
      /\ s.understood = r.understood /\ s.engines = r.engines
      /\ s.answers = r.answers /\ s.behaved = r.behaved
  BY DEF Report
<1> HIDE DEF s
<1> QED BY <1>1, CoverIsKept DEF Fresh, s

\* What became of a request for id: a report of that id, and the artifact that
\* was scanned for it, which has the same place or the negated one.
LEMMA AcquiredFields ==
  ASSUME request \in Request, reports \in Seq(Report),
         NEW id \in Ids, NEW child \in BOOLEAN, NEW x \in Acquired(id, child)
  PROVE  /\ x.report \in Report /\ Fresh(x.report)
         /\ x.report.id = id /\ x.report.inst = Next1 /\ x.report.child = child
         /\ \/ x.report.source = "marketplace" /\ x.scanned = {x.report}
            \/ /\ x.report.source = "marketplace-error"
               /\ ~x.report.needs /\ x.report.declares = {}
               /\ \/ x.scanned = {}
                  \/ \E r \in Report : x.scanned = {r} /\ r.inst = -Next1
<1>1. Next1 \in Nat /\ -Next1 \in Int /\ id \in Names
  BY DEF Next1, Names
<1>2. Failed(id, child) \in Report /\ Fresh(Failed(id, child))
      /\ Failed(id, child).id = id /\ Failed(id, child).inst = Next1
      /\ Failed(id, child).child = child /\ Failed(id, child).source = "marketplace-error"
      /\ ~Failed(id, child).needs /\ Failed(id, child).declares = {}
  <2> DEFINE b == BareReport(id, Next1, "marketplace-error")
  <2>1. /\ b \in Report /\ Fresh(b) /\ ~b.needs
        /\ b.id = id /\ b.inst = Next1 /\ b.source = "marketplace-error"
        /\ b.declares = {}
    BY <1>1, BareFields
  <2>2. Failed(id, child) = [b EXCEPT !.child = child]
    BY DEF Failed
  <2> HIDE DEF b
  <2> QED BY <2>1, <2>2, ChildFields
<1>3. ASSUME NEW y \in Obtainable, NEW inst \in Int
      PROVE  LET r == Analysed(y[1], inst, y[2], child) IN
             /\ r \in Report /\ Fresh(r) /\ r.id = y[1] /\ r.inst = inst
             /\ r.child = child /\ r.source = "marketplace"
  <2> DEFINE b == ScannedReport(y[1], inst, "marketplace", y[2])
  <2>1. y[1] \in Names /\ y[2] \in Artifact
    BY DEF Obtainable, Scannable, Names, Request
  <2>2. /\ b \in Report /\ Fresh(b)
        /\ b.id = y[1] /\ b.inst = inst /\ b.source = "marketplace"
    BY <2>1, ScannedFields
  <2>3. Analysed(y[1], inst, y[2], child) = [b EXCEPT !.child = child]
    BY DEF Analysed
  <2> HIDE DEF b
  <2> QED BY <2>2, <2>3, ChildFields
<1>4. CASE x = [report |-> Failed(id, child), scanned |-> {}]
  BY <1>2, <1>4
<1>5. CASE x \in Accepted(id, child)
  <2>1. PICK y \in Obtainable :
          /\ y[1] = id
          /\ x = [report |-> Analysed(id, Next1, y[2], child),
                  scanned |-> {Analysed(id, Next1, y[2], child)}]
    BY <1>5 DEF Accepted
  <2> QED BY <1>1, <1>3, <2>1
<1>6. CASE x \in Rejected(id, child)
  <2>1. PICK y \in Obtainable :
          x = [report |-> Failed(id, child),
               scanned |-> {Analysed(y[1], -Next1, y[2], child)}]
    BY <1>6 DEF Rejected
  <2> QED BY <1>1, <1>2, <1>3, <2>1
<1> QED BY <1>4, <1>5, <1>6 DEF Acquired
-----------------------------------------------------------------------------
(* Receipts and evidence of the sandbox. *)

ReceiptRecord ==
    [id: Names, required: BOOLEAN, saw: SUBSET Kinds,
     status: {"not-applicable", "failed", "completed"}, trace: BOOLEAN]
EvidenceRecord == [saw: SUBSET Kinds, of: Int]

\* A receipt says what the run was, and its evidence can be found.
TrueReceipt(k) ==
    LET run == receipts[k] IN
    /\ run.trace => run.required /\ "broken" \notin run.saw
    /\ ~run.required => run.saw = {}
    /\ run.required => (run.status = "completed" <=> {"broken", "entrypoint"} \cap run.saw = {})
    /\ run.required => \E e \in DOMAIN evidence : e \in {k, run.id} /\ evidence[e].of = k

\* Evidence is kept under the instance or the id of the run that it is from.
TrueEvidence(e) ==
    LET k == evidence[e].of IN
    /\ k \in DOMAIN receipts /\ receipts[k].required
    /\ receipts[k].saw = evidence[e].saw
    /\ e \in {k, receipts[k].id}

Bundle ==
    /\ receipts \in [DOMAIN receipts -> ReceiptRecord]
    /\ evidence \in [DOMAIN evidence -> EvidenceRecord]
    /\ DOMAIN receipts \subseteq Int \ {0}
    /\ \A k \in DOMAIN receipts : TrueReceipt(k)
    /\ \A e \in DOMAIN evidence : TrueEvidence(e)

\* Ids are no instances.
LEMMA NamesAreNoPlaces == \A id \in Names : id \notin Int
BY PipelineAssumption DEF Names

LEMMA SandboxRuns ==
  ASSUME Bundle, NEW r \in Report, r.inst \notin DOMAIN receipts, r.inst # 0, RunSandbox(r)
  PROVE  /\ Bundle'
         /\ DOMAIN receipts' = DOMAIN receipts \cup {r.inst}
         /\ \A k \in DOMAIN receipts : receipts'[k] = receipts[k]
         /\ receipts'[r.inst].id = r.id /\ receipts'[r.inst].required = r.needs
<1> DEFINE n == r.inst
           key == BundleKey(r)
<1>1. PICK saw \in (IF r.needs THEN Sightings ELSE {{}}), traced \in BOOLEAN :
        /\ receipts' = With(receipts, n, Receipt(r, saw, traced))
        /\ evidence' = IF r.needs THEN With(evidence, key, [saw |-> saw, of |-> n])
                                  ELSE evidence
  BY DEF RunSandbox
<1> DEFINE run == Receipt(r, saw, traced)
<1>2. /\ r.id \in Names /\ n \in Int /\ r.needs \in BOOLEAN /\ saw \in SUBSET Kinds
      /\ ~r.needs => saw = {}
  BY PipelineAssumption DEF Report
<1>3. /\ run \in ReceiptRecord /\ run.id = r.id /\ run.required = r.needs /\ run.saw = saw
      /\ run.trace => run.required /\ "broken" \notin saw
      /\ run.required => (run.status = "completed" <=> {"broken", "entrypoint"} \cap saw = {})
  BY <1>2 DEF Receipt, ReceiptRecord
<1> HIDE DEF run
<1>4. /\ DOMAIN receipts' = DOMAIN receipts \cup {n}
      /\ \A k \in DOMAIN receipts : receipts'[k] = receipts[k]
      /\ receipts'[n] = run
      /\ receipts' = [x \in DOMAIN receipts' |-> receipts'[x]]
  BY <1>1 DEF With, run
<1>5. key \notin DOMAIN evidence /\ key \in {n, r.id}
  <2>1. n \notin DOMAIN evidence
    <3> SUFFICES ASSUME n \in DOMAIN evidence
                 PROVE  FALSE
      OBVIOUS
    <3>1. TrueEvidence(n)
      BY DEF Bundle
    <3> DEFINE k == evidence[n].of
    <3>2. k \in DOMAIN receipts /\ n \in {k, receipts[k].id} /\ receipts[k] \in ReceiptRecord
      BY <3>1 DEF TrueEvidence, Bundle
    <3>3. receipts[k].id \in Names
      BY <3>2 DEF ReceiptRecord
    <3> QED BY <1>2, <3>2, <3>3, NamesAreNoPlaces
  <2> QED BY <2>1 DEF BundleKey
<1> HIDE DEF key
<1>6. /\ DOMAIN evidence' = IF r.needs THEN DOMAIN evidence \cup {key} ELSE DOMAIN evidence
      /\ \A e \in DOMAIN evidence : evidence'[e] = evidence[e]
      /\ r.needs => evidence'[key] = [saw |-> saw, of |-> n]
  BY <1>1, <1>5 DEF With
<1>7. evidence' \in [DOMAIN evidence' -> EvidenceRecord]
  <2>1. evidence' = [e \in DOMAIN evidence' |-> evidence'[e]]
    BY <1>1 DEF With, Bundle
  <2>2. \A e \in DOMAIN evidence' : evidence'[e] \in EvidenceRecord
    BY <1>2, <1>6 DEF Bundle, EvidenceRecord
  <2> QED BY <2>1, <2>2
<1>8. receipts' \in [DOMAIN receipts' -> ReceiptRecord] /\ DOMAIN receipts' \subseteq Int \ {0}
  BY <1>2, <1>3, <1>4 DEF Bundle
<1>9. ASSUME NEW k \in DOMAIN receipts'
      PROVE  TrueReceipt(k)'
  <2>1. CASE k = n
    BY <1>2, <1>3, <1>4, <1>5, <1>6, <2>1 DEF TrueReceipt
  <2>2. CASE k # n
    <3>1. k \in DOMAIN receipts /\ TrueReceipt(k) /\ receipts'[k] = receipts[k]
      BY <1>4, <1>9, <2>2 DEF Bundle
    <3>2. receipts[k].required =>
            \E e \in DOMAIN evidence : e \in {k, receipts[k].id} /\ evidence[e].of = k
      BY <3>1 DEF TrueReceipt
    <3>3. receipts[k].required =>
            \E e \in DOMAIN evidence' : e \in {k, receipts[k].id} /\ evidence'[e].of = k
      BY <1>6, <3>2
    <3> QED BY <3>1, <3>3 DEF TrueReceipt
  <2> QED BY <2>1, <2>2
<1>10. ASSUME NEW e \in DOMAIN evidence'
       PROVE  TrueEvidence(e)'
  <2>1. CASE e \in DOMAIN evidence
    <3>1. TrueEvidence(e) /\ evidence'[e] = evidence[e]
      BY <1>6, <2>1 DEF Bundle
    <3> QED BY <1>4, <3>1 DEF TrueEvidence
  <2>2. CASE e \notin DOMAIN evidence
    BY <1>3, <1>4, <1>5, <1>6, <1>10, <2>2 DEF TrueEvidence
  <2> QED BY <2>1, <2>2
<1> QED BY <1>3, <1>4, <1>7, <1>8, <1>9, <1>10 DEF Bundle

\* The observations of a report are those of its own run, and the sandbox
\* covers it if and only if that run left a trace.
LEMMA OwnRun ==
  ASSUME Bundle, NEW r \in Report, HasReceipt(r), receipts[r.inst].id = r.id,
         receipts[r.inst].required
  PROVE  /\ Items(r) = receipts[r.inst].saw
         /\ RunCovers(r) <=> receipts[r.inst].trace
<1> DEFINE n == r.inst
           run == receipts[n]
<1>1. /\ n \in DOMAIN receipts /\ run \in ReceiptRecord /\ TrueReceipt(n) /\ n \in Int
      /\ run.id \in Names /\ run.id = r.id
  BY DEF HasReceipt, Bundle, ReceiptRecord
<1>2. PICK e \in DOMAIN evidence : e \in {n, r.id} /\ evidence[e].of = n
  BY <1>1 DEF TrueReceipt
<1>3. evidence[e].saw = run.saw
  BY <1>2 DEF Bundle, TrueEvidence
<1>4. ASSUME n \in DOMAIN evidence
      PROVE  evidence[n].saw = run.saw
  <2> DEFINE k == evidence[n].of
  <2>1. /\ k \in DOMAIN receipts /\ receipts[k].saw = evidence[n].saw
        /\ n \in {k, receipts[k].id} /\ receipts[k] \in ReceiptRecord
    BY <1>4 DEF Bundle, TrueEvidence
  <2>2. receipts[k].id \in Names
    BY <2>1 DEF ReceiptRecord
  <2> QED BY <1>1, <2>1, <2>2, NamesAreNoPlaces
<1>5. Items(r) = run.saw
  BY <1>2, <1>3, <1>4 DEF Items
<1>6. RunCovers(r) <=> run.trace
  BY <1>1, <1>5 DEF RunCovers, HasReceipt, TrueReceipt
<1> QED BY <1>5, <1>6
-----------------------------------------------------------------------------
(* What the phases do to the list of reports. *)

Phases == {"scan", "runtime", "market", "related", "walk", "feed", "remote", "advise",
           "observe", "cover", "registry", "finish", "compare", "done", "raised"}

PipelineTypeOK ==
    /\ request \in Requests
    /\ phase \in Phases /\ at \in Nat
    /\ reports \in Seq(Report)
    /\ \A i \in DOMAIN reports : reports[i].inst = i
    /\ pending \subseteq Ids

\* A report that got more findings or answers.
Grows(r, s) ==
    /\ SameOrigin(r, s) /\ s.cover = r.cover /\ s.stale = r.stale
    /\ s.behaved = r.behaved /\ r.found \subseteq s.found

\* Every report is still there.
Kept ==
    /\ reports' \in Seq(Report) /\ Len(reports) <= Len(reports')
    /\ \A i \in DOMAIN reports : SameOrigin(reports[i], reports'[i])

\* And there is no other.
Mapped == Kept /\ Len(reports') = Len(reports)

\* And all that happened to them was that they grew.
Grown == Mapped /\ \A i \in DOMAIN reports : Grows(reports[i], reports'[i])

\* A report was added for the target at hand.
Added(x) ==
    /\ Kept /\ x \in Report /\ x.inst = Next1
    /\ Len(reports') = Next1 /\ reports'[Next1] = x
    /\ \A i \in DOMAIN reports : Grows(reports[i], reports'[i])

LEMMA AnsweredFields ==
  ASSUME NEW r \in Report, NEW ids \in SUBSET Ids, NEW status \in Answers
  PROVE  LET s == Answered(r, ids, status) IN
         /\ s \in Report /\ Grows(r, s) /\ s.found = r.found
         /\ s.answers = r.answers \cup [id: ids, status: {status}]
BY DEF Answered, Report, Grows, SameOrigin

WithFound(r, found) == [r EXCEPT !.found = @ \cup found]

LEMMA FoundFields ==
  ASSUME NEW r \in Report, NEW found \in SUBSET [class: Classes, of: Int]
  PROVE  LET s == WithFound(r, found) IN
         /\ s \in Report /\ Grows(r, s) /\ s.answers = r.answers
         /\ s.found = r.found \cup found
BY DEF WithFound, Report, Grows, SameOrigin

LEMMA MappedReports ==
  ASSUME NEW s \in Seq(Report), NEW f,
         f = [i \in DOMAIN s |-> f[i]], \A i \in DOMAIN s : f[i] \in Report
  PROVE  f \in Seq(Report) /\ Len(f) = Len(s) /\ DOMAIN f = DOMAIN s
<1>1. DOMAIN s = 1..Len(s) /\ Len(s) \in Nat
  OBVIOUS
<1> QED BY <1>1

LEMMA AppendedReports ==
  ASSUME NEW s \in Seq(Report), NEW x \in Report
  PROVE  /\ Append(s, x) \in Seq(Report) /\ Len(Append(s, x)) = Len(s) + 1
         /\ \A i \in DOMAIN s : Append(s, x)[i] = s[i]
         /\ Append(s, x)[Len(s) + 1] = x
         /\ DOMAIN s = 1..Len(s) /\ Len(s) \in Nat
OBVIOUS

LEMMA KeepingIsGrowing ==
  ASSUME reports \in Seq(Report), UNCHANGED reports
  PROVE  Grown
BY DEF Grown, Mapped, Kept, Grows, SameOrigin

LEMMA AppendingAdds ==
  ASSUME reports \in Seq(Report), NEW x \in Report, x.inst = Next1,
         reports' = Append(reports, x)
  PROVE  Added(x)
BY AppendedReports DEF Added, Kept, Grows, SameOrigin, Next1

\* A request is one of the kinds that PipelineAssumption describes.
LEMMA RequestFields ==
  ASSUME request \in Requests
  PROVE  /\ request \in Request
         /\ request.local \in Seq(Ids) /\ request.ids \in Seq(Ids)
         /\ request.market \in Seq(Ids) /\ request.dynamic \in BOOLEAN
         /\ request.env \in SUBSET Providers /\ request.required \in SUBSET Providers
         /\ request.advisories \in {"completed", "unavailable", "invalid"}
         /\ request.intelligence \in {"completed", "failed", "unavailable"}
BY PipelineAssumption DEF Request

LEMMA HitsGrow ==
  ASSUME reports \in Seq(Report), NEW hits \in SUBSET Hits,
         reports' = [i \in DOMAIN reports |-> WithHits(i, hits)]
  PROVE  /\ Grown
         /\ \A i \in DOMAIN reports :
              /\ reports'[i].answers = reports[i].answers
              /\ reports'[i].found = reports[i].found \cup
                   {[class |-> h.class, of |-> 0] : h \in {h \in hits : IsLast(i, h.id)}}
<1> DEFINE found(i) == {[class |-> h.class, of |-> 0] : h \in {h \in hits : IsLast(i, h.id)}}
<1>1. ASSUME NEW i \in DOMAIN reports
      PROVE  /\ reports[i] \in Report /\ found(i) \in SUBSET [class: Classes, of: Int]
             /\ reports'[i] = WithFound(reports[i], found(i))
  BY DEF WithHits, Hits, WithFound
<1> HIDE DEF found
<1>2. \A i \in DOMAIN reports :
        /\ reports'[i] \in Report /\ Grows(reports[i], reports'[i])
        /\ reports'[i].answers = reports[i].answers
        /\ reports'[i].found = reports[i].found \cup found(i)
  BY <1>1, FoundFields
<1>3. reports' = [i \in DOMAIN reports |-> reports'[i]]
  OBVIOUS
<1>4. reports' \in Seq(Report) /\ Len(reports') = Len(reports)
  BY <1>2, <1>3, MappedReports
<1> QED BY <1>2, <1>4 DEF Grown, Mapped, Kept, Grows, found

LEMMA AdvisoriesGrow ==
  ASSUME reports \in Seq(Report), ApplyAdvisories
  PROVE  /\ Grown
         /\ \A i \in DOMAIN reports :
              /\ reports'[i].answers = reports[i].answers
              /\ \A f \in reports'[i].found \ reports[i].found : f.of = 0
<1>1. ASSUME NEW i \in DOMAIN reports
      PROVE  /\ reports'[i] \in Report /\ Grows(reports[i], reports'[i])
             /\ reports'[i].answers = reports[i].answers
             /\ \A f \in reports'[i].found \ reports[i].found : f.of = 0
  <2> DEFINE r == reports[i]
             found == [class: r.advised, of: {0}]
  <2>1. r \in Report /\ r.advised \in SUBSET Classes
    <3>1. r \in Report
      BY <1>1
    <3> QED BY <3>1 DEF Report
  <2>2. found \in SUBSET [class: Classes, of: Int]
    BY <2>1
  <2>3. \/ reports'[i] = r
        \/ reports'[i] = WithFound(r, found)
    BY DEF ApplyAdvisories, WithFound
  <2>4. \A f \in found : f.of = 0
    OBVIOUS
  <2> HIDE DEF found
  <2>5. CASE reports'[i] = r
    BY <2>1, <2>5 DEF Grows, SameOrigin
  <2>6. CASE reports'[i] = WithFound(r, found)
    BY <2>1, <2>2, <2>4, <2>6, FoundFields
  <2> QED BY <2>3, <2>5, <2>6
<1>2. reports' = [i \in DOMAIN reports |-> reports'[i]]
  BY DEF ApplyAdvisories
<1>3. reports' \in Seq(Report) /\ Len(reports') = Len(reports)
  BY <1>1, <1>2, MappedReports
<1> QED BY <1>1, <1>3 DEF Grown, Mapped, Kept, Grows
\* The findings that the evidence under key k stands for.
Observed(k) == [class: {ClassOfKind(kind) : kind \in evidence[k].saw}, of: {evidence[k].of}]

LEMMA ObservationsGrow ==
  ASSUME reports \in Seq(Report), Bundle, ApplyObservations
  PROVE  /\ Grown
         /\ \A i \in DOMAIN reports :
              /\ reports'[i].answers = reports[i].answers
              /\ reports'[i].found = reports[i].found \cup
                   UNION {Observed(k) : k \in {k \in DOMAIN evidence : LandsOn(k, i)}}
<1> DEFINE found(i) == UNION {Observed(k) : k \in {k \in DOMAIN evidence : LandsOn(k, i)}}
<1>1. \A kind : ClassOfKind(kind) \in Classes
  BY DEF ClassOfKind, Classes
<1>2. ASSUME NEW k \in DOMAIN evidence
      PROVE  Observed(k) \in SUBSET [class: Classes, of: Int]
  <2>1. evidence[k].of \in Int
    BY DEF Bundle, EvidenceRecord
  <2> QED BY <1>1, <2>1 DEF Observed
<1>3. ASSUME NEW i \in DOMAIN reports
      PROVE  /\ reports[i] \in Report /\ found(i) \in SUBSET [class: Classes, of: Int]
             /\ reports'[i] = WithFound(reports[i], found(i))
  <2>1. reports[i] \in Report
    OBVIOUS
  <2>2. found(i) \in SUBSET [class: Classes, of: Int]
    BY <1>2
  <2>3. reports'[i] = WithFound(reports[i], found(i))
    BY DEF ApplyObservations, WithFound, Observed
  <2> QED BY <2>1, <2>2, <2>3
<1>4. reports' = [i \in DOMAIN reports |-> reports'[i]]
  BY DEF ApplyObservations
<1> HIDE DEF found
<1>5. \A i \in DOMAIN reports :
        /\ reports'[i] \in Report /\ Grows(reports[i], reports'[i])
        /\ reports'[i].answers = reports[i].answers
        /\ reports'[i].found = reports[i].found \cup found(i)
  BY <1>3, FoundFields
<1>6. reports' \in Seq(Report) /\ Len(reports') = Len(reports)
  BY <1>4, <1>5, MappedReports
<1> QED BY <1>5, <1>6 DEF Grown, Mapped, Kept, Grows, found

\* A target of the plan gets its answers, and nobody else any.
LEMMA PlanGrows ==
  ASSUME reports \in Seq(Report), PlanRelated
  PROVE  /\ Grown
         /\ \A i \in DOMAIN reports : LET r == reports[i] IN
              /\ reports'[i].found = r.found
              /\ reports'[i].answers = (r.answers
                   \cup [id: r.declares \cap {r.id}, status: {"self"}])
                   \cup [id: (r.declares \cap FromMarket) \ {r.id}, status: {"already"}]
<1>1. ASSUME NEW i \in DOMAIN reports
      PROVE  LET r == reports[i] IN
             /\ reports'[i] \in Report /\ Grows(r, reports'[i])
             /\ reports'[i].found = r.found
             /\ reports'[i].answers = (r.answers
                   \cup [id: r.declares \cap {r.id}, status: {"self"}])
                   \cup [id: (r.declares \cap FromMarket) \ {r.id}, status: {"already"}]
  <2> DEFINE r == reports[i]
             s == Answered(r, r.declares \cap {r.id}, "self")
             t == Answered(s, (r.declares \cap FromMarket) \ {r.id}, "already")
  <2>1. r \in Report
    BY <1>1
  <2>2. /\ r.declares \cap {r.id} \in SUBSET Ids
        /\ (r.declares \cap FromMarket) \ {r.id} \in SUBSET Ids
    BY <2>1 DEF Report
  <2>3. reports'[i] = t
    BY DEF PlanRelated
  <2>4. /\ s \in Report /\ Grows(r, s) /\ s.found = r.found
        /\ s.answers = r.answers \cup [id: r.declares \cap {r.id}, status: {"self"}]
    BY <2>1, <2>2, AnsweredFields DEF Answers
  <2>5. /\ t \in Report /\ Grows(s, t) /\ t.found = s.found
        /\ t.answers = s.answers
             \cup [id: (r.declares \cap FromMarket) \ {r.id}, status: {"already"}]
    <3> HIDE DEF s
    <3> QED BY <2>2, <2>4, AnsweredFields DEF Answers
  <2> HIDE DEF s, t
  <2>6. Grows(r, t)
    BY <2>4, <2>5 DEF Grows, SameOrigin
  <2> QED BY <2>3, <2>4, <2>5, <2>6
<1>2. reports' = [i \in DOMAIN reports |-> reports'[i]]
  BY DEF PlanRelated
<1>3. reports' \in Seq(Report) /\ Len(reports') = Len(reports)
  BY <1>1, <1>2, MappedReports
<1> QED BY <1>1, <1>3 DEF Grown, Mapped, Kept, Grows

LEMMA LimitGrows ==
  ASSUME reports \in Seq(Report), pending \subseteq Ids, LimitReached
  PROVE  /\ Grown
         /\ \A i \in DOMAIN reports :
              /\ reports'[i].found = reports[i].found
              /\ reports'[i].answers = reports[i].answers
                   \cup [id: {d \in pending : Parent(i, d)}, status: {"limit"}]
<1> DEFINE ids(i) == {d \in pending : Parent(i, d)}
<1>1. \A i \in DOMAIN reports : /\ reports[i] \in Report /\ ids(i) \in SUBSET Ids
                                /\ reports'[i] = Answered(reports[i], ids(i), "limit")
  BY DEF LimitReached
<1>2. reports' = [i \in DOMAIN reports |-> reports'[i]]
  BY DEF LimitReached
<1> HIDE DEF ids
<1>3. \A i \in DOMAIN reports :
        /\ reports'[i] \in Report /\ Grows(reports[i], reports'[i])
        /\ reports'[i].found = reports[i].found
        /\ reports'[i].answers = reports[i].answers \cup [id: ids(i), status: {"limit"}]
  BY <1>1, AnsweredFields DEF Answers
<1>4. reports' \in Seq(Report) /\ Len(reports') = Len(reports)
  BY <1>2, <1>3, MappedReports
<1> QED BY <1>3, <1>4 DEF Grown, Mapped, Kept, Grows, ids

\* A related extension is added, and answers what its parents declared.
LEMMA RelatedAdds ==
  ASSUME reports \in Seq(Report), NEW d \in Ids, NEW status \in Answers,
         NEW x \in Report, x.inst = Next1,
         reports' = Append([i \in DOMAIN reports |->
                              IF Parent(i, d) THEN Answered(reports[i], {d}, status)
                              ELSE reports[i]], x)
  PROVE  /\ Added(x)
         /\ \A i \in DOMAIN reports :
              /\ reports'[i].found = reports[i].found
              /\ reports'[i].answers = IF Parent(i, d)
                   THEN reports[i].answers \cup {[id |-> d, status |-> status]}
                   ELSE reports[i].answers
<1> DEFINE next == [i \in DOMAIN reports |->
                      IF Parent(i, d) THEN Answered(reports[i], {d}, status) ELSE reports[i]]
<1>1. \A i \in DOMAIN reports :
        /\ reports[i] \in Report
        /\ next[i] = IF Parent(i, d) THEN Answered(reports[i], {d}, status) ELSE reports[i]
  OBVIOUS
<1>2. next = [i \in DOMAIN reports |-> next[i]] /\ {d} \in SUBSET Ids
  OBVIOUS
<1>3. reports' = Append(next, x)
  OBVIOUS
<1> HIDE DEF next
<1>4. ASSUME NEW i \in DOMAIN reports
      PROVE  /\ next[i] \in Report /\ Grows(reports[i], next[i])
             /\ next[i].found = reports[i].found
             /\ next[i].answers = IF Parent(i, d)
                  THEN reports[i].answers \cup {[id |-> d, status |-> status]}
                  ELSE reports[i].answers
  <2>1. CASE Parent(i, d)
    <3>1. [id: {d}, status: {status}] = {[id |-> d, status |-> status]}
      <4>1. \A y \in [id: {d}, status: {status}] : y = [id |-> d, status |-> status]
        OBVIOUS
      <4>2. [id |-> d, status |-> status] \in [id: {d}, status: {status}]
        OBVIOUS
      <4> QED BY <4>1, <4>2
    <3> QED BY <1>1, <1>2, <2>1, <3>1, AnsweredFields
  <2>2. CASE ~Parent(i, d)
    BY <1>1, <2>2 DEF Grows, SameOrigin
  <2> QED BY <2>1, <2>2
<1>5. next \in Seq(Report) /\ Len(next) = Len(reports) /\ DOMAIN next = DOMAIN reports
  BY <1>2, <1>4, MappedReports
<1>6. /\ reports' \in Seq(Report) /\ Len(reports') = Next1 /\ reports'[Next1] = x
      /\ \A i \in DOMAIN reports : reports'[i] = next[i]
  <2>1. /\ Append(next, x) \in Seq(Report) /\ Len(Append(next, x)) = Len(next) + 1
        /\ \A i \in DOMAIN next : Append(next, x)[i] = next[i]
        /\ Append(next, x)[Len(next) + 1] = x
    BY <1>5, AppendedReports
  <2> QED BY <1>3, <1>5, <2>1 DEF Next1
<1>7. Len(reports) <= Next1
  BY DEF Next1
<1>8. \A i \in DOMAIN reports : Grows(reports[i], reports'[i]) /\ SameOrigin(reports[i], reports'[i])
  BY <1>4, <1>6 DEF Grows
<1>9. Added(x)
  BY <1>6, <1>7, <1>8 DEF Added, Kept
<1> QED BY <1>4, <1>6, <1>9
-----------------------------------------------------------------------------
(* The sandbox among the providers, and the final coverage. *)

\* The receipts are about this report: it has one of its own, if the request
\* asks for a run and it needs one.
OwnReceipt(r) ==
    /\ HasReceipt(r) => /\ request.dynamic /\ r.source # "remote"
                        /\ receipts[r.inst].id = r.id
                        /\ receipts[r.inst].required = r.needs
    /\ request.dynamic /\ r.needs /\ r.source # "remote" => HasReceipt(r)

\* The coverage says of the sandbox what the receipts say.
SandboxAsked(r) ==
    LET c == r.cover IN
    /\ c.providers["sandbox"].status = SandboxResult(r).status
    /\ c.providers["sandbox"].required <=>
         SandboxResult(r).required \/ "sandbox" \in request.env

LEMMA SandboxFields ==
  ASSUME request \in Requests, NEW r \in Report, HonestCover(r), NoSandboxYet(r),
         NEW s, s = [r EXCEPT !.cover = Finalize([r.cover EXCEPT
                                  !.providers["sandbox"] = SandboxResult(r)], request.env),
                              !.behaved = Behaved(r)]
  PROVE  /\ s \in Report /\ SameOrigin(r, s)
         /\ s.found = r.found /\ s.answers = r.answers
         /\ HonestCover(s) /\ SandboxAsked(s) /\ (s.behaved <=> Behaved(s))
<1> DEFINE result == SandboxResult(r)
           c == [r.cover EXCEPT !.providers["sandbox"] = result]
           d == Finalize(c, request.env)
<1>1. result \in [status : Statuses, required : BOOLEAN]
  BY DEF SandboxResult, Result, Statuses
<1>2. r.cover \in Coverage /\ request.env \in SUBSET Providers /\ Behaved(r) \in BOOLEAN
  BY RequestFields DEF Report, Behaved
<1>3. s = [r EXCEPT !.cover = d, !.behaved = Behaved(r)]
  OBVIOUS
<1> HIDE DEF result
<1>4. /\ c \in Coverage /\ c.limits = r.cover.limits /\ c.flawed = r.cover.flawed
      /\ c.providers["sandbox"] = result
      /\ \A p \in Providers \ {"sandbox"} : c.providers[p] = r.cover.providers[p]
  BY <1>1, <1>2 DEF Coverage, Providers
<1>5. d = Finalize(c, request.env)
  OBVIOUS
<1> HIDE DEF c, d
<1>6. /\ d \in Coverage /\ d.flawed = c.flawed
      /\ \A p \in Providers : /\ d.providers[p].status = c.providers[p].status
                              /\ d.providers[p].required <=>
                                   c.providers[p].required \/ p \in request.env
  BY <1>2, <1>4, <1>5, FinalizeFields
<1>7. d.limits = (c.limits \ Completed(c, request.env)) \cup Missing(c, request.env)
  BY <1>2, <1>4, <1>5 DEF Finalize, WithLimits, Coverage
<1>8. /\ s \in Report /\ SameOrigin(r, s) /\ s.cover = d /\ s.behaved = Behaved(r)
      /\ s.found = r.found /\ s.answers = r.answers
  BY ZenonT(40), <1>2, <1>3, <1>6 DEF Report, SameOrigin
<1>9. SandboxResult(s) = result /\ (Behaved(s) <=> Behaved(r))
  BY <1>8 DEF SandboxResult, Behaved, NeedsRun, HasReceipt, RunCovers, Items, SameOrigin, result
<1>10. SandboxAsked(s)
  BY <1>4, <1>6, <1>8, <1>9 DEF SandboxAsked, Providers
<1>11. "artifact" \in d.limits <=> c.flawed \/ "artifact" \in c.limits
  BY <1>2, <1>7 DEF Missing, Required, Completed, Providers
<1>12. d.limits \subseteq {"artifact"} \cup Required(d, request.env)
  <2>1. Missing(c, request.env) \subseteq {"artifact"} \cup Required(c, request.env)
    BY DEF Missing
  <2>2. Required(d, request.env) = Required(c, request.env)
    BY <1>6 DEF Required
  <2>3. r.cover.limits \subseteq {"artifact"} \cup Required(r.cover, request.env)
    BY DEF HonestCover
  <2>4. Required(r.cover, request.env) \subseteq Required(c, request.env)
    BY <1>4 DEF Required, NoSandboxYet
  <2> QED BY <1>4, <1>7, <2>1, <2>2, <2>3, <2>4
<1>13. ClassesOf(s) = ClassesOf(r) /\ (Scanned(s) <=> Scanned(r))
  BY <1>8 DEF ClassesOf, Scanned, SameOrigin
<1>14. \A p \in Providers \ {"sandbox"} :
         /\ d.providers[p].status = r.cover.providers[p].status
         /\ d.providers[p].required <=> r.cover.providers[p].required \/ p \in request.env
  BY <1>4, <1>6
<1>15. HonestCover(s)
  <2>1. /\ s.whole => Scanned(s)
        /\ s.whole => s.understood \/ "concern" \in ClassesOf(s)
        /\ s.aborted => "artifact" \in s.cover.limits
    BY <1>4, <1>8, <1>11, <1>13 DEF HonestCover, SameOrigin
  <2>2. Scanned(s) =>
         /\ s.cover.providers["static"].required
         /\ s.whole <=> /\ s.cover.providers["static"].status = "completed"
                        /\ ~s.cover.flawed /\ "artifact" \notin s.cover.limits
    BY <1>4, <1>6, <1>8, <1>11, <1>13, <1>14 DEF HonestCover, SameOrigin, Providers
  <2>3. s.whole =>
         /\ s.cover.providers["semgrep"].status = "completed" <=> "semgrep" \in s.engines
         /\ s.cover.providers["yara"].status = "completed" <=> "yara" \in s.engines
    BY <1>8, <1>14 DEF HonestCover, SameOrigin, Providers
  <2>4. /\ \A p \in Providers \ {"static", "sandbox"} :
             s.cover.providers[p].required => p \in request.env
        /\ s.cover.providers["acquisition"].status = "absent"
    BY <1>8, <1>14 DEF HonestCover, Providers
  <2> QED BY <1>8, <1>12, <2>1, <2>2, <2>3, <2>4 DEF HonestCover
<1> QED BY <1>8, <1>9, <1>10, <1>15
\* The last coverage and the report that is published with it.
Requested(r) == [r.cover EXCEPT !.providers = RequestProviders(r)]
Finished(r, d) ==
    Publish(Decide([r EXCEPT !.cover = d, !.stale = (d.status # "complete")], FALSE))

\* What is asked of a scanned report is what its final coverage requires, and
\* it was delivered exactly if the coverage has nothing to complain about.
LEMMA FinalLimits ==
  ASSUME request \in Requests, Bundle, NEW r \in Report, HonestCover(r), SandboxAsked(r),
         OwnReceipt(r), r.source = "artifact-url-error" => r.aborted,
         NEW d, d = Finalize(Requested(r), request.env)
  PROVE  /\ d \in Coverage
         /\ d.status = IF d.limits = {} THEN "complete" ELSE "incomplete"
         /\ (\A p \in Asked(r) : Delivered(r, p)) => d.limits = {}
         /\ r.source # "registry-id" /\ d.limits = {} => \A p \in Asked(r) : Delivered(r, p)
<1> DEFINE given == RequestProviders(r)
           c == [r.cover EXCEPT !.providers = given]
           env == request.env
           failed == r.source = "marketplace-error"
<1>1. /\ r.cover \in Coverage /\ env \in SUBSET Providers
      /\ request.required \in SUBSET Providers /\ r.engines \subseteq {"semgrep", "yara"}
      /\ request.advisories \in {"completed", "unavailable", "invalid"}
      /\ request.intelligence \in {"completed", "failed", "unavailable"}
      /\ request.dynamic \in BOOLEAN
  BY RequestFields DEF Report
<1>2. /\ given["advisories"].status = request.advisories
      /\ given["intelligence"].status = request.intelligence
      /\ failed => given["acquisition"].status = "failed"
      /\ \A p \in Providers \ {"advisories", "intelligence"} :
           p # "acquisition" \/ ~failed =>
             given[p].status = IF p \in request.required /\ r.cover.providers[p].status = "absent"
                               THEN "unavailable" ELSE r.cover.providers[p].status
      /\ \A p \in Providers :
           given[p].required <=> \/ p \in request.required \cup {"advisories"}
                                 \/ p = "acquisition" /\ failed
                                 \/ p # "intelligence" /\ r.cover.providers[p].required
  <2>1. /\ given["advisories"].status = request.advisories
        /\ given["intelligence"].status = request.intelligence
        /\ failed => given["acquisition"].status = "failed"
    BY DEF RequestProviders, Result, Providers
  <2>2. ASSUME NEW p \in Providers \ {"advisories", "intelligence"}, p # "acquisition" \/ ~failed
        PROVE  given[p].status = IF p \in request.required /\ r.cover.providers[p].status = "absent"
                                 THEN "unavailable" ELSE r.cover.providers[p].status
    BY <2>2 DEF RequestProviders, Result
  <2>3. ASSUME NEW p \in Providers
        PROVE  given[p].required <=> \/ p \in request.required \cup {"advisories"}
                                     \/ p = "acquisition" /\ failed
                                     \/ p # "intelligence" /\ r.cover.providers[p].required
    BY DEF RequestProviders, Result
  <2> QED BY <2>1, <2>2, <2>3
<1>3. given \in [Providers -> [status : Statuses, required : BOOLEAN]]
  <2>1. \A p \in Providers : r.cover.providers[p].status \in Statuses
    BY <1>1 DEF Coverage
  <2> QED BY <1>1, <2>1 DEF RequestProviders, Result, Statuses
<1> HIDE DEF given
<1>4. /\ c \in Coverage /\ c.providers = given /\ c.limits = r.cover.limits
      /\ c.flawed = r.cover.flawed
  BY <1>1, <1>3 DEF Coverage
<1>5. d = Finalize(c, env)
  BY DEF given, Requested
<1> HIDE DEF c
<1>6. /\ d \in Coverage /\ d.status = IF d.limits = {} THEN "complete" ELSE "incomplete"
  BY <1>1, <1>4, <1>5, FinalizeFields
<1>7. d.limits = (r.cover.limits \ Completed(c, env)) \cup Missing(c, env)
  BY <1>4, <1>5 DEF Finalize, WithLimits, Coverage
<1> DEFINE needed == Required(c, env)
           done == Completed(c, env)
<1>8. /\ \A p \in Providers : p \in needed <=> \/ p \in env \cup request.required \cup {"advisories"}
                                               \/ p = "acquisition" /\ failed
                                               \/ p # "intelligence" /\ r.cover.providers[p].required
      /\ \A p \in Providers : p \in done <=> p \in needed /\ given[p].status = "completed"
      /\ needed \subseteq Providers /\ done \subseteq needed
  BY <1>1, <1>2, <1>4 DEF Required, Completed
<1>9. Missing(c, env) = (needed \ done) \cup (IF r.cover.flawed THEN {"artifact"} ELSE {})
  BY <1>4 DEF Missing
<1> HIDE DEF needed, done, env
<1>10. r.cover.limits \subseteq {"artifact"} \cup needed
  <2>1. r.cover.limits \subseteq {"artifact"} \cup Required(r.cover, request.env)
    BY DEF HonestCover
  <2>2. Required(r.cover, request.env) \subseteq needed
    BY <1>8, <1>1 DEF Required, HonestCover, env, Providers
  <2> QED BY <2>1, <2>2
<1>11. "artifact" \notin needed /\ "artifact" \notin done
  BY <1>8 DEF Providers
\* Nothing is left to complain about if and only if whatever is required
\* completed and the artifact itself is in order.
<1>12. d.limits = {} <=> /\ needed \subseteq done /\ ~r.cover.flawed
                         /\ "artifact" \notin r.cover.limits
  BY <1>7, <1>9, <1>10, <1>11 DEF needed, done
<1>13. SandboxResult(r).status = "completed" <=> request.dynamic /\ NeedsRun(r) /\ RunCovers(r)
  BY <1>1 DEF SandboxResult, Result
<1>14. SandboxResult(r).required <=> request.dynamic /\ NeedsRun(r)
  BY <1>1 DEF SandboxResult, Result
<1>15. WasRun(r) => NeedsRun(r) /\ request.dynamic /\ receipts[r.inst].required
  BY DEF WasRun, NeedsRun, HasReceipt, Bundle, TrueReceipt, OwnReceipt
<1>16. SandboxResult(r).status = "completed" <=> WasRun(r)
  <2>1. CASE HasReceipt(r) /\ receipts[r.inst].required
    BY <1>13, <2>1, OwnRun DEF WasRun, NeedsRun, HasReceipt, OwnReceipt
  <2>2. CASE ~(HasReceipt(r) /\ receipts[r.inst].required)
    BY <1>13, <1>15, <2>2 DEF NeedsRun, WasRun
  <2> QED BY <2>1, <2>2
<1>17. request.dynamic /\ NeedsRun(r) <=> request.dynamic /\ r.needs /\ r.source # "remote"
  BY DEF NeedsRun, OwnReceipt
<1>18. CASE ~Scanned(r)
  <2>1. ~r.whole /\ "static" \in Asked(r) /\ ~Delivered(r, "static")
    BY <1>18 DEF HonestCover, Asked, Delivered
  <2>2. ASSUME r.aborted
        PROVE  d.limits # {}
    BY <1>12, <2>2 DEF HonestCover
  <2>3. ASSUME failed
        PROVE  d.limits # {}
    <3>1. "acquisition" \in needed
      BY <1>8, <2>3 DEF Providers
    <3>2. given["acquisition"].status = "failed"
      BY <1>2, <2>3 DEF Providers
    <3>3. "acquisition" \notin done
      BY <1>8, <3>2 DEF Providers
    <3> QED BY <1>12, <3>1, <3>3
  <2>4. r.aborted \/ failed \/ r.source = "registry-id"
    BY <1>18 DEF Scanned, Report, Sources
  <2> QED BY <1>6, <2>1, <2>2, <2>3, <2>4
<1>19. CASE Scanned(r) /\ ~r.whole
  <2>1. "static" \in Asked(r) /\ ~Delivered(r, "static")
    BY <1>19 DEF Asked, Delivered
  <2>2. "static" \in needed /\ (given["static"].status = "completed"
                                  => r.cover.providers["static"].status = "completed")
    BY <1>2, <1>8, <1>19 DEF HonestCover, Providers
  <2>3. "static" \in done => r.cover.providers["static"].status = "completed"
    BY <1>8, <2>2 DEF Providers
  <2>4. d.limits # {}
    BY <1>12, <1>19, <2>2, <2>3 DEF HonestCover
  <2> QED BY <1>6, <2>1, <2>4
<1>20. CASE Scanned(r) /\ r.whole
  <2>1. /\ r.source \in {"local", "marketplace", "remote"} /\ ~failed
        /\ ~r.cover.flawed /\ "artifact" \notin r.cover.limits
        /\ r.cover.providers["static"].status = "completed"
        /\ r.cover.providers["static"].required
    BY <1>20 DEF Scanned, HonestCover
  <2>2. needed = Asked(r)
    <3>1. \A p \in Providers \ {"static", "sandbox"} :
            r.cover.providers[p].required => p \in env
      BY DEF HonestCover, env
    <3>2. r.cover.providers["sandbox"].required <=>
            (request.dynamic /\ r.needs /\ r.source # "remote") \/ "sandbox" \in env
      BY <1>14, <1>17 DEF SandboxAsked, env
    <3>3. Asked(r) \subseteq Providers
      BY <1>1 DEF Asked, Providers, env
    <3>4. ASSUME NEW p \in Providers
          PROVE  p \in needed <=> p \in Asked(r)
      <4>1. p \in Asked(r) <=> \/ p \in env \cup request.required \cup {"static", "advisories"}
                               \/ p = "sandbox" /\ request.dynamic /\ r.needs /\ r.source # "remote"
        BY DEF Asked, env
      <4> QED BY <1>8, <2>1, <3>1, <3>2, <4>1 DEF Providers
    <3> QED BY <1>8, <3>3, <3>4
  <2>3. ASSUME NEW p \in needed
        PROVE  given[p].status = "completed" <=> Delivered(r, p)
    <3>1. CASE p = "static"
      BY <1>2, <1>20, <2>1, <3>1 DEF Delivered, Providers
    <3>2. CASE p = "sandbox"
      <4>1. given[p].status = "completed" <=> r.cover.providers[p].status = "completed"
        BY <1>2, <3>2 DEF Providers
      <4> QED BY <1>16, <3>2, <4>1 DEF Delivered, SandboxAsked
    <3>3. CASE p \in {"semgrep", "yara"}
      <4>1. given[p].status = "completed" <=> r.cover.providers[p].status = "completed"
        BY <1>2, <3>3 DEF Providers
      <4> QED BY <1>20, <3>3, <4>1 DEF Delivered, HonestCover
    <3>4. CASE p \in {"advisories", "intelligence"}
      BY <1>2, <3>4 DEF Delivered
    <3>5. CASE p = "acquisition"
      <4>1. r.cover.providers[p].status = "absent"
        BY <3>5 DEF HonestCover
      <4> QED BY <1>2, <2>1, <3>5, <4>1 DEF Delivered, Providers
    <3>6. p \in Providers
      BY <1>8
    <3> QED BY <3>1, <3>2, <3>3, <3>4, <3>5, <3>6 DEF Providers
  <2>4. d.limits = {} <=> \A p \in Asked(r) : Delivered(r, p)
    BY <1>8, <1>12, <2>1, <2>2, <2>3
  <2> QED BY <1>6, <2>4
<1> QED BY <1>18, <1>19, <1>20
\* What was concluded of a report: everything follows from its findings and
\* limitations, but for what the baseline may add to the decision.
Judged(r) ==
    LET missing == r.cover.limits # {}
        first == Decision(ClassesOf(r), missing, FALSE)
    IN /\ r.analysis = "complete" <=> ~missing
       /\ r.outcome = PublicOutcome(first, ClassesOf(r))
       /\ r.tier = TrustTier(first, r.analysis, ClassesOf(r), r.behaved)
       /\ r.stale <=> missing
       /\ r.cover.status = IF missing THEN "incomplete" ELSE "complete"
       /\ \E changed \in BOOLEAN : r.decision = Decision(ClassesOf(r), missing, changed)

\* Nothing is missing of what was asked for.
Answerable(r) ==
    /\ (\A p \in Asked(r) : Delivered(r, p)) => r.cover.limits = {}
    /\ r.source # "registry-id" /\ r.cover.limits = {} => \A p \in Asked(r) : Delivered(r, p)

LEMMA FinishFields ==
  ASSUME request \in Requests, Bundle, NEW r \in Report, HonestCover(r), SandboxAsked(r),
         OwnReceipt(r), r.source = "artifact-url-error" => r.aborted,
         NEW d, d = Finalize(Requested(r), request.env), NEW s, s = Finished(r, d)
  PROVE  /\ s \in Report /\ SameOrigin(r, s)
         /\ s.found = r.found /\ s.answers = r.answers /\ s.behaved = r.behaved
         /\ Judged(s) /\ Answerable(s)
<1>1. /\ d \in Coverage
      /\ d.status = IF d.limits = {} THEN "complete" ELSE "incomplete"
      /\ (\A p \in Asked(r) : Delivered(r, p)) => d.limits = {}
      /\ r.source # "registry-id" /\ d.limits = {} => \A p \in Asked(r) : Delivered(r, p)
  BY FinalLimits
<1> DEFINE b == [r EXCEPT !.cover = d, !.stale = (d.status # "complete")]
           t == Decide(b, FALSE)
<1>2. /\ b \in Report /\ SameOrigin(r, b) /\ b.cover = d /\ (b.stale <=> d.status # "complete")
      /\ b.found = r.found /\ b.answers = r.answers /\ b.behaved = r.behaved
  <2> DEFINE stale == d.status # "complete"
  <2>1. b = [r EXCEPT !.cover = d, !.stale = stale] /\ stale \in BOOLEAN
    OBVIOUS
  <2> HIDE DEF stale, b
  <2>2. b \in Report /\ SameOrigin(r, b) /\ b.cover = d /\ b.stale = stale
    BY ZenonT(40), <1>1, <2>1 DEF Report, SameOrigin
  <2>3. b.found = r.found /\ b.answers = r.answers /\ b.behaved = r.behaved
    BY <2>1 DEF Report
  <2> QED BY <2>2, <2>3 DEF stale
<1>3. s = Publish(t) /\ t = Decide(b, FALSE)
  BY DEF Finished
<1> HIDE DEF b, t
<1>4. /\ t \in Report /\ SameOrigin(b, t)
      /\ t.cover = b.cover /\ t.stale = b.stale /\ t.found = b.found
      /\ t.behaved = b.behaved /\ t.answers = b.answers
      /\ t.analysis = AnalysisStatus(b, b.stale \/ b.cover.status = "incomplete")
      /\ t.decision = Decision(ClassesOf(b), b.stale \/ b.cover.status = "incomplete", FALSE)
  BY <1>2, <1>3, DecideFields
<1>5. /\ s \in Report /\ SameOrigin(t, s)
      /\ s.cover = t.cover /\ s.stale = t.stale /\ s.found = t.found
      /\ s.behaved = t.behaved /\ s.answers = t.answers
      /\ s.analysis = t.analysis /\ s.decision = t.decision
      /\ s.outcome = PublicOutcome(t.decision, ClassesOf(t))
      /\ s.tier = TrustTier(t.decision, t.analysis, ClassesOf(t), t.behaved)
  <2>1. t \in Report /\ s = Publish(t)
    BY <1>3, <1>4
  <2> QED BY <2>1, PublishFields
<1>6. /\ SameOrigin(r, s) /\ s.cover = d /\ s.found = r.found
      /\ s.answers = r.answers /\ s.behaved = r.behaved
      /\ ClassesOf(s) = ClassesOf(b) /\ ClassesOf(s) = ClassesOf(t)
  BY <1>2, <1>4, <1>5 DEF SameOrigin, ClassesOf
<1> DEFINE missing == d.limits # {}
<1>7. /\ (b.stale \/ b.cover.status = "incomplete") = missing
      /\ b.cover.status = "complete" <=> ~missing
      /\ s.stale <=> missing
  BY <1>1, <1>2, <1>4, <1>5
<1>8. s.analysis = "complete" <=> ~missing
  BY <1>4, <1>5, <1>7 DEF AnalysisStatus
<1>9. s.decision = Decision(ClassesOf(s), missing, FALSE)
  BY <1>4, <1>5, <1>6, <1>7
<1>10. Judged(s)
  <2>1. /\ s.cover.limits # {} <=> missing
        /\ s.cover.status = IF missing THEN "incomplete" ELSE "complete"
    BY <1>1, <1>6
  <2>2. /\ s.outcome = PublicOutcome(s.decision, ClassesOf(s))
        /\ s.tier = TrustTier(s.decision, s.analysis, ClassesOf(s), s.behaved)
    BY <1>4, <1>5, <1>6
  <2> HIDE DEF missing
  <2> QED BY <1>7, <1>8, <1>9, <2>1, <2>2 DEF Judged
<1>11. Asked(s) = Asked(r) /\ \A p : Delivered(s, p) <=> Delivered(r, p)
  BY <1>6 DEF Asked, Delivered, WasRun, HasReceipt, SameOrigin
<1>12. Answerable(s)
  BY <1>1, <1>6, <1>11 DEF Answerable, SameOrigin
<1> QED BY <1>5, <1>6, <1>10, <1>12

LEMMA CompareFields ==
  ASSUME NEW r \in Report, Judged(r), Answerable(r), NEW changed \in BOOLEAN
  PROVE  LET s == Decide(r, changed) IN
         /\ s \in Report /\ SameOrigin(r, s)
         /\ s.found = r.found /\ s.answers = r.answers /\ s.behaved = r.behaved
         /\ Judged(s) /\ Answerable(s)
<1> DEFINE s == Decide(r, changed)
           missing == r.cover.limits # {}
<1>1. /\ s \in Report /\ SameOrigin(r, s)
      /\ s.cover = r.cover /\ s.stale = r.stale /\ s.found = r.found
      /\ s.behaved = r.behaved /\ s.answers = r.answers
      /\ s.outcome = r.outcome /\ s.tier = r.tier
      /\ s.analysis = AnalysisStatus(r, r.stale \/ r.cover.status = "incomplete")
      /\ s.decision = Decision(ClassesOf(r), r.stale \/ r.cover.status = "incomplete", changed)
  BY DecideFields
<1> HIDE DEF s
<1>2. /\ (r.stale \/ r.cover.status = "incomplete") = missing
      /\ r.cover.status = "complete" <=> ~missing
  BY DEF Judged
<1>3. s.analysis = "complete" <=> ~missing
  BY <1>1, <1>2 DEF AnalysisStatus
<1>4. ClassesOf(s) = ClassesOf(r)
  BY <1>1 DEF ClassesOf
<1>5. s.tier = TrustTier(Decision(ClassesOf(r), missing, FALSE), s.analysis, ClassesOf(r), s.behaved)
  BY <1>1, <1>3 DEF Judged, TrustTier
<1>6. Judged(s)
  BY <1>1, <1>2, <1>3, <1>4, <1>5 DEF Judged
<1>7. Asked(s) = Asked(r) /\ \A p : Delivered(s, p) <=> Delivered(r, p)
  BY <1>1 DEF Asked, Delivered, WasRun, HasReceipt, SameOrigin
<1>8. Answerable(s)
  BY <1>1, <1>7 DEF Answerable, SameOrigin
<1> QED BY <1>1, <1>6, <1>8 DEF s
-----------------------------------------------------------------------------
(* The sandbox runs, phase by phase. *)

BeforeRuns   == {"scan", "runtime"}
BeforeRemote == BeforeRuns \cup {"market", "related", "walk", "feed", "remote"}

\* Every receipt is that of a report, or of a rejected artifact, which has a
\* negative place.
ReceiptPlaces ==
    \A k \in DOMAIN receipts :
      /\ request.dynamic /\ k <= Len(reports) /\ -k <= Len(reports)
      /\ k > 0 => /\ reports[k].source # "remote"
                  /\ receipts[k].id = reports[k].id
                  /\ receipts[k].required = reports[k].needs

ScanPlaces ==
    phase = "scan" => at = 0 /\ DOMAIN receipts = {} /\ Len(reports) <= Len(request.local)
RuntimePlaces ==
    phase = "runtime" =>
      /\ DOMAIN receipts = 1..at /\ at <= Len(request.local)
      /\ Len(request.local) <= Len(reports)
      /\ \A i \in DOMAIN reports : i > Len(request.local) => ~reports[i].needs
\* From then on everything ran that has to.
RunsAreDone ==
    phase \notin BeforeRuns /\ request.dynamic =>
      \A i \in DOMAIN reports :
        reports[i].needs /\ reports[i].source # "remote" => i \in DOMAIN receipts
RemoteIsLast ==
    /\ phase \in BeforeRemote =>
         \A i \in DOMAIN reports : reports[i].source \notin {"remote", "artifact-url-error"}
    /\ \A i \in DOMAIN reports :
         reports[i].source = "artifact-url-error" => reports[i].aborted

RunsOK ==
    /\ PipelineTypeOK /\ Bundle /\ ReceiptPlaces
    /\ ScanPlaces /\ RuntimePlaces /\ RunsAreDone /\ RemoteIsLast

\* Later phases leave the receipts alone, and each report its place.
LEMMA MappingKeepsRuns ==
  ASSUME RunsOK, Mapped, UNCHANGED <<request, receipts, evidence>>,
         \A i \in DOMAIN reports : SameOrigin(reports[i], reports'[i]),
         phase' \in Phases \ BeforeRuns, phase \notin BeforeRuns,
         phase' \in BeforeRemote => phase \in BeforeRemote,
         at' \in Nat, pending' \subseteq Ids
  PROVE  RunsOK'
<1>1. /\ reports' \in Seq(Report) /\ Len(reports') = Len(reports)
      /\ DOMAIN reports' = DOMAIN reports /\ DOMAIN reports = 1..Len(reports)
      /\ Len(reports) \in Nat
  BY DEF Mapped, Kept, RunsOK, PipelineTypeOK
<1>2. PipelineTypeOK'
  BY <1>1 DEF RunsOK, PipelineTypeOK, SameOrigin
<1>3. Bundle'
  BY DEF RunsOK, Bundle, TrueReceipt, TrueEvidence
<1>4. ReceiptPlaces'
  <2> SUFFICES ASSUME NEW k \in DOMAIN receipts
               PROVE  /\ request.dynamic /\ k <= Len(reports') /\ -k <= Len(reports')
                      /\ k > 0 => /\ reports'[k].source # "remote"
                                  /\ receipts[k].id = reports'[k].id
                                  /\ receipts[k].required = reports'[k].needs
    BY DEF ReceiptPlaces
  <2>1. /\ request.dynamic /\ k <= Len(reports) /\ -k <= Len(reports) /\ k \in Int
        /\ k > 0 => /\ reports[k].source # "remote"
                    /\ receipts[k].id = reports[k].id
                    /\ receipts[k].required = reports[k].needs
    BY DEF RunsOK, ReceiptPlaces, Bundle
  <2>2. k > 0 => k \in DOMAIN reports
    BY <1>1, <2>1
  <2> QED BY <1>1, <2>1, <2>2 DEF SameOrigin
<1>5. ScanPlaces' /\ RuntimePlaces'
  BY DEF ScanPlaces, RuntimePlaces, BeforeRuns
<1>6. RunsAreDone'
  BY <1>1 DEF RunsOK, RunsAreDone, SameOrigin
<1>7. RemoteIsLast'
  BY <1>1 DEF RunsOK, RemoteIsLast, SameOrigin
<1> QED BY <1>2, <1>3, <1>4, <1>5, <1>6, <1>7 DEF RunsOK

\* What runs while a report is added: nothing, or an artifact, which is that of
\* the report if the report needs a run.
RunsWith(x) ==
    \/ KeepRuns /\ (request.dynamic => ~x.needs \/ x.source = "remote")
    \/ /\ request.dynamic /\ x.source # "remote"
       /\ \E r \in Report : /\ RunSandbox(r)
                            /\ r = x \/ (r.inst = -Next1 /\ ~x.needs)

LEMMA AddingKeepsRuns ==
  ASSUME RunsOK, NEW x, Added(x), RunsWith(x), request' = request,
         phase' \in Phases \ BeforeRuns, phase \notin BeforeRuns,
         phase' \in BeforeRemote => /\ phase \in BeforeRemote
                                    /\ x.source \notin {"remote", "artifact-url-error"},
         x.source = "artifact-url-error" => x.aborted,
         at' \in Nat, pending' \subseteq Ids
  PROVE  RunsOK'
<1>1. /\ reports' \in Seq(Report) /\ Len(reports') = Next1 /\ reports'[Next1] = x
      /\ DOMAIN reports' = DOMAIN reports \cup {Next1} /\ DOMAIN reports = 1..Len(reports)
      /\ Len(reports) \in Nat /\ Next1 = Len(reports) + 1
      /\ x \in Report /\ x.inst = Next1
      /\ \A i \in DOMAIN reports : SameOrigin(reports[i], reports'[i])
  <2>1. /\ reports' \in Seq(Report) /\ reports \in Seq(Report) /\ Len(reports') = Next1
        /\ reports'[Next1] = x /\ x \in Report /\ x.inst = Next1
        /\ \A i \in DOMAIN reports : SameOrigin(reports[i], reports'[i])
    BY DEF Added, Kept, RunsOK, PipelineTypeOK
  <2>2. /\ DOMAIN reports' = 1..Next1 /\ DOMAIN reports = 1..Len(reports)
        /\ Len(reports) \in Nat /\ Next1 = Len(reports) + 1
    BY <2>1 DEF Next1
  <2> QED BY <2>1, <2>2
<1> HIDE DEF Next1
<1>2. PipelineTypeOK'
  BY <1>1 DEF RunsOK, PipelineTypeOK, SameOrigin
<1>3. ASSUME NEW k \in DOMAIN receipts
      PROVE  /\ k \in Int /\ request.dynamic /\ k <= Len(reports) /\ -k <= Len(reports)
             /\ k > 0 => /\ k \in DOMAIN reports
                         /\ reports'[k].source # "remote"
                         /\ receipts[k].id = reports'[k].id
                         /\ receipts[k].required = reports'[k].needs
  <2>1. /\ k \in Int /\ request.dynamic /\ k <= Len(reports) /\ -k <= Len(reports)
        /\ k > 0 => /\ reports[k].source # "remote"
                    /\ receipts[k].id = reports[k].id
                    /\ receipts[k].required = reports[k].needs
    BY DEF RunsOK, ReceiptPlaces, Bundle
  <2>2. k > 0 => k \in DOMAIN reports
    BY <1>1, <2>1
  <2> QED BY <1>1, <2>1, <2>2 DEF SameOrigin
<1>4. ScanPlaces' /\ RuntimePlaces'
  BY DEF ScanPlaces, RuntimePlaces, BeforeRuns
<1>5. RemoteIsLast'
  BY <1>1 DEF RunsOK, RemoteIsLast, SameOrigin
<1>6. Next1 \notin DOMAIN receipts /\ -Next1 \notin DOMAIN receipts
  BY <1>1, <1>3
<1>7. CASE KeepRuns /\ (request.dynamic => ~x.needs \/ x.source = "remote")
  <2>1. Bundle'
    BY <1>7 DEF RunsOK, Bundle, TrueReceipt, TrueEvidence, KeepRuns
  <2>2. ReceiptPlaces'
    BY <1>1, <1>3, <1>7 DEF ReceiptPlaces, KeepRuns
  <2>3. RunsAreDone'
    BY <1>1, <1>7 DEF RunsOK, RunsAreDone, SameOrigin, KeepRuns
  <2> QED BY <1>2, <1>4, <1>5, <2>1, <2>2, <2>3 DEF RunsOK
<1>8. ASSUME request.dynamic, x.source # "remote", NEW r \in Report, RunSandbox(r),
             r = x \/ (r.inst = -Next1 /\ ~x.needs)
      PROVE  RunsOK'
  <2>1. r.inst \notin DOMAIN receipts /\ r.inst # 0
    BY <1>1, <1>6, <1>8
  <2>2. /\ Bundle'
        /\ DOMAIN receipts' = DOMAIN receipts \cup {r.inst}
        /\ \A k \in DOMAIN receipts : receipts'[k] = receipts[k]
        /\ receipts'[r.inst].id = r.id /\ receipts'[r.inst].required = r.needs
    BY <1>8, <2>1, SandboxRuns DEF RunsOK
  <2>3. ReceiptPlaces'
    <3> SUFFICES ASSUME NEW k \in DOMAIN receipts'
                 PROVE  /\ request'.dynamic /\ k <= Len(reports') /\ -k <= Len(reports')
                        /\ k > 0 => /\ reports'[k].source # "remote"
                                    /\ receipts'[k].id = reports'[k].id
                                    /\ receipts'[k].required = reports'[k].needs
      BY DEF ReceiptPlaces
    <3>1. CASE k \in DOMAIN receipts
      BY <1>1, <1>3, <2>2, <3>1
    <3>2. CASE k \notin DOMAIN receipts
      BY <1>1, <1>8, <2>2, <3>2
    <3> QED BY <3>1, <3>2
  <2>4. RunsAreDone'
    <3> SUFFICES ASSUME NEW i \in DOMAIN reports', reports'[i].needs,
                        reports'[i].source # "remote"
                 PROVE  i \in DOMAIN receipts'
      BY DEF RunsAreDone
    <3>1. CASE i = Next1
      BY <1>1, <1>8, <2>2, <3>1
    <3>2. CASE i \in DOMAIN reports
      BY <1>1, <1>8, <2>2, <3>2 DEF RunsOK, RunsAreDone, SameOrigin
    <3> QED BY <1>1, <3>1, <3>2
  <2> QED BY <1>2, <1>4, <1>5, <2>2, <2>3, <2>4 DEF RunsOK
<1> QED BY <1>7, <1>8 DEF RunsWith

LEMMA RunsInit == Init => RunsOK
<1> SUFFICES ASSUME Init
             PROVE  RunsOK
  OBVIOUS
<1>1. /\ request \in Requests /\ phase = "scan" /\ at = 0 /\ reports = <<>>
      /\ receipts = <<>> /\ evidence = <<>> /\ pending = {}
      /\ DOMAIN receipts = {} /\ DOMAIN evidence = {} /\ DOMAIN reports = {}
      /\ reports \in Seq(Report) /\ Len(reports) = 0
  BY DEF Init
<1>2. Len(request.local) \in Nat
  BY <1>1, RequestFields
<1>3. Bundle
  BY <1>1 DEF Bundle
<1>4. PipelineTypeOK
  BY <1>1 DEF PipelineTypeOK, Phases
<1>5. ReceiptPlaces /\ RemoteIsLast
  BY <1>1 DEF ReceiptPlaces, RemoteIsLast
<1>6. ScanPlaces /\ RuntimePlaces /\ RunsAreDone
  BY <1>1, <1>2 DEF ScanPlaces, RuntimePlaces, RunsAreDone, BeforeRuns
<1> QED BY <1>3, <1>4, <1>5, <1>6 DEF RunsOK

\* The local target at hand: a report of a scanned artifact, or of a failure.
LEMMA LocalReport ==
  ASSUME RunsOK, ScanLocal
  PROVE  \E r \in Report : /\ reports' = Append(reports, r) /\ Fresh(r) /\ ~r.child
                           /\ r.inst = Next1 /\ r.source = "local"
<1> DEFINE id == request.local[Next1]
<1>1. id \in Ids /\ Next1 \in Nat /\ request \in Request
  <2>1. request.local \in Seq(Ids) /\ request \in Request
    BY RequestFields DEF RunsOK, PipelineTypeOK
  <2>2. Next1 \in 1..Len(request.local)
    BY <2>1 DEF ScanLocal, Next1, RunsOK, PipelineTypeOK
  <2> QED BY <2>1, <2>2
<1> HIDE DEF id
<1>2. ASSUME NEW a \in Scannable, NEW known \in NamesOf(a, id),
             reports' = Append(reports, ScannedReport(known, Next1, "local", a))
      PROVE  \E r \in Report : /\ reports' = Append(reports, r) /\ Fresh(r) /\ ~r.child
                               /\ r.inst = Next1 /\ r.source = "local"
  <2>1. a \in Artifact
    BY <1>1 DEF Scannable, Request
  <2>2. a.package.manifest \in {"valid", "anonymous", "unreadable"}
    BY <2>1 DEF Artifact, Package
  <2>3. known \in Names
    BY <1>1, <2>2 DEF NamesOf, Names
  <2> QED BY <1>1, <1>2, <2>1, <2>3, ScannedFields
<1>3. ASSUME NEW known \in {id, Unknown},
             reports' = Append(reports, AbortedReport(known, Next1, "local"))
      PROVE  \E r \in Report : /\ reports' = Append(reports, r) /\ Fresh(r) /\ ~r.child
                               /\ r.inst = Next1 /\ r.source = "local"
  <2>1. known \in Names
    BY <1>1 DEF Names
  <2> QED BY <1>1, <1>3, <2>1, AbortedFields
<1> QED BY <1>2, <1>3 DEF ScanLocal, id

LEMMA ScanLocalKeepsRuns ==
  ASSUME RunsOK, ScanLocal
  PROVE  RunsOK'
<1>1. PICK r \in Report : /\ reports' = Append(reports, r)
                          /\ r.inst = Next1 /\ r.source = "local"
  BY LocalReport
<1>2. /\ phase = "scan" /\ phase' = "scan" /\ at' = 0 /\ request' = request
      /\ pending' = pending /\ receipts' = receipts /\ evidence' = evidence
      /\ DOMAIN receipts = {} /\ Len(reports) < Len(request.local)
      /\ reports \in Seq(Report)
  BY DEF ScanLocal, KeepRuns, RunsOK, ScanPlaces, PipelineTypeOK
<1>3. /\ reports' \in Seq(Report) /\ Len(reports') = Next1 /\ reports'[Next1] = r
      /\ DOMAIN reports' = DOMAIN reports \cup {Next1}
      /\ \A i \in DOMAIN reports : reports'[i] = reports[i]
      /\ Len(reports) \in Nat /\ Next1 = Len(reports) + 1
  BY <1>1, <1>2, AppendedReports DEF Next1
<1>4. Len(request.local) \in Nat
  BY RequestFields DEF RunsOK, PipelineTypeOK
<1>5. PipelineTypeOK'
  BY <1>1, <1>2, <1>3 DEF RunsOK, PipelineTypeOK
<1>6. Bundle' /\ ReceiptPlaces'
  BY <1>2 DEF RunsOK, Bundle, TrueReceipt, TrueEvidence, ReceiptPlaces
<1>7. RuntimePlaces' /\ RunsAreDone'
  BY <1>2 DEF RuntimePlaces, RunsAreDone, BeforeRuns
<1>8. ScanPlaces'
  BY <1>2, <1>3, <1>4 DEF ScanPlaces
<1>9. RemoteIsLast'
  BY <1>1, <1>2, <1>3 DEF RunsOK, RemoteIsLast
<1> QED BY <1>5, <1>6, <1>7, <1>8, <1>9 DEF RunsOK

LEMMA BuiltReports ==
  ASSUME NEW n \in Nat, NEW f, f = [i \in 1..n |-> f[i]], \A i \in 1..n : f[i] \in Report
  PROVE  f \in Seq(Report) /\ Len(f) = n
OBVIOUS

\* The registry-only targets come behind the local ones, and without artifact.
LEMMA RegisteredReports ==
  ASSUME RunsOK, RegisterIds
  PROVE  /\ reports' \in Seq(Report)
         /\ Len(reports') = Len(reports) + Len(request.ids)
         /\ Len(reports) \in Nat /\ Len(request.ids) \in Nat
         /\ \A i \in DOMAIN reports : reports'[i] = reports[i]
         /\ \A i \in DOMAIN reports' \ DOMAIN reports :
              /\ reports'[i].inst = i /\ reports'[i].source = "registry-id"
              /\ Fresh(reports'[i]) /\ ~reports'[i].child
              /\ ~reports'[i].needs /\ ~reports'[i].whole
<1> DEFINE n == Len(reports)
           more == [i \in 1..Len(request.ids) |->
                      BareReport(request.ids[i], n + i, "registry-id")]
<1>1. /\ reports \in Seq(Report) /\ request.ids \in Seq(Ids)
      /\ n \in Nat /\ Len(request.ids) \in Nat
  BY RequestFields DEF RunsOK, PipelineTypeOK
<1>2. reports' = reports \o more
  BY DEF RegisterIds
<1>3. \A i \in 1..Len(request.ids) :
        /\ more[i] \in Report /\ more[i].inst = n + i /\ more[i].source = "registry-id"
        /\ Fresh(more[i]) /\ ~more[i].child /\ ~more[i].needs /\ ~more[i].whole
  <2> SUFFICES ASSUME NEW i \in 1..Len(request.ids)
               PROVE  /\ more[i] \in Report /\ more[i].inst = n + i
                      /\ more[i].source = "registry-id"
                      /\ Fresh(more[i]) /\ ~more[i].child
                      /\ ~more[i].needs /\ ~more[i].whole
    OBVIOUS
  <2>1. request.ids[i] \in Names /\ n + i \in Int
    BY <1>1 DEF Names
  <2>2. more[i] = BareReport(request.ids[i], n + i, "registry-id")
    OBVIOUS
  <2> HIDE DEF more, n
  <2> QED BY <2>1, <2>2, BareFields
<1>4. more = [i \in 1..Len(request.ids) |-> more[i]]
  OBVIOUS
<1> HIDE DEF more
<1>5. more \in Seq(Report) /\ Len(more) = Len(request.ids)
  BY <1>1, <1>3, <1>4, BuiltReports
<1>6. /\ reports' \in Seq(Report) /\ Len(reports') = n + Len(more)
      /\ \A i \in 1..(n + Len(more)) :
           reports'[i] = IF i <= n THEN reports[i] ELSE more[i - n]
  BY ZenonT(30), <1>1, <1>2, <1>5, ConcatProperties
<1>7. ASSUME NEW i \in DOMAIN reports
      PROVE  reports'[i] = reports[i]
  <2>1. i \in 1..n /\ i \in 1..(n + Len(more))
    BY <1>1, <1>5
  <2> HIDE DEF n
  <2> QED BY <1>1, <1>6, <2>1
<1>8. ASSUME NEW i \in DOMAIN reports' \ DOMAIN reports
      PROVE  i - n \in 1..Len(request.ids) /\ reports'[i] = more[i - n] /\ n + (i - n) = i
  BY SMTT(30), <1>1, <1>5, <1>6
<1> QED BY <1>1, <1>3, <1>5, <1>6, <1>7, <1>8

LEMMA RegisterKeepsRuns ==
  ASSUME RunsOK, RegisterIds
  PROVE  RunsOK'
<1> DEFINE n == Len(reports)
<1>1. /\ reports' \in Seq(Report) /\ reports \in Seq(Report)
      /\ Len(reports') = n + Len(request.ids) /\ n \in Nat /\ Len(request.ids) \in Nat
      /\ DOMAIN reports = 1..n /\ DOMAIN reports' = 1..(n + Len(request.ids))
      /\ \A i \in DOMAIN reports : reports'[i] = reports[i]
      /\ \A i \in DOMAIN reports' \ DOMAIN reports :
           /\ reports'[i].inst = i /\ reports'[i].source = "registry-id"
           /\ ~reports'[i].needs
  BY RegisteredReports DEF RunsOK, PipelineTypeOK
<1>2. /\ phase = "scan" /\ phase' = "runtime" /\ at' = 0 /\ request' = request
      /\ pending' = pending /\ receipts' = receipts /\ evidence' = evidence
      /\ DOMAIN receipts = {} /\ n = Len(request.local)
  BY DEF RegisterIds, KeepRuns, Goto, RunsOK, ScanPlaces
<1> HIDE DEF n
<1> DEFINE local == request.local
<1>8. n = Len(local) /\ request'.local = local
  BY <1>2
<1> HIDE DEF local
<1>3. PipelineTypeOK'
  BY <1>1, <1>2 DEF RunsOK, PipelineTypeOK, Phases
<1>4. Bundle' /\ ReceiptPlaces'
  BY <1>2 DEF RunsOK, Bundle, TrueReceipt, TrueEvidence, ReceiptPlaces
<1>5. ScanPlaces' /\ RunsAreDone'
  BY <1>2 DEF ScanPlaces, RunsAreDone, BeforeRuns
<1>6. RuntimePlaces'
  <2>1. DOMAIN receipts' = 1..at' /\ at' <= Len(request'.local)
    BY <1>1, <1>2
  <2>2. Len(request'.local) <= Len(reports')
    BY <1>1, <1>8
  <2>3. ASSUME NEW i \in DOMAIN reports', i > Len(request'.local)
        PROVE  ~reports'[i].needs
    BY <1>1, <1>8, <2>3
  <2> QED BY <2>1, <2>2, <2>3 DEF RuntimePlaces
<1>7. RemoteIsLast'
  BY <1>1, <1>2 DEF RunsOK, RemoteIsLast, BeforeRemote, BeforeRuns
<1> QED BY <1>3, <1>4, <1>5, <1>6, <1>7 DEF RunsOK

LEMMA RunLocalKeepsRuns ==
  ASSUME RunsOK, RunLocal
  PROVE  RunsOK'
<1> DEFINE n == at + 1
           r == reports[n]
<1>1. /\ phase = "runtime" /\ request.dynamic /\ at < Len(request.local) /\ RunSandbox(r)
      /\ at' = n /\ phase' = phase /\ request' = request
      /\ reports' = reports /\ pending' = pending
  BY DEF RunLocal
<1>2. /\ reports \in Seq(Report) /\ Len(reports) \in Nat /\ DOMAIN reports = 1..Len(reports)
      /\ Len(request.local) \in Nat /\ at \in Nat
      /\ DOMAIN receipts = 1..at /\ Len(request.local) <= Len(reports)
      /\ \A i \in DOMAIN reports : i > Len(request.local) => ~reports[i].needs
  BY <1>1, RequestFields DEF RunsOK, RuntimePlaces, PipelineTypeOK
<1>3. n \in Nat \ {0} /\ n \in DOMAIN reports /\ n \notin DOMAIN receipts /\ n <= Len(request.local)
  BY <1>1, <1>2
<1>4. r \in Report /\ r.inst = n /\ r.source # "remote"
  BY <1>1, <1>2, <1>3 DEF RunsOK, PipelineTypeOK, RemoteIsLast, BeforeRemote, BeforeRuns
<1>5. /\ Bundle'
      /\ DOMAIN receipts' = DOMAIN receipts \cup {n}
      /\ \A k \in DOMAIN receipts : receipts'[k] = receipts[k]
      /\ receipts'[n].id = r.id /\ receipts'[n].required = r.needs
  <2>1. Bundle /\ r \in Report /\ r.inst \notin DOMAIN receipts /\ r.inst # 0 /\ RunSandbox(r)
    BY <1>1, <1>3, <1>4 DEF RunsOK
  <2> HIDE DEF r
  <2>2. /\ Bundle'
        /\ DOMAIN receipts' = DOMAIN receipts \cup {r.inst}
        /\ \A k \in DOMAIN receipts : receipts'[k] = receipts[k]
        /\ receipts'[r.inst].id = r.id /\ receipts'[r.inst].required = r.needs
    BY <2>1, SandboxRuns
  <2> QED BY <1>4, <2>2
<1>6. PipelineTypeOK' /\ RemoteIsLast'
  BY <1>1, <1>3 DEF RunsOK, PipelineTypeOK, RemoteIsLast
<1>7. ScanPlaces' /\ RunsAreDone'
  BY <1>1 DEF ScanPlaces, RunsAreDone, BeforeRuns
<1>8. RuntimePlaces'
  <2>1. DOMAIN receipts' = 1..n
    BY <1>2, <1>5
  <2> QED BY <1>1, <1>2, <1>3, <2>1 DEF RuntimePlaces
<1>9. ReceiptPlaces'
  <2> SUFFICES ASSUME NEW k \in DOMAIN receipts'
               PROVE  /\ request'.dynamic /\ k <= Len(reports') /\ -k <= Len(reports')
                      /\ k > 0 => /\ reports'[k].source # "remote"
                                  /\ receipts'[k].id = reports'[k].id
                                  /\ receipts'[k].required = reports'[k].needs
    BY DEF ReceiptPlaces
  <2>1. CASE k \in DOMAIN receipts
    BY <1>1, <1>5, <2>1 DEF RunsOK, ReceiptPlaces
  <2>2. CASE k = n
    BY <1>1, <1>2, <1>3, <1>4, <1>5, <2>2
  <2> QED BY <1>5, <2>1, <2>2
<1> QED BY <1>5, <1>6, <1>7, <1>8, <1>9 DEF RunsOK

LEMMA RunsDoneKeepsRuns ==
  ASSUME RunsOK, RunsDone
  PROVE  RunsOK'
<1>1. /\ phase = "runtime" /\ phase' = "market" /\ at' = 0 /\ request' = request
      /\ reports' = reports /\ receipts' = receipts /\ evidence' = evidence
      /\ pending' = pending
      /\ request.dynamic => at = Len(request.local)
  BY DEF RunsDone, Goto, KeepRuns
<1>2. PipelineTypeOK' /\ RemoteIsLast'
  <2>1. PipelineTypeOK'
    BY <1>1 DEF RunsOK, PipelineTypeOK, Phases
  <2>2. phase \in BeforeRemote
    BY <1>1 DEF BeforeRemote, BeforeRuns
  <2>3. RemoteIsLast'
    BY <1>1, <2>2 DEF RunsOK, RemoteIsLast
  <2> QED BY <2>1, <2>3
<1>3. Bundle' /\ ReceiptPlaces'
  BY <1>1 DEF RunsOK, Bundle, TrueReceipt, TrueEvidence, ReceiptPlaces
<1>4. ScanPlaces' /\ RuntimePlaces'
  BY <1>1 DEF ScanPlaces, RuntimePlaces
<1>5. RunsAreDone'
  <2> SUFFICES ASSUME NEW i \in DOMAIN reports, request.dynamic, reports[i].needs
               PROVE  i \in DOMAIN receipts
    BY <1>1 DEF RunsAreDone
  <2>1. reports \in Seq(Report) /\ at \in Nat
    BY DEF RunsOK, PipelineTypeOK
  <2>2. i \in Nat /\ i > 0
    BY <2>1
  <2>3. DOMAIN receipts = 1..at /\ at = Len(request.local) /\ ~(i > Len(request.local))
    BY <1>1 DEF RunsOK, RuntimePlaces
  <2> QED BY <2>1, <2>2, <2>3
<1> QED BY <1>2, <1>3, <1>4, <1>5 DEF RunsOK

\* The steps that leave the list as it is.
Passing ==
    \/ MarketDone \/ ExpandRaises \/ SkipRelated \/ WalkDone
    \/ RemoteRaises \/ SkipRemote

LEMMA PassingSteps ==
  ASSUME Passing
  PROVE  /\ UNCHANGED <<request, reports, receipts, evidence, pending>>
         /\ at' = 0
         /\ <<phase, phase'>> \in {<<"market", "related">>, <<"related", "raised">>,
              <<"related", "feed">>, <<"walk", "feed">>, <<"remote", "raised">>,
              <<"remote", "advise">>}
BY DEF Passing, MarketDone, ExpandRaises, SkipRelated, WalkDone, RemoteRaises, SkipRemote,
   Step, Goto, KeepRuns

\* The steps under which the reports grow and nothing runs.
Growing ==
    \/ PlanRelated \/ LimitReached \/ ApplyFeed \/ ApplyAdvisories \/ ApplyObservations
    \/ ApplyRegistry

LEMMA GrowingSteps ==
  ASSUME RunsOK, Growing
  PROVE  /\ Grown /\ UNCHANGED <<request, receipts, evidence>>
         /\ at' \in Nat /\ pending' \subseteq Ids
         /\ <<phase, phase'>> \in {<<"related", "walk">>, <<"walk", "walk">>,
              <<"feed", "remote">>, <<"advise", "observe">>, <<"observe", "cover">>,
              <<"registry", "finish">>}
<1>1. reports \in Seq(Report) /\ Bundle /\ pending \subseteq Ids /\ at \in Nat
      /\ request.feed \in SUBSET Hits /\ request.registry \in SUBSET Hits
  BY RequestFields DEF RunsOK, PipelineTypeOK, Request
<1>2. CASE PlanRelated
  <2>1. pending' \subseteq Ids
    <3>1. ASSUME NEW i \in DOMAIN reports
          PROVE  Wanted(i) \subseteq Ids
      <4>1. reports[i] \in Report
        BY <1>1
      <4> QED BY <4>1 DEF Wanted, Report
    <3> QED BY <1>2, <3>1 DEF PlanRelated
  <2> QED BY <1>1, <1>2, <2>1, PlanGrows DEF PlanRelated, Goto, KeepRuns
<1>3. CASE LimitReached
  BY <1>1, <1>3, LimitGrows DEF LimitReached, KeepRuns
<1>4. CASE ApplyFeed
  BY <1>1, <1>4, HitsGrow DEF ApplyFeed, Step, Goto, KeepRuns
<1>5. CASE ApplyAdvisories
  BY <1>1, <1>5, AdvisoriesGrow DEF ApplyAdvisories, Step, Goto, KeepRuns
<1>6. CASE ApplyObservations
  BY <1>1, <1>6, ObservationsGrow DEF ApplyObservations, Step, Goto, KeepRuns
<1>7. CASE ApplyRegistry
  BY <1>1, <1>7, HitsGrow DEF ApplyRegistry, Step, Goto, KeepRuns
<1> QED BY <1>2, <1>3, <1>4, <1>5, <1>6, <1>7 DEF Growing

\* The steps that add a report of what was acquired.
Adding == ScanMarket \/ ScanRelated \/ ScanRemote

\* The report that a step adds.
Newcomer(x) ==
    /\ Added(x) /\ RunsWith(x) /\ Fresh(x) /\ x.answers = {}
    /\ x.source \in {"marketplace", "marketplace-error", "remote", "artifact-url-error"}
    /\ x.source = "artifact-url-error" => x.aborted
    /\ x.child <=> phase = "walk"
    /\ x.source \in {"remote", "artifact-url-error"} <=> phase = "remote"

\* Whatever was acquired ran before its identity was checked.
LEMMA AcquiredRuns ==
  ASSUME RunsOK, NEW id \in Ids, NEW child \in BOOLEAN, NEW x \in Acquired(id, child),
         RunAcquired(x.scanned)
  PROVE  /\ RunsWith(x.report) /\ x.report \in Report /\ Fresh(x.report)
         /\ x.report.id = id /\ x.report.inst = Next1 /\ x.report.child = child
         /\ x.report.source \in {"marketplace", "marketplace-error"}
         /\ x.report.source = "marketplace-error" => x.report.declares = {}
<1>1. /\ x.report \in Report /\ Fresh(x.report)
      /\ x.report.id = id /\ x.report.inst = Next1 /\ x.report.child = child
      /\ \/ x.report.source = "marketplace" /\ x.scanned = {x.report}
         \/ /\ x.report.source = "marketplace-error"
            /\ ~x.report.needs /\ x.report.declares = {}
            /\ \/ x.scanned = {}
               \/ \E r \in Report : x.scanned = {r} /\ r.inst = -Next1
  BY RequestFields, AcquiredFields DEF RunsOK, PipelineTypeOK
<1>2. RunsWith(x.report)
  <2>1. CASE request.dynamic /\ x.scanned # {}
    <3>1. PICK r \in x.scanned : RunSandbox(r)
      BY <2>1 DEF RunAcquired
    <3>2. r \in Report /\ (r = x.report \/ (r.inst = -Next1 /\ ~x.report.needs))
      BY <1>1, <3>1
    <3> QED BY <1>1, <2>1, <3>1, <3>2 DEF RunsWith
  <2>2. CASE ~(request.dynamic /\ x.scanned # {})
    BY <1>1, <2>2 DEF RunsWith, RunAcquired
  <2> QED BY <2>1, <2>2
<1> QED BY <1>1, <1>2

\* A related extension, and the answer that its parents get.
LEMMA RelatedReport ==
  ASSUME RunsOK, ScanRelated
  PROVE  \E d \in pending, x \in Report, status \in {"scanned", "failed"} :
           /\ Newcomer(x) /\ x.id = d /\ x.child
           /\ \/ x.source = "marketplace" /\ status = "scanned"
              \/ x.source = "marketplace-error" /\ status = "failed" /\ x.declares = {}
           /\ pending' = pending \ {d}
           /\ \A i \in DOMAIN reports :
                /\ reports'[i].found = reports[i].found
                /\ reports'[i].answers = IF Parent(i, d)
                     THEN reports[i].answers \cup {[id |-> d, status |-> status]}
                     ELSE reports[i].answers
<1>1. reports \in Seq(Report) /\ pending \subseteq Ids /\ phase = "walk"
  BY DEF RunsOK, PipelineTypeOK, ScanRelated
<1>a. PICK d \in pending : \E y \in Acquired(d, TRUE) :
        /\ RunAcquired(y.scanned) /\ pending' = pending \ {d}
        /\ reports' = Append([i \in DOMAIN reports |->
             IF Parent(i, d)
             THEN Answered(reports[i], {d}, IF y.report.source = "marketplace-error"
                                            THEN "failed" ELSE "scanned")
             ELSE reports[i]], y.report)
  BY DEF ScanRelated
<1>2. PICK y \in Acquired(d, TRUE) :
        /\ RunAcquired(y.scanned) /\ pending' = pending \ {d}
        /\ reports' = Append([i \in DOMAIN reports |->
             IF Parent(i, d)
             THEN Answered(reports[i], {d}, IF y.report.source = "marketplace-error"
                                            THEN "failed" ELSE "scanned")
             ELSE reports[i]], y.report)
  BY <1>a
<1> DEFINE x == y.report
           status == IF x.source = "marketplace-error" THEN "failed" ELSE "scanned"
<1>3. /\ RunsWith(x) /\ x \in Report /\ Fresh(x) /\ d \in Ids
      /\ x.id = d /\ x.inst = Next1 /\ x.child
      /\ x.source \in {"marketplace", "marketplace-error"}
      /\ x.source = "marketplace-error" => x.declares = {}
  BY <1>1, <1>2, AcquiredRuns
<1>4. status \in {"scanned", "failed"} /\ status \in Answers
  BY DEF Answers
<1>5. /\ Added(x)
      /\ \A i \in DOMAIN reports :
           /\ reports'[i].found = reports[i].found
           /\ reports'[i].answers = IF Parent(i, d)
                THEN reports[i].answers \cup {[id |-> d, status |-> status]}
                ELSE reports[i].answers
  <2>1. reports' = Append([i \in DOMAIN reports |->
                             IF Parent(i, d) THEN Answered(reports[i], {d}, status)
                             ELSE reports[i]], x)
    BY <1>2
  <2> HIDE DEF status, x
  <2> QED BY <1>1, <1>3, <1>4, <2>1, RelatedAdds
<1>6. Newcomer(x)
  BY <1>1, <1>3, <1>5 DEF Newcomer, Fresh
<1>7. \/ x.source = "marketplace" /\ status = "scanned"
      \/ x.source = "marketplace-error" /\ status = "failed" /\ x.declares = {}
  BY <1>3
<1> HIDE DEF x, status
<1>8. /\ Newcomer(x) /\ x.id = d /\ x.child
      /\ \/ x.source = "marketplace" /\ status = "scanned"
         \/ x.source = "marketplace-error" /\ status = "failed" /\ x.declares = {}
      /\ pending' = pending \ {d}
      /\ \A i \in DOMAIN reports :
           /\ reports'[i].found = reports[i].found
           /\ reports'[i].answers = IF Parent(i, d)
                THEN reports[i].answers \cup {[id |-> d, status |-> status]}
                ELSE reports[i].answers
  BY <1>2, <1>3, <1>5, <1>6, <1>7
<1>9. x \in Report /\ status \in {"scanned", "failed"}
  BY <1>3, <1>4
<1> QED BY <1>8, <1>9

LEMMA MarketReport ==
  ASSUME RunsOK, ScanMarket
  PROVE  \E x \in Report :
           /\ Newcomer(x) /\ ~x.child /\ at < Len(request.market) /\ x.id = request.market[at + 1]
           /\ x.source \in {"marketplace", "marketplace-error"}
           /\ reports' = Append(reports, x)
<1>1. /\ reports \in Seq(Report) /\ phase = "market" /\ at \in Nat
      /\ request.market \in Seq(Ids) /\ at < Len(request.market)
  BY RequestFields DEF RunsOK, PipelineTypeOK, ScanMarket
<1>2. request.market[at + 1] \in Ids
  <2>1. at + 1 \in 1..Len(request.market)
    BY <1>1
  <2> QED BY <1>1, <2>1
<1>3. PICK y \in Acquired(request.market[at + 1], FALSE) :
        RunAcquired(y.scanned) /\ reports' = Append(reports, y.report)
  BY DEF ScanMarket
<1> DEFINE x == y.report
<1>4. /\ RunsWith(x) /\ x \in Report /\ Fresh(x)
      /\ x.id = request.market[at + 1] /\ x.inst = Next1 /\ ~x.child
      /\ x.source \in {"marketplace", "marketplace-error"}
  BY <1>2, <1>3, AcquiredRuns
<1> HIDE DEF x
<1>5. reports' = Append(reports, x)
  BY <1>3 DEF x
<1>6. Added(x)
  BY <1>1, <1>4, <1>5, AppendingAdds
<1>7. Newcomer(x)
  BY <1>1, <1>4, <1>6 DEF Newcomer, Fresh
<1> QED BY <1>1, <1>4, <1>5, <1>7

LEMMA RemoteReport ==
  ASSUME RunsOK, ScanRemote
  PROVE  \E x \in Report :
           /\ Newcomer(x) /\ ~x.child /\ x.source \in {"remote", "artifact-url-error"}
           /\ x.source = "artifact-url-error" => x.declares = {}
           /\ reports' = Append(reports, x)
<1>1. /\ reports \in Seq(Report) /\ phase = "remote" /\ Next1 \in Nat /\ request \in Request
      /\ KeepRuns
  BY RequestFields DEF RunsOK, PipelineTypeOK, ScanRemote, Step, Next1
<1>2. \E x \in Report :
        /\ reports' = Append(reports, x) /\ Fresh(x) /\ ~x.child /\ x.inst = Next1
        /\ \/ x.source = "remote"
           \/ x.source = "artifact-url-error" /\ x.aborted /\ ~x.needs /\ x.declares = {}
  <2>1. CASE reports' = Append(reports, AbortedReport(Unknown, Next1, "artifact-url-error"))
    <3>1. Unknown \in Names /\ Next1 \in Int
      BY <1>1 DEF Names
    <3> QED BY <2>1, <3>1, AbortedFields
  <2>2. ASSUME NEW y \in Obtainable,
               reports' = Append(reports, ScannedReport(y[1], Next1, "remote", y[2]))
        PROVE  \E x \in Report : /\ reports' = Append(reports, x) /\ Fresh(x) /\ ~x.child
                                 /\ x.inst = Next1 /\ x.source = "remote"
    <3>1. y[1] \in Names /\ y[2] \in Artifact /\ Next1 \in Int
      BY <1>1 DEF Obtainable, Scannable, Names, Request
    <3> QED BY <1>1, <2>2, <3>1, ScannedFields
  <2> QED BY <2>1, <2>2 DEF ScanRemote
<1>3. PICK x \in Report :
        /\ reports' = Append(reports, x) /\ Fresh(x) /\ ~x.child /\ x.inst = Next1
        /\ \/ x.source = "remote"
           \/ x.source = "artifact-url-error" /\ x.aborted /\ ~x.needs /\ x.declares = {}
  BY <1>2
<1>4. Added(x)
  BY <1>1, <1>3, AppendingAdds
<1>5. Newcomer(x)
  BY <1>1, <1>3, <1>4 DEF Newcomer, Fresh, RunsWith
<1> QED BY <1>3, <1>5

LEMMA AddingSteps ==
  ASSUME RunsOK, Adding
  PROVE  /\ \E x \in Report : Newcomer(x)
         /\ request' = request /\ at' \in Nat /\ pending' \subseteq Ids
         /\ <<phase, phase'>> \in {<<"market", "market">>, <<"walk", "walk">>,
                                   <<"remote", "advise">>}
<1>1. at \in Nat /\ pending \subseteq Ids
  BY DEF RunsOK, PipelineTypeOK
<1>2. CASE ScanMarket
  <2>1. \E x \in Report : Newcomer(x)
    BY <1>2, MarketReport
  <2> QED BY <1>1, <1>2, <2>1 DEF ScanMarket
<1>3. CASE ScanRelated
  <2>1. \E x \in Report : Newcomer(x)
    BY <1>3, RelatedReport
  <2>2. /\ request' = request /\ at' = at + 1 /\ phase = "walk" /\ phase' = phase
        /\ \E d \in pending : pending' = pending \ {d}
    BY <1>3 DEF ScanRelated
  <2> QED BY <1>1, <2>1, <2>2
<1>4. CASE ScanRemote
  BY <1>1, <1>4, RemoteReport DEF ScanRemote, Step, Goto
<1> QED BY <1>2, <1>3, <1>4 DEF Adding
-----------------------------------------------------------------------------
(* What the reports admit, phase by phase. *)

Concluding == {"registry", "finish"}
Concluded  == {"compare", "done"}

\* The sandbox's part of a report.
Candid(r) == r.whole => r.understood \/ "concern" \in ClassesOf(r)

BeforeCover ==
    phase \notin Concluding \cup Concluded =>
      \A i \in DOMAIN reports : HonestCover(reports[i]) /\ NoSandboxYet(reports[i])
AfterCover ==
    phase \in Concluding =>
      \A i \in DOMAIN reports : HonestCover(reports[i]) /\ SandboxAsked(reports[i])
AfterFinish ==
    phase \in Concluded =>
      \A i \in DOMAIN reports : Judged(reports[i]) /\ Answerable(reports[i])
BehavedIsTrue ==
    phase \in Concluding \cup Concluded =>
      \A i \in DOMAIN reports : reports[i].behaved <=> Behaved(reports[i])
AllCandid == \A i \in DOMAIN reports : Candid(reports[i])

CoverOK ==
    /\ BeforeCover /\ AfterCover /\ AfterFinish /\ BehavedIsTrue /\ AllCandid

LEMMA ReceiptIsOwn ==
  ASSUME RunsOK, phase \notin BeforeRuns, NEW i \in DOMAIN reports
  PROVE  OwnReceipt(reports[i])
<1>1. reports[i].inst = i /\ i > 0
  BY DEF RunsOK, PipelineTypeOK
<1>2. HasReceipt(reports[i]) <=> i \in DOMAIN receipts
  BY <1>1 DEF HasReceipt
<1> QED BY <1>1, <1>2 DEF RunsOK, ReceiptPlaces, RunsAreDone, OwnReceipt

\* What a report admits depends on nothing else that a later phase changes.
LEMMA SameAfter ==
  ASSUME request' = request, NEW i \in DOMAIN reports'
  PROVE  /\ HonestCover(reports[i])' <=> HonestCover(reports'[i])
         /\ NoSandboxYet(reports[i])' <=> NoSandboxYet(reports'[i])
         /\ Candid(reports[i])' <=> Candid(reports'[i])
         /\ Judged(reports[i])' <=> Judged(reports'[i])
<1>1. ClassesOf(reports[i])' = ClassesOf(reports'[i])
  BY DEF ClassesOf
<1>2. HonestCover(reports[i])' <=> HonestCover(reports'[i])
  BY DEF HonestCover, Required, Scanned, ClassesOf
<1>3. NoSandboxYet(reports[i])' <=> NoSandboxYet(reports'[i])
  BY DEF NoSandboxYet
<1>4. Candid(reports[i])' <=> Candid(reports'[i])
  BY DEF Candid, ClassesOf
<1>5. Judged(reports[i])' <=> Judged(reports'[i])
  BY <1>1 DEF Judged
<1> QED BY <1>2, <1>3, <1>4, <1>5

LEMMA SandboxSameAfter ==
  ASSUME UNCHANGED <<request, receipts, evidence>>, NEW i \in DOMAIN reports'
  PROVE  /\ Behaved(reports[i])' <=> Behaved(reports'[i])
         /\ SandboxAsked(reports[i])' <=> SandboxAsked(reports'[i])
         /\ Answerable(reports[i])' <=> Answerable(reports'[i])
<1>1. SandboxResult(reports[i])' = SandboxResult(reports'[i])
  BY DEF SandboxResult, NeedsRun, HasReceipt, RunCovers, Items
<1>2. Items(reports[i])' = Items(reports'[i])
  BY DEF Items
<1>3. Behaved(reports[i])' <=> Behaved(reports'[i])
  BY <1>1, <1>2 DEF Behaved
<1>4. SandboxAsked(reports[i])' <=> SandboxAsked(reports'[i])
  BY <1>1 DEF SandboxAsked
<1>5. Asked(reports[i])' = Asked(reports'[i])
  BY DEF Asked
<1>6. \A p : Delivered(reports[i], p)' <=> Delivered(reports'[i], p)
  BY DEF Delivered, WasRun, HasReceipt
<1>7. Answerable(reports[i])' <=> Answerable(reports'[i])
  BY <1>5, <1>6 DEF Answerable
<1> QED BY <1>3, <1>4, <1>7

\* The sandbox says the same of a report whatever else becomes of it.
LEMMA SandboxIsFixed ==
  ASSUME NEW r, NEW s, SameOrigin(r, s)
  PROVE  /\ Behaved(s) <=> Behaved(r)
         /\ SandboxResult(s) = SandboxResult(r)
BY DEF Behaved, SandboxResult, NeedsRun, HasReceipt, RunCovers, Items, SameOrigin

LEMMA GrowingIsHonest ==
  ASSUME NEW r \in Report, NEW s \in Report, Grows(r, s)
  PROVE  /\ HonestCover(r) => HonestCover(s)
         /\ NoSandboxYet(r) => NoSandboxYet(s)
         /\ Candid(r) => Candid(s)
<1>1. HonestCover(r) => HonestCover(s)
  BY CoverIsKept DEF Grows, SameOrigin
<1>2. NoSandboxYet(r) => NoSandboxYet(s)
  BY CoverIsKept DEF Grows, SameOrigin
<1>3. Candid(r) => Candid(s)
  BY DEF Candid, Grows, SameOrigin, ClassesOf
<1> QED BY <1>1, <1>2, <1>3

LEMMA AddingIsHonest ==
  ASSUME RunsOK, CoverOK, request' = request,
         reports' \in Seq(Report),
         \A i \in DOMAIN reports : i \in DOMAIN reports' /\ Grows(reports[i], reports'[i]),
         \A i \in DOMAIN reports' \ DOMAIN reports : Fresh(reports'[i]),
         phase \notin Concluding \cup Concluded, phase' \notin Concluding \cup Concluded
  PROVE  CoverOK'
<1>1. \A i \in DOMAIN reports :
        /\ reports[i] \in Report
        /\ HonestCover(reports[i]) /\ NoSandboxYet(reports[i]) /\ Candid(reports[i])
  BY DEF RunsOK, PipelineTypeOK, CoverOK, BeforeCover, AllCandid
<1>2. ASSUME NEW i \in DOMAIN reports'
      PROVE  HonestCover(reports'[i]) /\ NoSandboxYet(reports'[i]) /\ Candid(reports'[i])
  <2>1. reports'[i] \in Report
    OBVIOUS
  <2>2. CASE i \in DOMAIN reports
    BY <1>1, <2>1, <2>2, GrowingIsHonest
  <2>3. CASE i \notin DOMAIN reports
    BY <2>1, <2>3 DEF Fresh, Candid, HonestCover
  <2> QED BY <2>2, <2>3
<1>3. BeforeCover' /\ AllCandid'
  BY <1>2, SameAfter DEF BeforeCover, AllCandid
<1> QED BY <1>3 DEF CoverOK, AfterCover, AfterFinish, BehavedIsTrue

\* Growing in place keeps what is admitted in every phase; only the registry
\* findings come after the sandbox's part.
LEMMA GrowingKeepsCover ==
  ASSUME RunsOK, CoverOK, Growing
  PROVE  CoverOK'
<1>1. /\ Grown /\ UNCHANGED <<request, receipts, evidence>>
      /\ <<phase, phase'>> \in {<<"related", "walk">>, <<"walk", "walk">>,
           <<"feed", "remote">>, <<"advise", "observe">>, <<"observe", "cover">>,
           <<"registry", "finish">>}
  BY GrowingSteps
<1>2. /\ reports' \in Seq(Report) /\ reports \in Seq(Report) /\ DOMAIN reports' = DOMAIN reports
      /\ \A i \in DOMAIN reports : Grows(reports[i], reports'[i])
  BY <1>1 DEF Grown, Mapped, Kept, RunsOK, PipelineTypeOK
<1>3. CASE phase # "registry"
  <2>1. phase \notin Concluding \cup Concluded /\ phase' \notin Concluding \cup Concluded
    BY <1>1, <1>3 DEF Concluding, Concluded
  <2> QED BY <1>1, <1>2, <2>1, AddingIsHonest
<1>4. CASE phase = "registry"
  <2>1. phase' = "finish"
    BY <1>1, <1>4
  <2>2. ASSUME NEW i \in DOMAIN reports'
        PROVE  /\ HonestCover(reports'[i]) /\ SandboxAsked(reports'[i]) /\ Candid(reports'[i])
               /\ reports'[i].behaved <=> Behaved(reports'[i])
    <3>1. /\ reports[i] \in Report /\ reports'[i] \in Report /\ Grows(reports[i], reports'[i])
          /\ SameOrigin(reports[i], reports'[i])
      BY <1>2 DEF Grows
    <3>2. /\ HonestCover(reports[i]) /\ SandboxAsked(reports[i]) /\ Candid(reports[i])
          /\ reports[i].behaved <=> Behaved(reports[i])
      BY <1>2, <1>4 DEF CoverOK, AfterCover, BehavedIsTrue, AllCandid, Concluding
    <3>3. HonestCover(reports'[i]) /\ Candid(reports'[i])
      BY <3>1, <3>2, GrowingIsHonest
    <3>4. /\ Behaved(reports'[i]) <=> Behaved(reports[i])
          /\ SandboxResult(reports'[i]) = SandboxResult(reports[i])
      BY <3>1, SandboxIsFixed
    <3> QED BY <3>1, <3>2, <3>3, <3>4 DEF SandboxAsked, Grows
  <2>3. AfterCover' /\ BehavedIsTrue' /\ AllCandid'
    BY <1>1, <2>2, SameAfter, SandboxSameAfter DEF AfterCover, BehavedIsTrue, AllCandid
  <2>4. BeforeCover' /\ AfterFinish'
    BY <2>1 DEF BeforeCover, AfterFinish, Concluding, Concluded
  <2> QED BY <2>3, <2>4 DEF CoverOK
<1> QED BY <1>3, <1>4

\* The steps that compute coverage and decision again, report by report.
Judging == ApplySandbox \/ FinishReports \/ Compare

\* They leave findings and answers alone.
Reviewed ==
    /\ Mapped
    /\ \A i \in DOMAIN reports :
         /\ reports'[i].found = reports[i].found
         /\ reports'[i].answers = reports[i].answers

LEMMA JudgingSteps ==
  ASSUME RunsOK, CoverOK, Judging
  PROVE  /\ Reviewed /\ CoverOK'
         /\ UNCHANGED <<request, receipts, evidence, pending>> /\ at' = 0
         /\ <<phase, phase'>> \in {<<"cover", "registry">>, <<"finish", "compare">>,
                                   <<"compare", "done">>}
<1>1. /\ UNCHANGED <<request, receipts, evidence, pending>> /\ at' = 0
      /\ <<phase, phase'>> \in {<<"cover", "registry">>, <<"finish", "compare">>,
                                <<"compare", "done">>}
  BY DEF Judging, ApplySandbox, FinishReports, Compare, Step, Goto, KeepRuns
<1>2. /\ reports \in Seq(Report) /\ request \in Requests /\ Bundle
      /\ \A i \in DOMAIN reports : reports[i] \in Report
      /\ phase \notin BeforeRuns
  BY <1>1 DEF RunsOK, PipelineTypeOK, BeforeRuns
<1> DEFINE Touched(i) ==
             /\ reports'[i] \in Report /\ SameOrigin(reports[i], reports'[i])
             /\ reports'[i].found = reports[i].found
             /\ reports'[i].answers = reports[i].answers
<1>3. \A i \in DOMAIN reports : Candid(reports[i])
  BY DEF CoverOK, AllCandid
<1>4. CASE ApplySandbox
  <2>1. phase = "cover" /\ phase' = "registry"
    BY <1>4 DEF ApplySandbox, Step, Goto
  <2>2. ASSUME NEW i \in DOMAIN reports
        PROVE  /\ Touched(i) /\ HonestCover(reports'[i]) /\ SandboxAsked(reports'[i])
               /\ reports'[i].behaved <=> Behaved(reports'[i])
    <3> DEFINE r == reports[i]
               s == reports'[i]
    <3>1. s = [r EXCEPT !.cover = Finalize([r.cover EXCEPT
                           !.providers["sandbox"] = SandboxResult(r)], request.env),
                        !.behaved = Behaved(r)]
      BY <1>4 DEF ApplySandbox
    <3>2. r \in Report /\ HonestCover(r) /\ NoSandboxYet(r)
      BY <1>2, <2>1 DEF CoverOK, BeforeCover, Concluding, Concluded
    <3> HIDE DEF r, s
    <3>3. /\ s \in Report /\ SameOrigin(r, s) /\ s.found = r.found /\ s.answers = r.answers
          /\ HonestCover(s) /\ SandboxAsked(s) /\ (s.behaved <=> Behaved(s))
      BY <1>2, <3>1, <3>2, SandboxFields
    <3> QED BY <3>3 DEF r, s
  <2>3. reports' = [i \in DOMAIN reports |-> reports'[i]]
    BY <1>4 DEF ApplySandbox
  <2>4. /\ reports' \in Seq(Report) /\ Len(reports') = Len(reports)
        /\ DOMAIN reports' = DOMAIN reports
    BY <1>2, <2>2, <2>3, MappedReports
  <2>5. Reviewed
    BY <2>2, <2>4 DEF Reviewed, Mapped, Kept
  <2>6. AfterCover' /\ BehavedIsTrue'
    BY <1>1, <2>2, <2>4, SameAfter, SandboxSameAfter DEF AfterCover, BehavedIsTrue
  <2>7. AllCandid'
    <3>1. \A i \in DOMAIN reports : Candid(reports'[i])
      BY <1>3, <2>2 DEF Candid, ClassesOf, SameOrigin
    <3> QED BY <1>1, <2>4, <3>1, SameAfter DEF AllCandid
  <2>8. BeforeCover' /\ AfterFinish'
    BY <2>1 DEF BeforeCover, AfterFinish, Concluding, Concluded
  <2> QED BY <1>1, <2>5, <2>6, <2>7, <2>8 DEF CoverOK
<1>5. CASE FinishReports
  <2>1. phase = "finish" /\ phase' = "compare"
    BY <1>5 DEF FinishReports, Step, Goto
  <2>2. ASSUME NEW i \in DOMAIN reports
        PROVE  /\ Touched(i) /\ Judged(reports'[i]) /\ Answerable(reports'[i])
               /\ reports'[i].behaved <=> Behaved(reports'[i])
    <3> DEFINE r == reports[i]
               s == reports'[i]
               d == Finalize(Requested(r), request.env)
    <3>1. s = Finished(r, d)
      BY <1>5 DEF FinishReports, Finished, Requested
    <3>2. /\ r \in Report /\ HonestCover(r) /\ SandboxAsked(r) /\ (r.behaved <=> Behaved(r))
          /\ OwnReceipt(r)
          /\ r.source = "artifact-url-error" => r.aborted
      BY <1>2, <2>1, ReceiptIsOwn
         DEF CoverOK, AfterCover, BehavedIsTrue, Concluding, RunsOK, RemoteIsLast
    <3>3. d = Finalize(Requested(r), request.env)
      OBVIOUS
    <3> HIDE DEF r, s, d
    <3>4. /\ s \in Report /\ SameOrigin(r, s)
          /\ s.found = r.found /\ s.answers = r.answers /\ s.behaved = r.behaved
          /\ Judged(s) /\ Answerable(s)
      BY <1>2, <3>1, <3>2, <3>3, FinishFields
    <3>5. Behaved(s) <=> Behaved(r)
      BY <3>4, SandboxIsFixed
    <3> QED BY <3>2, <3>4, <3>5 DEF r, s
  <2>3. reports' = [i \in DOMAIN reports |-> reports'[i]]
    BY <1>5 DEF FinishReports
  <2>4. /\ reports' \in Seq(Report) /\ Len(reports') = Len(reports)
        /\ DOMAIN reports' = DOMAIN reports
    BY <1>2, <2>2, <2>3, MappedReports
  <2>5. Reviewed
    BY <2>2, <2>4 DEF Reviewed, Mapped, Kept
  <2>6. AfterFinish' /\ BehavedIsTrue'
    BY <1>1, <2>2, <2>4, SameAfter, SandboxSameAfter DEF AfterFinish, BehavedIsTrue
  <2>7. AllCandid'
    <3>1. \A i \in DOMAIN reports : Candid(reports'[i])
      BY <1>3, <2>2 DEF Candid, ClassesOf, SameOrigin
    <3> QED BY <1>1, <2>4, <3>1, SameAfter DEF AllCandid
  <2>8. BeforeCover' /\ AfterCover'
    BY <2>1 DEF BeforeCover, AfterCover, Concluding, Concluded
  <2> QED BY <1>1, <2>5, <2>6, <2>7, <2>8 DEF CoverOK
<1>6. CASE Compare
  <2>1. phase = "compare" /\ phase' = "done"
    BY <1>6 DEF Compare, Step, Goto
  <2>2. ASSUME NEW i \in DOMAIN reports
        PROVE  /\ Touched(i) /\ Judged(reports'[i]) /\ Answerable(reports'[i])
               /\ reports'[i].behaved <=> Behaved(reports'[i])
    <3> DEFINE r == reports[i]
               s == reports'[i]
    <3>1. \E changed \in BOOLEAN : s = Decide(r, changed)
      BY <1>6 DEF Compare
    <3>2. r \in Report /\ Judged(r) /\ Answerable(r) /\ (r.behaved <=> Behaved(r))
      BY <1>2, <2>1 DEF CoverOK, AfterFinish, BehavedIsTrue, Concluded
    <3> HIDE DEF r, s
    <3>3. /\ s \in Report /\ SameOrigin(r, s)
          /\ s.found = r.found /\ s.answers = r.answers /\ s.behaved = r.behaved
          /\ Judged(s) /\ Answerable(s)
      BY <3>1, <3>2, CompareFields
    <3>4. Behaved(s) <=> Behaved(r)
      BY <3>3, SandboxIsFixed
    <3> QED BY <3>2, <3>3, <3>4 DEF r, s
  <2>3. reports' = [i \in DOMAIN reports |-> reports'[i]]
    BY <1>6 DEF Compare
  <2>4. /\ reports' \in Seq(Report) /\ Len(reports') = Len(reports)
        /\ DOMAIN reports' = DOMAIN reports
    BY <1>2, <2>2, <2>3, MappedReports
  <2>5. Reviewed
    BY <2>2, <2>4 DEF Reviewed, Mapped, Kept
  <2>6. AfterFinish' /\ BehavedIsTrue'
    BY <1>1, <2>2, <2>4, SameAfter, SandboxSameAfter DEF AfterFinish, BehavedIsTrue
  <2>7. AllCandid'
    <3>1. \A i \in DOMAIN reports : Candid(reports'[i])
      BY <1>3, <2>2 DEF Candid, ClassesOf, SameOrigin
    <3> QED BY <1>1, <2>4, <3>1, SameAfter DEF AllCandid
  <2>8. BeforeCover' /\ AfterCover'
    BY <2>1 DEF BeforeCover, AfterCover, Concluding, Concluded
  <2> QED BY <1>1, <2>5, <2>6, <2>7, <2>8 DEF CoverOK
<1> QED BY <1>4, <1>5, <1>6 DEF Judging

LEMMA PassingKeepsRuns ==
  ASSUME RunsOK, CoverOK, Passing \/ UNCHANGED vars
  PROVE  RunsOK' /\ CoverOK'
<1>1. reports \in Seq(Report)
  BY DEF RunsOK, PipelineTypeOK
<1>2. CASE Passing
  <2>1. /\ UNCHANGED <<request, reports, receipts, evidence, pending>> /\ at' = 0
        /\ <<phase, phase'>> \in {<<"market", "related">>, <<"related", "raised">>,
             <<"related", "feed">>, <<"walk", "feed">>, <<"remote", "raised">>,
             <<"remote", "advise">>}
    BY <1>2, PassingSteps
  <2>2. Grown /\ pending' \subseteq Ids
    BY <1>1, <2>1, KeepingIsGrowing DEF RunsOK, PipelineTypeOK
  <2>3. RunsOK'
    <3>1. /\ phase' \in Phases \ BeforeRuns /\ phase \notin BeforeRuns
          /\ phase' \in BeforeRemote => phase \in BeforeRemote
      BY <2>1 DEF Phases, BeforeRuns, BeforeRemote
    <3> QED BY <2>1, <2>2, <3>1, MappingKeepsRuns DEF Grown, Mapped, Kept
  <2>4. CoverOK'
    <3>1. phase \notin Concluding \cup Concluded /\ phase' \notin Concluding \cup Concluded
      BY <2>1 DEF Concluding, Concluded
    <3> QED BY <1>1, <2>1, <2>2, <3>1, AddingIsHonest DEF Grown
  <2> QED BY <2>3, <2>4
<1>3. CASE UNCHANGED vars
  <2>1. RunsOK'
    BY <1>3 DEF vars, RunsOK, PipelineTypeOK, Bundle, TrueReceipt, TrueEvidence, ReceiptPlaces,
       ScanPlaces, RuntimePlaces, RunsAreDone, RemoteIsLast
  <2>2. /\ UNCHANGED <<request, receipts, evidence>> /\ reports' = reports /\ phase' = phase
    BY <1>3 DEF vars
  <2>3. CoverOK'
    BY <2>2, SameAfter, SandboxSameAfter
       DEF CoverOK, BeforeCover, AfterCover, AfterFinish, BehavedIsTrue, AllCandid
  <2> QED BY <2>1, <2>3
<1> QED BY <1>2, <1>3

LEMMA EarlyKeepsCover ==
  ASSUME RunsOK, CoverOK, ScanLocal \/ RegisterIds \/ RunLocal \/ RunsDone
  PROVE  CoverOK'
<1>1. /\ reports \in Seq(Report) /\ request' = request
      /\ phase \notin Concluding \cup Concluded /\ phase' \notin Concluding \cup Concluded
  BY DEF RunsOK, PipelineTypeOK, ScanLocal, RegisterIds, RunLocal, RunsDone, Goto, Concluding,
     Concluded
<1>2. /\ reports' \in Seq(Report)
      /\ \A i \in DOMAIN reports : i \in DOMAIN reports' /\ reports'[i] = reports[i]
      /\ \A i \in DOMAIN reports' \ DOMAIN reports : Fresh(reports'[i])
  <2>1. CASE ScanLocal
    <3>1. PICK r \in Report : reports' = Append(reports, r) /\ Fresh(r)
      BY <2>1, LocalReport
    <3>2. /\ reports' \in Seq(Report) /\ Len(reports') = Len(reports) + 1
          /\ \A i \in DOMAIN reports : reports'[i] = reports[i]
          /\ reports'[Len(reports) + 1] = r /\ Len(reports) \in Nat
      BY <1>1, <3>1, AppendedReports
    <3>3. DOMAIN reports' = DOMAIN reports \cup {Len(reports) + 1}
      BY <1>1, <3>2
    <3> QED BY <3>1, <3>2, <3>3
  <2>2. CASE RegisterIds
    <3>1. /\ reports' \in Seq(Report)
          /\ Len(reports') = Len(reports) + Len(request.ids)
          /\ Len(reports) \in Nat /\ Len(request.ids) \in Nat
          /\ \A i \in DOMAIN reports : reports'[i] = reports[i]
          /\ \A i \in DOMAIN reports' \ DOMAIN reports : Fresh(reports'[i])
      BY <2>2, RegisteredReports
    <3>2. DOMAIN reports \subseteq DOMAIN reports'
      BY <1>1, <3>1
    <3> QED BY <3>1, <3>2
  <2>3. CASE RunLocal \/ RunsDone
    BY <1>1, <2>3 DEF RunLocal, RunsDone
  <2> QED BY <2>1, <2>2, <2>3
<1>3. \A i \in DOMAIN reports : i \in DOMAIN reports' /\ Grows(reports[i], reports'[i])
  BY <1>2 DEF Grows, SameOrigin
<1> QED BY <1>1, <1>2, <1>3, AddingIsHonest

LEMMA CoverStep ==
  ASSUME RunsOK, CoverOK, [Next]_vars
  PROVE  RunsOK' /\ CoverOK'
<1>1. CASE ScanLocal
  BY <1>1, ScanLocalKeepsRuns, EarlyKeepsCover
<1>2. CASE RegisterIds
  BY <1>2, RegisterKeepsRuns, EarlyKeepsCover
<1>3. CASE RunLocal
  BY <1>3, RunLocalKeepsRuns, EarlyKeepsCover
<1>4. CASE RunsDone
  BY <1>4, RunsDoneKeepsRuns, EarlyKeepsCover
<1>5. CASE Passing \/ UNCHANGED vars
  BY <1>5, PassingKeepsRuns
<1>6. CASE Growing
  <2>1. /\ Grown /\ UNCHANGED <<request, receipts, evidence>>
        /\ at' \in Nat /\ pending' \subseteq Ids
        /\ <<phase, phase'>> \in {<<"related", "walk">>, <<"walk", "walk">>,
             <<"feed", "remote">>, <<"advise", "observe">>, <<"observe", "cover">>,
             <<"registry", "finish">>}
    BY <1>6, GrowingSteps
  <2>2. /\ phase' \in Phases \ BeforeRuns /\ phase \notin BeforeRuns
        /\ phase' \in BeforeRemote => phase \in BeforeRemote
    BY <2>1 DEF Phases, BeforeRuns, BeforeRemote
  <2>3. RunsOK'
    BY <2>1, <2>2, MappingKeepsRuns DEF Grown, Mapped, Kept
  <2> QED BY <1>6, <2>3, GrowingKeepsCover
<1>7. CASE Adding
  <2>1. /\ \E x \in Report : Newcomer(x)
        /\ request' = request /\ at' \in Nat /\ pending' \subseteq Ids
        /\ <<phase, phase'>> \in {<<"market", "market">>, <<"walk", "walk">>,
                                  <<"remote", "advise">>}
    BY <1>7, AddingSteps
  <2>2. PICK x \in Report : Newcomer(x)
    BY <2>1
  <2>3. /\ phase' \in Phases \ BeforeRuns /\ phase \notin BeforeRuns
        /\ phase' \in BeforeRemote => /\ phase \in BeforeRemote
                                      /\ x.source \notin {"remote", "artifact-url-error"}
        /\ phase \notin Concluding \cup Concluded /\ phase' \notin Concluding \cup Concluded
    BY <2>1, <2>2 DEF Phases, BeforeRuns, BeforeRemote, Newcomer, Concluding, Concluded
  <2>4. RunsOK'
    BY <2>1, <2>2, <2>3, AddingKeepsRuns DEF Newcomer
  <2>5. CoverOK'
    <3>1. /\ reports' \in Seq(Report) /\ Len(reports') = Next1 /\ reports'[Next1] = x
          /\ reports \in Seq(Report) /\ Fresh(x)
          /\ \A i \in DOMAIN reports : Grows(reports[i], reports'[i])
      BY <2>2 DEF Newcomer, Added, Kept, RunsOK, PipelineTypeOK
    <3>2. DOMAIN reports' = DOMAIN reports \cup {Next1}
      BY <3>1 DEF Next1
    <3> QED BY <2>1, <2>3, <3>1, <3>2, AddingIsHonest
  <2> QED BY <2>4, <2>5
<1>8. CASE Judging
  <2>1. /\ Reviewed /\ CoverOK'
        /\ UNCHANGED <<request, receipts, evidence, pending>> /\ at' = 0
        /\ <<phase, phase'>> \in {<<"cover", "registry">>, <<"finish", "compare">>,
                                  <<"compare", "done">>}
    BY <1>8, JudgingSteps
  <2>2. /\ phase' \in Phases \ BeforeRuns /\ phase \notin BeforeRuns
        /\ phase' \in BeforeRemote => phase \in BeforeRemote
    BY <2>1 DEF Phases, BeforeRuns, BeforeRemote
  <2>3. Mapped /\ \A i \in DOMAIN reports : SameOrigin(reports[i], reports'[i])
    BY <2>1 DEF Reviewed, Mapped, Kept
  <2>4. at' \in Nat /\ pending' \subseteq Ids
    BY <2>1 DEF RunsOK, PipelineTypeOK
  <2> QED BY <2>1, <2>2, <2>3, <2>4, MappingKeepsRuns
<1> QED
  BY <1>1, <1>2, <1>3, <1>4, <1>5, <1>6, <1>7, <1>8
     DEF Next, Passing, Growing, Adding, Judging, Ended

\* What the inductive invariant says about a finished request.
LEMMA FinishedReport ==
  ASSUME RunsOK, CoverOK, NEW r \in Listed, phase = "done"
  PROVE  /\ Judged(r) /\ Answerable(r) /\ Candid(r) /\ OwnReceipt(r)
         /\ r.behaved <=> Behaved(r)
<1>1. PICK i \in DOMAIN reports : r = reports[i]
  BY DEF Listed
<1>2. phase \notin BeforeRuns /\ phase \in Concluded
  BY DEF BeforeRuns, Concluded
<1> QED BY <1>1, <1>2, ReceiptIsOwn DEF CoverOK, AfterFinish, BehavedIsTrue, AllCandid

LEMMA CoverImpliesApproved ==
  ASSUME RunsOK, CoverOK
  PROVE  ApprovedWasAnalyzed /\ AnalyzedIsComplete
<1> SUFFICES ASSUME NEW r \in Listed, phase = "done"
             PROVE  /\ r.decision \in {"allow", "review"} /\ r.source # "registry-id"
                         => /\ \A p \in Asked(r) : Delivered(r, p)
                            /\ r.decision = "allow" => r.understood
                    /\ r.tier = "verified"
                         => /\ WasRun(r) /\ "undeclared" \notin receipts[r.inst].saw
                            /\ r.decision # "block"
                    /\ (\A p \in Asked(r) : Delivered(r, p))
                         => r.analysis = "complete" /\ r.decision # "incomplete"
  BY DEF ApprovedWasAnalyzed, AnalyzedIsComplete, Done
<1>1. /\ Judged(r) /\ Answerable(r) /\ Candid(r) /\ OwnReceipt(r)
      /\ r.behaved <=> Behaved(r)
  BY FinishedReport
<1> DEFINE missing == r.cover.limits # {}
<1>2. PICK changed \in BOOLEAN : r.decision = Decision(ClassesOf(r), missing, changed)
  BY <1>1 DEF Judged
<1>3. ASSUME r.decision \in {"allow", "review"}, r.source # "registry-id"
      PROVE  /\ \A p \in Asked(r) : Delivered(r, p)
             /\ r.decision = "allow" => r.understood
  <2>1. ~missing
    BY <1>2, <1>3 DEF Decision
  <2>2. \A p \in Asked(r) : Delivered(r, p)
    BY <1>1, <1>3, <2>1 DEF Answerable
  <2>3. r.whole
    BY <2>2 DEF Asked, Delivered
  <2>4. r.decision = "allow" => "concern" \notin ClassesOf(r)
    BY <1>2 DEF Decision, Verdict
  <2> QED BY <1>1, <2>2, <2>3, <2>4 DEF Candid
<1>4. ASSUME r.tier = "verified"
      PROVE  /\ WasRun(r) /\ "undeclared" \notin receipts[r.inst].saw
             /\ r.decision # "block"
  <2>1. r.behaved /\ ClassesOf(r) \ {"context"} = {}
    BY <1>1, <1>4 DEF Judged, TrustTier
  <2>2. r.decision # "block"
    BY <1>2, <2>1 DEF Decision, Blocking
  <2>3. SandboxResult(r) = Result("completed", TRUE) /\ "undeclared" \notin Items(r)
    BY <1>1, <2>1 DEF Behaved
  <2>4. NeedsRun(r) /\ RunCovers(r)
    BY <2>3 DEF SandboxResult, Result
  <2>5. /\ Bundle /\ HasReceipt(r) /\ receipts[r.inst].id = r.id
        /\ receipts[r.inst].required
    BY <1>1, <2>4 DEF RunsOK, NeedsRun, OwnReceipt
  <2>6. Items(r) = receipts[r.inst].saw /\ receipts[r.inst].trace
    <3>1. r \in Report
      BY DEF Listed, RunsOK, PipelineTypeOK
    <3> QED BY <2>4, <2>5, <3>1, OwnRun
  <2> QED BY <2>2, <2>3, <2>5, <2>6 DEF WasRun
<1>5. ASSUME \A p \in Asked(r) : Delivered(r, p)
      PROVE  r.analysis = "complete" /\ r.decision # "incomplete"
  BY <1>1, <1>2, <1>5 DEF Answerable, Judged, Decision
<1> QED BY <1>3, <1>4, <1>5

LEMMA CoverInit == Init => CoverOK
BY DEF Init, CoverOK, BeforeCover, AfterCover, AfterFinish, BehavedIsTrue, AllCandid,
   Concluding, Concluded

\* The inductive invariant of every phase of _scan_request: receipts, evidence
\* and places agree, and no coverage hides what was not analysed.
THEOREM ReportsAreHonest == Spec => [](RunsOK /\ CoverOK)
<1>1. Init => RunsOK /\ CoverOK
  BY RunsInit, CoverInit
<1>2. RunsOK /\ CoverOK /\ [Next]_vars => RunsOK' /\ CoverOK'
  BY CoverStep
<1> QED BY <1>1, <1>2, PTL DEF Spec

\* Approved is only what was analysed as asked, and verified only what a run of
\* the very artifact showed to be harmless.
THEOREM ApprovalsAreEarned == Spec => []ApprovedWasAnalyzed
<1>1. RunsOK /\ CoverOK => ApprovedWasAnalyzed
  BY CoverImpliesApproved
<1> QED BY <1>1, ReportsAreHonest, PTL

\* And whatever was analysed as asked is complete, and not quarantined.
THEOREM AnalysesAreHonored == Spec => []AnalyzedIsComplete
<1>1. RunsOK /\ CoverOK => AnalyzedIsComplete
  BY CoverImpliesApproved
<1> QED BY <1>1, ReportsAreHonest, PTL
-----------------------------------------------------------------------------
(* Where evidence lands. *)

\* Receipts are only added.
LEMMA ReceiptsStay ==
  ASSUME RunsOK, CoverOK, [Next]_vars
  PROVE  /\ request' = request
         /\ \A k \in DOMAIN receipts : k \in DOMAIN receipts' /\ receipts'[k] = receipts[k]
<1>1. ASSUME NEW r \in Report, RunSandbox(r), r.inst \notin DOMAIN receipts, r.inst # 0
      PROVE  \A k \in DOMAIN receipts : k \in DOMAIN receipts' /\ receipts'[k] = receipts[k]
  BY <1>1, SandboxRuns DEF RunsOK
<1>2. CASE RunLocal
  <2> DEFINE n == at + 1
             r == reports[n]
  <2>1. /\ DOMAIN receipts = 1..at /\ at \in Nat /\ at < Len(request.local)
        /\ Len(request.local) <= Len(reports) /\ reports \in Seq(Report)
        /\ Len(request.local) \in Nat
    BY <1>2, RequestFields DEF RunLocal, RunsOK, RuntimePlaces, PipelineTypeOK
  <2>2. n \in DOMAIN reports /\ n \notin DOMAIN receipts /\ n # 0
    BY <2>1
  <2>3. r \in Report /\ r.inst = n
    BY <2>1, <2>2 DEF RunsOK, PipelineTypeOK
  <2>4. RunSandbox(r) /\ request' = request
    BY <1>2 DEF RunLocal
  <2> HIDE DEF r, n
  <2> QED BY <1>1, <2>2, <2>3, <2>4
<1>3. CASE Adding
  <2>1. PICK x \in Report : Newcomer(x) /\ request' = request
    BY <1>3, AddingSteps
  <2>2. CASE KeepRuns
    BY <2>1, <2>2 DEF KeepRuns
  <2>3. ASSUME NEW r \in Report, RunSandbox(r), r = x \/ r.inst = -Next1
        PROVE  \A k \in DOMAIN receipts : k \in DOMAIN receipts' /\ receipts'[k] = receipts[k]
    <3>1. x.inst = Next1 /\ Next1 = Len(reports) + 1 /\ Len(reports) \in Nat
      BY <2>1 DEF Newcomer, Added, Next1, RunsOK, PipelineTypeOK
    <3>2. \A k \in DOMAIN receipts : k \in Int /\ k <= Len(reports) /\ -k <= Len(reports)
      BY DEF RunsOK, ReceiptPlaces, Bundle
    <3>3. r.inst \notin DOMAIN receipts /\ r.inst # 0
      BY <2>3, <3>1, <3>2
    <3> QED BY <1>1, <2>3, <3>3
  <2> QED BY <2>1, <2>2, <2>3 DEF Newcomer, RunsWith
<1>4. CASE Passing
  BY <1>4, PassingSteps
<1>5. CASE Growing
  BY <1>5, GrowingSteps
<1>6. CASE Judging
  BY <1>6, JudgingSteps
<1>7. CASE ScanLocal \/ RegisterIds \/ RunsDone \/ UNCHANGED vars
  BY <1>7 DEF ScanLocal, RegisterIds, RunsDone, KeepRuns, vars
<1> QED
  BY <1>2, <1>3, <1>4, <1>5, <1>6, <1>7
     DEF Next, Passing, Growing, Adding, Judging, Ended

\* Evidence that lands on a report is from a run of its extension.
LEMMA LandedIsOwn ==
  ASSUME RunsOK, NEW k \in DOMAIN evidence, NEW i \in DOMAIN reports, LandsOn(k, i)
  PROVE  LET of == evidence[k].of IN
         of \in DOMAIN receipts /\ receipts[of].id = reports[i].id
<1> DEFINE of == evidence[k].of
<1>1. /\ of \in DOMAIN receipts /\ k \in {of, receipts[of].id}
      /\ receipts[of].id \in Names /\ of \in Int
  BY DEF RunsOK, Bundle, TrueEvidence, ReceiptRecord
<1>2. i \in Nat /\ i > 0 /\ reports[i].inst = i /\ reports[i].id \in Names
  <2>1. reports \in Seq(Report) /\ reports[i].inst = i
    BY DEF RunsOK, PipelineTypeOK
  <2>2. reports[i] \in Report /\ i \in 1..Len(reports) /\ Len(reports) \in Nat
    BY <2>1
  <2>3. reports[i].id \in Names
    BY <2>2 DEF Report
  <2> QED BY <2>1, <2>2, <2>3
<1>3. CASE reports[i].inst = k
  <2>1. k = of
    BY <1>1, <1>2, <1>3, NamesAreNoPlaces
  <2> QED BY <1>1, <1>2, <1>3, <2>1 DEF RunsOK, ReceiptPlaces
<1>4. CASE IsLast(i, k)
  <2>1. k \in Names
    BY <1>2, <1>4 DEF IsLast
  <2>2. k = receipts[of].id
    BY <1>1, <2>1, NamesAreNoPlaces
  <2> QED BY <1>1, <1>4, <2>2 DEF IsLast
<1> QED BY <1>3, <1>4 DEF LandsOn

OwnEvidence(r) == \A f \in r.found : f.of # 0 => f.of \in DOMAIN receipts /\ receipts[f.of].id = r.id
EvidenceOK == \A i \in DOMAIN reports : OwnEvidence(reports[i])

LEMMA EvidenceStep ==
  ASSUME RunsOK, CoverOK, EvidenceOK, [Next]_vars
  PROVE  EvidenceOK'
<1> SUFFICES ASSUME NEW i \in DOMAIN reports', NEW f \in reports'[i].found, f.of # 0
             PROVE  f.of \in DOMAIN receipts' /\ receipts'[f.of].id = reports'[i].id
  BY DEF EvidenceOK, OwnEvidence
<1>1. \A k \in DOMAIN receipts : k \in DOMAIN receipts' /\ receipts'[k] = receipts[k]
  BY ReceiptsStay
<1>2. reports \in Seq(Report) /\ RunsOK'
  BY CoverStep DEF RunsOK, PipelineTypeOK
\* What was found earlier stays true.
<1>3. ASSUME i \in DOMAIN reports, reports'[i].id = reports[i].id, f \in reports[i].found
      PROVE  f.of \in DOMAIN receipts' /\ receipts'[f.of].id = reports'[i].id
  BY <1>1, <1>3 DEF EvidenceOK, OwnEvidence
<1>4. ASSUME i \in DOMAIN reports, reports'[i].id = reports[i].id,
             f \in reports[i].found \/ f.of = 0
      PROVE  f.of \in DOMAIN receipts' /\ receipts'[f.of].id = reports'[i].id
  BY <1>3, <1>4
<1>5. CASE ScanLocal
  <2>1. PICK r \in Report : reports' = Append(reports, r) /\ Fresh(r)
    BY <1>5, LocalReport
  <2>2. /\ Len(reports') = Len(reports) + 1 /\ Len(reports) \in Nat /\ reports' \in Seq(Report)
        /\ \A j \in DOMAIN reports : reports'[j] = reports[j]
        /\ reports'[Len(reports) + 1] = r
    BY <1>2, <2>1, AppendedReports
  <2>3. i \in DOMAIN reports \/ i = Len(reports) + 1
    BY <1>2, <2>2
  <2> QED BY <1>3, <2>1, <2>2, <2>3 DEF Fresh
<1>6. CASE RegisterIds
  <2>1. /\ \A j \in DOMAIN reports : reports'[j] = reports[j]
        /\ \A j \in DOMAIN reports' \ DOMAIN reports : Fresh(reports'[j])
    BY <1>6, RegisteredReports
  <2> QED BY <1>3, <2>1 DEF Fresh
<1>7. CASE RunLocal \/ RunsDone \/ UNCHANGED vars \/ Passing
  <2>1. reports' = reports
    BY <1>7, PassingSteps DEF RunLocal, RunsDone, vars
  <2> QED BY <1>3, <2>1
<1>8. CASE Adding
  <2>1. PICK x \in Report : Newcomer(x)
    BY <1>8, AddingSteps
  <2>2. /\ reports' \in Seq(Report) /\ Len(reports') = Next1 /\ reports'[Next1] = x /\ Fresh(x)
        /\ \A j \in DOMAIN reports : SameOrigin(reports[j], reports'[j])
    BY <2>1 DEF Newcomer, Added, Kept
  <2>3. i \in DOMAIN reports \/ i = Next1
    BY <1>2, <2>2 DEF Next1
  <2>4. ASSUME i \in DOMAIN reports
        PROVE  reports'[i].found = reports[i].found
    <3>1. CASE ScanMarket \/ ScanRemote
      <4>1. \E y \in Report : reports' = Append(reports, y)
        BY <3>1, MarketReport, RemoteReport
      <4> QED BY <1>2, <2>4, <4>1, AppendedReports
    <3>2. CASE ScanRelated
      BY <2>4, <3>2, RelatedReport
    <3> QED BY <1>8, <3>1, <3>2 DEF Adding
  <2> QED BY <1>3, <2>2, <2>3, <2>4 DEF Fresh, SameOrigin
<1>9. CASE Growing
  <2>1. /\ DOMAIN reports' = DOMAIN reports /\ request.feed \in SUBSET Hits
        /\ request.registry \in SUBSET Hits /\ pending \subseteq Ids /\ Bundle
        /\ \A j \in DOMAIN reports : SameOrigin(reports[j], reports'[j])
        /\ UNCHANGED <<request, receipts, evidence>>
    BY <1>2, <1>9, GrowingSteps, RequestFields
       DEF Grown, Mapped, Kept, RunsOK, PipelineTypeOK, Request
  <2>2. CASE PlanRelated \/ LimitReached
    <3>1. reports'[i].found = reports[i].found
      BY <1>2, <2>1, <2>2, PlanGrows, LimitGrows
    <3> QED BY <1>3, <2>1, <3>1 DEF SameOrigin
  <2>3. CASE ApplyFeed
    <3>1. reports'[i].found = reports[i].found \cup
            {[class |-> h.class, of |-> 0] : h \in {h \in request.feed : IsLast(i, h.id)}}
      BY <1>2, <2>1, <2>3, HitsGrow DEF ApplyFeed
    <3> QED BY <1>4, <2>1, <3>1 DEF SameOrigin
  <2>4. CASE ApplyRegistry
    <3>1. reports'[i].found = reports[i].found \cup
            {[class |-> h.class, of |-> 0] : h \in {h \in request.registry : IsLast(i, h.id)}}
      BY <1>2, <2>1, <2>4, HitsGrow DEF ApplyRegistry
    <3> QED BY <1>4, <2>1, <3>1 DEF SameOrigin
  <2>5. CASE ApplyAdvisories
    <3>1. f \in reports[i].found \/ f.of = 0
      BY <1>2, <2>1, <2>5, AdvisoriesGrow
    <3> QED BY <1>4, <2>1, <3>1 DEF SameOrigin
  <2>6. CASE ApplyObservations
    <3>1. reports'[i].found = reports[i].found \cup
            UNION {Observed(k) : k \in {k \in DOMAIN evidence : LandsOn(k, i)}}
      BY <1>2, <2>1, <2>6, ObservationsGrow
    <3>2. CASE f \in reports[i].found
      BY <1>3, <2>1, <3>2 DEF SameOrigin
    <3>3. CASE f \notin reports[i].found
      <4>1. PICK k \in DOMAIN evidence : LandsOn(k, i) /\ f \in Observed(k)
        BY <3>1, <3>3
      <4>2. f.of = evidence[k].of
        BY <4>1 DEF Observed
      <4>3. f.of \in DOMAIN receipts /\ receipts[f.of].id = reports[i].id
        BY <2>1, <4>1, <4>2, LandedIsOwn
      <4> QED BY <2>1, <4>3 DEF SameOrigin
    <3> QED BY <3>2, <3>3
  <2> QED BY <1>9, <2>2, <2>3, <2>4, <2>5, <2>6 DEF Growing
<1>10. CASE Judging
  <2>1. /\ DOMAIN reports' = DOMAIN reports /\ reports'[i].found = reports[i].found
        /\ reports'[i].id = reports[i].id
    BY <1>2, <1>10, JudgingSteps DEF Reviewed, Mapped, Kept, SameOrigin
  <2> QED BY <1>3, <2>1
<1> QED
  BY <1>5, <1>6, <1>7, <1>8, <1>9, <1>10 DEF Next, Passing, Growing, Adding, Judging, Ended

\* No finding is held against an extension but its own, nor against an artifact
\* that never ran.
THEOREM EvidenceIsOwn == Spec => []EvidenceKeepsItsExtension
<1>1. Init => EvidenceOK
  BY DEF Init, EvidenceOK
<1>2. RunsOK /\ CoverOK /\ EvidenceOK /\ [Next]_vars => EvidenceOK'
  BY EvidenceStep
<1>3. EvidenceOK => EvidenceKeepsItsExtension
  BY DEF EvidenceOK, OwnEvidence, EvidenceKeepsItsExtension, Listed
<1> QED BY <1>1, <1>2, <1>3, ReportsAreHonest, PTL DEF Spec
-----------------------------------------------------------------------------
(* Danger is not forgotten. *)

\* A place that counts has a last one of its id.
LEMMA LastExists ==
  ASSUME reports \in Seq(Report), NEW i \in DOMAIN reports
  PROVE  \E j \in DOMAIN reports : IsLast(j, reports[i].id)
<1> DEFINE n == Len(reports)
           id == reports[i].id
           rest == {n - j : j \in {j \in DOMAIN reports : reports[j].id = id}}
<1>1. n \in Nat /\ DOMAIN reports = 1..n
  OBVIOUS
<1>2. rest \subseteq Nat /\ rest # {}
  BY <1>1
<1>3. PICK m \in rest : \A k \in rest : ~(<<k, m>> \in OpToRel(<, Nat))
  BY <1>2, NatLessThanWellFounded, WFMin
<1>4. \A k \in rest : ~(k < m)
  BY <1>2, <1>3 DEF OpToRel
<1>5. PICK j \in DOMAIN reports : reports[j].id = id /\ m = n - j
  BY <1>3
<1>6. ASSUME NEW k \in DOMAIN reports, k > j, reports[k].id = id
      PROVE  FALSE
  <2>1. n - k \in rest
    BY <1>6
  <2>2. n \in Nat /\ k \in Nat /\ j \in Nat
    BY <1>1
  <2>3. n - k < n - j
    <3> HIDE DEF n
    <3> QED BY <1>6, <2>2
  <2>4. ~(n - k < m)
    BY <1>4, <2>1
  <2> QED BY <1>5, <2>3, <2>4
<1> QED BY <1>5, <1>6 DEF IsLast

\* No report is lost or changes its id, and no finding is lost.  Reports are
\* added in four phases only, and the last of them adds no requested target.
LEMMA ReportsStay ==
  ASSUME RunsOK, CoverOK, [Next]_vars
  PROVE  /\ \A i \in DOMAIN reports :
              /\ i \in DOMAIN reports'
              /\ SameOrigin(reports[i], reports'[i])
              /\ reports[i].found \subseteq reports'[i].found
         /\ \A i \in DOMAIN reports' \ DOMAIN reports :
              /\ phase \in {"scan", "market", "walk", "remote"}
              /\ phase = "remote" => reports'[i].source \in {"remote", "artifact-url-error"}
<1>1. reports \in Seq(Report) /\ reports' \in Seq(Report)
  BY CoverStep DEF RunsOK, PipelineTypeOK
<1>2. CASE ScanLocal \/ RegisterIds
  <2>1. phase = "scan" /\ Len(reports) <= Len(reports')
        /\ \A i \in DOMAIN reports : reports'[i] = reports[i]
    <3>1. CASE ScanLocal
      <4>1. \E r \in Report : reports' = Append(reports, r)
        BY <3>1, LocalReport
      <4> QED BY <1>1, <3>1, <4>1, AppendedReports DEF ScanLocal
    <3>2. CASE RegisterIds
      <4>1. /\ Len(reports') = Len(reports) + Len(request.ids)
            /\ Len(reports) \in Nat /\ Len(request.ids) \in Nat
            /\ \A i \in DOMAIN reports : reports'[i] = reports[i]
        BY <3>2, RegisteredReports
      <4> QED BY <3>2, <4>1 DEF RegisterIds
    <3> QED BY <1>2, <3>1, <3>2
  <2>2. DOMAIN reports \subseteq DOMAIN reports'
    BY <1>1, <2>1
  <2> QED BY <2>1, <2>2 DEF SameOrigin
<1>3. CASE RunLocal \/ RunsDone \/ UNCHANGED vars \/ Passing
  <2>1. reports' = reports
    BY <1>3, PassingSteps DEF RunLocal, RunsDone, vars
  <2> QED BY <2>1 DEF SameOrigin
<1>4. CASE Adding
  <2>1. PICK x \in Report : Newcomer(x)
    BY <1>4, AddingSteps
  <2>2. phase \in {"market", "walk", "remote"}
    BY <1>4, AddingSteps
  <2>3. /\ Len(reports') = Next1 /\ reports'[Next1] = x
        /\ \A i \in DOMAIN reports : Grows(reports[i], reports'[i])
        /\ x.source \in {"remote", "artifact-url-error"} <=> phase = "remote"
    BY <2>1 DEF Newcomer, Added
  <2>4. DOMAIN reports' = DOMAIN reports \cup {Next1}
    BY <1>1, <2>3 DEF Next1
  <2> QED BY <2>2, <2>3, <2>4 DEF Grows
<1>5. CASE Growing
  <2>1. Grown
    BY <1>5, GrowingSteps
  <2>2. DOMAIN reports' = DOMAIN reports
    BY <1>1, <2>1 DEF Grown, Mapped, Kept
  <2> QED BY <2>1, <2>2 DEF Grown, Grows
<1>6. CASE Judging
  <2>1. Reviewed
    BY <1>6, JudgingSteps
  <2>2. DOMAIN reports' = DOMAIN reports
    BY <1>1, <2>1 DEF Reviewed, Mapped, Kept
  <2> QED BY <2>1, <2>2 DEF Reviewed, Mapped, Kept
<1> QED
  BY <1>2, <1>3, <1>4, <1>5, <1>6 DEF Next, Passing, Growing, Adding, Judging, Ended
\* A finding of the class is held against the id.
Blamed(id, class) ==
    \E j \in DOMAIN reports : reports[j].id = id /\ class \in ClassesOf(reports[j])
BlamedNext(id, class) ==
    \E j \in DOMAIN reports' : reports'[j].id = id /\ class \in ClassesOf(reports'[j])

AfterRegistry == {"finish", "compare", "done"}
AfterObserve  == AfterRegistry \cup {"cover", "registry"}
AfterFeed     == AfterObserve \cup {"remote", "advise", "observe"}

\* Each source of evidence holds against the id what it has, once it was asked.
FeedBlames ==
    phase \in AfterFeed =>
      \A i \in DOMAIN reports :
        /\ reports[i].source \notin {"remote", "artifact-url-error"}
        /\ [id |-> reports[i].id, class |-> "confirmed"] \in request.feed
        => Blamed(reports[i].id, "confirmed")
RunsBlame ==
    phase \in AfterObserve =>
      \A i \in DOMAIN reports :
        i \in DOMAIN receipts /\ "abuse" \in receipts[i].saw => Blamed(reports[i].id, "abuse")
RegistryBlames ==
    phase \in AfterRegistry =>
      \A i \in DOMAIN reports :
        [id |-> reports[i].id, class |-> "confirmed"] \in request.registry
          => Blamed(reports[i].id, "confirmed")

DangerOK == FeedBlames /\ RunsBlame /\ RegistryBlames

LEMMA BlameStays ==
  ASSUME RunsOK, CoverOK, [Next]_vars, NEW id, NEW class, Blamed(id, class)
  PROVE  BlamedNext(id, class)
<1>1. PICK j \in DOMAIN reports : reports[j].id = id /\ class \in ClassesOf(reports[j])
  BY DEF Blamed
<1>2. /\ j \in DOMAIN reports' /\ reports'[j].id = reports[j].id
      /\ reports[j].found \subseteq reports'[j].found
  BY ReportsStay DEF SameOrigin
<1>3. class \in ClassesOf(reports'[j])
  BY <1>1, <1>2 DEF ClassesOf
<1> QED BY <1>1, <1>2, <1>3 DEF BlamedNext

\* What is reported for an id reaches a report of the id.
LEMMA HitsBlame ==
  ASSUME reports \in Seq(Report), NEW hits \in SUBSET Hits, NEW i \in DOMAIN reports,
         reports' = [j \in DOMAIN reports |-> WithHits(j, hits)],
         [id |-> reports[i].id, class |-> "confirmed"] \in hits
  PROVE  BlamedNext(reports[i].id, "confirmed")
<1> DEFINE hit == [id |-> reports[i].id, class |-> "confirmed"]
<1>1. PICK j \in DOMAIN reports : IsLast(j, reports[i].id)
  BY LastExists
<1>2. /\ DOMAIN reports' = DOMAIN reports /\ reports'[j].id = reports[j].id
      /\ reports'[j].found = reports[j].found \cup
           {[class |-> h.class, of |-> 0] : h \in {h \in hits : IsLast(j, h.id)}}
  BY HitsGrow DEF Grown, Mapped, Kept, SameOrigin
<1>3. [class |-> hit.class, of |-> 0] \in reports'[j].found
  <2>1. hit \in {h \in hits : IsLast(j, h.id)}
    BY <1>1
  <2> HIDE DEF hit
  <2> QED BY <1>2, <2>1
<1>4. "confirmed" \in ClassesOf(reports'[j])
  BY <1>3 DEF ClassesOf
<1> QED BY <1>1, <1>2, <1>4 DEF BlamedNext, IsLast

\* And what a run of a listed artifact showed reaches a report of its id.
LEMMA RunsReach ==
  ASSUME RunsOK, ApplyObservations, NEW i \in DOMAIN reports, i \in DOMAIN receipts,
         "abuse" \in receipts[i].saw
  PROVE  BlamedNext(reports[i].id, "abuse")
<1>1. /\ reports \in Seq(Report) /\ Bundle /\ reports[i].inst = i /\ i > 0
      /\ TrueReceipt(i) /\ receipts[i].id = reports[i].id
  BY DEF RunsOK, PipelineTypeOK, Bundle, ReceiptPlaces
<1>2. PICK e \in DOMAIN evidence : e \in {i, reports[i].id} /\ evidence[e].of = i
  <2>1. receipts[i].required
    BY <1>1 DEF TrueReceipt
  <2> QED BY <1>1, <2>1 DEF TrueReceipt
<1>3. evidence[e].saw = receipts[i].saw
  BY <1>1, <1>2 DEF Bundle, TrueEvidence
<1>4. PICK j \in DOMAIN reports : LandsOn(e, j) /\ reports[j].id = reports[i].id
  <2>1. CASE e = i
    BY <1>1, <2>1 DEF LandsOn
  <2>2. CASE e = reports[i].id
    <3>1. PICK j \in DOMAIN reports : IsLast(j, reports[i].id)
      BY <1>1, LastExists
    <3> QED BY <2>2, <3>1 DEF LandsOn, IsLast
  <2> QED BY <1>2, <2>1, <2>2
<1>5. [class |-> "abuse", of |-> evidence[e].of] \in Observed(e)
  <2>1. ClassOfKind("abuse") = "abuse"
    BY DEF ClassOfKind
  <2> QED BY <1>3, <2>1 DEF Observed
<1>6. /\ DOMAIN reports' = DOMAIN reports /\ reports'[j].id = reports[j].id
      /\ Observed(e) \subseteq reports'[j].found
  <2>1. reports'[j].found = reports[j].found \cup
          UNION {Observed(k) : k \in {k \in DOMAIN evidence : LandsOn(k, j)}}
    BY <1>1, ObservationsGrow
  <2>2. DOMAIN reports' = DOMAIN reports /\ reports'[j].id = reports[j].id
    BY <1>1, ObservationsGrow DEF Grown, Mapped, Kept, SameOrigin
  <2> QED BY <1>4, <2>1, <2>2
<1>7. "abuse" \in ClassesOf(reports'[j])
  BY <1>5, <1>6 DEF ClassesOf
<1> QED BY <1>4, <1>6, <1>7 DEF BlamedNext

\* A source is asked once, and nothing runs after the remote artifact.
LEMMA SourcesAreAsked ==
  ASSUME RunsOK, CoverOK, [Next]_vars
  PROVE  /\ phase' \in AfterFeed => phase \in AfterFeed \/ ApplyFeed
         /\ phase' \in AfterObserve => phase \in AfterObserve \/ ApplyObservations
         /\ phase' \in AfterRegistry => phase \in AfterRegistry \/ ApplyRegistry
         /\ phase \in AfterObserve => UNCHANGED receipts
<1> USE DEF AfterFeed, AfterObserve, AfterRegistry
<1>1. CASE ScanLocal \/ RegisterIds \/ RunLocal \/ RunsDone \/ UNCHANGED vars
  BY <1>1 DEF ScanLocal, RegisterIds, RunLocal, RunsDone, Goto, vars
<1>2. CASE Passing
  BY <1>2, PassingSteps
<1>3. CASE Adding
  BY <1>3, AddingSteps
<1>4. CASE Judging
  BY <1>4, JudgingSteps
<1>5. CASE Growing
  <2>1. /\ UNCHANGED receipts
        /\ <<phase, phase'>> \in {<<"related", "walk">>, <<"walk", "walk">>,
             <<"feed", "remote">>, <<"advise", "observe">>, <<"observe", "cover">>,
             <<"registry", "finish">>}
    BY <1>5, GrowingSteps
  <2>2. /\ phase = "feed" => ApplyFeed
        /\ phase = "observe" => ApplyObservations
        /\ phase = "registry" => ApplyRegistry
    BY <1>5 DEF Growing, PlanRelated, LimitReached, ApplyFeed, ApplyAdvisories,
                ApplyObservations, ApplyRegistry, Step
  <2> QED BY <2>1, <2>2
<1> QED
  BY <1>1, <1>2, <1>3, <1>4, <1>5 DEF Next, Passing, Growing, Adding, Judging, Ended

LEMMA DangerStep ==
  ASSUME RunsOK, CoverOK, DangerOK, [Next]_vars
  PROVE  DangerOK'
<1>1. /\ reports \in Seq(Report) /\ request' = request
      /\ request.feed \in SUBSET Hits /\ request.registry \in SUBSET Hits
      /\ \A k \in DOMAIN receipts : k \in DOMAIN receipts' /\ receipts'[k] = receipts[k]
  BY ReceiptsStay, RequestFields DEF RunsOK, PipelineTypeOK, Request
\* A report that is still there is blamed as before.
<1>2. ASSUME NEW i \in DOMAIN reports, NEW class, Blamed(reports[i].id, class)
      PROVE  BlamedNext(reports'[i].id, class)
  <2>1. reports'[i].id = reports[i].id
    BY ReportsStay DEF SameOrigin
  <2> QED BY <1>2, <2>1, BlameStays
<1>3. ASSUME NEW i \in DOMAIN reports', phase \in AfterFeed,
             phase \in AfterObserve \/ reports'[i].source \notin {"remote", "artifact-url-error"}
      PROVE  i \in DOMAIN reports
  BY <1>3, ReportsStay DEF AfterFeed, AfterObserve, AfterRegistry
<1>4. ASSUME phase' \in AfterFeed, NEW i \in DOMAIN reports',
             reports'[i].source \notin {"remote", "artifact-url-error"},
             [id |-> reports'[i].id, class |-> "confirmed"] \in request.feed
      PROVE  BlamedNext(reports'[i].id, "confirmed")
  <2>1. CASE phase \in AfterFeed
    <3>1. i \in DOMAIN reports
      BY <1>3, <1>4, <2>1
    <3>2. reports'[i].id = reports[i].id /\ reports'[i].source = reports[i].source
      BY <3>1, ReportsStay DEF SameOrigin
    <3>3. Blamed(reports[i].id, "confirmed")
      BY <1>4, <2>1, <3>1, <3>2 DEF DangerOK, FeedBlames
    <3> QED BY <1>2, <3>1, <3>3
  <2>2. CASE ApplyFeed
    <3>1. reports' = [j \in DOMAIN reports |-> WithHits(j, request.feed)]
      BY <2>2 DEF ApplyFeed
    <3>2. i \in DOMAIN reports /\ reports'[i].id = reports[i].id
      BY <3>1, ReportsStay DEF SameOrigin
    <3> QED BY <1>1, <1>4, <3>1, <3>2, HitsBlame
  <2> QED BY <1>4, <2>1, <2>2, SourcesAreAsked
<1>5. ASSUME phase' \in AfterObserve, NEW i \in DOMAIN reports', i \in DOMAIN receipts',
             "abuse" \in receipts'[i].saw
      PROVE  BlamedNext(reports'[i].id, "abuse")
  <2>1. CASE phase \in AfterObserve
    <3>1. i \in DOMAIN reports /\ receipts' = receipts
      BY <1>3, <2>1, SourcesAreAsked DEF AfterFeed
    <3>2. Blamed(reports[i].id, "abuse")
      BY <1>5, <2>1, <3>1 DEF DangerOK, RunsBlame
    <3> QED BY <1>2, <3>1, <3>2
  <2>2. CASE ApplyObservations
    <3>1. DOMAIN reports' = DOMAIN reports /\ receipts' = receipts
      BY <1>1, <2>2, ObservationsGrow
         DEF Grown, Mapped, Kept, ApplyObservations, Step, KeepRuns, RunsOK
    <3>2. reports'[i].id = reports[i].id
      BY <3>1, ReportsStay DEF SameOrigin
    <3> QED BY <1>5, <2>2, <3>1, <3>2, RunsReach
  <2> QED BY <1>5, <2>1, <2>2, SourcesAreAsked
<1>6. ASSUME phase' \in AfterRegistry, NEW i \in DOMAIN reports',
             [id |-> reports'[i].id, class |-> "confirmed"] \in request.registry
      PROVE  BlamedNext(reports'[i].id, "confirmed")
  <2>1. CASE phase \in AfterRegistry
    <3>1. i \in DOMAIN reports
      BY <1>3, <2>1 DEF AfterFeed, AfterObserve
    <3>2. reports'[i].id = reports[i].id
      BY <3>1, ReportsStay DEF SameOrigin
    <3>3. Blamed(reports[i].id, "confirmed")
      BY <1>6, <2>1, <3>1, <3>2 DEF DangerOK, RegistryBlames
    <3> QED BY <1>2, <3>1, <3>3
  <2>2. CASE ApplyRegistry
    <3>1. reports' = [j \in DOMAIN reports |-> WithHits(j, request.registry)]
      BY <2>2 DEF ApplyRegistry
    <3>2. i \in DOMAIN reports /\ reports'[i].id = reports[i].id
      BY <3>1, ReportsStay DEF SameOrigin
    <3> QED BY <1>1, <1>6, <3>1, <3>2, HitsBlame
  <2> QED BY <1>6, <2>1, <2>2, SourcesAreAsked
<1>7. FeedBlames'
  BY <1>1, <1>4 DEF FeedBlames, Blamed, BlamedNext, ClassesOf
<1>8. RunsBlame'
  BY <1>5 DEF RunsBlame, Blamed, BlamedNext, ClassesOf
<1>9. RegistryBlames'
  BY <1>1, <1>6 DEF RegistryBlames, Blamed, BlamedNext, ClassesOf
<1> QED BY <1>7, <1>8, <1>9 DEF DangerOK

\* Whatever is known to be dangerous is blocked, and is published as blocked.
THEOREM DangerIsBlocked == Spec => []DangerBlocks
<1>1. Init => DangerOK
  BY DEF Init, DangerOK, FeedBlames, RunsBlame, RegistryBlames, AfterFeed, AfterObserve,
         AfterRegistry
<1>2. RunsOK /\ CoverOK /\ DangerOK /\ [Next]_vars => DangerOK'
  BY DangerStep
<1>3. RunsOK /\ CoverOK /\ DangerOK => DangerBlocks
  <2> SUFFICES ASSUME RunsOK, CoverOK, DangerOK, phase = "done", NEW r \in Listed,
                      \/ HasReceipt(r) /\ "abuse" \in receipts[r.inst].saw
                      \/ [id |-> r.id, class |-> "confirmed"] \in request.registry
                      \/ /\ [id |-> r.id, class |-> "confirmed"] \in request.feed
                         /\ r.source \notin {"remote", "artifact-url-error"}
               PROVE  \E b \in Listed :
                        /\ b.id = r.id /\ b.decision = "block"
                        /\ b.outcome \in {"confirmed_threat", "preventive_block"}
    BY DEF DangerBlocks, Done
  <2>1. PICK i \in DOMAIN reports : r = reports[i]
    BY DEF Listed
  <2>2. reports[i].inst = i /\ phase \in AfterFeed /\ phase \in AfterObserve
        /\ phase \in AfterRegistry
    BY DEF RunsOK, PipelineTypeOK, AfterFeed, AfterObserve, AfterRegistry
  <2>3. \E class \in Blocking : Blamed(r.id, class)
    BY <2>1, <2>2 DEF DangerOK, FeedBlames, RunsBlame, RegistryBlames, HasReceipt, Blocking
  <2>4. PICK j \in DOMAIN reports :
          reports[j].id = r.id /\ Blocking \cap ClassesOf(reports[j]) # {}
    BY <2>3 DEF Blamed
  <2> DEFINE b == reports[j]
             first == Decision(ClassesOf(b), b.cover.limits # {}, FALSE)
  <2>5. b \in Listed /\ b.id = r.id
    BY <2>4 DEF Listed
  <2>6. Judged(b)
    BY <2>5, FinishedReport
  <2>7. first = "block" /\ b.decision = "block"
    BY <2>4, <2>6 DEF Judged, Decision
  <2>8. b.outcome = PublicOutcome("block", ClassesOf(b))
    BY <2>6, <2>7 DEF Judged
  <2> QED BY <2>5, <2>7, <2>8 DEF PublicOutcome
<1> QED BY <1>1, <1>2, <1>3, ReportsAreHonest, PTL DEF Spec
-----------------------------------------------------------------------------
(* Relationships. *)

BeforePlan == {"scan", "runtime", "market", "related"}
AfterWalk  == AfterFeed \cup {"feed"}

Children == {i \in DOMAIN reports : reports[i].child}
AnswersOf(i, d) == {x \in reports[i].answers : x.id = d}

\* A target whose relationships are followed.
Target(i) == ~reports[i].child /\ reports[i].source # "remote"

Truthful(i, d, status) ==
    /\ status = "self" <=> d = reports[i].id
    /\ status \in {"scanned", "already"} =>
         \E j \in DOMAIN reports : /\ reports[j].id = d /\ reports[j].source = "marketplace"
                                   /\ reports[j].child <=> status = "scanned"
    /\ status = "failed" => \E j \in DOMAIN reports : reports[j].id = d /\ reports[j].child
    /\ status = "limit" => Cardinality(Children) = MaxRelated

\* The relationship has its one answer, or it still waits for it.
Told(i, d) ==
    \E status \in Answers :
      AnswersOf(i, d) = {[id |-> d, status |-> status]} /\ Truthful(i, d, status)
Open(i, d) ==
    phase = "walk" /\ d \in pending /\ d # reports[i].id /\ AnswersOf(i, d) = {}

NothingYet ==
    phase \in BeforePlan =>
      \A i \in DOMAIN reports : reports[i].answers = {} /\ ~reports[i].child
WalkCounts == phase = "walk" => at = Cardinality(Children) /\ at <= MaxRelated
PendingIsNew ==
    phase = "walk" =>
      \A d \in pending, i \in DOMAIN reports :
        reports[i].id = d => ~reports[i].child /\ reports[i].source # "marketplace"
ChildrenAreAlone ==
    \A i, j \in DOMAIN reports :
      i # j /\ reports[i].child /\ reports[i].id = reports[j].id
        => ~reports[j].child /\ reports[j].source # "marketplace"
AllTold ==
    request.related /\ phase \in AfterWalk \cup {"walk"} =>
      \A i \in DOMAIN reports :
        Target(i) => \A d \in reports[i].declares : Told(i, d) \/ Open(i, d)

RelatedOK == NothingYet /\ WalkCounts /\ PendingIsNew /\ ChildrenAreAlone /\ AllTold

LEMMA ChildrenAreFinite ==
  ASSUME reports \in Seq(Report)
  PROVE  IsFiniteSet(Children)
<1>1. IsFiniteSet(DOMAIN reports)
  BY FS_Interval
<1> QED BY <1>1, FS_Subset DEF Children

\* An answer stays true as long as no child is added.
LEMMA TruthStays ==
  ASSUME \A j \in DOMAIN reports : j \in DOMAIN reports' /\ SameOrigin(reports[j], reports'[j]),
         NEW i \in DOMAIN reports, NEW d, NEW status \in Answers, Truthful(i, d, status),
         Children' = Children \/ status # "limit"
  PROVE  Truthful(i, d, status)'
BY DEF Truthful, SameOrigin

\* And so does what was told.
LEMMA ToldStays ==
  ASSUME \A j \in DOMAIN reports : j \in DOMAIN reports' /\ SameOrigin(reports[j], reports'[j]),
         NEW i \in DOMAIN reports, NEW d, Told(i, d),
         Children' = Children \/ Cardinality(Children) # MaxRelated,
         AnswersOf(i, d)' = AnswersOf(i, d)
  PROVE  Told(i, d)'
<1>1. PICK status \in Answers :
        AnswersOf(i, d) = {[id |-> d, status |-> status]} /\ Truthful(i, d, status)
  BY DEF Told
<1>2. Children' = Children \/ status # "limit"
  BY <1>1 DEF Truthful
<1>3. Truthful(i, d, status)'
  BY <1>1, <1>2, TruthStays
<1> QED BY <1>1, <1>3 DEF Told

\* Outside of the walk nobody gets an answer, and no child is added.
LEMMA OtherSteps ==
  ASSUME RunsOK, CoverOK, [Next]_vars, ~PlanRelated, ~ScanRelated, ~LimitReached
  PROVE  /\ \A i \in DOMAIN reports : reports'[i].answers = reports[i].answers
         /\ \A i \in DOMAIN reports' \ DOMAIN reports :
              /\ phase # "walk" /\ reports'[i].answers = {} /\ ~reports'[i].child
              /\ reports'[i].source = "artifact-url-error" => reports'[i].declares = {}
         /\ phase' \in BeforePlan => phase \in BeforePlan
         /\ phase' = "walk" => UNCHANGED vars
         /\ phase' \in AfterWalk => \/ phase \in AfterWalk
                                    \/ phase = "walk" /\ pending = {}
                                    \/ phase = "related" /\ ~request.related
<1> USE DEF BeforePlan, AfterWalk, AfterFeed, AfterObserve, AfterRegistry
<1>1. reports \in Seq(Report) /\ reports' \in Seq(Report) /\ Bundle
  BY CoverStep DEF RunsOK, PipelineTypeOK
<1>2. CASE ScanLocal
  <2>1. PICK r \in Report : reports' = Append(reports, r) /\ Fresh(r) /\ ~r.child /\ r.source = "local"
    BY <1>2, LocalReport
  <2>2. /\ \A i \in DOMAIN reports : reports'[i] = reports[i]
        /\ \A i \in DOMAIN reports' \ DOMAIN reports : reports'[i] = r
    BY <1>1, <2>1, AppendedReports
  <2> QED BY <1>2, <2>1, <2>2 DEF ScanLocal, Fresh
<1>3. CASE RegisterIds
  BY <1>3, RegisteredReports DEF RegisterIds, Goto, Fresh
<1>4. CASE RunLocal \/ RunsDone \/ UNCHANGED vars
  BY <1>4 DEF RunLocal, RunsDone, Goto, vars
<1>5. CASE Passing
  BY <1>5, PassingSteps DEF Passing, MarketDone, ExpandRaises, SkipRelated, WalkDone,
     RemoteRaises, SkipRemote, Step, Goto
<1>6. CASE ScanMarket \/ ScanRemote
  <2>1. PICK x \in Report :
          /\ reports' = Append(reports, x) /\ ~x.child /\ Newcomer(x)
          /\ x.source = "artifact-url-error" => x.declares = {}
    BY <1>6, MarketReport, RemoteReport
  <2>2. /\ \A i \in DOMAIN reports : reports'[i] = reports[i]
        /\ \A i \in DOMAIN reports' \ DOMAIN reports : reports'[i] = x
    BY <1>1, <2>1, AppendedReports
  <2>3. <<phase, phase'>> \in {<<"market", "market">>, <<"remote", "advise">>}
    BY <1>6 DEF ScanMarket, ScanRemote, Step, Goto
  <2> QED BY <2>1, <2>2, <2>3 DEF Newcomer
<1>7. CASE Growing
  <2>1. /\ DOMAIN reports' = DOMAIN reports
        /\ request.feed \in SUBSET Hits /\ request.registry \in SUBSET Hits
    BY <1>1, <1>7, GrowingSteps, RequestFields
       DEF Grown, Mapped, Kept, RunsOK, PipelineTypeOK, Request
  <2>2. \A i \in DOMAIN reports : reports'[i].answers = reports[i].answers
    <3>1. CASE ApplyFeed
      BY <1>1, <2>1, <3>1, HitsGrow DEF ApplyFeed
    <3>2. CASE ApplyRegistry
      BY <1>1, <2>1, <3>2, HitsGrow DEF ApplyRegistry
    <3>3. CASE ApplyAdvisories \/ ApplyObservations
      BY <1>1, <3>3, AdvisoriesGrow, ObservationsGrow
    <3> QED BY <1>7, <3>1, <3>2, <3>3 DEF Growing
  <2>3. <<phase, phase'>> \in {<<"feed", "remote">>, <<"advise", "observe">>,
                               <<"observe", "cover">>, <<"registry", "finish">>}
    BY <1>7 DEF Growing, ApplyFeed, ApplyAdvisories, ApplyObservations, ApplyRegistry,
                Step, Goto
  <2> QED BY <2>1, <2>2, <2>3
<1>8. CASE Judging
  <2>1. /\ Reviewed
        /\ <<phase, phase'>> \in {<<"cover", "registry">>, <<"finish", "compare">>,
                                  <<"compare", "done">>}
    BY <1>8, JudgingSteps
  <2>2. DOMAIN reports' = DOMAIN reports
    BY <1>1, <2>1 DEF Reviewed, Mapped, Kept
  <2> QED BY <2>1, <2>2 DEF Reviewed
<1> QED
  BY <1>2, <1>3, <1>4, <1>5, <1>6, <1>7, <1>8
     DEF Next, Passing, Growing, Adding, Judging, Ended

LEMMA PlanRelates ==
  ASSUME RunsOK, CoverOK, RelatedOK, PlanRelated
  PROVE  RelatedOK'
<1>1. /\ phase = "related" /\ phase' = "walk" /\ at' = 0 /\ request' = request
      /\ pending' = UNION {Wanted(i) : i \in DOMAIN reports}
      /\ reports \in Seq(Report) /\ reports' \in Seq(Report) /\ MaxRelated \in Nat
  BY CoverStep, PipelineAssumption DEF PlanRelated, Goto, RunsOK, PipelineTypeOK, Next
<1>2. /\ \A i \in DOMAIN reports : reports[i].answers = {} /\ ~reports[i].child
      /\ DOMAIN reports' = DOMAIN reports
      /\ \A i \in DOMAIN reports : SameOrigin(reports[i], reports'[i])
  BY <1>1, PlanGrows DEF RelatedOK, NothingYet, BeforePlan, Grown, Mapped, Kept
<1>3. Children' = {}
  BY <1>2 DEF Children, SameOrigin
<1>4. NothingYet' /\ WalkCounts' /\ ChildrenAreAlone'
  <2>1. Cardinality(Children') = 0
    BY <1>3, FS_EmptySet
  <2> QED BY <1>1, <1>2, <2>1 DEF NothingYet, WalkCounts, ChildrenAreAlone, BeforePlan, SameOrigin
<1>5. PendingIsNew'
  <2> SUFFICES ASSUME NEW d \in pending', NEW i \in DOMAIN reports, reports[i].id = d
               PROVE  ~reports[i].child /\ reports[i].source # "marketplace"
    BY <1>2 DEF PendingIsNew, SameOrigin
  <2>1. d \notin FromMarket
    BY <1>1 DEF Wanted
  <2> QED BY <1>2, <2>1 DEF FromMarket
<1>6. ASSUME NEW i \in DOMAIN reports, NEW d \in reports[i].declares
      PROVE  Told(i, d)' \/ Open(i, d)'
  <2> DEFINE id == reports[i].id
  <2>1. reports[i].answers = {} /\ reports'[i].id = id /\ ~reports[i].child
    BY <1>2 DEF SameOrigin
  <2>2. reports'[i].answers = (reports[i].answers
          \cup [id: reports[i].declares \cap {id}, status: {"self"}])
          \cup [id: (reports[i].declares \cap FromMarket) \ {id}, status: {"already"}]
    BY <1>1, PlanGrows
  <2>3. CASE d = id
    <3>1. AnswersOf(i, d)' = {[id |-> d, status |-> "self"]}
      BY <2>1, <2>2, <2>3 DEF AnswersOf
    <3>2. Truthful(i, d, "self")'
      BY <2>1, <2>3 DEF Truthful
    <3> QED BY <3>1, <3>2 DEF Told, Answers
  <2>4. CASE d # id /\ d \in FromMarket
    <3>1. AnswersOf(i, d)' = {[id |-> d, status |-> "already"]}
      BY <2>1, <2>2, <2>4 DEF AnswersOf
    <3>2. PICK j \in DOMAIN reports : reports[j].id = d /\ reports[j].source = "marketplace"
      BY <2>4 DEF FromMarket
    <3>3. /\ j \in DOMAIN reports' /\ reports'[j].id = d /\ ~reports'[j].child
          /\ reports'[j].source = "marketplace"
      BY <1>2, <3>2 DEF SameOrigin
    <3>4. Truthful(i, d, "already")'
      BY <2>1, <2>4, <3>3 DEF Truthful
    <3> QED BY <3>1, <3>4 DEF Told, Answers
  <2>5. CASE d # id /\ d \notin FromMarket
    <3>1. AnswersOf(i, d)' = {}
      BY <2>1, <2>2, <2>5 DEF AnswersOf
    <3>2. d \in pending'
      BY <1>1, <2>1, <2>5 DEF Wanted
    <3> QED BY <1>1, <2>1, <2>5, <3>1, <3>2 DEF Open
  <2> QED BY <2>3, <2>4, <2>5
<1>7. AllTold'
  <2> SUFFICES ASSUME NEW i \in DOMAIN reports', NEW d \in reports'[i].declares
               PROVE  Told(i, d)' \/ Open(i, d)'
    BY DEF AllTold
  <2>1. i \in DOMAIN reports /\ d \in reports[i].declares
    BY <1>2 DEF SameOrigin
  <2> QED BY <1>6, <2>1
<1> QED BY <1>4, <1>5, <1>7 DEF RelatedOK

\* One of the pending ids is acquired.
LEMMA WalkRelates ==
  ASSUME RunsOK, CoverOK, RelatedOK, ScanRelated
  PROVE  RelatedOK'
<1>1. PICK d \in pending, x \in Report, status \in {"scanned", "failed"} :
           /\ Newcomer(x) /\ x.id = d /\ x.child
           /\ \/ x.source = "marketplace" /\ status = "scanned"
              \/ x.source = "marketplace-error" /\ status = "failed" /\ x.declares = {}
           /\ pending' = pending \ {d}
           /\ \A i \in DOMAIN reports :
                /\ reports'[i].found = reports[i].found
                /\ reports'[i].answers = IF Parent(i, d)
                     THEN reports[i].answers \cup {[id |-> d, status |-> status]}
                     ELSE reports[i].answers
  BY RelatedReport
<1>2. /\ phase = "walk" /\ phase' = "walk" /\ at' = at + 1 /\ at < MaxRelated
      /\ request' = request /\ MaxRelated \in Nat /\ at \in Nat
      /\ reports \in Seq(Report) /\ reports' \in Seq(Report)
  BY CoverStep, PipelineAssumption DEF ScanRelated, RunsOK, PipelineTypeOK, Next
<1>3. /\ Len(reports') = Next1 /\ reports'[Next1] = x
      /\ \A i \in DOMAIN reports : SameOrigin(reports[i], reports'[i])
  BY <1>1 DEF Newcomer, Added, Kept
<1>4. DOMAIN reports' = DOMAIN reports \cup {Next1} /\ Next1 \notin DOMAIN reports
  BY <1>2, <1>3 DEF Next1
<1>5. Children' = Children \cup {Next1} /\ Next1 \notin Children
  <2>1. \A i \in DOMAIN reports : reports'[i].child <=> reports[i].child
    BY <1>3 DEF SameOrigin
  <2>2. reports'[Next1].child
    BY <1>1, <1>3
  <2> QED BY <1>4, <2>1, <2>2 DEF Children
<1>6. at = Cardinality(Children) /\ Cardinality(Children) # MaxRelated
  BY <1>2 DEF RelatedOK, WalkCounts
<1>7. NothingYet' /\ WalkCounts'
  <2>1. Cardinality(Children') = Cardinality(Children) + 1
    BY <1>2, <1>5, ChildrenAreFinite, FS_AddElement
  <2>2. NothingYet'
    BY <1>2 DEF NothingYet, BeforePlan
  <2>3. WalkCounts'
    BY <1>2, <1>6, <2>1 DEF WalkCounts
  <2> QED BY <2>2, <2>3
<1>8. \A i \in DOMAIN reports : reports[i].id = d
        => ~reports[i].child /\ reports[i].source # "marketplace"
  BY <1>2 DEF RelatedOK, PendingIsNew
<1>9. PendingIsNew'
  <2> SUFFICES ASSUME NEW e \in pending', NEW i \in DOMAIN reports', reports'[i].id = e
               PROVE  ~reports'[i].child /\ reports'[i].source # "marketplace"
    BY DEF PendingIsNew
  <2>1. e \in pending /\ e # d
    BY <1>1
  <2>2. i \in DOMAIN reports
    BY <1>1, <1>3, <1>4, <2>1
  <2>3. SameOrigin(reports[i], reports'[i])
    BY <1>3, <2>2
  <2> QED BY <1>2, <2>1, <2>2, <2>3 DEF RelatedOK, PendingIsNew, SameOrigin
<1>10. ChildrenAreAlone'
  <2> SUFFICES ASSUME NEW i \in DOMAIN reports', NEW j \in DOMAIN reports', i # j,
                      reports'[i].child, reports'[i].id = reports'[j].id
               PROVE  ~reports'[j].child /\ reports'[j].source # "marketplace"
    BY DEF ChildrenAreAlone
  <2>1. CASE i \in DOMAIN reports /\ j \in DOMAIN reports
    <3>1. SameOrigin(reports[i], reports'[i]) /\ SameOrigin(reports[j], reports'[j])
      BY <1>3, <2>1
    <3> QED BY <2>1, <3>1 DEF RelatedOK, ChildrenAreAlone, SameOrigin
  <2>2. CASE i = Next1
    <3>1. j \in DOMAIN reports /\ reports'[j].id = d
      BY <1>1, <1>3, <1>4, <2>2
    <3>2. SameOrigin(reports[j], reports'[j])
      BY <1>3, <3>1
    <3> QED BY <1>8, <3>1, <3>2 DEF SameOrigin
  <2>3. CASE j = Next1
    <3>1. i \in DOMAIN reports /\ reports'[i].id = d
      BY <1>1, <1>3, <1>4, <2>3
    <3>2. SameOrigin(reports[i], reports'[i])
      BY <1>3, <3>1
    <3> QED BY <1>8, <3>1, <3>2 DEF SameOrigin
  <2> QED BY <1>4, <2>1, <2>2, <2>3
<1>11. ASSUME NEW i \in DOMAIN reports, ~reports[i].child, NEW e \in reports[i].declares,
              Told(i, e) \/ Open(i, e)
       PROVE  Told(i, e)' \/ Open(i, e)'
  <2>1. reports'[i].id = reports[i].id
    BY <1>3 DEF SameOrigin
  <2>2. reports'[i].answers = IF Parent(i, d)
          THEN reports[i].answers \cup {[id |-> d, status |-> status]}
          ELSE reports[i].answers
    BY <1>1
  <2>3. CASE AnswersOf(i, e) # {} \/ e # d
    <3>1. AnswersOf(i, e)' = AnswersOf(i, e)
      <4>1. CASE e = d
        <5>1. ~Parent(i, d)
          BY <2>3, <4>1 DEF AnswersOf, Parent
        <5> QED BY <2>2, <5>1 DEF AnswersOf
      <4>2. CASE e # d
        BY <2>2, <4>2 DEF AnswersOf
      <4> QED BY <4>1, <4>2
    <3>2. CASE Told(i, e)
      <4>1. \A j \in DOMAIN reports : j \in DOMAIN reports' /\ SameOrigin(reports[j], reports'[j])
        BY <1>3, <1>4
      <4>2. Told(i, e)'
        BY <1>6, <3>1, <3>2, <4>1, ToldStays
      <4> QED BY <4>2
    <3>3. CASE Open(i, e)
      <4>1. e # d
        BY <2>3, <3>3 DEF Open
      <4>2. e \in pending'
        BY <1>1, <3>3, <4>1 DEF Open
      <4> QED BY <1>2, <2>1, <3>1, <3>3, <4>2 DEF Open
    <3> QED BY <1>11, <3>2, <3>3
  <2>4. CASE AnswersOf(i, e) = {} /\ e = d
    <3>1. Open(i, e)
      BY <1>11, <2>4 DEF Told
    <3>2. Parent(i, d)
      BY <1>11, <2>4 DEF Parent, AnswersOf
    <3>3. AnswersOf(i, e)' = {[id |-> d, status |-> status]}
      BY <2>2, <2>4, <3>2 DEF AnswersOf
    <3>4. Truthful(i, d, status)'
      <4>1. d # reports'[i].id
        BY <2>1, <2>4, <3>1 DEF Open
      <4>2. /\ Next1 \in DOMAIN reports' /\ reports'[Next1].id = d /\ reports'[Next1].child
            /\ status = "scanned" => reports'[Next1].source = "marketplace"
        BY <1>1, <1>3, <1>4
      <4> QED BY <4>1, <4>2 DEF Truthful
    <3> QED BY <2>4, <3>3, <3>4 DEF Told, Answers
  <2> QED BY <2>3, <2>4
<1>12. AllTold'
  <2> SUFFICES ASSUME NEW i \in DOMAIN reports', Target(i)', NEW e \in reports'[i].declares,
                      request.related
               PROVE  Told(i, e)' \/ Open(i, e)'
    BY <1>2 DEF AllTold
  <2>1. i \in DOMAIN reports
    BY <1>1, <1>3, <1>4 DEF Target
  <2>2. SameOrigin(reports[i], reports'[i])
    BY <1>3, <2>1
  <2>3. Target(i) /\ e \in reports[i].declares
    BY <2>2 DEF Target, SameOrigin
  <2>4. Told(i, e) \/ Open(i, e)
    BY <1>2, <2>1, <2>3 DEF RelatedOK, AllTold
  <2> QED BY <1>11, <2>1, <2>3, <2>4 DEF Target
<1> QED BY <1>7, <1>9, <1>10, <1>12 DEF RelatedOK

\* What is still pending at the limit is answered so.
LEMMA LimitRelates ==
  ASSUME RunsOK, CoverOK, RelatedOK, LimitReached
  PROVE  RelatedOK'
<1>1. /\ phase = "walk" /\ phase' = "walk" /\ at' = at /\ at = MaxRelated
      /\ request' = request /\ pending' = {} /\ pending \subseteq Ids
      /\ reports \in Seq(Report) /\ reports' \in Seq(Report)
  BY CoverStep DEF LimitReached, RunsOK, PipelineTypeOK, Next
<1>2. /\ DOMAIN reports' = DOMAIN reports
      /\ \A i \in DOMAIN reports : SameOrigin(reports[i], reports'[i])
  BY <1>1, LimitGrows DEF Grown, Mapped, Kept
<1>3. Children' = Children /\ at = Cardinality(Children)
  BY <1>1, <1>2 DEF Children, SameOrigin, RelatedOK, WalkCounts
<1>4. NothingYet' /\ WalkCounts' /\ PendingIsNew'
  <2>1. WalkCounts'
    BY <1>1, <1>3 DEF RelatedOK, WalkCounts
  <2> QED BY <1>1, <2>1 DEF NothingYet, BeforePlan, PendingIsNew
<1>5. ChildrenAreAlone'
  BY <1>2 DEF RelatedOK, ChildrenAreAlone, SameOrigin
<1>6. ASSUME NEW i \in DOMAIN reports, ~reports[i].child, NEW e \in reports[i].declares,
             Told(i, e) \/ Open(i, e)
      PROVE  Told(i, e)'
  <2>1. reports'[i].id = reports[i].id
    BY <1>2 DEF SameOrigin
  <2>2. reports'[i].answers = reports[i].answers
          \cup [id: {d \in pending : Parent(i, d)}, status: {"limit"}]
    BY <1>1, LimitGrows
  <2>3. CASE Told(i, e)
    <3>1. ~Parent(i, e)
      BY <2>3 DEF Told, AnswersOf, Parent
    <3>2. AnswersOf(i, e)' = AnswersOf(i, e)
      BY <2>2, <3>1 DEF AnswersOf
    <3> QED BY <1>2, <1>3, <2>3, <3>2, ToldStays
  <2>4. CASE Open(i, e)
    <3>1. Parent(i, e) /\ e \in pending /\ e # reports[i].id /\ AnswersOf(i, e) = {}
      BY <1>6, <2>4 DEF Open, AnswersOf, Parent
    <3>2. AnswersOf(i, e)' = {[id |-> e, status |-> "limit"]}
      BY <2>2, <3>1 DEF AnswersOf
    <3>3. Truthful(i, e, "limit")'
      BY <1>1, <1>3, <2>1, <3>1 DEF Truthful
    <3> QED BY <3>2, <3>3 DEF Told, Answers
  <2> QED BY <1>6, <2>3, <2>4
<1>7. AllTold'
  <2> SUFFICES ASSUME NEW i \in DOMAIN reports', Target(i)', NEW e \in reports'[i].declares,
                      request.related
               PROVE  Told(i, e)' \/ Open(i, e)'
    BY <1>1 DEF AllTold
  <2>1. i \in DOMAIN reports /\ SameOrigin(reports[i], reports'[i])
    BY <1>2
  <2>2. Target(i) /\ e \in reports[i].declares
    BY <2>1 DEF Target, SameOrigin
  <2>3. Told(i, e) \/ Open(i, e)
    BY <1>1, <2>1, <2>2 DEF RelatedOK, AllTold
  <2> QED BY <1>6, <2>1, <2>2, <2>3 DEF Target
<1> QED BY <1>4, <1>5, <1>7 DEF RelatedOK

LEMMA OthersRelate ==
  ASSUME RunsOK, CoverOK, RelatedOK, [Next]_vars, ~PlanRelated, ~ScanRelated, ~LimitReached
  PROVE  RelatedOK'
<1>1. request' = request /\ reports \in Seq(Report) /\ reports' \in Seq(Report)
  BY CoverStep, ReceiptsStay DEF RunsOK, PipelineTypeOK
<1>2. CASE UNCHANGED vars
  BY <1>2 DEF RelatedOK, NothingYet, WalkCounts, PendingIsNew, ChildrenAreAlone, AllTold,
     Target, Told, Open, Truthful, AnswersOf, Children, vars
<1> SUFFICES ASSUME ~UNCHANGED vars
             PROVE  RelatedOK'
  BY <1>2
<1>3. \A j \in DOMAIN reports :
        /\ j \in DOMAIN reports' /\ SameOrigin(reports[j], reports'[j])
        /\ reports'[j].answers = reports[j].answers
  BY ReportsStay, OtherSteps
<1>4. \A j \in DOMAIN reports' \ DOMAIN reports :
        /\ reports'[j].answers = {} /\ ~reports'[j].child
        /\ phase \notin BeforePlan =>
             \/ reports'[j].source = "remote"
             \/ reports'[j].source = "artifact-url-error" /\ reports'[j].declares = {}
  BY ReportsStay, OtherSteps DEF BeforePlan
<1>5. phase' # "walk"
  BY OtherSteps
<1>6. NothingYet'
  <2> SUFFICES ASSUME phase' \in BeforePlan, NEW i \in DOMAIN reports'
               PROVE  reports'[i].answers = {} /\ ~reports'[i].child
    BY DEF NothingYet
  <2>1. phase \in BeforePlan
    BY OtherSteps
  <2>2. CASE i \in DOMAIN reports
    BY <1>3, <2>1, <2>2 DEF RelatedOK, NothingYet, SameOrigin
  <2>3. CASE i \notin DOMAIN reports
    BY <1>4, <2>3
  <2> QED BY <2>2, <2>3
<1>7. WalkCounts' /\ PendingIsNew'
  BY <1>5 DEF WalkCounts, PendingIsNew
<1>8. ChildrenAreAlone'
  <2> SUFFICES ASSUME NEW i \in DOMAIN reports', NEW j \in DOMAIN reports', i # j,
                      reports'[i].child, reports'[i].id = reports'[j].id
               PROVE  ~reports'[j].child /\ reports'[j].source # "marketplace"
    BY DEF ChildrenAreAlone
  <2>1. i \in DOMAIN reports /\ SameOrigin(reports[i], reports'[i])
    BY <1>3, <1>4
  <2>2. phase \notin BeforePlan
    BY <2>1 DEF RelatedOK, NothingYet, SameOrigin
  <2>3. CASE j \in DOMAIN reports
    <3>1. SameOrigin(reports[j], reports'[j])
      BY <1>3, <2>3
    <3> QED BY <2>1, <2>3, <3>1 DEF RelatedOK, ChildrenAreAlone, SameOrigin
  <2>4. CASE j \notin DOMAIN reports
    BY <1>4, <2>2, <2>4
  <2> QED BY <2>3, <2>4
<1>9. AllTold'
  <2> SUFFICES ASSUME NEW i \in DOMAIN reports', Target(i)', NEW d \in reports'[i].declares,
                      request.related, phase' \in AfterWalk
               PROVE  Told(i, d)'
    BY <1>1, <1>5 DEF AllTold
  <2>1. phase \in AfterWalk \/ (phase = "walk" /\ pending = {})
    <3>1. CASE phase = "related" /\ ~request.related
      BY <3>1
    <3> QED BY <3>1, OtherSteps
  <2>2. phase \notin BeforePlan
    BY <2>1 DEF BeforePlan, AfterWalk, AfterFeed, AfterObserve, AfterRegistry
  <2>3. i \in DOMAIN reports
    BY <1>4, <2>2 DEF Target
  <2>4. Target(i) /\ d \in reports[i].declares
    BY <1>3, <2>3 DEF Target, SameOrigin
  <2>5. Told(i, d)
    <3>1. Told(i, d) \/ Open(i, d)
      BY <2>1, <2>3, <2>4 DEF RelatedOK, AllTold
    <3>2. ~Open(i, d)
      BY <2>1 DEF Open, AfterWalk, AfterFeed, AfterObserve, AfterRegistry
    <3> QED BY <3>1, <3>2
  <2>6. Children' = Children
    BY <1>3, <1>4 DEF Children, SameOrigin
  <2>7. AnswersOf(i, d)' = AnswersOf(i, d)
    BY <1>3, <2>3 DEF AnswersOf
  <2> QED BY <1>3, <2>3, <2>5, <2>6, <2>7, ToldStays
<1> QED BY <1>6, <1>7, <1>8, <1>9 DEF RelatedOK

LEMMA ListedChildren ==
  ASSUME RunsOK
  PROVE  Cardinality({s \in Listed : s.child}) = Cardinality(Children)
<1> DEFINE T == {s \in Listed : s.child}
           f == [i \in Children |-> reports[i]]
<1>1. reports \in Seq(Report) /\ \A i \in DOMAIN reports : reports[i].inst = i
  BY DEF RunsOK, PipelineTypeOK
<1>2. f \in [Children -> T]
  BY DEF Children, Listed
<1>3. \A i, j \in Children : f[i] = f[j] => i = j
  BY <1>1 DEF Children
<1>4. \A s \in T : \E i \in Children : f[i] = s
  BY DEF Children, Listed
<1> HIDE DEF T, f
<1>5. f \in Injection(Children, T) /\ f \in Surjection(Children, T)
  BY <1>2, <1>3, <1>4 DEF Injection, Surjection, IsInjective
<1> QED BY <1>1, <1>5, ChildrenAreFinite, FS_Surjection DEF T

\* Every declared relationship of a target has one true answer in the end.
THEOREM RelationshipsAreAnswered == Spec => []RelationshipsAnswered
<1>1. Init => RelatedOK
  BY DEF Init, RelatedOK, NothingYet, WalkCounts, PendingIsNew, ChildrenAreAlone, AllTold,
     AfterWalk, AfterFeed, AfterObserve, AfterRegistry
<1>2. RunsOK /\ CoverOK /\ RelatedOK /\ [Next]_vars => RelatedOK'
  BY PlanRelates, WalkRelates, LimitRelates, OthersRelate
<1>3. RunsOK /\ RelatedOK => RelationshipsAnswered
  <2> SUFFICES ASSUME RunsOK, RelatedOK, request.related, phase = "done"
               PROVE  RelationshipsAnswered
    BY DEF RelationshipsAnswered
  <2>1. ASSUME NEW r \in Listed, NEW d \in r.declares, ~r.child, r.source # "remote"
        PROVE  \E status \in {x.status : x \in r.answers} :
                 /\ {x \in r.answers : x.id = d} = {[id |-> d, status |-> status]}
                 /\ status = "self" <=> d = r.id
                 /\ status \in {"scanned", "already"} =>
                      \E s \in Listed : s.id = d /\ s.source = "marketplace"
                                        /\ (s.child <=> status = "scanned")
                 /\ status = "failed" => \E s \in Listed : s.id = d /\ s.child
                 /\ status = "limit" => Cardinality({s \in Listed : s.child}) = MaxRelated
    <3>1. PICK i \in DOMAIN reports : r = reports[i]
      BY DEF Listed
    <3>2. Told(i, d)
      BY <2>1, <3>1 DEF RelatedOK, AllTold, AfterWalk, AfterFeed, AfterObserve, AfterRegistry,
                        Target, Open
    <3>3. PICK status \in Answers :
            AnswersOf(i, d) = {[id |-> d, status |-> status]} /\ Truthful(i, d, status)
      BY <3>2 DEF Told
    <3>4. {x \in r.answers : x.id = d} = {[id |-> d, status |-> status]}
      BY <3>1, <3>3 DEF AnswersOf
    <3>5. status \in {x.status : x \in r.answers}
      <4>1. [id |-> d, status |-> status] \in r.answers
        BY <3>4
      <4> QED BY <4>1
    <3>6. \A j \in DOMAIN reports : reports[j] \in Listed
      BY DEF Listed
    <3> QED BY <3>1, <3>3, <3>4, <3>5, <3>6, ListedChildren DEF Truthful
  <2>2. ASSUME NEW s \in Listed, NEW t \in Listed, s.child, s.id = t.id, s # t
        PROVE  ~t.child /\ t.source # "marketplace"
    BY <2>2 DEF Listed, RelatedOK, ChildrenAreAlone
  <2> QED BY SMTT(30), <2>1, <2>2 DEF RelationshipsAnswered
<1> QED BY <1>1, <1>2, <1>3, ReportsAreHonest, PTL DEF Spec
=============================================================================
