---------------------------- MODULE ScanPipeline ----------------------------
(***************************************************************************)
(* One scan request through _scan_request: local targets, registry-only    *)
(* ids, the runtime sandbox, Marketplace targets and their relationships,  *)
(* the threat feed, a remote artifact, advisories, runtime observations,   *)
(* registry findings, and the coverage, decision and public assessment     *)
(* that are computed again on the way.  The phases run one after the other *)
(* over one list of reports; what they meet outside is nondeterministic.   *)
(*                                                                         *)
(* Report n of the list has the instance id n.  The instance of an         *)
(* artifact that was scanned and then rejected is -n, n being the place of *)
(* the error report it was replaced with.  No two artifacts of a request   *)
(* have the same bytes.                                                    *)
(***************************************************************************)
EXTENDS StaticAnalysis, Sequences

CONSTANTS
    Ids,           \* extension ids
    Unknown,       \* the id of an artifact whose manifest could not be read
    Requests,      \* bound: the requests, each with the artifacts it may meet
    Sightings,     \* bound: what one sandbox run may observe
    MaxRelated     \* MAX_RELATED_MARKETPLACE_EXTENSIONS

\* Observations: timeout or sandbox error; nonzero exit of an entrypoint;
\* abuse; process or network use that static analysis did not declare.
Kinds == {"broken", "entrypoint", "abuse", "undeclared"}

Hits == [id: Ids, class: Classes]

\* What a scan may find out about an artifact: the package in it, whether
\* members were refused while it was unpacked, its static findings, the
\* extensions it declares, and what the advisories say about its hash.
Artifact ==
    [package: Package, refused: BOOLEAN, shows: SUBSET Classes,
     declares: SUBSET Ids, advised: SUBSET Classes]

Request ==
    [local: Seq(Ids), ids: Seq(Ids), market: Seq(Ids),
     dynamic: BOOLEAN, related: BOOLEAN, expand: BOOLEAN, remote: BOOLEAN,
     previous: SUBSET (Ids \cup {Unknown}), feed: SUBSET Hits, registry: SUBSET Hits,
     env: SUBSET Providers, required: SUBSET Providers,
     advisories: {"completed", "unavailable", "invalid"},
     intelligence: {"completed", "failed", "unavailable"},
     meets: SUBSET Artifact]

ASSUME PipelineAssumption ==
    /\ Unknown \notin Ids
    /\ \A id \in Ids \cup {Unknown} : id \notin Int
    /\ Requests \subseteq Request
    /\ Sightings \subseteq SUBSET Kinds
    /\ MaxRelated \in Nat

VARIABLES
    request,
    phase,     \* the call of _scan_request that comes next
    at,        \* the targets of this phase that are done
    reports,   \* extensions
    receipts,  \* runtime_bundle["runs"], by instance
    evidence,  \* runtime_bundle["extensions"]: by id, or by instance
    pending    \* related ids to scan

vars == <<request, phase, at, reports, receipts, evidence, pending>>

-----------------------------------------------------------------------------
(* Reports *)

ClassesOf(r) == {f.class : f \in r.found}

AnalysisStatus(r, incomplete) ==
    IF ~incomplete /\ r.cover.status = "complete" THEN "complete"
    ELSE IF \/ r.source = "marketplace-error" \/ r.aborted
            \/ r.cover.providers["acquisition"].status = "failed"
         THEN "failed"
    ELSE "incomplete"

Decide(r, changed) ==
    LET incomplete == r.stale \/ r.cover.status = "incomplete" IN
    [r EXCEPT !.analysis = AnalysisStatus(r, incomplete),
              !.decision = Decision(ClassesOf(r), incomplete, changed)]

Publish(r) ==
    [r EXCEPT !.outcome = PublicOutcome(r.decision, ClassesOf(r)),
              !.tier = TrustTier(r.decision, r.analysis, ClassesOf(r), r.behaved)]

\* A report before any analysis, as the dataclass and the callers fill it in.
BareReport(id, inst, source) ==
    [id |-> id, inst |-> inst, child |-> FALSE, source |-> source,
     whole |-> FALSE, understood |-> FALSE, engines |-> {}, needs |-> FALSE, declares |-> {}, advised |-> {},
     cover |-> NoCoverage, stale |-> TRUE, aborted |-> FALSE, found |-> {},
     behaved |-> FALSE, answers |-> {}, analysis |-> "incomplete",
     decision |-> "incomplete", outcome |-> "incomplete", tier |-> "none"]

AbortedReport(id, inst, source) ==
    [BareReport(id, inst, source) EXCEPT
        !.aborted = TRUE, !.cover.flawed = TRUE,
        !.cover.limits = {"artifact"}, !.cover.status = "incomplete"]

\* Refused members are added to the limitations, beside the fields that the
\* limitations are computed from.
Unpacked(c, a) ==
    IF a.refused
    THEN [c EXCEPT !.limits = @ \cup {"artifact"}, !.status = "incomplete"]
    ELSE c

ScannedReport(id, inst, source, a) ==
    LET cover == Unpacked(Finalize(StaticCoverage(a.package), request.env), a)
    IN Publish(Decide(
         [BareReport(id, inst, source) EXCEPT
            !.whole = Whole(a.package) /\ ~a.refused,
            !.understood = Understood(a.package), !.engines = Engines(a.package),
            !.needs = NeedsRuntime(a.package),
            !.declares = a.declares, !.advised = a.advised,
            !.cover = cover, !.stale = (cover.status # "complete"),
            !.found = [class: a.shows \cup StaticClasses(a.package), of: {0}]], FALSE))

\* A package beyond the resource budget ends the scan before it begins.
Scannable == {a \in request.meets : ~ExceedsBudget(a.package)}

\* The ids under which an artifact of extension id may be reported.
NamesOf(a, id) ==
    CASE a.package.manifest = "valid" -> {id}
      [] a.package.manifest = "anonymous" -> {id, Unknown}
      [] a.package.manifest = "unreadable" -> {Unknown}

\* What may be acquired, with the id that it claims.
Obtainable == {x \in (Ids \cup {Unknown}) \X Scannable :
              \E id \in Ids : x[1] \in NamesOf(x[2], id)}

\* Findings by extension id go to the last report that has it (by_id).
IsLast(i, id) ==
    reports[i].id = id /\ \A j \in DOMAIN reports : j > i => reports[j].id # id

WithHits(i, hits) ==
    [reports[i] EXCEPT !.found = @ \cup
        {[class |-> h.class, of |-> 0] : h \in {h \in hits : IsLast(i, h.id)}}]

Goto(p) == phase' = p /\ at' = 0
KeepRuns == UNCHANGED <<receipts, evidence>>

-----------------------------------------------------------------------------
(* The runtime sandbox *)

\* The trace counts if nothing failed, or nothing but an entrypoint.
Receipt(r, saw, traced) ==
    LET failed == {"broken", "entrypoint"} \cap saw # {} IN
    [id |-> r.id, required |-> r.needs, saw |-> saw,
     status |-> IF ~r.needs THEN "not-applicable"
                ELSE IF failed THEN "failed" ELSE "completed",
     trace |-> r.needs /\ traced /\ "broken" \notin saw]

\* The first run of an extension is stored under the extension id.
BundleKey(r) == IF r.id \in DOMAIN evidence THEN r.inst ELSE r.id

With(f, key, value) ==
    [x \in DOMAIN f \cup {key} |-> IF x = key THEN value ELSE f[x]]

RunSandbox(r) ==
    \E saw \in (IF r.needs THEN Sightings ELSE {{}}), traced \in BOOLEAN :
        /\ receipts' = With(receipts, r.inst, Receipt(r, saw, traced))
        /\ evidence' = IF r.needs
                       THEN With(evidence, BundleKey(r), [saw |-> saw, of |-> r.inst])
                       ELSE evidence

\* _runtime_observations_for_report
Items(r) ==
    IF r.inst \in DOMAIN evidence THEN evidence[r.inst].saw
    ELSE IF r.id \in DOMAIN evidence THEN evidence[r.id].saw
    ELSE {}

HasReceipt(r) == r.inst \in DOMAIN receipts
NeedsRun(r) == HasReceipt(r) /\ receipts[r.inst].required

\* The receipt of this very artifact is completed, or failed because of its
\* entrypoint only, and has a trace.
RunCovers(r) ==
    /\ HasReceipt(r)
    /\ receipts[r.inst].trace
    /\ "broken" \notin Items(r)
    /\ receipts[r.inst].status = "completed" \/ "entrypoint" \in Items(r)

SandboxResult(r) ==
    IF ~request.dynamic THEN Result("not-requested", FALSE)
    ELSE IF ~NeedsRun(r) THEN Result("not-applicable", FALSE)
    ELSE Result(IF RunCovers(r) THEN "completed" ELSE "failed", TRUE)

-----------------------------------------------------------------------------
(* Local targets *)

Init ==
    /\ request \in Requests
    /\ phase = "scan" /\ at = 0
    /\ reports = <<>>
    /\ receipts = <<>> /\ evidence = <<>>
    /\ pending = {}

Next1 == Len(reports) + 1

\* A failure is isolated; a manifest that can be read still names the target.
ScanLocal ==
    /\ phase = "scan" /\ Len(reports) < Len(request.local)
    /\ LET id == request.local[Next1] IN
       \/ \E a \in Scannable : \E known \in NamesOf(a, id) :
            reports' = Append(reports, ScannedReport(known, Next1, "local", a))
       \/ \E known \in {id, Unknown} :
            reports' = Append(reports, AbortedReport(known, Next1, "local"))
    /\ UNCHANGED <<request, phase, at, pending>> /\ KeepRuns

RegisterIds ==
    /\ phase = "scan" /\ Len(reports) = Len(request.local)
    /\ reports' = reports \o [i \in 1..Len(request.ids) |->
                     BareReport(request.ids[i], Len(reports) + i, "registry-id")]
    /\ Goto("runtime")
    /\ UNCHANGED <<request, pending>> /\ KeepRuns

RunLocal ==
    /\ phase = "runtime" /\ request.dynamic /\ at < Len(request.local)
    /\ RunSandbox(reports[at + 1])
    /\ at' = at + 1
    /\ UNCHANGED <<request, phase, reports, pending>>

RunsDone ==
    /\ phase = "runtime" /\ (request.dynamic => at = Len(request.local))
    /\ Goto("market")
    /\ UNCHANGED <<request, reports, pending>> /\ KeepRuns

-----------------------------------------------------------------------------
(* Marketplace targets *)

\* What became of a request for id: a report, and the report of the artifact
\* that was scanned for it, if any.  An artifact of another id, or of another
\* version (which only a requested target names), is rejected.
Failed(id, child) ==
    [BareReport(id, Next1, "marketplace-error") EXCEPT !.child = child]
Analysed(id, inst, a, child) ==
    [ScannedReport(id, inst, "marketplace", a) EXCEPT !.child = child]
Accepted(id, child) ==
    {[report |-> r, scanned |-> {r}] :
       r \in {Analysed(id, Next1, x[2], child) : x \in {x \in Obtainable : x[1] = id}}}

\* Mutant: the instance of an artifact is named after what was asked for.
RejectedMutant(id, child) ==
    {[report |-> Failed(id, child), scanned |-> {Analysed(x[1], Next1, x[2], child)}] :
       x \in {x \in Obtainable : child => x[1] # id}}

Rejected(id, child) ==
    {[report |-> Failed(id, child), scanned |-> {Analysed(x[1], -Next1, x[2], child)}] :
       x \in {x \in Obtainable : child => x[1] # id}}

Acquired(id, child) ==
    {[report |-> Failed(id, child), scanned |-> {}]}
      \cup Accepted(id, child) \cup Rejected(id, child)

\* The artifact runs before its identity is checked.
RunAcquired(scanned) ==
    IF request.dynamic /\ scanned # {}
    THEN \E r \in scanned : RunSandbox(r)
    ELSE KeepRuns

ScanMarket ==
    /\ phase = "market" /\ at < Len(request.market)
    /\ \E x \in Acquired(request.market[at + 1], FALSE) :
         /\ RunAcquired(x.scanned)
         /\ reports' = Append(reports, x.report)
    /\ at' = at + 1
    /\ UNCHANGED <<request, phase, pending>>

MarketDone ==
    /\ phase = "market" /\ at = Len(request.market)
    /\ Goto("related")
    /\ UNCHANGED <<request, reports, pending>> /\ KeepRuns

-----------------------------------------------------------------------------
(* Declared relationships, one hop *)

\* --expand-extension-relationships names a variable that does not exist.
ExpandRaises ==
    /\ phase = "related" /\ request.expand
    /\ Goto("raised")
    /\ UNCHANGED <<request, reports, pending>> /\ KeepRuns

SkipRelated ==
    /\ phase = "related" /\ ~request.expand /\ ~request.related
    /\ Goto("feed")
    /\ UNCHANGED <<request, reports, pending>> /\ KeepRuns

\* Mutant: whatever has a report counts as acquired.
FromMarketMutant == {reports[i].id : i \in DOMAIN reports}

FromMarket ==
    {reports[i].id : i \in {i \in DOMAIN reports : reports[i].source = "marketplace"}}

\* The declarations of report i that ask for a scan.
Wanted(i) == IF reports[i].child THEN {}
             ELSE reports[i].declares \ ({reports[i].id} \cup FromMarket)

Answered(r, ids, status) ==
    [r EXCEPT !.answers = @ \cup [id: ids, status: {status}]]

PlanRelated ==
    /\ phase = "related" /\ ~request.expand /\ request.related
    /\ reports' = [i \in DOMAIN reports |-> LET r == reports[i] IN
         Answered(Answered(r, r.declares \cap {r.id}, "self"),
                  (r.declares \cap FromMarket) \ {r.id}, "already")]
    /\ pending' = UNION {Wanted(i) : i \in DOMAIN reports}
    /\ Goto("walk")
    /\ UNCHANGED request /\ KeepRuns

\* Whose declaration of d is still without an answer: the parents planned it.
Parent(i, d) ==
    /\ ~reports[i].child /\ d \in reports[i].declares
    /\ \A x \in reports[i].answers : x.id # d

ScanRelated ==
    /\ phase = "walk" /\ at < MaxRelated
    /\ \E d \in pending : \E x \in Acquired(d, TRUE) :
         LET status == IF x.report.source = "marketplace-error"
                       THEN "failed" ELSE "scanned"
         IN /\ RunAcquired(x.scanned)
            /\ reports' = Append(
                 [i \in DOMAIN reports |->
                    IF Parent(i, d) THEN Answered(reports[i], {d}, status)
                    ELSE reports[i]], x.report)
            /\ pending' = pending \ {d}
    /\ at' = at + 1
    /\ UNCHANGED <<request, phase>>

LimitReached ==
    /\ phase = "walk" /\ at = MaxRelated /\ pending # {}
    /\ reports' = [i \in DOMAIN reports |->
         Answered(reports[i], {d \in pending : Parent(i, d)}, "limit")]
    /\ pending' = {}
    /\ UNCHANGED <<request, phase, at>> /\ KeepRuns

WalkDone ==
    /\ phase = "walk" /\ pending = {}
    /\ Goto("feed")
    /\ UNCHANGED <<request, reports, pending>> /\ KeepRuns

-----------------------------------------------------------------------------
(* Intelligence and runtime evidence *)

Step(p, q) ==
    /\ phase = p /\ Goto(q)
    /\ UNCHANGED <<request, pending>> /\ KeepRuns

ApplyFeed ==
    /\ Step("feed", "remote")
    /\ reports' = [i \in DOMAIN reports |-> WithHits(i, request.feed)]

\* The url and the hash are pinned; what the bytes turn out to be is not.
ScanRemote ==
    /\ request.remote /\ Step("remote", "advise")
    /\ \/ reports' = Append(reports, AbortedReport(Unknown, Next1, "artifact-url-error"))
       \/ \E x \in Obtainable :
            reports' = Append(reports, ScannedReport(x[1], Next1, "remote", x[2]))

\* Bytes with the right hash that cannot be unpacked end the whole request.
RemoteRaises ==
    /\ request.remote /\ Step("remote", "raised")
    /\ UNCHANGED reports

SkipRemote ==
    /\ ~request.remote /\ Step("remote", "advise")
    /\ UNCHANGED reports

ApplyAdvisories ==
    /\ Step("advise", "observe")
    /\ reports' = [i \in DOMAIN reports |->
         IF request.advisories = "completed"
         THEN [reports[i] EXCEPT !.found = @ \cup [class: reports[i].advised, of: {0}]]
         ELSE reports[i]]

ClassOfKind(kind) ==
    CASE kind = "abuse" -> "abuse"
      [] kind = "undeclared" -> "suspect"
      [] OTHER -> "context"

\* Evidence stored under key k lands on report i.
LandsOn(k, i) == reports[i].inst = k \/ IsLast(i, k)

ApplyObservations ==
    /\ Step("observe", "cover")
    /\ reports' = [i \in DOMAIN reports |->
         [reports[i] EXCEPT !.found = @ \cup UNION
            {[class: {ClassOfKind(kind) : kind \in evidence[k].saw},
              of: {evidence[k].of}] : k \in {k \in DOMAIN evidence : LandsOn(k, i)}}]]

Behaved(r) ==
    SandboxResult(r) = Result("completed", TRUE) /\ "undeclared" \notin Items(r)

ApplySandbox ==
    /\ Step("cover", "registry")
    /\ reports' = [i \in DOMAIN reports |-> LET r == reports[i] IN
         [r EXCEPT !.cover = Finalize([r.cover EXCEPT
                        !.providers["sandbox"] = SandboxResult(r)], request.env),
                   !.behaved = Behaved(r)]]

ApplyRegistry ==
    /\ Step("registry", "finish")
    /\ reports' = [i \in DOMAIN reports |-> WithHits(i, request.registry)]

-----------------------------------------------------------------------------
(* Final coverage, decision and comparison with the baseline *)

RequestProviders(r) ==
    LET failed == r.source = "marketplace-error" IN
    [p \in Providers |->
       Result(IF p = "advisories" THEN request.advisories
              ELSE IF p = "intelligence" THEN request.intelligence
              ELSE IF p = "acquisition" /\ failed THEN "failed"
              ELSE IF p \in request.required /\ r.cover.providers[p].status = "absent"
                   THEN "unavailable"
              ELSE r.cover.providers[p].status,
              \/ p \in request.required \cup {"advisories"}
              \/ p = "acquisition" /\ failed
              \/ p # "intelligence" /\ r.cover.providers[p].required)]

FinishReports ==
    /\ Step("finish", "compare")
    /\ reports' = [i \in DOMAIN reports |->
         LET r == reports[i]
             cover == Finalize([r.cover EXCEPT !.providers = RequestProviders(r)],
                               request.env)
         IN Publish(Decide([r EXCEPT !.cover = cover,
                                     !.stale = (cover.status # "complete")], FALSE))]

\* What may have changed since the baseline, which names extensions by id: the
\* report differs, and it does in artifact and in capabilities or findings.
Deltas ==
    {d \in [DOMAIN reports -> {"none", "other", "gained"}] :
       \A i \in DOMAIN reports : reports[i].id \notin request.previous => d[i] = "none"}

\* The deltas are computed per report and kept by extension id: the last one
\* that is not empty counts for all reports of the id.
Compare ==
    /\ Step("compare", "done")
    /\ \E deltas \in Deltas :
         reports' = [i \in DOMAIN reports |-> Decide(reports[i],
           \E j \in DOMAIN reports :
             /\ reports[j].id = reports[i].id /\ deltas[j] = "gained"
             /\ \A k \in DOMAIN reports :
                  k > j /\ reports[k].id = reports[j].id => deltas[k] = "none")]

Ended == phase \in {"done", "raised"} /\ UNCHANGED vars

Next ==
    \/ ScanLocal \/ RegisterIds \/ RunLocal \/ RunsDone
    \/ ScanMarket \/ MarketDone
    \/ ExpandRaises \/ SkipRelated \/ PlanRelated \/ ScanRelated
    \/ LimitReached \/ WalkDone
    \/ ApplyFeed \/ ScanRemote \/ RemoteRaises \/ SkipRemote \/ ApplyAdvisories
    \/ ApplyObservations \/ ApplySandbox \/ ApplyRegistry
    \/ FinishReports \/ Compare \/ Ended

Spec == Init /\ [][Next]_vars

-----------------------------------------------------------------------------
(* Properties *)

Listed == {reports[i] : i \in DOMAIN reports}
Done(r) == phase = "done" /\ r \in Listed

\* A run of this very artifact that the sandbox did not report as broken and
\* that left a trace.  A nonzero exit of the entrypoint counts, one at a
\* resource limit included: the code takes it for a run.
WasRun(r) == HasReceipt(r) /\ receipts[r.inst].trace

\* What the request asks to be done about a report, and whether it was done.
\* A remote artifact is never run.
Asked(r) ==
    request.env \cup request.required \cup {"static", "advisories"}
      \cup (IF request.dynamic /\ r.needs /\ r.source # "remote" THEN {"sandbox"} ELSE {})
Delivered(r, p) ==
    CASE p = "static" -> r.whole
      [] p = "sandbox" -> WasRun(r)
      [] p = "advisories" -> request.advisories = "completed"
      [] p = "intelligence" -> request.intelligence = "completed"
      [] p \in {"semgrep", "yara"} -> p \in r.engines
      [] p = "acquisition" -> FALSE

\* Nothing is approved, or offered for review, unless the whole artifact was
\* analysed and every provider that was asked for delivered: through every
\* finalisation of _finalize_analysis_coverage, no limitation gets lost.  And
\* nothing is approved whose activation code the AST walker did not see.
\* A registry-only target is the exception that ApprovalHasArtifact is about.
\* And nothing is called verified unless a run of this very artifact showed
\* what was declared.
ApprovedWasAnalyzed ==
    \A r \in Listed : Done(r) =>
      /\ r.decision \in {"allow", "review"} /\ r.source # "registry-id"
           => /\ \A p \in Asked(r) : Delivered(r, p)
              /\ r.decision = "allow" => r.understood
      /\ r.tier = "verified"
           => /\ WasRun(r) /\ "undeclared" \notin receipts[r.inst].saw
              /\ r.decision # "block"

\* And the converse: no provisional failure survives the later success of its
\* provider, so an artifact that was analysed as asked is not quarantined.
AnalyzedIsComplete ==
    \A r \in Listed :
      Done(r) /\ (\A p \in Asked(r) : Delivered(r, p))
        => r.analysis = "complete" /\ r.decision # "incomplete"

\* Evidence of danger blocks the extension, however incomplete the rest is
\* (the comment at scanner.py:4863): abuse that a run of a listed artifact
\* showed and malware reported for an id block at least one report of the id,
\* and the outcome that was published before the last decision says the same.
DangerBlocks ==
    \A r \in Listed :
      Done(r) /\ \/ HasReceipt(r) /\ "abuse" \in receipts[r.inst].saw
                 \/ [id |-> r.id, class |-> "confirmed"] \in request.registry
                 \/ /\ [id |-> r.id, class |-> "confirmed"] \in request.feed
                    /\ r.source \notin {"remote", "artifact-url-error"}
        => \E b \in Listed :
             /\ b.id = r.id /\ b.decision = "block"
             /\ b.outcome \in {"confirmed_threat", "preventive_block"}

\* What a run showed about one extension is never held against another, not
\* even what the run of an artifact showed that was then rejected.
EvidenceKeepsItsExtension ==
    \A r \in Listed : \A f \in r.found :
      f.of # 0 => f.of \in DOMAIN receipts /\ receipts[f.of].id = r.id

\* Each relationship that a requested target declares is answered exactly once
\* and truthfully, and no extension is acquired twice for relationships or
\* again although a requested target already was it.  The remote artifact comes
\* after the relationships: what it declares nobody looks at.
RelationshipsAnswered ==
    request.related /\ phase = "done" =>
      /\ \A r \in Listed : \A d \in r.declares :
           \/ r.child \/ r.source = "remote"
           \/ \E status \in {x.status : x \in r.answers} :
                /\ {x \in r.answers : x.id = d} = {[id |-> d, status |-> status]}
                /\ status = "self" <=> d = r.id
                /\ status \in {"scanned", "already"} =>
                     \E s \in Listed : s.id = d /\ s.source = "marketplace"
                                       /\ (s.child <=> status = "scanned")
                /\ status = "failed" => \E s \in Listed : s.id = d /\ s.child
                /\ status = "limit" => Cardinality({s \in Listed : s.child}) = MaxRelated
      /\ \A s, t \in Listed : s.child /\ s.id = t.id /\ s # t
           => ~t.child /\ t.source # "marketplace"

\* An approval is about an artifact (scanner.py:1783 says of a registry-only
\* target that "executable analysis was not performed").
ApprovalHasArtifact ==
    \A r \in Listed : Done(r) /\ r.decision = "allow" => r.whole

=============================================================================
