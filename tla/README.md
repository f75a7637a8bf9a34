# IDE Scanner: formal models

TLA+ models of the IDE Scanner (`src/src/ide_scanner`, `src/scripts`): what its
long-running parts do when their steps interleave, when processes are killed,
when deadlines pass and when the network loses answers. TLC checks small
instances; TLAPS proves the results named below for every value of the
constants. `PROJECT.json` maps each definition to the lines it stands for.

    tlc -config ServiceCore.cfg MCJobService       # any run of the table below
    tlapm JobServiceProofs.tla                     # any of the *Proofs modules

## 1. The system

| Part | State it keeps | Operations | Talks to |
|---|---|---|---|
| Scan job service (`service.py`) | one JSON file per job, one per report; queue and threads in memory | create/replay, claim, cancel, complete, fail, purge | worker pool, webhook consumer, HTTP clients |
| Webhooks (`webhooks.py`) | a delivery receipt inside the job record | batches of signed posts, retry passes | the consumer |
| Deep Scan worker (`run_scan_worker.py`, `claim_scan.py`, `callback_scan.py`) | the job in hand, three counters, a bundle file per job | claim, scan under a job timeout, post the verdict | control plane (external), one scanner process per job |
| Provider processes (`providers/runtime.py`) | a session of processes, two pipes, buffers | start, read under deadline and limit, kill | scanner process |
| Scan pipeline (`scanner.py`) | the reports of one scan | acquire, analyse, run providers, cover, decide, expand relationships | registry, artifact store, providers, sandbox |
| Runtime sandbox (`sandbox_runner.py`) | copied artifact, event trace | planned lifecycle and activation runs, validation of events | bubblewrap, strace |
| Registry (`registry.py`) | a download in a temporary directory | resolve, download with fallbacks, verify | marketplaces |
| Artifact store (`artifact_store.py`) | content-addressed files and a catalog | preserve, verify, look up | file system, SQLite |
| Policy (`classification_policy.py`, `public_outcomes.py`, `core.py`) | none | from findings and coverage to a decision | report bundle |
| MCP assessment (`mcp/`) | a cache, a temporary checkout | extractors in parallel, metric runners | package indexes, OSV, language model |
| Static analysis (`scanner.py`, `ast_analyzer.py`, `module_flow.py`, `providers/`) | none | what of a package is opened, which gaps are admitted | Node walker, Semgrep, YARA |
| Corpus runner (`scan_corpus.py`) | a checkpoint per result, a published report | place children by weight, poll, kill, publish, resume | one scanner process per artifact |
| Command line, actions, release tooling | none | around the pipeline | |

Where it is hard: the service runs request handlers, workers, abandoned runner
threads and a maintenance thread over the same files, and only some accesses
hold its lock; a scan may hang for ever and a thread cannot be killed; the queue
is in memory and the records are on disk, so a crash separates them; webhook
receipts live in records that other threads replace whole; the fleet worker
talks to a control plane over a network that may lose an answer after the effect;
a provider is a tree of processes in a session of its own, so each timeout
reaches only part of the tree below it; coverage and decision of a scan are
computed again and again as providers finish and must always fail closed; the
runtime sandbox believes records that arrive on a pipe which the extension
shares; two registries answer for one release and several scanners write one
vault without a lock; the corpus runner trusts checkpoints of an earlier run
over files that may have changed; seven extractors of an MCP assessment run at
once, over tools that fail in every way and answers that come in pages.
The hazards are listed in `PROJECT.json` at the lines where they bite.

What makes each part correct, in a sentence each:

- job store: a key names one job; an ended job stays ended; a report is served
  only for a job that completed;
- worker pool: every accepted job ends, every worker is freed;
- webhooks: only a crash or an exception in its own notification keeps a verdict from
  having its delivery on record or under way, and posts are bounded;
- fleet worker: the control plane is told what happened, and exit code 0 means
  it was told; it ends;
- provider runner: success means complete output and a voluntary exit 0; every
  call returns; what must be killed is killed with its session;
- pipeline: incomplete coverage never approves, block evidence never gets lost,
  no target is scanned twice and none is dropped silently;
- static analysis: what was not inspected is admitted as a limitation;
- runtime sandbox: a run that counts as coverage was captured whole and tells what
  was recorded; the call returns and leaves nothing running;
- acquisition: what is accepted is what was asked, and honest registries are not
  refused;
- artifact store: a catalog row has its object, whoever else preserves the same;
- corpus runner: a complete result is earned under the context of this run;
- MCP assessment: a metric that could not be computed is never a good metric, no
  advisory gets lost between scanners, and a reported danger blocks.

## 2. Modules

```
JobStore <- TerminalWebhook <- ScanPool <- StoreMaintenance <- JobService
                                                                   ^
JobLifecycle (abstract) <---- INSTANCE ---- JobServiceProperties --+
                                                 ^
        JobServiceInvariant <- MCJobService
        JobServiceInvariant <- JobServiceProofs <- ServingProofs

ProviderProcess <- ScanWorker <- MCScanWorker,  ScanWorkerProofs
SecurityDecision <- StaticAnalysis <- ScanPipeline <- MCScanPipeline,  ScanPipelineProofs
RuntimeHost <- RuntimeSandbox <- MCRuntimeSandbox,  RuntimeSandboxProofs
RegistryDownload, ArtifactStore <- Acquisition <- MCAcquisition,  AcquisitionProofs
CorpusScan <- MCCorpusScan,  CorpusScanProofs
DependencyInventory, AdvisoryMerge <- DependencyScan
DependencyScan, OsvQuery, ServerProbes, McpMetrics <- McpAssessment <- MCMcpAssessment,  McpAssessmentProofs
```

### The scan job service

**JobStore** is `class JobStore`: `jobs` and `reports` are the files, an action
per method. A method that holds the lock from read to write is one step.
`try_complete` writes two files and is two steps (`OpenCommit`, `CloseCommit`);
between them `lock` names the job, and readers that take no lock see the state
in between. `oldJobs` and `oldReports` are the files past retention. A rename
survives a crash of the process.

**TerminalWebhook** is `_notify_terminal_job`: read without the lock, post a
batch, write the whole record back. Its thread (`note[t]`) holds the copy in
between. A batch is one step that ends delivered or failed after 1 to
`WEBHOOK_ATTEMPTS` posts; a failed batch is charged in full, as in the code.

**ScanPool** is `ScanWorkerPool` and `execute_marketplace_job`. Runner and
watcher are named by the job, since a job is queued once. `run` is where the
runner is, `watch` where its worker is; `expired` means that the worker went on
and the runner did not.

**StoreMaintenance** is `maintain_store`: purge, mark interrupted, retry
deliveries, over a todo set that was listed at the start of each loop. The
purge of one directory is one step that removes any part of the old files. The
branch that dead-letters a failed receipt without budget is left out because
nothing reaches it: `ReceiptsHaveBudget`, a part of `CopiesAreHarmless`, is checked
and proved.

**JobService** puts them together: HTTP handlers as steps between their store
calls, crash and restart, exceptions in store writes and posts, time passing
for files. A 409 answer changes nothing and is a stutter.

**JobLifecycle** is what clients and the webhook consumer may rely on: the life
of a job and the events about it. `serve` always starts the maintenance loop
(service.py:1044), so the service as it runs implements `ServedSpec`, with the
revisions that stale copies bring about (`ImplementsServedLifecycle`). The stricter
`Spec` is what it would give if the pass kept to startup (`ImplementsLifecycle`).

### The fleet worker

**ProviderProcess** is `run_bounded_process`. A call has a leader and possibly a
descendant in the same session, both holding the pipes until they exit or close
them. The caller is the select loop of `_communicate_bounded` followed by its
two waits. SIGKILL is pending until the process dies, which may be never. Output
is counted in chunks. `Terminate` does nothing once the leader has exited, as
`_terminate_process_tree` does.

**ScanWorker** is `run_scan_worker.py` on top of it: claim, scanner process,
job timeout, callback. A failed request may or may not have taken effect. The
scanner's session does not contain the providers', so a job timeout kills the
scanner and orphans the call (`Abandon`). The control plane is external: it
hands out a job once and records what it is told. Of several provider calls of
a scan one is modelled.

### The pipeline

**SecurityDecision** holds the pure functions of the policy: `Finalize` is
`_finalize_analysis_coverage`, `Verdict` and `Decision` are `_classify_findings`
and `_apply_security_decision`, `PublicOutcome` and `TrustTier` are what is
published. A finding is one of eight classes, the distinctions these functions
make. A limitation is the provider it names, or "artifact".

**StaticAnalysis** is the part of `scan_extension` that decides what is looked
at: a package is a few files by what the analysers ask about them (kind, place,
size, generated or not, what the walker answers, their imports), a manifest and
the tools of the host. `StaticCoverage` is the coverage that the code claims.
Below it `Loaded`, `Carried`, `Inspected`, `Whole`, `Understood` and `Engines`
say independently what a complete analysis of such a package is; properties
compare the two. What rules find inside a file is left to the artifact.

**ScanPipeline** is one call of `_scan_request`: an action per phase and per
target, over `reports` (the list `extensions`), `receipts` and `evidence` (the
runtime bundle). The phases are sequential, so the interest is in what one phase
stores and a later one looks up: by instance, by extension id, by position, and in
coverage and decisions that are computed several times. Scans, sandbox runs and
downloads end in any way the code distinguishes. The process pool keeps the order
of its results and is not visible here. Letter case of ids is not modelled, and no
two artifacts have equal bytes. A capability that contradicts the functional class
is one class, `contract`, although the code derives it twice.

### The runtime sandbox

**RuntimeHost** is what runs inside: a lifecycle script, or the activation runner
with the hook of `sandbox_runner.py`. Hook and extension share a process and its
stderr, a pipe of `PipeLines` lines. The extension prints text, acts through
patched functions or system calls, starts a second node process, closes its
pipes, hangs or quits, at any time; every record the hook writes is
authenticated, and is lost behind text without line end or in a closed pipe. The
system call tracer sees what the hook does not.

**RuntimeSandbox** is `run_sandbox` around it: preflight, planned scripts, the
entrypoint, the bounded capture with deadline and output limit, the validation of
the transport, the external trace, the status of the run and `Covered`, the
receipt the pipeline makes of it. `spoiled` records what really went wrong in a
phase, for the properties only.

### Acquisition and store

**RegistryDownload** is `download_marketplace_vsix` per caller: the lookups at
both registries, the plan of addresses, the attempts, unwrapping, the digest
that the Marketplace publishes. Answers and bytes are free; `honest` tells
whether the registries told the truth. **ArtifactStore** is
`FilesystemArtifactStore.preserve`: staging file, link, what the loser of a link
checks, catalog row, each a step, between scanners with connections of their own.
**Acquisition** is `scan_marketplace_extension` over both: download, preserve,
scan what was preserved, compare identity, with killed scanners, failing file
operations and objects that are damaged later.

### The corpus runner

**CorpusScan** is `scan_corpus.py`: children placed by weight under a capacity, one pass
of the poll loop as a step, deadlines, the identity check of reports, a
checkpoint per result, publication, and a second run that resumes. Files are
replaced, children fail or hang beyond the reach of a signal, and the parent is
killed. `--jobs 1` is the sequential loop with its own handling of failures.

### The MCP assessment

**DependencyInventory** and **AdvisoryMerge** are pure: lockfile parsers and the
table of dependencies they fill; the merge of advisories that go by several
identifiers. **DependencyScan** runs them: package managers beside every
manifest without lockfile, then depscan and osv-scanner at once, each of which
may fail, time out or answer nonsense. **OsvQuery** is the paged query for the
server's own package, with its retries and the second query by version.
**ServerProbes** says what the other five extractors conclude from the answers
they get, and which exceptions they let through. **McpMetrics** is the twelve
runners, the weighted tree and the decision; a score is a fraction of hundredths.
**McpAssessment** is one assessment: clone, seven extractors in any order, an
exception of one ending it while the others run on, evaluation.

## 3. Runs

| Run | Bounds | Shows |
|---|---|---|
| `service_core` | 2 jobs, 1 key, 2 requests, 1 worker, queue of 1, batches of 2 under a cap of 3, a crash, expiry; maintenance at startup only | type correctness, one job per key, no wedged job, cancellation honoured, refinement of the strict JobLifecycle |
| `service_hostile` | 1 job, live maintenance, 2 crashes, an exception, expiry | stale copies are harmless, verdicts stay in the outbox but for the two named steps, posts are bounded, ended jobs stay ended, refinement of the served JobLifecycle, retries settle |
| `service_live` | 2 jobs, 1 worker, a crash, an exception | accepted jobs end, workers are freed |
| `service_live_maintenance` | 1 worker, live maintenance | violation of `CompleteIsFinal` |
| `scan_worker` | 2 jobs, one scan with a provider on two pipes and a limit of one chunk, 2 claim attempts, 2 posts | successful output is complete, a killed session is gone, verdicts and exit code are truthful, provider calls return, the worker ends |
| `scan_pipeline` | thousands of requests: ten that mix targets of 3 ids, with the artifacts each may meet, and one per troubled package (every kind of file, trees of imports, tools, manifests; 3 files, 2 modules) | what is approved was analysed as asked, and the converse; danger blocks; evidence stays with its extension; relationships are answered |
| `pipeline_registry_only` | the same | violation of `ApprovalHasArtifact` |
| `runtime_sandbox` | packages of scripts, of an entrypoint and of both; workers that lack one thing each; 2 acts, 1 handler, a pipe of 2 lines, a limit of 3 lines | a covered run was captured whole and tells what was recorded, a ready worker runs, nothing runs on, the call returns |
| `acquisition` | 2 scans (one has downloaded), 4 requests, one kill, fault or damage | what is accepted was asked, honest releases are accepted, rows have objects, only faults stop preserving |
| `acquisition_relabel` | the same | violation of `CatalogNamesRelease` |
| `corpus_scan` | 3 artifacts, 1 or 2 jobs, 2 runs, 2 contexts, one fault | a complete result is earned, every run ends |
| `mcp_assessment` | 2554 worlds; 3 pages, 1 retry, a budget of 4 secrets' tokens | what is declared is listed, the order of files is immaterial, a successful scan tells every advisory, OSV success is whole, a reported danger blocks |

Why the bounds are enough. Two jobs on one worker and a queue of one give a full
queue, a refused job, a job behind a hung scan and two jobs under one key. The
interplay of stale copies needs one job and several threads, so the hostile
instance has one job and every disturbance. A cap that a batch does not divide
(2 under 3) separates off-by-one errors of the budget. Two crashes let the
startup pass itself be cut off. In the worker two jobs show that a failure is
remembered, and two pipes share one limit and end together; the second job
makes no provider call, because calls of different jobs do not meet. Phases of the
pipeline meet through ids, so three ids suffice: one with two artifacts, one that
is mistaken for it, one that only intelligence or a declaration names. A package
of three files has an entrypoint, what it imports and a file beside them, and
limits of three files and two modules let each limit be met and exceeded. In the
sandbox a pipe shorter than the limit makes a writer wait for its reader, and two
acts are one before and one after any event. Two scans race for one object; a
third would meet what the second met. Three artifacts under a capacity give one
that fits, one that waits and one that is heavier than what is left. Three pages
are a first, a middle and the one at the limit. An MCP world varies one
extractor, or two that meet in a metric, and keeps the others quiet: extractors
share no state, and the metrics see one or two of them.
`MaxCrashes`, `MaxFaults`, `MaxHurt`, `MaxRuns`, `MaxActs` and `Callers` are
bounds and not code. Deadlock is checked only for `mcp_assessment` and the
pipeline, whose ends are explicit; elsewhere a bounded instance in which
everything has ended may stop.

Findings (the violation runs):

- The maintenance thread runs beside live work. It marks queued and running jobs
  as interrupted although their runner is alive, and writes back a record it
  read earlier: a job that completed in between becomes failed and loses its
  report reference and receipt (`CompleteIsFinal`).
- A target given by its id only (`--extension-id`) starts as incomplete because
  nothing was analysed; the final loop recomputes completeness from a coverage
  without limitations, and the report ends complete and allowed
  (`ApprovalHasArtifact`).
- A request without a version whose Marketplace address fails is served by Open VSX
  with whatever release it has, and the catalog records those bytes as the
  Marketplace's release (`CatalogNamesRelease`).

### Also seen while modelling

No run states these. Most are excepted by name in the premise of a property.

Service and worker:

- "The job record is the durable outbox." (service.py:530), but the retry pass looks
  for failed receipts only (service.py:541). A crash, or an exception in the notifier,
  between the record of a verdict (service.py:304, 503) and its receipt (service.py:524)
  leaves a record without one, and that verdict is never notified, although the process
  restarts. `OutboxHoldsEveryVerdict` names the two steps, `Crash` and `NotifyRaises`.
- An exception in a worker thread or in the maintenance thread ends it and nothing
  starts another (service.py:447, 578): `WorkerIsFreed` and `RetriesSettle` except it.
- A claim whose answer was lost leaves a job with the control plane that no worker
  holds (claim_scan.py); `ExitZeroIsReported` is about jobs that were received.
- After a timeout a pool worker takes the next job while the abandoned scan goes
  on (service.py:468), although "at most ``max_workers`` scans run concurrently"
  (service.py:405-406).
- A crash between the two writes of `try_complete` (service.py:299) leaves a
  report that is served for a job which is later marked failed.
- The job timeout kills the scanner's process group only (run_scan_worker.py:324);
  providers have sessions of their own (providers/runtime.py:112) and go on without
  a deadline, although the function is to "Stop the scanner and any provider children
  after a job timeout." A timed-out provider whose leader has exited leaves a
  descendant alive (the premise of `KilledTreeIsGone`).
- A job is stored before the queue is asked, so a replay in between is told 202 and
  the job is then rejected; a reject that follows a cancellation overwrites the
  cancelled record; a job and its report may expire apart; a last batch may begin
  with one attempt left, and a stale receipt may put back what maintenance had
  counted, so the posts about one verdict exceed the cap (`PostsAreBounded` says
  by how much); a connection closed before the answer raises an exception the notifier does not
  catch and ends its thread.

Pipeline and static analysis:

- Observations under a bare id become findings of the last report with that id
  (scanner.py:3961): of two artifacts with one id the one that was seen misbehaving
  may be allowed. `_runtime_instance_key` promises a "collision-resistant key used
  for per-installation runtime evidence" (scanner.py:1234).
- A nonzero exit of an entrypoint, also one that met a resource limit, counts as
  runtime coverage (scanner.py:1312), while "A limit breach is reported as failed
  runtime coverage and cannot become an approval."
  (docs/production-readiness.md:198-199) and a completed receipt is asked for
  (docs/production-readiness.md:215-219).
- `--expand-extension-relationships` names a variable that does not exist
  (`ExpandRaises`); a remote artifact that has the right hash and cannot be unpacked
  ends the whole request (`RemoteRaises`), and one that can is never run although
  `--runtime` is given; feed hits reach only the last report of their id, and never
  a remote artifact (hence the premise of `DangerBlocks`), whose declared
  relationships are not answered either, as it is added after the walk (hence the
  exception in `RelationshipsAnswered`); the public outcome is not
  derived again after the comparison with the baseline, so a report may be "review"
  and "clear"; the outcome `expected_capability` is never reached.
- A declared entrypoint without the suffix of an executable language is not analysed
  by the source analysers, although "Declared entrypoints still override this
  filter and are always analyzed." (scanner.py:5679-5680).
- "larger non-generated source files fail closed with the explicit
  ``resource-skipped`` status" (ast_analyzer.py:18-19), but any text of that size
  counts as generated and takes the other branch. An oversized text
  that is no code is reported as a skipped executable file.

Sandbox:

- A record that arrives behind text without line end is no line of its own and is
  dropped without a trace (sandbox_runner.py:1673), as is one written to a pipe that
  the artifact has closed, and a transport that was cut is
  ignored for a lifecycle script whose text does not name node: what such a run did
  can be missing from it (the exceptions of `CoveredRunTellsAll`).
- With sudo a refused kill raises PermissionError while the process runs on.
- `process.exit(0)` before activation counts as an executed entrypoint; a second node
  process that inherits stderr invalidates an honest run; what was recorded before a
  timeout is dropped with the run.

Acquisition and store:

- A failed unwrapping leaves its temporary file (registry.py:276);
  `http.client.IncompleteRead` passes every handler; a short body is accepted when
  no digest is published; an empty answer is not retried at Open VSX.
- An artifact of another identity is preserved before the identity check rejects it;
  a Visual Studio package takes the id that was asked for.
- The loser of the link does not sync the directory; `.staging-` files of killed
  scanners are never removed; an artifact that was zipped twice has one hash in the
  report and another one in the store.

Corpus runner:

- A failed child that printed white space only (IndexError) and one that outlives the
  kill (TimeoutExpired) end the parallel loop (`PollRaises`), although "one hostile
  artifact must not abort a corpus" (scan_corpus.py:462, the handler of `--jobs 1`).
- One heavy artifact raises the capacity for all (scan_corpus.py:539), so with two jobs
  four light children run, although "``jobs`` remains the maximum number of child
  processes" (scan_corpus.py:530).
- The advisory snapshot is hashed once; a relative advisory path is resolved against
  another working directory in the child; temporary names are shared by runs.

MCP assessment:

- The decision `incomplete` (docs/mcp-assistant-workflows.md:75) is never produced; a
  server may be allowed with one of twelve metrics assessed; a language model that
  failed scores 0.00 with success for its metric.
- `auth_modes` hands over keys of one search provider that `web_research` does not
  read, so OAuth metadata is not probed; pins are stripped from Python commands only, so OSV is asked
  for a wrong name; secrets beyond the token budget are dropped; malware that one
  source named does not block when the scan as a whole failed.
- A MAL- entry is dropped when its GHSA alias was recorded under a CVE; the severity
  of osv-scanner is lost when depscan listed the same advisory; an empty `"ratings": []`
  raises IndexError; a corrupt lockfile is an empty one.
- When no lockfile could be made, only package.json and pyproject.toml are read
  directly (sca_pipeline.py:373), without their optional dependencies: those names, and
  all of Cargo.toml, are missing from the inventory (`DeclaredIsListed` asks for what
  the parsers and that reading see).
- An extractor that raises ends the assessment and removes the checkout before the
  others, which read it, are cancelled; generators and depscan write into the
  checkout while others read it; the cache key has no commit.
- A TLS port other than 443 that answers 400 is HTTP_FALLBACK, and an http URL whose
  HTTPS probe times out is HTTP_ONLY; the comment at transport_security.py:20-26 and
  the code differ on a negotiated weak version (the code warns, the comment asks for failure).

## 4. Fairness

- Service: started threads run (weak fairness of each thread's own step), a wait with
  a timeout ends, a post ends within its socket timeout, a supervisor restarts a
  crashed process. Nothing is assumed of a scan or a client: a scan may hang.
- Worker: the worker's own step, the reader of a provider call and its deadline.
  Nothing is assumed of scanner, provider or descendant, not even that a killed
  process goes away. The job timeout is not among the fair steps, so `CallReturns`
  is owed to the provider runner alone; `WorkerEnds` names it as its premise.
- Sandbox: the scanner's steps (`Harness`) and its deadline; nothing of the extension.
- Corpus runner: the parent's steps and the deadlines; nothing of the children.
- The pipeline, acquisition and MCP runs check safety only.

## 5. Proofs

Every theorem below is proved for all values of the constants that satisfy the named
ASSUMEs of the modules (sentinels are no members, sizes are positive, the records
that an instance enumerates are of the type the code has), without any bound of
section 3. Each proof has the same shape: an invariant `I` that implies the
property, with `Init => I` and `I /\ [Next]_vars => I'`, one lemma per action and
conjunct it can disturb, and lemmas for the kinds of steps that leave a conjunct
alone. TLC checked the invariants of the sandbox, the webhooks, the serving process,
the corpus and the MCP assessment on the instances of section 3 as well.

| Module | Theorems (the property) | Invariant |
|---|---|---|
| `JobServiceProofs` | `TypeCorrect` (`TypeOK`), `CopiesStayHarmless` (`CopiesAreHarmless`), `OneJobPerKey` (`KeyBindsOneJob`), `EndedForGood` (`NeverReactivated`) | `IInv` |
| `ServingProofs` | `VerdictsAreRecorded` (`OutboxHoldsEveryVerdict`), `PostingIsBounded` (`PostsAreBounded`) | `WebhookInv` |
| | `NoJobIsWedged` (`NoWedgedJob`), `CancellationsAreHonoured` (`CancelHonoured`) while `Steady`; `StartupPassImplementsLifecycle` (`ImplementsLifecycle`) for a service without the loop and without faults | `ServingInv` |
| | `CompletionEndsByPass`, `ServiceImplementsServedLifecycle` (`ImplementsServedLifecycle`) | `VerdictInv` |
| `ScanWorkerProofs` | `SuccessIsWhole` (`SuccessIsComplete`), `KilledTreeStaysDead` (`KilledTreeIsGone`), `VerdictsAreTrue` (`VerdictMatchesScan`), `CleanExitToldAll` (`ExitZeroIsReported`) | `ProviderInv` and the worker's |
| `ScanPipelineProofs` | `ReportsAreHonest`, `ApprovalsAreEarned` (`ApprovedWasAnalyzed`), `AnalysesAreHonored` (`AnalyzedIsComplete`), `EvidenceIsOwn` (`EvidenceKeepsItsExtension`), `DangerIsBlocked` (`DangerBlocks`), `RelationshipsAreAnswered` (`RelationshipsAnswered`) | `RunsOK`, `CoverOK` and one more each |
| `RuntimeSandboxProofs` | `CoverageIsEarned` (`CoveredRunIsWhole`), `CoverageTellsAll` (`CoveredRunTellsAll`), `ReadyIsEnough` (`ReadyWorkerRuns`), `NothingIsLeftRunning` (`NothingRunsOn`) | `SandboxInv` |
| `AcquisitionProofs` | `ReportsAreOfWhatWasAsked` (`AcceptedIsAsked`), `HonestReleasesPass` (`HonestReleaseAccepted`), `CatalogIsTrue` (`PreservedIsOnRecord`), `ScansDoNotDisturb` (`OnlyFaultsStopPreserving`) | `AcquisitionInv` |
| `CorpusScanProofs` | `PublishedIsEarned` (`CompleteIsEarned`) | `CorpusInv` |
| `McpAssessmentProofs` | `OsvAnswersAreWhole` (`OsvSuccessIsWhole`), `SuccessTellsEverything` (`SuccessTellsAll`), `DangerIsBlocked` (`ReportedDangerBlocks`) | `McpInvariant` |
| | `DeclaredAreListed` (`DeclaredIsListed`), `OrderNeverMatters` (`OrderIsImmaterial`) | `Gathered`, over `McpInvariant` |

**The job store.** `KeyBindsOneJob` is not inductive: an open commit or a notifier
holds a copy of a record whose file may be purged while another job takes the key,
and writing the copy back would then give the key two jobs. `IInv`
(JobServiceInvariant) says why this cannot happen: whoever holds a copy either still
has the record in the store under the same key, or holds the lock while nobody else
has the key (`CommitHoldsKey`); and a copy that is written without looking at the
status is of a terminal record (`CopiesAreTerminal`, `NotifiesTerminal`), and its
receipt is within budget. This holds with live maintenance, crashes, faults and
expiry.

**The webhooks**, under the same disturbances. A post and the record of it are two
steps, and the maintenance pass may write an older receipt over a newer one, so the
count in a record says little by itself. `PostsAreCounted` bounds the posts by what the
record is charged, plus what a stale receipt may still put back (`Allowance`, spent once
handler, runner and watcher are done), plus the batch in flight and the batches cut
off. It needs that runner and watcher never both notify (`OneNotifier`) and that
nothing is posted before the verdict (`NothingIsEarly`).

The outbox is a property of steps, `Kept(j)` before gives `Kept(j)` after: an
invariant would be false, since a crash does lose deliveries. Its proof needs that a copy
about to be written has a receipt (`BatchHasReceipt`) and that no thread begins
with another job before it is done with this one (`PoolNotes`).

**The deployed service.** `VerdictInv` adds what the threads know of a completion, with
live maintenance, crashes and faults. Copies that are posted or written back are of
complete or failed jobs, and the pass itself decides failures only
(`CopiesAreVerdicts`). When the record is complete, or the pass holds a complete copy
of it, the runner or watcher that notifies holds one as well (`CompletionIsKnown`): it
read the job after it had ended. So only the pass ends a completion
(`CompletionEndsByPass`); it does, since MarkRead may come before the commit and MarkWrite after it.
The refinement of `ServedSpec` needs in addition that a job still offered has not
been run (`OfferedIsNotRun`).

**The serving process.** These theorems hold while maintenance runs only before
serving and no store write or post has raised (`Steady`). That is not how `serve` runs
it: they say what a pass that kept away from live jobs would give, and
`service_live_maintenance` shows what the loop takes away; a fault may end a worker with the job in its hands. The
heart is `InHands`: an active job of a serving process is with its handler, in the
queue or watched by a worker, which a crash breaks and the startup pass restores
(`StartupMarks`). The refinement follows from `CopiesAgree` and `PostedIsVerdict`:
whatever is written back or posted has the verdict of the record.

**Worker and provider runner.** A stream is given up only when nobody can write to it
(`EndIsSilent`), so a call that met neither limit nor deadline lost nothing
(`NothingCutYet`), and only such a call succeeds. Once the leader is signalled so
is every process of its session (`TreeIsSignalled`). The worker tells what the scan
deserves because only the job in hand is scanned, and a job that waits has no trace.

**The pipeline.** Three layers. `HonestCover`: the statuses and limitations that
`scan_extension` claims are complete exactly when the package was looked at as a whole;
this is a fact about the functions of StaticAnalysis, proved file by file and edge by edge.
`RunsOK`: receipts, evidence and places of reports agree, although places shift
meaning from phase to phase. `CoverOK`: what is missing stays admitted in every phase
that computes coverage again, and behaviour that was seen is remembered. Approval
and its converse follow. On top, `EvidenceOK` says under which keys evidence may be
found, `DangerOK` that each source of danger has blamed a report of the id
once its phase is over, and `RelatedOK` that every declaration is answered or still
open while the walk counts its children.

**The sandbox.** A record is in the pipe, in the capture or torn until it is
collected (`NothingIsMissed`); a capture that ended by itself left a dry pipe that
nobody writes to (`PipeIsDry`); and what spoils a phase is first a mark in its
capture, then an observation that refuses coverage (`SpoilingIsObserved`).

**Acquisition.** Each address a call tries is of the release asked for, at a registry
that may answer for it (`UrlIsAsked`); content is in hand and on disk until the call has
ended; and a scan keeps what it downloaded, under its own label, whoever else writes
the same object (`KeepsWhatItGot`, `LinkedIsThere`).

**The corpus runner.** While a run lasts, a target has a result, a child or a place
in the queue (`NobodyIsLost`); child, result and checkpoint each carry the scan
they come from and the context it was made under (`CompleteIsScanned`).

**The MCP assessment** has few steps, and each runs loops over data: pages,
advisories, files, metrics. The library's induction takes an operator, which the
provers cannot instantiate, so induction runs over a set of naturals that has a
least member (`PrefixInduction`), and each loop, a fold of the community modules, is
unrolled into the sequence of its intermediate results (`FoldPrefixes`).

- The query: while a fetch goes on, what it collected is what the pages on the way
  from the first one to the page it asks for hold (`Walks`); a fetch that ends
  without a cut has walked all that the tokens lead to, and dropping
  duplicates keeps an advisory with a shared identifier (`QueryOK`).
- The merge: four places drop an advisory because one of its identifiers is known.
  At each of them the one that stays leads back to the one that goes by shared
  identifiers of the same package, and this relation survives the merge of reports,
  of scanners and of versions into entries, in every order the code may take.
- The table of dependencies, whose rows replace one another, has a closed form:
  `TableOf(D, R)` says what it is after the rows R were added in any order, when the
  names D are direct. Adding a row to the form for R gives the form for R and the row.
  The order of the lockfiles does not occur in it, which is `OrderIsImmaterial`, and
  every declared name has a direct row in it. Manifest rows come after and keep both.
- The decision: a danger makes the metric that sees it veto (`Assessing` ties answers
  to metrics, `Scanning` the scan's result to the scanners), and the strongest veto of
  the tree decides, whatever the weighted mean is.

`WorldsAssumption` states what is assumed of the worlds: records of the types the code
reads, tokens that lead to pages. It bounds neither files, packages, identifiers,
pages nor retries.

Proof attempts corrected what the models and properties said:

- The old bound of `PostsAreBounded` was false for batches of one attempt under a cap
  of 4: TLC found 7 posts where 6 were allowed. `Budget` is what a receipt can be
  charged.
- `RelationshipsAnswered` failed for remote artifacts, which no request of the run had
  combined with relationships; the property names the exception and a request has both.
- Two arms of a CASE in `RequestProviders` overlapped where the code has an
  if-elif chain.
- Recording advisories and dropping duplicates were recursive or updated functions of
  unknown domain; they are folds over positions now, the reached pages and the linked
  identifiers least closed sets, and the package manager's fields of a directory are
  read only where there is a package.json (`Directory`).
- Import closures are least closed sets (`Closure`) instead of iterations; the
  records in `Served`, `Requests` and `Corpora` are typed by named ASSUMEs.

Only model-checked:

- Liveness (`RetriesSettle`, `AcceptedTerminates`, `WorkerIsFreed`, `CallReturns`,
  `WorkerEnds`, `SandboxReturns`, `CorpusEnds`) needs fairness and ENABLED, which
  the provers do not treat.

## 6. Not modelled

- Service: authentication, input validation, audit lines, the job history page and
  payload layout change no modelled state.
- Worker: preflight, `enqueue_scan.py`, the operator's replay of a stored bundle.
- Pipeline: external observation files, replayed registry snapshots; the bounded
  relationship walk (scanner.py:6786), which `ExpandRaises` makes unreachable.
- Static analysis: the lexers that find imports, value flow inside a file, the rules
  of Semgrep, YARA and the native packs: functions of text, left to the artifact.
- Sandbox: the set-up of namespaces, canaries and fixtures, and the classification
  of observed paths and destinations.
- Acquisition: `enrich_registry`, search, the public-address check; `search` and the
  first_seen and last_seen columns of the store.
- Corpus runner: aggregation of runtime evidence, hashing of the advisory snapshot.
- MCP: prompts and parsing of the language model, HTTP and TLS clients, file syntax
  of lockfiles, the cache (no caller passes one).
- Renderers, workspace comparison, rule registry, policy files and posture, command
  line, container worker, release tooling and workflows keep no state: pure
  functions of finished scans, or configuration around the parts above.

Control plane, webhook consumer, kernel, marketplaces, package indexes and language
model are external. Components are listed one by one in `PROJECT.json`.

## 7. Plan

1. Action properties of the proved components: receipts and catalog rows are only
   added, a verdict once told is not told differently.
2. The relationship walk as an algorithm of its own, external observations and
   replayed registry snapshots in the pipeline, version order against a reference
   definition.

The modules are written for the proofs: no RECURSIVE, parameters with named
assumptions, an action per operation.
