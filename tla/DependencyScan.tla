---------------------------- MODULE DependencyScan ----------------------------
(***************************************************************************)
(* One dependency scan of an MCP server's checkout (mcp/sca_pipeline.py,   *)
(* mcp/lockfiles/generators.py, mcp/extractors/sca.py).  A package manager *)
(* runs beside every manifest that has no lockfile; what it wrote, and what*)
(* was there, is parsed; then depscan and osv-scanner run at the same time *)
(* and their findings are merged.  Every one of these processes may fail,  *)
(* time out or write nonsense, and the scan never throws.                  *)
(***************************************************************************)
EXTENDS DependencyInventory, AdvisoryMerge

(* A directory is [manifest, manager, locks, makes]: the manager its          *)
(* package.json asks for, its lockfiles, and the lockfile a package manager   *)
(* would write.                                                               *)

Directory(d) ==
    /\ d = [manifest |-> d.manifest, manager |-> d.manager, locks |-> d.locks, makes |-> d.makes]
    /\ d.manifest \in Manifest /\ d.makes \in Lockfile
    /\ d.locks \in [DOMAIN d.locks -> Lockfile] /\ DOMAIN d.locks \subseteq LockfileKinds
    /\ d.manifest.name = "package.json" => d.manager \in JsLockfiles
Checkout(c) == c \in Seq(ToSet(c)) /\ \A i \in DOMAIN c : Directory(c[i])

(* A scanner ends without an answer or exits; osv-scanner prints one document. *)
NoAnswer == [outcome : {"error"}, output : {"empty"}]
DepscanEnd == NoAnswer \cup [outcome : {"exit"}, code : Nat, reports : Seq(Seq(Advisory)),
                            unreadable : BOOLEAN]
OsvEnd == NoAnswer \cup [outcome : {"exit"}, output : {"empty", "garbage", "odd", "json"},
                        advisories : Seq(Advisory)]

VARIABLES dirs,       \* the directories of the checkout as they are now
          phase,      \* none before the checkout; generate, scan, done
          generating, \* the directories whose package manager runs
          generated,  \* the (directory, kind) pairs the generators returned
          parsed,     \* (directory, kind) pairs, in the order they were parsed in
          inventory,  \* what the lockfiles and manifests came to
          depscan,    \* what depscan ended as; running before
          osv,        \* what osv-scanner ended as; running before
          result      \* the scan result

dependencyVars == <<dirs, phase, generating, generated, parsed, inventory, depscan, osv, result>>

Running == [outcome |-> "running"]
NoResult == [success |-> FALSE, dependencies |-> {}, entries |-> {}, raised |-> FALSE]
NoInventory == [kinds |-> <<>>, transitive |-> {}]

Dirs == DOMAIN dirs
HasLock(d, kind) == kind \in DOMAIN dirs[d].locks
HasManifest(d) == dirs[d].manifest.name # "none"

\* The lockfile of a package.json directory's manager: the first that is there,
\* else that of the packageManager field.
DetectPackageManager(dir) ==
    LET order == <<"yarn.lock", "pnpm-lock.yaml", "bun.lock", "package-lock.json">>
        there == {i \in DOMAIN order : order[i] \in DOMAIN dir.locks}
    IN IF there = {} THEN dir.manager ELSE order[Min(there)]

\* The lockfile a directory's generator is responsible for.
LockfileOf(dir) ==
    CASE dir.manifest.name = "package.json"   -> DetectPackageManager(dir)
      [] dir.manifest.name = "pyproject.toml" -> "uv.lock"
      [] dir.manifest.name = "Cargo.toml"     -> "Cargo.lock"

DependencyInit ==
    /\ dirs = <<>> /\ phase = "none"
    /\ generating = {} /\ generated = {} /\ parsed = <<>>
    /\ inventory = NoInventory
    /\ depscan = Running /\ osv = Running
    /\ result = NoResult

\* A checkout is scanned; without one there is nothing to do.
DependencyStart(checkout) ==
    /\ dirs' = checkout /\ phase' = "generate"
    /\ generating' = {d \in DOMAIN checkout : checkout[d].manifest.name # "none"}
    /\ UNCHANGED <<generated, parsed, inventory, depscan, osv, result>>

NoCheckout ==
    /\ phase' = "done"
    /\ UNCHANGED <<dirs, generating, generated, parsed, inventory, depscan, osv, result>>

-----------------------------------------------------------------------------
(* Lockfiles: one task per manifest, all at once.                            *)

EndGenerate(d, made) ==
    /\ generating' = generating \ {d}
    /\ generated' = generated \cup made
    /\ UNCHANGED <<phase, parsed, inventory, depscan, osv, result>>

KeepExistingLockfile(d) ==
    /\ phase = "generate" /\ d \in generating
    /\ HasLock(d, LockfileOf(dirs[d]))
    /\ EndGenerate(d, {<<d, LockfileOf(dirs[d])>>})
    /\ UNCHANGED dirs

\* The lockfile that a directory's package manager leaves behind.
LeavesLockfile(d, lock) ==
    LET kind == LockfileOf(dirs[d])
    IN dirs' = [dirs EXCEPT ![d].locks =
                   [k \in DOMAIN @ \cup {kind} |-> IF k = kind THEN lock ELSE @[k]]]

\* The package manager exits with success and its lockfile is there.
GenerateLockfile(d) ==
    /\ phase = "generate" /\ d \in generating
    /\ ~HasLock(d, LockfileOf(dirs[d]))
    /\ LeavesLockfile(d, dirs[d].makes)
    /\ EndGenerate(d, {<<d, LockfileOf(dirs[d])>>})

\* It is missing, fails, writes nothing, or is killed at its time limit.  A
\* killed one may leave half a lockfile, which the search below finds.
GenerateFails(d) ==
    /\ phase = "generate" /\ d \in generating
    /\ ~HasLock(d, LockfileOf(dirs[d]))
    /\ \/ UNCHANGED dirs
       \/ LeavesLockfile(d, [dirs[d].makes EXCEPT !.state = "corrupt"])
    /\ EndGenerate(d, {})

-----------------------------------------------------------------------------
Fails(e) ==
    /\ phase' = "done"
    /\ result' = e

\* The exception becomes a failed result without dependencies.
Raised == Fails([NoResult EXCEPT !.raised = TRUE])

Lockfiles == generated \cup {f \in Dirs \X LockfileKinds : HasLock(f[1], f[2])}
Manifests == [d \in Dirs |-> dirs[d].manifest]

ParsedFile(f) == ParseLockfile(f[2], dirs[f[1]].locks[f[2]], dirs[f[1]].manifest)
ParsedIn(order) == [i \in DOMAIN order |-> ParsedFile(order[i])]

ParserRaises ==
    \E f \in Lockfiles : ParseRaises(f[2], dirs[f[1]].locks[f[2]], dirs[f[1]].manifest)

\* Every lockfile is parsed, in the order of an unordered list; an exception of
\* one parser ends the scan.
CollectDependencies ==
    /\ phase = "generate" /\ generating = {}
    /\ IF ParserRaises
       THEN Raised /\ UNCHANGED <<parsed, inventory>>
       ELSE /\ parsed' \in SetToSeqs(Lockfiles)
            /\ inventory' = Inventory(ParsedIn(parsed'), Manifests)
            /\ phase' = "scan"
            /\ UNCHANGED result
    /\ UNCHANGED <<dirs, generating, generated, depscan, osv>>

\* The scanners end in any order: no answer (time limit, missing program) or an
\* exit with what was written.
DepscanEnds(r) ==
    /\ phase = "scan" /\ depscan = Running
    /\ depscan' = r
    /\ UNCHANGED <<dirs, phase, generating, generated, parsed, inventory, osv, result>>

OsvEnds(r) ==
    /\ phase = "scan" /\ osv = Running
    /\ osv' = r
    /\ UNCHANGED <<dirs, phase, generating, generated, parsed, inventory, depscan, result>>

BothEnded == phase = "scan" /\ depscan # Running /\ osv # Running

\* A scanner that gave no answer has no return code, which is not zero.
DepscanSucceeded == depscan.outcome = "exit" /\ depscan.code = 0
OsvPrinted == osv.outcome = "exit" /\ osv.output # "empty"

\* The scan itself fails when neither scanner said anything usable.
ScannersFailed ==
    \/ depscan.outcome = "error" /\ osv.outcome = "error"
    \/ ~DepscanSucceeded /\ ~OsvPrinted
    \/ ~DepscanSucceeded /\ osv.output = "garbage"

Dependencies == {<<k[1], k[2], k[3], inventory.kinds[k]>> : k \in DOMAIN inventory.kinds}

\* listed: the (ecosystem, name) pairs of the malicious-package list, if any.
NoScannerAnswered(listed) ==
    /\ BothEnded /\ ScannersFailed
    /\ Fails([NoResult EXCEPT !.dependencies = Dependencies,
                              !.entries = MergeDatadogMalicious({}, Dependencies, listed)])
    /\ UNCHANGED <<dirs, generating, generated, parsed, inventory, depscan, osv>>

\* What there is to merge: depscan's reports count only after a clean exit, an
\* answer of osv that is no JSON counts as none.
Reports == IF DepscanSucceeded THEN depscan.reports ELSE <<>>
Advisories == IF OsvPrinted /\ osv.output = "json" THEN osv.advisories ELSE <<>>

Recorded == ProcessOsv(ProcessDepscan(Reports), Advisories, inventory.transitive)

\* A report of depscan is no JSON, or osv's answer has an unexpected shape.
Unreadable ==
    \/ DepscanSucceeded /\ depscan.unreadable
    \/ OsvPrinted /\ osv.output = "odd"

MergeFindings(listed) ==
    /\ BothEnded /\ ~ScannersFailed
    /\ IF Unreadable
       THEN Raised
       ELSE \E entries \in BuildPurlVulns(Recorded) :
               Fails([success |-> TRUE, raised |-> FALSE, dependencies |-> Dependencies,
                      entries |-> MergeDatadogMalicious(entries, Dependencies, listed)])
    /\ UNCHANGED <<dirs, generating, generated, parsed, inventory, depscan, osv>>

\* The world says how the scanners may end and what the list holds.
DependencyStep(world) ==
    \/ \E d \in Dirs : KeepExistingLockfile(d) \/ GenerateLockfile(d) \/ GenerateFails(d)
    \/ CollectDependencies
    \/ \E r \in world.depscan : DepscanEnds(r)
    \/ \E r \in world.osvScanner : OsvEnds(r)
    \/ NoScannerAnswered(world.listed)
    \/ MergeFindings(world.listed)

-----------------------------------------------------------------------------
(* Properties.                                                               *)

\* What is declared is listed as direct: no name that a lockfile or a manifest
\* of the checkout declares is lost, or left transitive, while its versions and
\* ranges replace one another in the table (_upsert_dependency and the loops of
\* _collect_dependencies_from_lockfiles).
DeclaredIsListed ==
    phase \in {"scan", "done"} /\ ~result.raised =>
        \A n \in Named(ParsedIn(parsed), "direct")
                \cup {<<k[1], k[2]>> : k \in ManifestRows(Manifests)} :
            \E k \in DOMAIN inventory.kinds :
               <<k[1], k[2]>> = n /\ inventory.kinds[k] = "direct"

\* The lockfiles are collected in an unordered set, whose order differs from
\* one process to the next.  The dependencies they come to do not depend on it.
OrderIsImmaterial ==
    phase = "scan" /\ depscan = Running /\ osv = Running =>
        \A order \in SetToSeqs(ToSet(parsed)) :
            Inventory(ParsedIn(order), Manifests) = inventory

AdvisoriesUsed == {a \in (UNION {ToSet(r) : r \in ToSet(Reports)}) \cup ToSet(Advisories) :
                      a.package # NoPackage}

\* The identifiers that lead to the advisory's own through advisories of its
\* package: the least set that holds them and, of the package's other
\* advisories, all identifiers or none.
Linked(package, ids) ==
    \A b \in AdvisoriesUsed : b.package = package => b.ids \subseteq ids \/ b.ids \cap ids = {}

LinkedIds(a) ==
    LET known == UNION {b.ids : b \in AdvisoriesUsed}
    IN {i \in known : \A ids \in SUBSET known :
           a.ids \subseteq ids /\ Linked(a.package, ids) => i \in ids}

\* A scan that reports success had an answer, depscan's clean exit or JSON of
\* osv-scanner, and tells all of it: no other mixture of missing programs, time
\* limits, failures and unreadable answers passes for a scan without findings.
\* Duplicates are dropped inside osv's answer, between reports, between scanners
\* and between versions, each time by shared identifiers; still every advisory
\* has an entry of its package that names its version and holds a detail it is
\* linked to.
SuccessTellsAll ==
    result.success =>
        /\ DepscanSucceeded \/ (OsvPrinted /\ osv.output = "json")
        /\ \A a \in AdvisoriesUsed : \E g \in result.entries :
              /\ g.package = a.package
              /\ a.version = "" \/ a.version \in g.versions
              /\ \E d \in ToSet(g.cve \o g.malware) : d.id \in LinkedIds(a)
=============================================================================
