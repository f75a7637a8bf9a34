---------------------------- MODULE StaticAnalysis ----------------------------
(***************************************************************************)
(* What scan_extension inspects of one unpacked package, and the coverage  *)
(* that it claims for it.  A function of the package alone: which files    *)
(* the analysers open, which of them they give up on, and how the static   *)
(* providers report that.  What the analysers find is left to the          *)
(* artifact, but for the one finding about their own gaps.                 *)
(***************************************************************************)
EXTENDS SecurityDecision, Integers, FiniteSets

CONSTANTS
    Paths,         \* paths in a package
    ExtensionJs,   \* extension.js at its root
    NoPath,        \* a manifest field that is not set
    NoFile,        \* a path that the package does not have
    MaxFiles,      \* MAX_EXTENSION_FILES
    MaxModules     \* MAX_FLOW_MODULES

\* A file by what the analysers ask about it.
\*   lang    suffix in JS_AST_EXTS, other EXEC_TEXT_EXTS, other TEXT_EXTS
\*   asset   vendored, generated or documentation by its path
\*   size    in Semgrep's scope, within the AST budget, within
\*           MAX_TEXT_BYTES, beyond it
\*   bundle  generated by its name or its text
\*   parse   what the AST walker would answer
\*   imports the relative imports that name executable code and that no
\*           try block makes optional, resolved to paths
\* A link leads to a file.
File ==
    [lang: {"js", "script", "text", "other"}, asset: BOOLEAN, link: BOOLEAN,
     readable: BOOLEAN, size: {"source", "medium", "large", "huge"},
     bundle: BOOLEAN, parse: {"ok", "unparsed", "failed"}, imports: SUBSET Paths]

ASSUME StaticAssumption ==
    /\ ExtensionJs \in Paths /\ NoPath \notin Paths
    /\ NoFile \notin File
    /\ IsFiniteSet(Paths)
    /\ MaxFiles \in Nat /\ MaxModules \in Nat

Engine == {"absent", "works", "breaks"}

\* A package, the tools that the scanner finds for it, and whether the import
\* paths between its download or credential modules exceed the flow limits.  A
\* managed package is one for Visual Studio, `capable` stands for a capability
\* in _DYNAMIC_RUNTIME_CAPABILITIES.
Package ==
    [files: [Paths -> File \cup {NoFile}],
     manifest: {"valid", "anonymous", "unreadable"},
     main: Paths \cup {NoPath}, browser: Paths \cup {NoPath},
     managed: BOOLEAN, capable: BOOLEAN, node: BOOLEAN, tangled: BOOLEAN, semgrep: Engine, yara: Engine]

Present(a) == {p \in Paths : a.files[p] # NoFile}
Select(a, Test(_)) == {p \in Present(a) : Test(a.files[p])}

-----------------------------------------------------------------------------
(* What is opened *)

NotLink(f) == ~f.link
ExceedsBudget(a) == Cardinality(Select(a, NotLink)) > MaxFiles

\* The browser field counts if its file is there, or if there is no other.
Declared(a) ==
    {p \in {a.main, a.browser} :
       /\ p # NoPath /\ a.manifest # "unreadable"
       /\ p = a.main \/ p \in Present(a) \/ a.main = NoPath}

Entrypoints(a) ==
    IF Declared(a) = {} THEN {ExtensionJs} \cap Present(a) ELSE Declared(a)

Executable(f) == f.lang \in {"js", "script"}
NotAsset(f) == ~f.asset
InScope(a) == Select(a, NotAsset) \cup (Entrypoints(a) \cap Present(a))

Candidates(a) == Select(a, Executable) \cap InScope(a)
Excluded(a) == Select(a, Executable) \ InScope(a)

Textual(f) == f.lang # "other" /\ ~f.link
Readable(f) == Textual(f) /\ f.readable
Huge(f) == Readable(f) /\ f.size = "huge"

ReadFailures(a) == Candidates(a) \ Select(a, Readable)
Oversized(a) == InScope(a) \cap Select(a, Huge)
Analyzed(a) == (Candidates(a) \cap Select(a, Readable)) \ Oversized(a)

\* The fields that _finalize_analysis_coverage turns into limitations.
Flawed(a) ==
    \/ a.manifest # "valid"
    \/ ~Entrypoints(a) \subseteq Present(a)
    \/ ReadFailures(a) # {} \/ Oversized(a) # {}
    \/ Candidates(a) \ (Oversized(a) \cup ReadFailures(a) \cup Analyzed(a)) # {}
    \/ Candidates(a) = {} /\ Excluded(a) # {}

-----------------------------------------------------------------------------
(* How the providers fare *)

Modules(a) == {p \in Analyzed(a) : a.files[p].lang = "js"}

\* Any text of such a size counts as generated.
Generated(f) == f.bundle \/ f.size = "large"

AstStatus(a, p) ==
    IF a.files[p].size = "large" THEN "skipped"
    ELSE IF ~a.node THEN "failed"
    ELSE a.files[p].parse

AstCompleted(a) == \A p \in Modules(a) : AstStatus(a, p) # "failed"

\* Entrypoints that the finding entrypoint-ast-unparsed names.
Unseen(a) ==
    {p \in Modules(a) \cap Entrypoints(a) : AstStatus(a, p) \in {"skipped", "unparsed"}}

\* Everything that can be reached from roots, next being the edges: what is in
\* every set that holds the roots and, with a path, the paths next to it.
Closed(set, next) == \A p \in set \cap DOMAIN next : next[p] \subseteq set

Closure(roots, next) ==
    {p \in Paths : \A set \in SUBSET Paths :
                     roots \subseteq set /\ Closed(set, next) => p \in set}

\* A bundle holds module source in strings: its imports are no edges.
Imports(a, p) ==
    IF Generated(a.files[p]) \/ a.files[p].lang # "js" THEN {} ELSE a.files[p].imports

Reachable(a) ==
    Closure(Entrypoints(a) \cap Modules(a),
            [p \in Modules(a) |-> Imports(a, p) \cap Modules(a)])

FlowCompleted(a) ==
    /\ Cardinality(Modules(a)) <= MaxModules /\ ~a.tangled
    /\ \A p \in Reachable(a) : Imports(a, p) \subseteq Modules(a)

\* Native rules, AST and module flow are required and count as one.
StaticStatus(a) ==
    IF AstCompleted(a) /\ FlowCompleted(a) THEN "completed" ELSE "failed"

SemgrepTargets(a) == {p \in Modules(a) : a.files[p].size = "source"}

SemgrepStatus(a) ==
    IF a.semgrep = "absent" THEN "unavailable"
    ELSE IF SemgrepTargets(a) = {} \/ a.semgrep = "works" THEN "completed"
    ELSE "failed"

\* YARA gets every file that is no link; an error at one file, or matches
\* beyond its limit, spoil the whole answer.
YaraStatus(a) ==
    CASE a.yara = "absent" -> "unavailable"
      [] a.yara = "works"  -> "completed"
      [] a.yara = "breaks" -> "failed"

StaticCoverage(a) ==
    [NoCoverage EXCEPT
        !.flawed = Flawed(a),
        !.providers["static"] = Result(StaticStatus(a), TRUE),
        !.providers["semgrep"] = Result(SemgrepStatus(a), FALSE),
        !.providers["yara"] = Result(YaraStatus(a), FALSE)]

\* Whether only a run can tell what the package does.
NeedsRuntime(a) ==
    ~a.managed /\ (a.capable \/ Entrypoints(a) \cap Present(a) # {})

StaticClasses(a) == IF Unseen(a) = {} THEN {} ELSE {"concern"}

-----------------------------------------------------------------------------
(* What coverage ought to mean: of the above only what describes the package *)
(* is used (its files, imports and entrypoints), never what became of them.  *)

\* The code that the IDE can load, as far as imports tell, whether it is
\* there or not.  A declared file of another kind than source code is not
\* followed.
Loaded(a) ==
    Closure({p \in Entrypoints(a) : p \notin Present(a) \/ Executable(a.files[p])},
            [p \in Present(a) |-> Imports(a, p)])

\* And the source that the package carries beside it.
Carried(a) == {p \in Present(a) : Executable(a.files[p]) /\ ~a.files[p].asset}

\* A vendored file is not inspected unless it is declared.
Inspected(a, p) ==
    /\ p \in Present(a)
    /\ LET f == a.files[p] IN
       /\ ~f.asset \/ p \in Entrypoints(a)
       /\ Executable(f) /\ f.readable /\ ~f.link /\ f.size # "huge"
       /\ f.lang = "js" => (a.node /\ f.parse # "failed") \/ f.size = "large"

\* The package was analysed as a whole.
Whole(a) ==
    /\ a.manifest = "valid"
    /\ \A p \in Loaded(a) \cup Carried(a) : Inspected(a, p)
    /\ \A p \in Loaded(a) : \A q \in Imports(a, p) : a.files[q].lang = "js"
    /\ Select(a, Executable) # {} => Loaded(a) \cup Carried(a) # {}
    /\ \A p \in Present(a) :
         LET f == a.files[p] IN
         f.lang = "text" /\ f.readable /\ ~f.link /\ f.size = "huge"
           => f.asset /\ p \notin Entrypoints(a)
    /\ Cardinality({p \in Loaded(a) \cup Carried(a) : a.files[p].lang = "js"})
         <= MaxModules
    /\ ~a.tangled

\* Its activation code was seen by the AST walker.
Understood(a) ==
    \A p \in Entrypoints(a) : p \in Present(a) /\ a.files[p].lang = "js" =>
      a.files[p].parse = "ok" /\ a.files[p].size # "large"

\* The engines beside the scanner's own analysers that did their part.
Engines(a) ==
    {e \in {"semgrep", "yara"} :
       \/ a[e] = "works"
       \/ /\ e = "semgrep" /\ a.semgrep = "breaks"
          /\ \A p \in Present(a) \cap (Loaded(a) \cup Carried(a)) :
               a.files[p].lang # "js" \/ a.files[p].size # "source"}
=============================================================================
