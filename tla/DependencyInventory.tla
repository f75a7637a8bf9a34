------------------------- MODULE DependencyInventory -------------------------
(***************************************************************************)
(* What the MCP dependency analysis takes to be the dependencies of a      *)
(* checkout: the lockfile parsers (mcp/lockfiles/parsers.py), the reading  *)
(* of manifests, and the table of dependencies both fill                   *)
(* (mcp/sca_pipeline.py).  Pure operators; DependencyScan runs them.       *)
(*                                                                         *)
(* A version is one of a few tokens.  "1" and "2" are exact, NoVersion is  *)
(* a missing one, the others are ranges; in a Python requirement the token *)
(* "1" stands for the specifier "==1".                                     *)
(***************************************************************************)
EXTENDS Naturals, Sequences, SequencesExt, FiniteSets

NoVersion == "none"
ExactVersions == {"1", "2"}
Versions == ExactVersions \cup {"^1", "=1", "<2", "*", NoVersion}

IsRangeVersion(v) == v \notin ExactVersions

\* version_spec.lstrip("^~>=<"): the operator goes, what follows it stays.
StripOperator(v) == CASE v \in {"^1", "=1"} -> "1" [] v = "<2" -> "2" [] OTHER -> v

\* re.split("[<>=!~...]", requirement, maxsplit=1)[1]: one operator character
\* goes, so "x==1" is listed with the version "=1" and "x<2" with "2".
SplitRequirement(v) == CASE v = "1" -> "=1" [] v = "<2" -> "2" [] OTHER -> v

\* Only an == or === specifier of a requirement is a version.
PinnedVersion(v) == IF IsRangeVersion(v) THEN NoVersion ELSE v

Entry(name, version) == [name |-> name, version |-> version]
Names(entries) == {e.name : e \in ToSet(entries)}
WithVersions(F(_), entries) ==
    [i \in DOMAIN entries |-> [entries[i] EXCEPT !.version = F(@)]]

Entries == [name : STRING, version : Versions]

\* A list of entries without repeated (name, version) pairs.
AddDependencyEntry(entries, e) ==
    IF e \in ToSet(entries) THEN entries ELSE Append(entries, e)
Distinct(entries) == FoldLeft(AddDependencyEntry, <<>>, entries)

-----------------------------------------------------------------------------
(* Files.  A manifest is [name, state, declared, optional]: its dependency  *)
(* sections and the optional one, which only the lockfile parsers read.  A  *)
(* lockfile is [state, old, root, packages]: the dependencies it says the   *)
(* project declares and the packages it resolved.  The state is "ok",       *)
(* "corrupt" (the parser says so) or "odd" (well formed, not the expected   *)
(* shape: an exception no parser catches).                                  *)

FileStates == {"ok", "corrupt", "odd"}
Lockfile == [state : FileStates, old : BOOLEAN, root : Seq(Entries), packages : Seq(Entries)]
Manifest == [name : {"none", "package.json", "pyproject.toml", "Cargo.toml"}, state : FileStates,
             declared : Seq(Entries), optional : Seq(Entries)]

NoManifest == [name |-> "none", state |-> "ok", declared |-> <<>>, optional |-> <<>>]

JsLockfiles == {"package-lock.json", "yarn.lock", "pnpm-lock.yaml", "bun.lock"}
LockfileKinds == JsLockfiles \cup {"uv.lock", "requirements.txt", "Cargo.lock", "go.mod"}

EcosystemOf(kind) ==
    CASE kind \in JsLockfiles -> "npm"
      [] kind \in {"uv.lock", "requirements.txt"} -> "pypi"
      [] kind = "Cargo.lock" -> "cargo"
      [] kind = "go.mod" -> "golang"

ParseResult(all, direct, transitive) ==
    [direct |-> Names(direct), transitive |-> all \ Names(direct),
     directEntries |-> Distinct(direct), transitiveEntries |-> Distinct(transitive)]
NothingParsed == ParseResult({}, <<>>, <<>>)

\* What a sibling manifest of the expected name declares; an unreadable one
\* declares nothing.
Declared(manifest, name) ==
    IF manifest.name = name /\ manifest.state = "ok"
    THEN manifest.declared \o manifest.optional ELSE <<>>

ParsePackageLock(lock, manifest) ==
    IF lock.state = "corrupt" THEN NothingParsed
    ELSE IF lock.old
         THEN ParseResult(Names(lock.packages), lock.packages, lock.packages)
         ELSE ParseResult(Names(lock.root \o lock.packages), lock.root,
                          lock.root \o lock.packages)

\* The lockfile names no root: what package.json declares is direct.  No line
\* of a corrupt yarn.lock looks like a block, so nothing is listed.
ParseYarnLock(lock, manifest) ==
    LET direct == Declared(manifest, "package.json")
        listed == IF lock.state = "corrupt" THEN <<>> ELSE lock.packages
    IN ParseResult(Names(listed), direct, listed \o direct)

\* package.json is asked only when no importer declares anything.
ParsePnpmLock(lock, manifest) ==
    LET direct == IF lock.root # <<>> THEN lock.root
                  ELSE Declared(manifest, "package.json")
        listed == lock.packages \o direct
    IN IF lock.state = "corrupt" THEN NothingParsed
       ELSE ParseResult(Names(listed), direct, listed)

ParseBunLock(lock, manifest) ==
    LET direct == Declared(manifest, "package.json")
        listed == lock.packages \o direct
    IN IF lock.state = "corrupt" THEN NothingParsed
       ELSE ParseResult(Names(listed), direct, listed)

\* A uv.lock that is no TOML is read line by line as requirements; packages
\* are what those lines give.  Neither reading refuses the file.
ParseUvLock(lock, manifest) ==
    LET direct == WithVersions(PinnedVersion, Declared(manifest, "pyproject.toml"))
        listed == IF lock.state = "ok" THEN lock.packages
                  ELSE WithVersions(PinnedVersion, lock.packages)
    IN ParseResult(Names(listed), direct, listed \o direct)

ParseRequirements(lock, manifest) ==
    ParseResult({}, WithVersions(PinnedVersion, lock.packages), <<>>)

ParseCargoLock(lock, manifest) ==
    LET direct == Declared(manifest, "Cargo.toml")
    IN IF lock.state = "corrupt" THEN NothingParsed
       ELSE ParseResult(Names(lock.packages), direct, lock.packages \o direct)

\* Two commands of the go tool: the requirements of go.mod, then the module
\* list.  An exception of either drops what the other said; a command that
\* merely exits with a failure contributes nothing ("odd").
ParseGoMod(lock, manifest) ==
    LET listed == IF lock.state = "odd" THEN <<>> ELSE lock.packages
    IN IF lock.state = "corrupt" THEN NothingParsed
       ELSE ParseResult(Names(listed), lock.root, lock.root \o listed)

\* The manifest a parser opens beside its lockfile.  Most give up on a corrupt
\* lockfile before that; yarn's and uv's readings never do.
SiblingRead(kind, lock) ==
    CASE kind = "yarn.lock" -> "package.json"
      [] kind = "uv.lock"   -> "pyproject.toml"
      [] lock.state = "corrupt" -> "nothing"
      [] kind = "pnpm-lock.yaml" /\ lock.root = <<>> -> "package.json"
      [] kind = "bun.lock"   -> "package.json"
      [] kind = "Cargo.lock" -> "Cargo.toml"
      [] OTHER -> "nothing"

\* The files whose odd shape reaches the caller as an exception.
ParseRaises(kind, lock, manifest) ==
    \/ lock.state = "odd" /\ kind \in {"package-lock.json", "pnpm-lock.yaml", "bun.lock", "Cargo.lock"}
    \/ manifest.state = "odd" /\ manifest.name = SiblingRead(kind, lock)

Parsed(kind, lock, manifest) ==
    CASE kind = "package-lock.json" -> ParsePackageLock(lock, manifest)
      [] kind = "yarn.lock"         -> ParseYarnLock(lock, manifest)
      [] kind = "pnpm-lock.yaml"    -> ParsePnpmLock(lock, manifest)
      [] kind = "bun.lock"          -> ParseBunLock(lock, manifest)
      [] kind = "uv.lock"           -> ParseUvLock(lock, manifest)
      [] kind = "requirements.txt"  -> ParseRequirements(lock, manifest)
      [] kind = "Cargo.lock"        -> ParseCargoLock(lock, manifest)
      [] kind = "go.mod"            -> ParseGoMod(lock, manifest)

ParseLockfile(kind, lock, manifest) ==
    [ecosystem |-> EcosystemOf(kind), result |-> Parsed(kind, lock, manifest)]

\* _parse_manifests_directly: only package.json and pyproject.toml are read.
ParseManifest(manifest) ==
    CASE manifest.state = "ok" /\ manifest.name = "package.json" ->
            [ecosystem |-> "npm",
             entries |-> WithVersions(StripOperator, manifest.declared)]
      [] manifest.state = "ok" /\ manifest.name = "pyproject.toml" ->
            [ecosystem |-> "pypi",
             entries |-> WithVersions(SplitRequirement, manifest.declared)]
      [] OTHER -> [ecosystem |-> "none", entries |-> <<>>]

-----------------------------------------------------------------------------
(* The table of dependencies: kinds maps (ecosystem, name, version) to       *)
(* "direct" or "transitive"; byType remembers under which (ecosystem, name,  *)
(* type) a row was added, exact the ones an exact version was added under.   *)

NoDependencies == [kinds |-> <<>>, byType |-> {}, exact |-> {}]

\* Mutant: an exact version under one type speaks for the other type too.
UpsertForgettingType(table, ecosystem, e, type) ==
    LET key == <<ecosystem, e.name, e.version>>
        range == IsRangeVersion(e.version)
        exact == \E t \in {"direct", "transitive"} : <<ecosystem, e.name, t>> \in table.exact
    IN IF range /\ exact THEN table
       ELSE [table EXCEPT !.kinds = [k \in DOMAIN @ \cup {key} |-> IF k = key THEN type ELSE @[k]],
                          !.exact = IF range THEN @ ELSE @ \cup {<<ecosystem, e.name, type>>}]

\* Mutant: a range after an exact version is added again.
UpsertLateRange(table, ecosystem, e, type) ==
    LET key == <<ecosystem, e.name, e.version>>
        nameType == <<ecosystem, e.name, type>>
        ranges == IF IsRangeVersion(e.version) THEN {}
                  ELSE {k \in DOMAIN table.kinds :
                           IsRangeVersion(k[3]) /\ <<nameType, k>> \in table.byType}
        kept == DOMAIN table.kinds \ ranges
    IN [table EXCEPT
          !.kinds = [k \in kept \cup {key} |->
                        IF k = key /\ (k \notin kept \/ type = "direct") THEN type ELSE @[k]],
          !.byType = @ \cup {<<nameType, key>>}]

\* An exact version replaces the ranges added under the same type; a range
\* after an exact one is dropped; a known row can only become direct.
UpsertDependency(table, ecosystem, e, type) ==
    LET key == <<ecosystem, e.name, e.version>>
        nameType == <<ecosystem, e.name, type>>
        range == IsRangeVersion(e.version)
        ranges == IF range THEN {}
                  ELSE {k \in DOMAIN table.kinds :
                           IsRangeVersion(k[3]) /\ <<nameType, k>> \in table.byType}
        kept == DOMAIN table.kinds \ ranges
        new == key \notin kept
    IN IF range /\ nameType \in table.exact THEN table
       ELSE [kinds  |-> [k \in kept \cup {key} |->
                            IF k = key /\ (new \/ type = "direct") THEN type ELSE table.kinds[k]],
             byType |-> (table.byType \ ({nameType} \X ranges))
                           \cup (IF new THEN {<<nameType, key>>} ELSE {}),
             exact  |-> IF new /\ ~range THEN table.exact \cup {nameType} ELSE table.exact]

\* direct: the names that are direct dependencies.
UpsertAll(table, ecosystem, entries, direct) ==
    FoldLeft(LAMBDA t, e : UpsertDependency(t, ecosystem, e,
                               IF e.name \in direct THEN "direct" ELSE "transitive"),
             table, entries)

\* One parsed lockfile: its resolved packages, then what it declares.  A name
\* some lockfile of the ecosystem declares is direct everywhere.
AddLockfile(table, parsed, direct) ==
    LET resolved == parsed.result.transitiveEntries
        declared == parsed.result.directEntries
    IN UpsertAll(UpsertAll(table, parsed.ecosystem, resolved,
                           {n \in Names(resolved) : <<parsed.ecosystem, n>> \in direct}),
                 parsed.ecosystem, declared, Names(declared))

AddManifest(table, manifest) ==
    LET read == ParseManifest(manifest)
    IN UpsertAll(table, read.ecosystem, read.entries, Names(read.entries))

Named(parsed, field) ==
    UNION {{<<p.ecosystem, n>> : n \in p.result[field]} : p \in ToSet(parsed)}

AddLockfiles(parsed) ==
    LET direct == Named(parsed, "direct")
    IN FoldLeft(LAMBDA t, p : AddLockfile(t, p, direct), NoDependencies, parsed)

\* The rows of the manifests as they stand.
ManifestRows(manifests) ==
    UNION {{<<r.ecosystem, e.name, e.version>> : e \in ToSet(r.entries)} :
              r \in {ParseManifest(x) : x \in ToSet(manifests)}}

\* What the analysis keeps of the parsed lockfiles, in the order they were
\* parsed in, and of the manifests.  Without a lockfile the manifests' rows
\* are the answer.
Inventory(parsed, manifests) ==
    [kinds |-> IF parsed = <<>> THEN [k \in ManifestRows(manifests) |-> "direct"]
               ELSE FoldLeft(AddManifest, AddLockfiles(parsed), manifests).kinds,
     transitive |-> Named(parsed, "transitive") \ Named(parsed, "direct")]
=============================================================================
