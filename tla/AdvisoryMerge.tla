---------------------------- MODULE AdvisoryMerge ----------------------------
(***************************************************************************)
(* How the MCP dependency analysis merges the advisories of its scanners   *)
(* (mcp/sca_pipeline.py): the reports of depscan, then the answer of       *)
(* osv-scanner, then the list of known malicious packages.  An advisory    *)
(* goes by several identifiers (its own, its aliases, its references), and *)
(* two sources need not name the same ones.  Pure operators; DependencyScan*)
(* runs them.                                                              *)
(*                                                                         *)
(* An advisory is [package, version, id, ids, severity, indirect, reachable,*)
(* used]: package is the normalised (ecosystem, name), or NoPackage where  *)
(* the code cannot tell, and ids always holds id.  The map of packages is a*)
(* function from (package, version) to what was recorded for it.           *)
(***************************************************************************)
EXTENDS Naturals, Sequences, SequencesExt, FiniteSets

CONSTANT MalwareIds      \* the identifiers that start with MAL-

NoPackage == <<"none", "none">>

Advisory ==
    {a \in [package : STRING \X STRING, version : STRING, id : STRING, ids : SUBSET STRING,
            severity : STRING, indirect : BOOLEAN, reachable : BOOLEAN, used : Nat] : a.id \in a.ids}

\* Lowest to highest; what is not listed counts as missing.
SeverityOrder == <<"none", "NONE", "UNKNOWN", "INFO", "LOW", "MEDIUM", "MODERATE", "HIGH", "CRITICAL">>
SeverityRank(s) ==
    IF s \in ToSet(SeverityOrder) THEN CHOOSE i \in DOMAIN SeverityOrder : SeverityOrder[i] = s ELSE 1

IsMalware(detail) == detail.ids \cap MalwareIds # {}

\* An identifier that starts with MAL- makes the severity HIGH.
DetailSeverity(a) == IF a.id \in MalwareIds THEN "HIGH" ELSE a.severity

DepscanDetails(a) ==
    [source |-> "depscan", id |-> a.id, ids |-> a.ids, severity |-> DetailSeverity(a),
     transitive |-> a.indirect, reachable |-> a.reachable, used |-> a.used]
OsvDetails(a, transitive) ==
    [source |-> "osv", id |-> a.id, ids |-> a.ids, severity |-> DetailSeverity(a),
     transitive |-> a.package \in transitive, reachable |-> FALSE, used |-> 0]

-----------------------------------------------------------------------------
(* The map of packages.                                                      *)

InitVersionBucket == [ids |-> {}, cve |-> <<>>, malware |-> <<>>]

AddVulnToBucket(bucket, detail) ==
    IF IsMalware(detail) THEN [bucket EXCEPT !.malware = Append(@, detail)]
    ELSE [bucket EXCEPT !.cve = Append(@, detail)]

BucketOf(map, key) == IF key \in DOMAIN map THEN map[key] ELSE InitVersionBucket

\* A detail is recorded unless one of its identifiers was for the version before.
UpsertVersionVuln(bucket, detail) ==
    IF detail.ids \cap bucket.ids # {} THEN bucket
    ELSE AddVulnToBucket([bucket EXCEPT !.ids = @ \cup detail.ids], detail)

\* Those of the details whose positions are wanted, one after the other.
RecordAll(bucket, details, wanted) ==
    FoldLeftDomain(LAMBDA b, i : IF i \in wanted THEN UpsertVersionVuln(b, details[i]) ELSE b,
                   bucket, details)

KeyOf(a) == <<a.package, a.version>>
KnownKeys(advisories) == {KeyOf(a) : a \in {a \in ToSet(advisories) : a.package # NoPackage}}

\* One report of depscan; a reference it cannot read is skipped.
ProcessVdr(report) ==
    [key \in KnownKeys(report) |->
        RecordAll(InitVersionBucket, [i \in DOMAIN report |-> DepscanDetails(report[i])],
                  {i \in DOMAIN report : KeyOf(report[i]) = key})]

MergeVersionBucket(bucket, source) ==
    LET details == source.cve \o source.malware
    IN RecordAll(bucket, details, DOMAIN details)

MergePackageMaps(target, source) ==
    [key \in DOMAIN target \cup DOMAIN source |->
        IF key \in DOMAIN source THEN MergeVersionBucket(BucketOf(target, key), source[key])
        ELSE target[key]]

ProcessDepscan(reports) ==
    FoldLeft(LAMBDA map, r : MergePackageMaps(map, ProcessVdr(r)), <<>>, reports)

\* Osv's own duplicates: an advisory that shares an identifier with an earlier
\* one of its version is dropped, also where that one was dropped itself.
\* Mutant: duplicates are told by package, whatever the version.
DedupePerPackage(advisories) ==
    {i \in DOMAIN advisories : \A j \in 1..(i - 1) :
        advisories[j].package = advisories[i].package => advisories[j].ids \cap advisories[i].ids = {}}

\* The positions that are kept.
DedupeOsv(advisories) ==
    {i \in DOMAIN advisories : \A j \in 1..(i - 1) :
        KeyOf(advisories[j]) = KeyOf(advisories[i]) => advisories[j].ids \cap advisories[i].ids = {}}

\* Depscan was first: osv adds what shares no identifier with it.
ProcessOsv(map, advisories, transitive) ==
    [key \in DOMAIN map \cup KnownKeys(advisories) |->
        RecordAll(BucketOf(map, key),
                  [i \in DOMAIN advisories |-> OsvDetails(advisories[i], transitive)],
                  {i \in DedupeOsv(advisories) : KeyOf(advisories[i]) = key})]

-----------------------------------------------------------------------------
(* The entries of the answer: the versions of a package that share an        *)
(* advisory, under any of its identifiers, become one entry.                 *)

MergeVulnDetails(existing, incoming) ==
    [existing EXCEPT
        !.transitive = @ /\ incoming.transitive,
        !.reachable = @ \/ incoming.reachable,
        !.used = IF incoming.used > @ THEN incoming.used ELSE @,
        !.severity = IF SeverityRank(incoming.severity) > SeverityRank(@)
                     THEN incoming.severity ELSE @]

NewGroup(package) == [package |-> package, versions |-> {}, ids |-> {},
                      cve |-> <<>>, malware |-> <<>>]

\* A detail of a known advisory is merged into the first of its kind.
MergeGroupVulnDetails(group, detail) ==
    LET kind == IF IsMalware(detail) THEN "malware" ELSE "cve"
    IN IF group[kind] = <<>> THEN AddVulnToBucket(group, detail)
       ELSE [group EXCEPT ![kind][1] = MergeVulnDetails(@, detail)]

\* The entries of a package and the entry each identifier leads to.
NothingPlaced == [groups |-> <<>>, lead |-> <<>>]

\* The detail of a version goes into an entry.
Fill(entry, version, detail) ==
    LET group == [entry EXCEPT !.versions = IF version = "" THEN @ ELSE @ \cup {version},
                               !.ids = @ \cup detail.ids]
    IN IF detail.ids \cap entry.ids # {} THEN MergeGroupVulnDetails(group, detail)
       ELSE AddVulnToBucket(group, detail)

PlaceInto(placed, key, detail, name) ==
    LET old == IF name \in DOMAIN placed.groups THEN placed.groups[name] ELSE NewGroup(key[1])
    IN [groups |-> [n \in DOMAIN placed.groups \cup {name} |->
                       IF n = name THEN Fill(old, key[2], detail) ELSE placed.groups[n]],
        lead |-> [i \in DOMAIN placed.lead \cup detail.ids |->
                       IF i \in detail.ids THEN name ELSE placed.lead[i]]]

\* Where the identifiers lead to several entries, the code takes the first of
\* an unordered set: any of them.
PlaceDetail(placed, key, detail) ==
    LET hits == {placed.lead[i] : i \in detail.ids \cap DOMAIN placed.lead}
    IN {PlaceInto(placed, key, detail, name) :
           name \in IF hits = {} THEN {detail.id} ELSE hits}

\* The details of one version, placed in every way they may have been so far.
PlaceVersion(ways, key, bucket) ==
    FoldLeft(LAMBDA w, d : UNION {PlaceDetail(p, key, d) : p \in w},
             ways, bucket.cve \o bucket.malware)

PlaceVersions(map, keys) ==
    FoldLeft(LAMBDA w, k : PlaceVersion(w, k, map[k]), {NothingPlaced}, keys)

\* The versions of a package come in the order they were met, which may be any.
GroupsOf(map, package) ==
    {{e.groups[n] : n \in DOMAIN e.groups} :
        e \in UNION {PlaceVersions(map, keys) :
                        keys \in SetToSeqs({k \in DOMAIN map : k[1] = package})}}

\* The answers the code can give for the map: one choice per package.
BuildPurlVulns(map) ==
    LET packages == {k[1] : k \in DOMAIN map}
        choices == {f \in [packages -> UNION {GroupsOf(map, p) : p \in packages}] :
                       \A p \in packages : f[p] \in GroupsOf(map, p)}
    IN {UNION {f[p] : p \in packages} : f \in choices}

\* The malicious-package list: npm and pypi dependencies it names, unless a
\* scanner reported malware for that very version.
MergeDatadogMalicious(entries, dependencies, listed) ==
    LET flagged == UNION {{<<g.package, v>> : v \in g.versions} :
                             g \in {g \in entries : g.malware # <<>>}}
        named == {d \in dependencies : /\ d[1] \in {"npm", "pypi"}
                                       /\ <<d[1], d[2]>> \in listed
                                       /\ <<<<d[1], d[2]>>, d[3]>> \notin flagged}
        Detail == [source |-> "datadog", id |-> "DATADOG-MAL", ids |-> {}, severity |-> "HIGH",
                   transitive |-> FALSE, reachable |-> FALSE, used |-> 0]
    IN entries \cup {[NewGroup(<<d[1], d[2]>>) EXCEPT
                         !.versions = IF d[3] = "none" THEN {} ELSE {d[3]},
                         !.malware = <<Detail>>] : d \in named}
=============================================================================
