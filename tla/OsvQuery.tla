------------------------------- MODULE OsvQuery -------------------------------
(***************************************************************************)
(* The query for known advisories of an MCP server's own package           *)
(* (mcp/extractors/utils/osv.py, mcp/package_parser.py): every page of the *)
(* package, then the newest version of the registry and its advisories,    *)
(* then every page of the repository.  Each page is requested again after a *)
(* time limit or a server error.                                           *)
(***************************************************************************)
EXTENDS Naturals, Sequences, SequencesExt, FiniteSets

CONSTANTS MaxPages,      \* OSV_MAX_PAGES, 10
          MaxRetries     \* OSV_MAX_RETRIES, 2

(* The site is [command, repo, pages, answers, registry]: the install command *)
(* [source, pinned], whether there is a repository, the pages OSV has of each *)
(* target ([vulns, next], next being the page its token leads to, 0 without a *)
(* token), and how it and the registry may answer a request.                  *)

OsvVuln == [ids : SUBSET STRING, severity : STRING]
OsvPages(p) ==
    /\ p \in Seq([vulns : Seq(OsvVuln), next : Nat]) /\ p # <<>>
    /\ \A i \in DOMAIN p : p[i].next \in DOMAIN p \cup {0}
OsvSite(s) ==
    /\ s.repo \in BOOLEAN
    /\ \A t \in {"package", "latest", "repository"} : OsvPages(s.pages[t])

VARIABLES site, query

osvVars == <<site, query>>

NoQuery == [success |-> FALSE, queryable |-> FALSE, vulns |-> <<>>]

QueryStart ==
    [stage |-> "resolve", page |-> 1, pages |-> 0, attempt |-> 0, failed |-> FALSE,
     tokens |-> {}, got |-> <<>>, raw |-> <<>>, latest |-> {}, cut |-> FALSE,
     answer |-> NoQuery]

\* Only npx and uvx (or pipx) commands have a package that OSV knows.  The name
\* is what follows the command, a version that is pinned there included.
PackageName(command) ==
    IF command.source \notin {"npx", "uvx"} THEN "none"
    ELSE IF command.pinned THEN "name@version" ELSE "name"

NamesPackage == PackageName(site.command) # "none"

\* OSV knows the package under its name only.
PagesOf(target) ==
    IF target \in {"package", "latest"} /\ PackageName(site.command) = "name@version"
    THEN <<[vulns |-> <<>>, next |-> 0]>> ELSE site.pages[target]

-----------------------------------------------------------------------------
Fetching == query.stage \in {"package", "latest", "repository"}

\* The fetch begins with its first page.
Fetch(q, stage) ==
    [q EXCEPT !.stage = stage, !.page = 1, !.pages = 0, !.attempt = 0,
              !.failed = FALSE, !.tokens = {}, !.got = <<>>]

Ids(vulns) == UNION {v.ids : v \in ToSet(vulns)}

\* Advisories that share an identifier with one before are dropped.
KeepVuln(out, v) == IF v.ids \cap Ids(out) # {} THEN out ELSE Append(out, v)
DedupeVulns(raw) == FoldLeft(KeepVuln, <<>>, raw)

ShapeVuln(v, latest) ==
    [ids |-> v.ids, severity |-> IF v.severity = "none" THEN "low" ELSE v.severity,
     affectsLatest |-> v.ids \cap latest # {}]

Shaped(q) ==
    LET vulns == DedupeVulns(q.raw)
    IN [q EXCEPT !.stage = "done",
                 !.answer = [success |-> TRUE, queryable |-> TRUE,
                             vulns |-> [i \in DOMAIN vulns |-> ShapeVuln(vulns[i], q.latest)]]]

\* The repository is asked last, when there is one.
Onward(q) == IF site.repo THEN Fetch(q, "repository") ELSE Shaped(q)

\* A fetch that ends, with all it collected.
Returned(q) ==
    CASE q.stage = "package"    -> [q EXCEPT !.raw = q.got, !.stage = "registry"]
      [] q.stage = "latest"     -> Onward([q EXCEPT !.latest = Ids(q.got)])
      [] q.stage = "repository" -> Shaped([q EXCEPT !.raw = q.raw \o q.got])

\* An exception ends the query; that of the latest version is only logged.
FetchRaises(q) ==
    IF q.stage = "latest" THEN Onward(q) ELSE [q EXCEPT !.stage = "done"]

ResolvePackage ==
    /\ query.stage = "resolve"
    /\ query' = CASE NamesPackage -> Fetch(query, "package")
                  [] ~NamesPackage /\ site.repo -> Fetch(query, "repository")
                  [] ~NamesPackage /\ ~site.repo ->
                        [query EXCEPT !.stage = "done", !.answer = [NoQuery EXCEPT !.success = TRUE]]
    /\ UNCHANGED site

\* Mutant: the last failed attempt returns what the pages before it had.
RetryThenReturn(q, kind) ==
    IF q.attempt < MaxRetries
    THEN [q EXCEPT !.attempt = @ + 1, !.failed = @ \/ kind = "timeout"]
    ELSE Returned(q)

\* A time limit or an error of the server is tried again, and raised in the end.
RetryOrRaise(q, kind) ==
    IF q.attempt < MaxRetries
    THEN [q EXCEPT !.attempt = @ + 1, !.failed = @ \/ kind = "timeout"]
    ELSE FetchRaises(q)

RequestFails(kind) ==
    /\ Fetching /\ kind \in site.answers \cap {"timeout", "busy"}
    /\ query' = RetryOrRaise(query, kind)
    /\ UNCHANGED site

\* A client error, or an answer that is no JSON object.
RequestRefused ==
    /\ Fetching /\ "refused" \in site.answers
    /\ query' = FetchRaises(query)
    /\ UNCHANGED site

\* The JSON value null: no page.  It ends the fetch like a last page, unless an
\* attempt before it met a time limit.
RequestNull ==
    /\ Fetching /\ "null" \in site.answers
    /\ query' = IF query.failed THEN FetchRaises(query) ELSE Returned([query EXCEPT !.cut = TRUE])
    /\ UNCHANGED site

ReceivePage ==
    /\ Fetching
    /\ LET page == PagesOf(query.stage)[query.page]
           got == [query EXCEPT !.got = @ \o page.vulns, !.pages = @ + 1,
                                !.attempt = 0, !.failed = FALSE]
           last == page.next \in query.tokens \/ got.pages = MaxPages
       IN query' = CASE page.next = 0 -> Returned(got)
                     [] page.next # 0 /\ last -> Returned([got EXCEPT !.cut = TRUE])
                     [] page.next # 0 /\ ~last ->
                           [got EXCEPT !.tokens = @ \cup {page.next}, !.page = page.next]
    /\ UNCHANGED site

\* The registry names the newest version, names none, or fails, as it does for
\* a name it does not know.
FetchLatestRegistryVersion(answer) ==
    /\ query.stage = "registry" /\ answer \in site.registry
    /\ query' = IF answer = "version" /\ PackageName(site.command) = "name"
                THEN Fetch(query, "latest") ELSE Onward(query)
    /\ UNCHANGED site

QueryStep ==
    \/ ResolvePackage
    \/ \E kind \in {"timeout", "busy"} : RequestFails(kind)
    \/ RequestRefused
    \/ RequestNull
    \/ ReceivePage
    \/ \E answer \in {"version", "none", "fails"} : FetchLatestRegistryVersion(answer)

-----------------------------------------------------------------------------
\* The advisories of a target: those of the pages that the tokens lead to from
\* the first one.
ReachedPages(pages) ==
    {i \in DOMAIN pages : \A known \in SUBSET DOMAIN pages :
        1 \in known /\ (\A j \in known : pages[j].next \in known \cup {0}) => i \in known}
AdvisoriesOf(target) ==
    LET pages == PagesOf(target) IN UNION {ToSet(pages[i].vulns) : i \in ReachedPages(pages)}

AskedTargets == (IF NamesPackage THEN {"package"} ELSE {})
                \cup (IF site.repo THEN {"repository"} ELSE {})

\* A query that reports success lists every advisory OSV has of the package and
\* of the repository, itself or under one of its identifiers: requests that
\* failed for good make it fail, whatever the pages before them held.  Known
\* exceptions: the page limit, a token that leads back and an answer null count
\* as the end.
OsvSuccessIsWhole ==
    query.answer.success /\ query.answer.queryable /\ ~query.cut =>
        \A v \in UNION {AdvisoriesOf(t) : t \in AskedTargets} :
            \E w \in ToSet(query.answer.vulns) : w.ids = v.ids \/ w.ids \cap v.ids # {}
=============================================================================
