--------------------------- MODULE MCMcpAssessment ---------------------------
(* The instance TLC checks.  Checkouts, scanner runs and advisories are chosen *)
(* so that every parser, every way a version replaces another and every way   *)
(* two advisories can share identifiers occurs.  A world varies one extractor, *)
(* or two that meet in a metric, and keeps the others quiet.                  *)
EXTENDS McpAssessment, TLC

E(n, v) == Entry(n, v)
Lock(root, packages) == [state |-> "ok", old |-> FALSE, root |-> root, packages |-> packages]
Odd(lock) == [lock EXCEPT !.state = "odd"]
Declares(name, declared, optional) ==
    [name |-> name, state |-> "ok", declared |-> declared, optional |-> optional]
Dir(manifest, manager, locks, makes) ==
    [manifest |-> manifest, manager |-> manager, locks |-> locks, makes |-> makes]

AppJson == Declares("package.json", <<E("a", "^1"), E("b", "*")>>, <<E("c", "1")>>)
AppLock == Lock(<<E("a", "^1"), E("b", "*")>>, <<E("a", "1"), E("b", "2"), E("c", "2")>>)
PyToml == Declares("pyproject.toml", <<E("a", "1"), E("b", "<2")>>, <<>>)
PyLock == Lock(<<>>, <<E("a", "1"), E("b", "1")>>)
CargoToml == Declares("Cargo.toml", <<E("a", "^1")>>, <<>>)

\* One directory per JavaScript package manager, each with a lockfile to make.
JsCheckouts == {<<Dir(AppJson, k, <<>>, AppLock)>> :
                   k \in {"package-lock.json", "yarn.lock", "pnpm-lock.yaml", "bun.lock"}}

\* Two directories of one ecosystem that disagree on what is direct, and
\* lockfiles beside manifests of another one.
MixedCheckouts ==
    {<<Dir(AppJson, "package-lock.json", <<>>, AppLock),
       Dir(NoManifest, "", "yarn.lock" :> Lock(<<>>, <<E("a", "2"), E("c", "*")>>), AppLock)>>,
     <<Dir(PyToml, "", "requirements.txt" :> Lock(<<>>, <<E("b", "*"), E("c", "1")>>), PyLock)>>,
     <<Dir(CargoToml, "", "go.mod" :> Lock(<<E("a", "1")>>, <<E("a", "1"), E("b", "2")>>),
           Lock(<<>>, <<E("a", "1"), E("c", "2")>>))>>,
     <<Dir(AppJson, "pnpm-lock.yaml",
           "package-lock.json" :> [AppLock EXCEPT !.old = TRUE], AppLock)>>}

\* A lockfile older than its package.json.
StaleCheckouts ==
    {<<Dir(AppJson, "package-lock.json", "package-lock.json" :>
              Lock(<<E("a", "^1")>>, <<E("a", "1"), E("b", "2"), E("c", "1")>>), AppLock)>>}

BrokenCheckouts ==
    {<<Dir(AppJson, "bun.lock", <<>>, Odd(AppLock))>>,
     <<Dir([AppJson EXCEPT !.state = "corrupt"], "yarn.lock", <<>>, AppLock)>>,
     <<Dir([AppJson EXCEPT !.state = "odd"], "pnpm-lock.yaml", <<>>, AppLock)>>,
     <<Dir([AppJson EXCEPT !.state = "odd"], "pnpm-lock.yaml", <<>>, [AppLock EXCEPT !.root = <<>>])>>,
     <<Dir(NoManifest, "", "go.mod" :> Odd(AppLock), AppLock)>>,
     <<Dir(NoManifest, "", "uv.lock" :> [PyLock EXCEPT !.state = "corrupt"], PyLock)>>}

MCCheckouts == JsCheckouts \cup MixedCheckouts \cup StaleCheckouts \cup BrokenCheckouts

-----------------------------------------------------------------------------
A(pkg, version, ids, severity) ==
    [package |-> <<"npm", pkg>>, version |-> version, id |-> ids[1], ids |-> ToSet(ids),
     severity |-> severity, indirect |-> FALSE, reachable |-> FALSE, used |-> 0]

Ghsa == A("a", "1", <<"GHSA-1", "CVE-1">>, "HIGH")
Cve == A("a", "1", <<"CVE-1">>, "none")
CveElsewhere == A("a", "2", <<"CVE-1", "CVE-2">>, "LOW")
Other == A("a", "2", <<"CVE-2">>, "CRITICAL")
Mal == A("a", "1", <<"MAL-1", "GHSA-1">>, "UNKNOWN")
Nameless == [A("a", "1", <<"CVE-9">>, "HIGH") EXCEPT !.package = NoPackage]
Unversioned == A("b", "", <<"CVE-3">>, "HIGH")
Reached == [Cve EXCEPT !.reachable = TRUE, !.used = 2]

Exit(code, reports) == [outcome |-> "exit", code |-> code, reports |-> reports, unreadable |-> FALSE]
Printed(output, advisories) == [outcome |-> "exit", output |-> output, advisories |-> advisories]

MCDepscanRuns ==
    {[outcome |-> "error", output |-> "empty"], Exit(1, <<>>), Exit(0, <<>>),
     [Exit(0, <<>>) EXCEPT !.unreadable = TRUE],
     Exit(0, <<<<Reached, Other, Nameless>>>>),
     Exit(0, <<<<Cve, Ghsa>>, <<Mal, CveElsewhere, Unversioned>>>>)}

MCOsvRuns ==
    {[outcome |-> "error", output |-> "empty"], Printed("empty", <<>>), Printed("garbage", <<>>),
     Printed("odd", <<>>), Printed("json", <<>>),
     Printed("json", <<Ghsa, Cve, Other, CveElsewhere>>),
     Printed("json", <<Mal, Ghsa, Cve, Other, Nameless>>),
     Printed("json", <<Other, Unversioned, CveElsewhere, Cve>>)}

MCMaliciousLists == {{}, {<<"npm", "a">>, <<"pypi", "b">>}}

-----------------------------------------------------------------------------
(* The query for advisories.                                                 *)

V(ids, severity) == [ids |-> ids, severity |-> severity]
Page(vulns, next) == [vulns |-> vulns, next |-> next]
OnePage(vulns) == <<Page(vulns, 0)>>

PagesByTarget ==
    [package |-> <<Page(<<V({"GHSA-1", "CVE-1"}, "high")>>, 2), Page(<<V({"CVE-1"}, "low")>>, 3),
                   Page(<<V({"CVE-2"}, "none")>>, 0)>>,
     latest |-> OnePage(<<V({"CVE-1"}, "low")>>),
     repository |-> <<Page(<<V({"CVE-2", "GHSA-2"}, "high")>>, 2), Page(<<V({"CVE-3"}, "low")>>, 0)>>]

\* The second page leads back to itself.
Circular == [PagesByTarget EXCEPT !.repository = <<Page(<<>>, 2), Page(<<V({"CVE-3"}, "low")>>, 2)>>]
\* More pages than the limit.
Long == [PagesByTarget EXCEPT !.package =
            [i \in 1..MaxPages + 1 |-> Page(<<V({"CVE-1"}, "low")>>, IF i > MaxPages THEN 0 ELSE i + 1)]]

Quiet == [package |-> OnePage(<<>>), latest |-> OnePage(<<>>), repository |-> OnePage(<<>>)]

Site(source, pinned, pages, answers, registry) ==
    [command |-> [source |-> source, pinned |-> pinned], repo |-> FALSE, pages |-> pages,
     answers |-> answers, registry |-> registry]

QuietSite == Site("other", FALSE, Quiet, {}, {"none"})

MCSites ==
    {Site("npx", FALSE, pages, {"timeout", "busy", "refused", "null"}, {"version", "none", "fails"}) :
        pages \in {PagesByTarget, Circular, Long}}
    \cup {Site("uvx", TRUE, PagesByTarget, {"timeout"}, {"version", "fails"}),
          Site("other", FALSE, PagesByTarget, {"busy", "null"}, {"none"})}

-----------------------------------------------------------------------------
(* The server.                                                               *)

HttpsOnly == [scheme |-> "https", tls |-> "ok", weak |-> FALSE, legacy |-> <<"refuses", "refuses">>,
              plain |-> "blocked", chain |-> [ends |-> "answers", hops |-> <<>>, final |-> "https"]]

Hop(scheme, abroad) == [scheme |-> scheme, abroad |-> abroad]
Chain(ends, hops, final) == [ends |-> ends, hops |-> hops, final |-> final]

Chains ==
    {Chain("answers", <<Hop("https", FALSE)>>, "https"), Chain("loops", <<Hop("http", FALSE)>>, "http"),
     Chain("answers", <<Hop("https", FALSE), Hop("http", FALSE), Hop("https", FALSE)>>, "https"),
     Chain("answers", <<Hop("https", TRUE)>>, "https"), Chain("fails", <<>>, "http")}

MCWires ==
    {[HttpsOnly EXCEPT !.tls = tls, !.scheme = scheme, !.legacy = legacy] :
        tls \in {"dns", "badCert", "handshake", "down", "ok"}, scheme \in {"http", "https"},
        legacy \in {<<"refuses", "refuses">>, <<"unsupported", "accepts">>}}
    \cup {[HttpsOnly EXCEPT !.weak = TRUE]}
    \cup {[HttpsOnly EXCEPT !.plain = plain] : plain \in {"serves", "timeout", "error"}}
    \cup {[HttpsOnly EXCEPT !.plain = "redirects", !.chain = chain] : chain \in Chains}

Oauth == [gateway |-> FALSE, wellKnown |-> TRUE, get |-> "answers", denied |-> FALSE,
          challenge |-> "none", keyText |-> "never", initialize |-> TRUE, tools |-> <<"t">>,
          calls |-> <<"answers">>, metadata |-> <<>>]
OpenServer == [Oauth EXCEPT !.wellKnown = FALSE]

MCAuths ==
    {[o EXCEPT !.denied = TRUE, !.challenge = challenge, !.keyText = text] :
        o \in {Oauth, OpenServer}, challenge \in {"none", "key", "resource_metadata"},
        text \in {"never", "whenDenied", "always"}}
    \cup {[Oauth EXCEPT !.gateway = TRUE], [Oauth EXCEPT !.get = "fails"], [Oauth EXCEPT !.get = "badUrl"]}
    \cup {[OpenServer EXCEPT !.calls = calls] :
             calls \in {<<>>, <<"empty">>, <<"answers", "wantsAuth">>, <<"empty", "answers">>}}
    \cup {[OpenServer EXCEPT !.metadata = <<[s256 |-> s256, plain |-> plain, registers |-> registers]>>] :
             s256 \in BOOLEAN, plain \in BOOLEAN, registers \in BOOLEAN}

Unknown == [verified |-> "none", intended |-> "none", match |-> "other"]
MCSaas ==
    {[Unknown EXCEPT !.intended = intended, !.match = match] :
        intended \in {"none", "named", "empty", "fails"}, match \in {"confirmed", "other", "empty"}}
    \cup {[Unknown EXCEPT !.verified = v, !.intended = "empty"] : v \in {"official", "unofficial"}}

PlainTools == [declared |-> <<"tool">>, enrich |-> "ok", read |-> "ok", inSource |-> FALSE,
               metadata |-> "clean", source |-> "ok", findings |-> {}]
MCTools ==
    {[PlainTools EXCEPT !.metadata = metadata, !.source = source, !.findings = findings] :
        metadata \in {"clean", "poisoned", "fails"}, source \in {"ok", "fails"},
        findings \in SUBSET {"t1_08", "t1_09", "t2", "t2_06"} \cup {{"t1", "t2"}}}
    \cup {[PlainTools EXCEPT !.declared = declared, !.inSource = inSource, !.read = read, !.enrich = enrich] :
             declared \in {<<>>, <<"malformed">>, <<"tool">>}, inSource \in BOOLEAN,
             read \in {"ok", "fails"}, enrich \in {"ok", "fails"}}

Hits(h) == [i \in 1..h |-> [ignored |-> i = 1 /\ h > 2, tokens |-> 2]]
NoSecrets == [gitleaks |-> "ok", hits |-> <<>>, judge |-> "answers", leaks |-> {}]
MCSecrets ==
    {[NoSecrets EXCEPT !.gitleaks = gitleaks, !.hits = Hits(h), !.judge = judge, !.leaks = leaks] :
        gitleaks \in {"ok", "fails"}, h \in 0..3, judge \in {"answers", "fails", "empty"},
        leaks \in {{}, {1}, {2}, {3, 4}}}

-----------------------------------------------------------------------------
Calm == [local |-> FALSE, repo |-> "none", clone |-> "works", checkout |-> <<>>,
         depscan |-> {Exit(0, <<>>)}, osvScanner |-> {Printed("json", <<>>)}, listed |-> {},
         wire |-> HttpsOnly, auth |-> Oauth, saas |-> Unknown, tools |-> PlainTools,
         secrets |-> NoSecrets, site |-> QuietSite]

Cloned(w) == [w EXCEPT !.repo = "url", !.clone = "mayFail", !.site.repo = TRUE]
Homes(w) == {[w EXCEPT !.local = local] : local \in BOOLEAN}
Anywhere(w) == Homes(w) \cup Homes([w EXCEPT !.repo = "path"]) \cup Homes(Cloned(w))

DependencyWorlds ==
    {[Calm EXCEPT !.repo = "path", !.checkout = checkout, !.listed = listed,
                  !.depscan = MCDepscanRuns, !.osvScanner = MCOsvRuns] :
        checkout \in MCCheckouts, listed \in MCMaliciousLists}

QueryWorlds ==
    {[Calm EXCEPT !.site = s] : s \in MCSites} \cup {Cloned([Calm EXCEPT !.site = s]) : s \in MCSites}

ServerWorlds ==
    UNION {Anywhere([Calm EXCEPT !.wire = wire]) : wire \in MCWires}
    \cup UNION {Anywhere([Calm EXCEPT !.auth = auth]) : auth \in MCAuths}
    \cup UNION {Anywhere([Calm EXCEPT !.saas = saas]) : saas \in MCSaas}
    \cup UNION {Anywhere([Calm EXCEPT !.secrets = secrets]) : secrets \in MCSecrets}
    \cup UNION {Anywhere([Calm EXCEPT !.tools = tools, !.saas = saas]) :
                   tools \in MCTools, saas \in {Unknown, [Unknown EXCEPT !.verified = "official"]}}

MCWorlds == DependencyWorlds \cup QueryWorlds \cup ServerWorlds
=============================================================================
