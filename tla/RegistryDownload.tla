-------------------------- MODULE RegistryDownload --------------------------
(***************************************************************************)
(* download_marketplace_vsix, for each caller: ask the VS Marketplace and  *)
(* Open VSX what they have, plan the addresses, try them in order into one *)
(* temporary file, unwrap it and compare the digest that the Marketplace   *)
(* publishes.  What the registries answer and serve is free; "honest"      *)
(* tells whether they told and served the truth, for the properties.       *)
(*                                                                         *)
(* A content is [id, version, build, whole, studio]: "asked" is the id of  *)
(* the request, builds differ by platform, and a studio package is one of  *)
(* Visual Studio.  Version 0 is no version.                                *)
(***************************************************************************)
EXTENDS Naturals, Sequences

CONSTANTS
    Scans,     \* the calls
    Requests,  \* [pin, platform]
    Versions,
    Served,    \* contents that an address may serve
    Nothing    \* no content

ASSUME DownloadAssumption ==
    /\ Versions \subseteq Nat \ {0}
    /\ Requests \subseteq [pin : Versions \cup {0}, platform : BOOLEAN]
    /\ Nothing \notin Served
    /\ Served \subseteq [id : STRING, version : Versions, build : STRING,
                         whole : BOOLEAN, studio : BOOLEAN]

VARIABLES
    get,    \* the call
    temp    \* the calls whose temporary file exists

downloadVars == <<get, temp>>

Registries == {"vs-marketplace", "openvsx"}

\* What a registry answers: its release, the digest that it publishes for it,
\* and whether it names an address. A digest is that of a build which the
\* registry selects, possibly of another release.
Unanswered == [state |-> "error", version |-> 0, sum |-> Nothing, address |-> FALSE]
Missing == [Unanswered EXCEPT !.state = "missing"]
Selected(s) == s.id = "asked" /\ s.whole /\ ~s.studio /\ s.build = "a"
MarketAnswers ==
    {Unanswered, Missing} \cup
    [state : {"found"}, version : Versions, sum : {s \in Served : Selected(s)} \cup {Nothing},
     address : BOOLEAN]
OpenAnswers ==
    {Unanswered, Missing} \cup
    [state : {"found"}, version : Versions, sum : {Nothing}, address : BOOLEAN]

NoCall ==
    [at |-> "none", pin |-> 0, platform |-> FALSE, registry |-> "none", meta |-> Unanswered,
     urls |-> <<>>, content |-> Nothing, source |-> "none", verified |-> "none",
     honest |-> TRUE]

DownloadInit ==
    /\ get = [c \in Scans |-> NoCall]
    /\ temp = {}

At(c, at) == get[c].at = at
To(c, at) == [get[c] EXCEPT !.at = at]

Ask(c, request) ==
    /\ At(c, "none")
    /\ get' = [get EXCEPT ![c] = [NoCall EXCEPT !.at = "query", !.pin = request.pin,
                                               !.platform = request.platform]]
    /\ UNCHANGED temp

(***************************************************************************)
(* Which release, and from where.                                          *)
(***************************************************************************)
Target(g) == IF g.pin # 0 THEN g.pin ELSE g.meta.version
MetaMatches(g) == g.meta.version = Target(g)

Generic(g) == [registry |-> "vs-marketplace", kind |-> "generic", version |-> Target(g)]
Asset(g)   == [registry |-> g.registry, kind |-> "asset", version |-> g.meta.version]

\* The asset that the answer selects, unless it is another release or another
\* platform than the one asked for.
FirstUrl(g) ==
    IF MetaMatches(g) /\ g.meta.address /\ ~g.platform THEN Asset(g) ELSE Generic(g)

\* Open VSX serves an unpinned request with any release.
SecondUrl(g, open) ==
    IF g.registry = "vs-marketplace" /\ ~g.platform
       /\ open.state = "found" /\ open.address
       /\ (g.pin = 0 \/ open.version = Target(g))
    THEN <<[registry |-> "openvsx", kind |-> "asset", version |-> open.version]>>
    ELSE <<>>

Planned(g, open) == [g EXCEPT !.at = "fetch", !.urls = <<FirstUrl(g)>> \o SecondUrl(g, open)]

Raise(c) == get' = [get EXCEPT ![c] = To(c, "raised")]

\* A digest that is right comes with the address of what it is the digest of.
Truthful(answer) ==
    answer.sum # Nothing => answer.sum.version = answer.version /\ answer.address

Query(c, answer) ==
    /\ At(c, "query")
    /\ get' = [get EXCEPT ![c] =
                 IF answer.state = "found"
                 THEN [To(c, "plan") EXCEPT !.meta = answer, !.registry = "vs-marketplace",
                                            !.honest = Truthful(answer)]
                 ELSE To(c, "fallback")]
    /\ UNCHANGED temp

\* Only Open VSX has it. A platform can only be asked of the Marketplace, and an
\* exact release must be the one that was found.
QueryOpenVsx(c, answer) ==
    /\ At(c, "fallback")
    /\ LET g == [To(c, "fallback") EXCEPT !.meta = answer, !.registry = "openvsx"]
       IN IF answer.state # "found" \/ g.platform \/ ~MetaMatches(g)
          THEN Raise(c)
          ELSE get' = [get EXCEPT ![c] = Planned(g, Unanswered)]
    /\ UNCHANGED temp

\* Open VSX is asked too, unless it already was or the platform matters.
Plan(c, answer) ==
    /\ At(c, "plan")
    /\ get[c].platform => answer = Unanswered
    /\ get' = [get EXCEPT ![c] = Planned(get[c], answer)]
    /\ UNCHANGED temp

(***************************************************************************)
(* The addresses in order, into one file.                                  *)
(***************************************************************************)
Rightly(g, url, s) ==
    /\ s.id = "asked" /\ s.whole /\ ~s.studio
    /\ s.version = url.version
    /\ url.kind = "asset" => s.build = "a"

Fetch(c, s) ==
    /\ At(c, "fetch")
    /\ LET url == Head(get[c].urls)
       IN get' = [get EXCEPT ![c] =
                    [To(c, "fetched") EXCEPT !.content = s, !.source = url.registry,
                                             !.urls = <<>>,
                                             !.honest = @ /\ Rightly(get[c], url, s)]]
    /\ temp' = temp \cup {c}

\* An address that is refused, unreachable or larger than the cap: the next one.
FetchFails(c) ==
    /\ At(c, "fetch")
    /\ LET rest == Tail(get[c].urls)
       IN get' = [get EXCEPT ![c] = IF rest = <<>> THEN To(c, "raised")
                                    ELSE [To(c, "fetch") EXCEPT !.urls = rest]]
    /\ temp' = IF Len(get[c].urls) = 1 THEN temp \ {c} ELSE temp \cup {c}

\* An error of the HTTP protocol is no OSError: it leaves every handler behind.
FetchBreaks(c) ==
    /\ At(c, "fetch")
    /\ get' = [get EXCEPT ![c] = [NoCall EXCEPT !.at = "escaped"]]
    /\ temp' = temp \cup {c}

\* An empty answer ends the call without a look at the next address.
FetchesNothing(c) ==
    /\ At(c, "fetch")
    /\ Raise(c)
    /\ temp' = temp \ {c}

(***************************************************************************)
(* What was fetched is unwrapped and compared.                             *)
(***************************************************************************)
UnwrapFails(c) ==
    /\ At(c, "fetched")
    /\ Raise(c)
    /\ UNCHANGED temp

\* Mutant: the digest of the selected release is applied to every release.
DigestAppliesMutant(g) ==
    g.registry = "vs-marketplace" /\ g.source = "vs-marketplace" /\ ~g.platform

DigestApplies(g) ==
    /\ MetaMatches(g)
    /\ ~g.platform
    /\ g.registry = "vs-marketplace"
    /\ g.source = "vs-marketplace"

Expected(g) == IF DigestApplies(g) THEN g.meta.sum ELSE Nothing

\* A mismatch is fatal unless the worker has opted into disclosing it.
Compare(c, optedIn) ==
    /\ At(c, "fetched")
    /\ LET g == get[c]
           e == Expected(g)
       IN IF e # Nothing /\ e # g.content /\ ~optedIn
          THEN Raise(c) /\ temp' = temp \ {c}
          ELSE /\ get' = [get EXCEPT ![c] =
                            [g EXCEPT !.at = "got",
                                      !.verified = IF e = Nothing THEN "none"
                                                   ELSE IF e = g.content THEN "true"
                                                   ELSE "mismatch"]]
               /\ UNCHANGED temp

DownloadStep(c, optedIn) ==
    \/ \E r \in Requests : Ask(c, r)
    \/ \E a \in MarketAnswers : Query(c, a)
    \/ \E a \in OpenAnswers : QueryOpenVsx(c, a) \/ Plan(c, a)
    \/ \E s \in Served : Fetch(c, s)
    \/ FetchFails(c) \/ FetchBreaks(c) \/ FetchesNothing(c)
    \/ UnwrapFails(c)
    \/ Compare(c, optedIn)
=============================================================================
