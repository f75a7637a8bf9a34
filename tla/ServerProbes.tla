----------------------------- MODULE ServerProbes -----------------------------
(***************************************************************************)
(* What the extractors of an MCP assessment conclude from the answers they *)
(* get (mcp/extractors: fingerprint, auth_modes, classification,           *)
(* tool_analysis, secrets).  Each runs on its own and sees only the server,*)
(* the checkout and the language model; so each is an operator over a      *)
(* record of what those answer.  Escapes are the exceptions an extractor   *)
(* lets through.                                                           *)
(***************************************************************************)
EXTENDS Naturals, Sequences, SequencesExt, FiniteSets

CONSTANT TokenBudget     \* max_tokens of the context for the judge of secrets

-----------------------------------------------------------------------------
(* Transport.  The wire is [scheme, tls, weak, legacy, plain, chain]: the     *)
(* outcome of the TLS probe, whether it negotiated a weak version, the        *)
(* answers to TLS 1.1 and 1.0, what the plain port answers, and where its     *)
(* redirects lead.                                                            *)

\* One refused version does not end the probe of the other; a version that the
\* local TLS library cannot offer is passed over.
LegacyAccepted(wire) == "accepts" \in ToSet(wire.legacy)

\* A hop to another registrable domain, or from HTTPS back to HTTP; the first
\* request was plain.
UnsafeHop(hops, i) ==
    \/ hops[i].abroad
    \/ i > 1 /\ hops[i - 1].scheme = "https" /\ hops[i].scheme = "http"

RedirectIsUnsafe(chain) ==
    \/ chain.ends = "loops"
    \/ \E i \in DOMAIN chain.hops : UnsafeHop(chain.hops, i)
    \/ chain.final # "https"

\* The request for the plain address; no level when it tells nothing.
HttpDowngrade(wire) ==
    CASE wire.plain = "serves"                  -> "http_fallback"
      [] wire.plain = "blocked"                 -> "https_strong"
      [] wire.plain \in {"timeout", "error"}    -> "none"
      [] wire.plain = "redirects" ->
            IF wire.chain.ends = "fails" THEN "none"
            ELSE IF RedirectIsUnsafe(wire.chain) THEN "https_unsafe_redirect"
            ELSE "https_safe_redirect"

Seen(level, tls) == [local |-> FALSE, level |-> level, tls |-> tls]

Fingerprint(local, wire) ==
    CASE local -> [Seen("none", "none") EXCEPT !.local = TRUE]
      [] ~local /\ wire.tls = "dns"     -> Seen("none", "none")
      [] ~local /\ wire.tls = "badCert" -> Seen("https_invalid_cert", "none")
      [] ~local /\ wire.tls = "handshake" /\ LegacyAccepted(wire) -> Seen("https_legacy_tls", "none")
      [] \/ ~local /\ wire.tls = "down"
         \/ ~local /\ wire.tls = "handshake" /\ ~LegacyAccepted(wire) ->
            Seen(IF wire.scheme = "http" THEN "http_only" ELSE "none", "none")
      [] ~local /\ wire.tls = "ok" ->
            IF wire.weak THEN Seen("https_legacy_tls", "weak")
            ELSE IF LegacyAccepted(wire) THEN Seen("https_legacy_tls", "modern")
            ELSE Seen(HttpDowngrade(wire), "modern")

-----------------------------------------------------------------------------
(* Authentication.  A server is [gateway, wellKnown, get, denied, challenge,   *)
(* keyText, initialize, tools, calls, metadata].                              *)

\* A tool call that is refused for want of credentials ends the check, also
\* when the refusal comes with status 200.
ConfirmNoAuth(auth) ==
    /\ auth.initialize /\ auth.tools # <<>>
    /\ \A i \in DOMAIN auth.calls : auth.calls[i] \notin {"wantsAuth", "raises"}
    /\ \E i \in DOMAIN auth.calls : auth.calls[i] = "answers"

\* keyText: what the body says of API keys; "whenDenied" counts only with a
\* status of 401 to 403.
AsksForKey(auth) ==
    \/ auth.keyText = "always"
    \/ auth.keyText = "whenDenied" /\ auth.denied
    \/ auth.challenge = "key"

\* The modes, or the empty sequence when the probe failed.
ProbeRemoteAuthModes(auth) ==
    LET known == IF auth.wellKnown THEN {"oauth"} ELSE {}
        fromHeaders == known
            \cup (IF auth.challenge = "resource_metadata" THEN {"oauth"} ELSE {})
            \cup (IF AsksForKey(auth) THEN {"api_key"} ELSE {})
        told == IF fromHeaders # {} THEN fromHeaders
                ELSE IF ConfirmNoAuth(auth) THEN {"no_auth"} ELSE {"unknown"}
    IN CASE auth.gateway -> {"oauth"}
         [] ~auth.gateway /\ auth.get = "answers" -> told
         [] ~auth.gateway /\ auth.get = "fails"   -> known
         [] ~auth.gateway /\ auth.get = "badUrl"  -> {}

\* The search for documentation passes its credentials under names that the
\* search does not take, which then finds nothing: no classification.
SearchFinds == FALSE

AuthModes(local, auth) ==
    LET modes == ProbeRemoteAuthModes(auth)
        classified == "no_auth" \in modes \/ SearchFinds
        degraded == modes = {} \/ ~classified
        known == modes \ {"unknown"}
    IN IF local THEN [local |-> TRUE, modes |-> {}, metadata |-> <<>>]
       ELSE IF degraded THEN [local |-> FALSE, modes |-> modes, metadata |-> <<>>]
       ELSE [local |-> FALSE, modes |-> IF known # {} THEN known ELSE modes,
             metadata |-> auth.metadata]

-----------------------------------------------------------------------------
(* Classification.  Knowledge is [verified, intended, match]: a verdict of a   *)
(* human, the service the model takes the code to be for, and whose it is.    *)

\* An empty answer of the model is read outside the handler.
ClassificationEscapes(repo, saas) ==
    /\ saas.verified = "none" /\ repo
    /\ \/ saas.intended = "empty"
       \/ saas.intended = "named" /\ saas.match = "empty"

\* Whatever fails, and whatever is not confirmed, is unofficial.
Officiality(repo, saas) ==
    CASE saas.verified # "none" -> saas.verified
      [] saas.verified = "none" /\ repo /\ saas.intended = "named" /\ saas.match = "confirmed" -> "official"
      [] OTHER -> "unofficial"

Classification(local, repo, saas) ==
    [local |-> local, repo |-> repo, officiality |-> Officiality(repo, saas)]

-----------------------------------------------------------------------------
(* Tools.  Findings are of a class with a severity for local and for remote    *)
(* servers.                                                                   *)

SeverityMap == [t1 |-> <<"high", "high">>, t1_08 |-> <<"medium", "high">>,
                t1_09 |-> <<"high", "na">>, t2 |-> <<"medium", "high">>,
                t2_06 |-> <<"na", "high">>]

TierOf(class) == IF class \in {"t1", "t1_08", "t1_09"} THEN 1 ELSE 2

SourceSeverity(class, local) ==
    LET level == SeverityMap[class][IF local THEN 1 ELSE 2]
    IN IF TierOf(class) = 2 /\ level # "na" THEN "medium" ELSE level

NoSourceAnalysis == [ran |-> FALSE, repo |-> FALSE, findings |-> {}, tier1 |-> 0, tier2 |-> 0]

\* A failed analysis, first pass or verification, has no findings.
SourceCodeAnalysis(local, checkout, tools) ==
    LET findings == {[tier |-> TierOf(c), severity |-> SourceSeverity(c, local)] : c \in tools.findings}
        told == IF checkout /\ tools.source = "ok" THEN findings ELSE {}
        Count(t) == Cardinality({f \in told : f.tier = t /\ f.severity # "na"})
    IN [ran |-> TRUE, repo |-> checkout, findings |-> told, tier1 |-> Count(1), tier2 |-> Count(2)]

\* A declaration that is no tool is met before any handler.
ToolAnalysisEscapes(tools) == "malformed" \in ToSet(tools.declared)

\* The tools come from the declarations, tagged from the code where there is a
\* checkout, or from the code alone.
ToolsBuilt(checkout, tools) ==
    /\ tools.enrich = "ok"
    /\ checkout => tools.read = "ok"
    /\ IF tools.declared # <<>> THEN TRUE ELSE checkout /\ tools.inSource

ToolAnalysis(local, checkout, tools) ==
    LET built == ToolsBuilt(checkout, tools)
        analysed == built /\ tools.metadata # "fails"
    IN [tools |-> built,
        poisoned |-> analysed /\ tools.metadata = "poisoned",
        source |-> IF analysed THEN SourceCodeAnalysis(local, checkout, tools)
                   ELSE NoSourceAnalysis]

-----------------------------------------------------------------------------
(* Secrets.  A hit is [ignored, tokens]: one in a .md file, or that looks like *)
(* a test value, is passed over.                                              *)

\* The hits that fit the budget, up to the first that does not.
LlmContext(hits) ==
    LET Take(c, i) ==
            IF c.full \/ hits[i].ignored THEN c
            ELSE IF c.tokens + hits[i].tokens > TokenBudget THEN [c EXCEPT !.full = TRUE]
            ELSE [c EXCEPT !.tokens = @ + hits[i].tokens, !.taken = @ \cup {i}]
    IN FoldLeft(Take, [full |-> FALSE, tokens |-> 0, taken |-> {}],
                [i \in DOMAIN hits |-> i]).taken

SecretsEscape(checkout, secrets) ==
    /\ checkout /\ secrets.gitleaks = "ok" /\ LlmContext(secrets.hits) # {}
    /\ secrets.judge = "empty"

SecretsScan(checkout, secrets) ==
    LET context == LlmContext(secrets.hits)
        failed == \/ secrets.gitleaks # "ok"
                  \/ context # {} /\ secrets.judge = "fails"
        confirmed == {i \in secrets.leaks : i \in DOMAIN secrets.hits}
    IN [repo |-> checkout, failed |-> checkout /\ failed,
        count |-> IF checkout /\ ~failed /\ context # {} THEN Cardinality(confirmed) ELSE 0]
=============================================================================
