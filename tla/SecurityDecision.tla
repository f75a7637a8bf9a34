--------------------------- MODULE SecurityDecision ---------------------------
(***************************************************************************)
(* What the scanner concludes from evidence: coverage out of providers and *)
(* limitations (_finalize_analysis_coverage), verdict and decision out of  *)
(* findings and coverage (_classify_findings, _apply_security_decision),   *)
(* and what it tells the public (apply_public_assessment,                  *)
(* derive_trust_tier).  Nothing here has a state.                          *)
(*                                                                         *)
(* A finding is represented by what policy tells apart:                    *)
(*   confirmed  confirmed malware             reject  vulnerability whose  *)
(*   abuse      a blocking abuse chain                policy action blocks *)
(*   suspect    suspicious but not blocking   concern other review items   *)
(*   contract   a capability that the functional class of the extension    *)
(*              forbids (no finding, but decisive like one)                *)
(*   note       a hardening note              context weak or contextual   *)
(***************************************************************************)

Classes == {"confirmed", "reject", "abuse", "suspect", "concern", "contract",
            "note", "context"}

\* The scanner's own static analysers count as one provider.
Providers == {"static", "semgrep", "yara", "sandbox", "acquisition", "advisories",
              "intelligence"}

Statuses == {"absent", "completed", "failed", "unavailable", "invalid",
             "not-requested", "not-applicable"}

Result(status, required) == [status |-> status, required |-> required]

NoCoverage ==
    [limits |-> {}, flawed |-> FALSE, status |-> "pending",
     providers |-> [p \in Providers |-> Result("absent", FALSE)]]

\* A provider among the limitations stands for "Required provider ... did not
\* complete", "artifact" for anything wrong with the artifact itself.  `flawed`
\* are the fields that the latter is recomputed from.
Limitations == Providers \cup {"artifact"}

Coverage ==
    [limits: SUBSET Limitations, flawed: BOOLEAN,
     status: {"pending", "complete", "incomplete"},
     providers: [Providers -> [status: Statuses, required: BOOLEAN]]]

Required(c, env) == env \cup {p \in Providers : c.providers[p].required}
Completed(c, env) ==
    {p \in Required(c, env) : c.providers[p].status = "completed"}
Missing(c, env) ==
    (Required(c, env) \ Completed(c, env))
      \cup (IF c.flawed THEN {"artifact"} ELSE {})

WithLimits(c, env, limits) ==
    [c EXCEPT !.limits = limits,
              !.status = IF limits = {} THEN "complete" ELSE "incomplete",
              !.providers = [p \in Providers |->
                               Result(@[p].status, @[p].required \/ p \in env)]]

\* Mutant: limitations are rebuilt, and those that came from outside are lost.
FinalizeRebuildMutant(c, env) == WithLimits(c, env, Missing(c, env))

\* Mutant: a provisional failure outlives the success of its provider.
FinalizeStickyMutant(c, env) == WithLimits(c, env, c.limits \cup Missing(c, env))

\* Earlier limitations stay, except for providers that completed since.
\* env is IDE_SCANNER_REQUIRE_PROVIDERS.
Finalize(c, env) ==
    WithLimits(c, env, (c.limits \ Completed(c, env)) \cup Missing(c, env))

-----------------------------------------------------------------------------
Verdict(classes) ==
    IF "confirmed" \in classes THEN "malicious"
    ELSE IF {"abuse", "suspect"} \cap classes # {} THEN "suspicious"
    ELSE IF {"reject", "concern"} \cap classes # {} THEN "review"
    ELSE "clean"

Blocking == {"confirmed", "reject", "abuse"}

\* Mutant: completeness is asked before enforcement.
DecisionMutant(classes, incomplete, changed) ==
    IF incomplete THEN "incomplete"
    ELSE IF Blocking \cap classes # {} THEN "block"
    ELSE IF Verdict(classes) # "clean" \/ "contract" \in classes \/ changed
         THEN "review"
    ELSE "allow"

\* `changed` says that the artifact differs from its baseline and gained
\* capabilities or findings.
Decision(classes, incomplete, changed) ==
    IF Blocking \cap classes # {} THEN "block"
    ELSE IF incomplete THEN "incomplete"
    ELSE IF Verdict(classes) # "clean" \/ "contract" \in classes \/ changed
         THEN "review"
    ELSE "allow"

\* The outcome expected_capability needs a review without any finding that
\* asks for one, which only a baseline gives, and the baseline is compared
\* after the assessment.
PublicOutcome(decision, classes) ==
    IF decision = "incomplete" THEN "incomplete"
    ELSE IF Verdict(classes) = "malicious" THEN "confirmed_threat"
    ELSE IF decision = "block" THEN "preventive_block"
    ELSE IF decision = "review" \/ "contract" \in classes THEN "investigate"
    ELSE "clear"

\* `behaved` says that behavioral verification completed and matched the
\* declaration.
TrustTier(decision, analysis, classes, behaved) ==
    IF decision = "incomplete" \/ analysis # "complete" THEN "unanalyzed"
    ELSE IF Verdict(classes) = "malicious" THEN "confirmed_risk"
    ELSE IF classes \ {"context"} # {} THEN "attention"
    ELSE IF behaved THEN "verified"
    ELSE "analyzed"
=============================================================================
