----------------------------- MODULE Acquisition -----------------------------
(***************************************************************************)
(* scan_marketplace_extension: download, preserve the bytes, scan what was *)
(* preserved and accept the report only when it is of what was asked for.  *)
(* Scans are processes that share a vault; they may be killed.             *)
(***************************************************************************)
EXTENDS RegistryDownload, ArtifactStore

CONSTANTS
    Others,  \* scans that have downloaded already
    MaxHurt  \* bound: scans killed or failing, objects damaged

ASSUME AcquisitionAssumption ==
    /\ Callers = Scans /\ Others \subseteq Scans
    /\ Contents = Served /\ NoContent = Nothing
    /\ Scans \cap Contents = {}
    /\ MaxHurt \in Nat

VARIABLES
    worker,  \* its configuration
    hurt     \* what went wrong, for the bound and the properties

vars == <<get, temp, objects, rows, staging, keep, worker, hurt>>

Downloaded(s) ==
    [NoCall EXCEPT !.at = "got", !.content = s, !.registry = "vs-marketplace",
                   !.source = "vs-marketplace",
                   !.meta = [Unanswered EXCEPT !.state = "found", !.version = s.version]]

Init ==
    /\ StoreInit
    /\ \E s \in [Others -> {x \in Served : x.whole /\ x.id = "asked"}] :
         get = [c \in Scans |-> IF c \in Others THEN Downloaded(s[c]) ELSE NoCall]
    /\ temp = Others
    /\ worker \in [optedIn : BOOLEAN, store : BOOLEAN]
    /\ hurt = {}

LabelOf(g) == [version |-> Target(g), registry |-> g.source, platform |-> g.platform]

Download(c) ==
    /\ DownloadStep(c, worker.optedIn)
    /\ UNCHANGED <<storeVars, worker, hurt>>

StartPreserving(c) ==
    /\ At(c, "got") /\ worker.store
    /\ Preserve(c, get[c].content, LabelOf(get[c]))
    /\ get' = [get EXCEPT ![c] = To(c, "storing")]
    /\ UNCHANGED <<temp, worker, hurt>>

Preserving(c) ==
    /\ At(c, "storing")
    /\ StoreStep(c)
    /\ UNCHANGED <<downloadVars, worker, hurt>>

NotPreserved(c) ==
    /\ At(c, "storing") /\ Keeping(c, "failed")
    /\ get' = [get EXCEPT ![c] = To(c, "rejected")]
    /\ temp' = temp \ {c}
    /\ UNCHANGED <<storeVars, worker, hurt>>

\* A Visual Studio package takes the id that was asked for; its version is
\* compared with the one that was resolved.
ScannedId(s) == IF s.studio THEN "asked" ELSE s.id

Unpacks(g) ==
    /\ g.content.whole
    /\ worker.store => objects[g.content] = "whole"
    /\ g.content.studio => g.content.version = Target(g)

\* Mutant: the identity of the report is taken on trust.
IsAskedMutant(g) == ScannedId(g.content) = "asked"

IsAsked(g) ==
    /\ ScannedId(g.content) = "asked"
    /\ g.pin = 0 \/ g.content.version = g.pin

Scan(c) ==
    /\ IF worker.store THEN At(c, "storing") /\ Keeping(c, "kept") ELSE At(c, "got")
    /\ get' = [get EXCEPT ![c] =
                 To(c, IF Unpacks(get[c]) /\ IsAsked(get[c]) THEN "accepted" ELSE "rejected")]
    /\ temp' = temp \ {c}
    /\ UNCHANGED <<storeVars, worker, hurt>>

Ended(c) == get[c].at \in {"raised", "escaped", "accepted", "rejected", "killed"}

Hurt(x) == Cardinality(hurt) < MaxHurt /\ hurt' = hurt \cup {x}

Kill(c) ==
    /\ get[c].at \in {"fetch", "fetched", "got", "storing"}
    /\ Hurt(c)
    /\ get' = [get EXCEPT ![c] = [NoCall EXCEPT !.at = "killed"]]
    /\ UNCHANGED <<temp, storeVars, worker>>

Faults(c) ==
    /\ At(c, "storing")
    /\ StoreFault(c)
    /\ Hurt(c)
    /\ UNCHANGED <<downloadVars, worker>>

Damage(s) ==
    /\ Rot(s)
    /\ Hurt(s)
    /\ UNCHANGED <<downloadVars, worker>>

Next ==
    \/ \E c \in Scans :
         Download(c) \/ StartPreserving(c) \/ Preserving(c) \/ NotPreserved(c) \/ Scan(c)
           \/ Kill(c) \/ Faults(c)
    \/ \E s \in Contents : Damage(s)

Spec == Init /\ [][Next]_vars

-----------------------------------------------------------------------------
\* What a report is accepted for is what was asked: the extension, the pinned
\* release, the registry that served it, and bytes that were verified where it
\* says so. A mismatch is accepted by workers only that have opted in.
AcceptedIsAsked ==
    \A c \in Scans \ Others :
      At(c, "accepted") =>
        LET g == get[c]
        IN /\ g.content.whole
           /\ g.content.id = "asked" \/ g.content.studio
           /\ g.pin # 0 => g.content.version = g.pin
           /\ g.platform => g.source = "vs-marketplace"
           /\ g.verified = "true" => g.content = g.meta.sum /\ g.pin \in {0, g.meta.version}
           /\ g.verified = "mismatch" => worker.optedIn

\* What honest registries serve is accepted: no digest, asset or release of
\* something else is held against it.
HonestReleaseAccepted ==
    \A c \in Scans \ Others :
      get[c].honest /\ get[c].content # Nothing =>
        /\ At(c, "raised") => c \in temp   \* it could not be unwrapped
        /\ At(c, "rejected") => hurt # {}

\* A row in the catalog has its object, which is whole unless it was damaged
\* later; an accepted report was preserved under what the download said.
PreservedIsOnRecord ==
    /\ \A r \in rows : objects[r[2]] = (IF r[2] \in hurt THEN "rotten" ELSE "whole")
    /\ \A c \in Scans :
         At(c, "accepted") /\ worker.store => <<LabelOf(get[c]), get[c].content>> \in rows

\* Scans that preserve the same bytes do not disturb each other.
OnlyFaultsStopPreserving ==
    \A c \in Scans :
      Keeping(c, "failed") => c \in hurt \/ objects[keep[c].sum] = "rotten"

\* "fail closed instead of silently scanning and relabelling another release":
\* what honest registries served is on record as the release that it is.
CatalogNamesRelease ==
    \A c \in Scans :
      At(c, "storing") /\ Keeping(c, "kept") /\ get[c].honest =>
        keep[c].label.version = keep[c].sum.version
=============================================================================
