---------------------------- MODULE ArtifactStore ----------------------------
(***************************************************************************)
(* FilesystemArtifactStore: a content-addressed vault with a catalog of    *)
(* what was seen under which name.  Several scanners, each with a          *)
(* connection of its own, preserve into one vault without a lock.          *)
(*                                                                         *)
(* A content stands for its own digest and for the name of its object.     *)
(***************************************************************************)
EXTENDS Naturals, FiniteSets

CONSTANTS
    Callers,   \* scans that preserve
    Contents,  \* VSIX files
    Labels,    \* extension id, version, registry and platform of an observation
    NoContent, NoLabel

ASSUME StoreAssumption == NoContent \notin Contents /\ NoLabel \notin Labels

VARIABLES
    objects,  \* the files below sha256/
    rows,     \* the catalog
    staging,  \* the scans that have a file .staging-* in the vault
    keep      \* preserve(), for each caller

storeVars == <<objects, rows, staging, keep>>

NotKeeping == [at |-> "none", sum |-> NoContent, label |-> NoLabel]

StoreInit ==
    /\ objects = [s \in Contents |-> "none"]
    /\ rows = {}
    /\ staging = {}
    /\ keep = [c \in Callers |-> NotKeeping]

Keeping(c, at) == keep[c].at = at
KeepTo(c, at) == keep' = [keep EXCEPT ![c].at = at]

Preserve(c, sum, label) ==
    /\ Keeping(c, "none")
    /\ keep' = [keep EXCEPT ![c] = [at |-> "stage", sum |-> sum, label |-> label]]
    /\ UNCHANGED <<objects, rows, staging>>

\* Mutant: the catalog is written first.
StageMutant(c) ==
    /\ Keeping(c, "stage")
    /\ staging' = staging \cup {c}
    /\ rows' = rows \cup {<<keep[c].label, keep[c].sum>>}
    /\ KeepTo(c, "look")
    /\ UNCHANGED objects

\* The source is copied, hashed and flushed to a file of its own.
Stage(c) ==
    /\ Keeping(c, "stage")
    /\ staging' = staging \cup {c}
    /\ KeepTo(c, "look")
    /\ UNCHANGED <<objects, rows>>

Look(c) ==
    /\ Keeping(c, "look")
    /\ KeepTo(c, IF objects[keep[c].sum] = "none" THEN "link" ELSE "check")
    /\ UNCHANGED <<objects, rows, staging>>

\* Mutant: the loser of the link gives up.
LinkMutant(c) ==
    /\ Keeping(c, "link")
    /\ IF objects[keep[c].sum] = "none"
         THEN /\ objects' = [objects EXCEPT ![keep[c].sum] = "whole"]
              /\ KeepTo(c, "check")
              /\ UNCHANGED <<rows, staging>>
         ELSE /\ KeepTo(c, "failed")
              /\ staging' = staging \ {c}
              /\ UNCHANGED <<objects, rows>>

\* link() does not replace what another scan has linked since.
Link(c) ==
    /\ Keeping(c, "link")
    /\ objects' = [objects EXCEPT ![keep[c].sum] = IF @ = "none" THEN "whole" ELSE @]
    /\ KeepTo(c, "check")
    /\ UNCHANGED <<rows, staging>>

Fail(c) ==
    /\ KeepTo(c, "failed")
    /\ staging' = staging \ {c}
    /\ UNCHANGED <<objects, rows>>

\* _verify hashes the object again, whoever linked it.
Check(c) ==
    /\ Keeping(c, "check")
    /\ IF objects[keep[c].sum] = "whole"
         THEN KeepTo(c, "catalog") /\ UNCHANGED <<objects, rows, staging>>
         ELSE Fail(c)

\* Both tables in one transaction, and the staged file goes.
Catalog(c) ==
    /\ Keeping(c, "catalog")
    /\ rows' = rows \cup {<<keep[c].label, keep[c].sum>>}
    /\ KeepTo(c, "kept")
    /\ staging' = staging \ {c}
    /\ UNCHANGED objects

\* The file system or SQLite raises.
StoreFault(c) ==
    /\ keep[c].at \in {"stage", "look", "link", "check", "catalog"}
    /\ Fail(c)

\* A stored object is damaged.
Rot(s) ==
    /\ objects[s] = "whole"
    /\ objects' = [objects EXCEPT ![s] = "rotten"]
    /\ UNCHANGED <<rows, staging, keep>>

StoreStep(c) == Stage(c) \/ Look(c) \/ Link(c) \/ Check(c) \/ Catalog(c)
=============================================================================
