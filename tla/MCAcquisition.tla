--------------------------- MODULE MCAcquisition ---------------------------
(***************************************************************************)
(* Two releases, two builds of the newer one, a truncated file, another    *)
(* extension and a Visual Studio package; an exact and an open request,    *)
(* and one for a platform; and a scan that has downloaded already.         *)
(***************************************************************************)
EXTENDS Acquisition

CONSTANTS c1, c2

Content(id, version, build, whole, studio) ==
    [id |-> id, version |-> version, build |-> build, whole |-> whole, studio |-> studio]

MCVersions == {1, 2}
MCServed ==
    {Content("asked", 1, "a", TRUE, FALSE),
     Content("asked", 2, "a", TRUE, FALSE),
     Content("asked", 2, "b", TRUE, FALSE),
     Content("asked", 2, "a", FALSE, FALSE),
     Content("other", 2, "a", TRUE, FALSE),
     Content("other", 2, "a", TRUE, TRUE)}
MCRequests ==
    {[pin |-> 0, platform |-> FALSE], [pin |-> 1, platform |-> FALSE],
     [pin |-> 2, platform |-> FALSE], [pin |-> 2, platform |-> TRUE]}
MCNothing == Content("none", 0, "none", FALSE, FALSE)
MCLabels ==
    [version : MCVersions, registry : {"vs-marketplace", "openvsx"}, platform : BOOLEAN]
=============================================================================
