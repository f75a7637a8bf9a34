--------------------------- MODULE MCScanPipeline ---------------------------
(***************************************************************************)
(* Requests for the pipeline, each made for one kind of trouble.           *)
(***************************************************************************)
EXTENDS ScanPipeline, TLC

CONSTANTS A, B, C, Main, Lib, Ext, Data

MCIds == {A, B, C}
MCPaths == {Main, Lib, Ext, Data}

-----------------------------------------------------------------------------
(* Packages *)

Source ==
    [lang |-> "js", asset |-> FALSE, link |-> FALSE, readable |-> TRUE,
     size |-> "source", bundle |-> FALSE, parse |-> "ok", imports |-> {}]
Text == [Source EXCEPT !.lang = "text"]

Holding(files) == files @@ [p \in MCPaths |-> NoFile]

OneFile ==
    [files |-> Holding(Main :> Source), manifest |-> "valid", main |-> Main,
     browser |-> NoPath, managed |-> FALSE, capable |-> FALSE, node |-> TRUE, tangled |-> FALSE,
     semgrep |-> "works", yara |-> "works"]

\* Every way to be a file, one trouble at a time.
Troubles ==
    {Source, Text, [Source EXCEPT !.lang = "script"], [Source EXCEPT !.lang = "other"],
     [Source EXCEPT !.asset = TRUE], [Source EXCEPT !.link = TRUE],
     [Source EXCEPT !.readable = FALSE], [Text EXCEPT !.readable = FALSE],
     [Source EXCEPT !.bundle = TRUE], [Text EXCEPT !.size = "huge"],
     [Text EXCEPT !.size = "huge", !.asset = TRUE]}
      \cup {[Source EXCEPT !.size = s] : s \in {"medium", "large", "huge"}}
      \cup {[Source EXCEPT !.parse = s] : s \in {"unparsed", "failed"}}

Importing(files, ids) == {[f EXCEPT !.imports = ids] : f \in files}

\* The main file imports the library, which imports a third file or itself.
Trees ==
    {(Main :> f) @@ (Lib :> g) @@ more :
       f \in Importing(Troubles, {Lib}) \cup Importing({Source}, {}),
       g \in Importing(Troubles, {}) \cup Importing({Source}, {Ext})
              \cup Importing({Source}, {Main}),
       more \in {<<>>, (Ext :> Source)}}

Declarations(files) ==
    {[OneFile EXCEPT !.files = Holding(files), !.main = m, !.browser = b] :
       m \in {Main, NoPath}, b \in {Lib, Data, NoPath}}

\* The tools and the manifest, over files that differ in what they ask.
Tools(files) ==
    {[OneFile EXCEPT !.files = Holding(files), !.node = n, !.semgrep = s, !.yara = y,
                     !.manifest = m, !.tangled = t] :
       n \in BOOLEAN, s \in Engine, y \in Engine, t \in BOOLEAN,
       m \in {"valid", "anonymous", "unreadable"}}

Heap == [p \in MCPaths |-> IF p = Data THEN Text ELSE Source]

Shapes == {[OneFile EXCEPT !.files = Heap]} \cup UNION {Declarations(t) : t \in Trees}
Equipped ==
    UNION {Tools(files) :
             files \in {(Main :> f) : f \in Troubles} \cup {(Ext :> Source), <<>>}}

-----------------------------------------------------------------------------
(* Artifacts and requests *)

Plain ==
    [package |-> OneFile, refused |-> FALSE, shows |-> {},
     declares |-> {}, advised |-> {}]
Theme     == [Plain EXCEPT !.package.main = NoPath, !.package.files = Holding(<<>>)]
Managed   == [Theme EXCEPT !.package.managed = TRUE, !.package.capable = TRUE]
Partial   == [Plain EXCEPT !.package.main = Data, !.package.capable = TRUE,
                           !.shows = {"abuse"}]
Tampered  == [Theme EXCEPT !.refused = TRUE, !.shows = {"note"}]
Unchecked == [Theme EXCEPT !.package.files = Holding(Lib :> Source),
                           !.package.node = FALSE]
Forbidden == [Plain EXCEPT !.shows = {"contract", "abuse"}]
Advised(c) == [Theme EXCEPT !.advised = {c}]
Pack(ids)  == [Theme EXCEPT !.declares = ids]

Quiet ==
    [local |-> <<>>, ids |-> <<>>, market |-> <<>>, dynamic |-> FALSE,
     related |-> FALSE, expand |-> FALSE, remote |-> FALSE, previous |-> {},
     feed |-> {}, registry |-> {}, env |-> {}, required |-> {},
     advisories |-> "completed", intelligence |-> "completed", meets |-> {Plain}]

Hit(id, class) == [id |-> id, class |-> class]

\* Two installations of one extension in the sandbox.
Installations ==
    [Quiet EXCEPT !.local = <<A, A>>, !.dynamic = TRUE, !.env = {"sandbox"},
                  !.meets = {Theme, Plain, Partial, Tampered}]

\* The Marketplace, which may answer with another extension.
Marketplace ==
    [Quiet EXCEPT !.local = <<B>>, !.market = <<A, B>>, !.dynamic = TRUE,
                  !.meets = {Plain, Managed}]

\* Every kind of evidence against the same ids, with providers that fail.
Intelligence(advisories, intelligence) ==
    [Quiet EXCEPT !.local = <<A>>, !.ids = <<A>>, !.market = <<B>>, !.remote = TRUE,
                  !.dynamic = TRUE,
                  !.feed = {Hit(A, "confirmed"), Hit(C, "suspect")},
                  !.registry = {Hit(B, "confirmed"), Hit(C, "concern")},
                  !.env = {"advisories"}, !.required = {"intelligence"},
                  !.advisories = advisories, !.intelligence = intelligence,
                  !.meets = {Theme, Tampered, Unchecked, Forbidden, Advised("reject")}]

\* Packs that name each other, themselves and targets of the request, one of
\* them without an artifact.
Relationships ==
    [Quiet EXCEPT !.local = <<A>>, !.ids = <<C>>, !.market = <<B>>, !.related = TRUE,
                  !.remote = TRUE,
                  !.meets = {Plain, Pack({A, B}), Pack({B, C}), Pack({A, B, C})}]

Baseline ==
    [Quiet EXCEPT !.local = <<A, A>>, !.market = <<B>>, !.previous = {A, B}, !.remote = TRUE,
                  !.meets = {Plain, Tampered, Forbidden}]

Expansion == [Quiet EXCEPT !.market = <<A>>, !.expand = TRUE]

\* One package, scanned where the engines are required or where they are not.
Analysis(package, env) ==
    [Quiet EXCEPT !.local = <<A>>, !.env = env,
                  !.meets = {[Plain EXCEPT !.package = package]}]

\* The same at the Marketplace, without a trustworthy manifest.
Nameless ==
    [Quiet EXCEPT !.market = <<A>>,
                  !.meets = {[Plain EXCEPT !.package.manifest = m] :
                               m \in {"anonymous", "unreadable"}}]

MCRequests ==
    {Installations, Marketplace, Relationships, Baseline, Expansion, Nameless}
      \cup {Analysis(p, {}) : p \in Shapes}
      \cup {Analysis(p, {"semgrep", "yara"}) : p \in Equipped}
      \cup {Intelligence(s, t) : s \in {"completed", "invalid"},
                                 t \in {"completed", "failed"}}

MCSightings ==
    {{}, {"abuse"}, {"undeclared"}, {"broken", "abuse"}, {"entrypoint", "abuse"},
     {"entrypoint", "broken"}}
=============================================================================
