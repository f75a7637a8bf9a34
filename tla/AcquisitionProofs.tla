-------------------------- MODULE AcquisitionProofs --------------------------
(***************************************************************************)
(* What is downloaded, preserved and accepted is what was asked for, for   *)
(* any number of scans, releases, contents and failures.                   *)
(***************************************************************************)
EXTENDS Acquisition, SequenceTheorems, TLAPS

-----------------------------------------------------------------------------
(* The inductive invariant *)

Answer == [state : {"error", "missing", "found"}, version : Nat,
           sum : Served \cup {Nothing}, address : BOOLEAN]
Url == [registry : Registries, kind : {"generic", "asset"}, version : Nat]
Urls == Seq(Url)

Places ==
    {"none", "query", "fallback", "plan", "fetch", "fetched", "got", "storing",
     "raised", "escaped", "accepted", "rejected", "killed"}
Asking == {"none", "query", "fallback", "plan", "fetch", "fetched"}
Names == Registries \cup {"none"}

CallState ==
    [at : Places, pin : Nat, platform : BOOLEAN, registry : Names, meta : Answer,
     urls : Urls, content : Served \cup {Nothing}, source : Names,
     verified : {"none", "true", "mismatch"}, honest : BOOLEAN]

KeepPlaces == {"none", "stage", "look", "link", "check", "catalog", "kept", "failed"}
KeepState ==
    [at : KeepPlaces,
     sum : Contents \cup {NoContent},
     label : [version : Nat, registry : Names, platform : BOOLEAN] \cup {NoLabel}]

AcquisitionTypeOK ==
    /\ get \in [Scans -> CallState]
    /\ keep \in [Callers -> KeepState]
    /\ objects \in [Contents -> {"none", "whole", "rotten"}]
    /\ worker \in [optedIn : BOOLEAN, store : BOOLEAN]
    /\ hurt \subseteq Scans \cup Contents

\* An address that the call may try: of the release that was asked for, of the
\* Marketplace if a platform matters, and the first one if of the Marketplace.
UrlIsAsked(g, url) ==
    /\ g.pin # 0 => url.version = g.pin
    /\ g.platform => url.registry = "vs-marketplace"
    /\ url.registry = "vs-marketplace" /\ g.registry = "vs-marketplace" => url = FirstUrl(g)

AnswerIsKept(g) ==
    /\ g.meta.sum # Nothing => Selected(g.meta.sum)
    /\ g.honest => Truthful(g.meta)

NothingYet(g) ==
    g.at \in {"none", "query", "fallback", "plan", "fetch"} =>
      g.content = Nothing /\ g.verified = "none"

PlanIsAsked(g) ==
    /\ g.at = "plan" => g.registry = "vs-marketplace"
    /\ g.at = "fetch" => \/ \E u \in Url : g.urls = <<u>> /\ UrlIsAsked(g, u)
                         \/ \E u, v \in Url : /\ g.urls = <<u, v>>
                                              /\ UrlIsAsked(g, u) /\ UrlIsAsked(g, v)

\* What was fetched came from such an address.
ContentIsAsked(g) ==
    g.content # Nothing =>
      \E url \in Url : /\ UrlIsAsked(g, url)
                       /\ g.source = url.registry
                       /\ g.honest => Rightly(g, url, g.content)

DigestIsOfContent(g) ==
    /\ g.at = "fetched" => g.verified = "none"
    /\ g.verified = "true" => g.content = g.meta.sum /\ MetaMatches(g)
    /\ g.verified = "mismatch" => worker.optedIn

ReportIsOfContent(g) ==
    g.at = "accepted" => g.content \in Served /\ g.content.whole /\ IsAsked(g)

CallInv(g) ==
    /\ AnswerIsKept(g) /\ NothingYet(g) /\ PlanIsAsked(g) /\ ContentIsAsked(g)
    /\ DigestIsOfContent(g) /\ ReportIsOfContent(g)

\* Content is in hand, and on disk until the call has ended.
InHand(c) == get[c].at \in {"fetched", "got", "storing"} => get[c].content \in Served

FileStays(c) ==
    /\ At(c, "fetched") => c \in temp
    /\ At(c, "raised") /\ get[c].honest /\ get[c].content # Nothing => c \in temp
    /\ At(c, "rejected") /\ get[c].honest /\ get[c].content # Nothing => hurt # {}

\* The vault: what a scan preserves is what it downloaded, under its label.
KeepsWhatItGot(c) ==
    /\ keep[c].at # "none" => keep[c].sum \in Contents
    /\ At(c, "storing") =>
         keep[c].at # "none" /\ keep[c].sum = get[c].content /\ keep[c].label = LabelOf(get[c])
    /\ get[c].at \notin {"storing", "accepted", "rejected", "killed"} => keep[c].at = "none"

LinkedIsThere(c) ==
    keep[c].at \in {"check", "catalog", "kept"} => objects[keep[c].sum] # "none"

RowIsWritten(c) ==
    /\ Keeping(c, "kept") => <<keep[c].label, keep[c].sum>> \in rows
    /\ At(c, "accepted") /\ worker.store => <<LabelOf(get[c]), get[c].content>> \in rows

RottenIsHurt == \A s \in Contents : objects[s] = "rotten" <=> s \in hurt
RowsHaveObjects == \A r \in rows : r[2] \in Contents /\ objects[r[2]] # "none"

StoreInv ==
    /\ RottenIsHurt
    /\ RowsHaveObjects
    /\ OnlyFaultsStopPreserving
    /\ \A c \in Scans : KeepsWhatItGot(c) /\ LinkedIsThere(c) /\ RowIsWritten(c)

CallsInv ==
    /\ \A c \in Scans : InHand(c)
    /\ \A c \in Others : get[c].at \notin Asking
    /\ \A c \in Scans \ Others : CallInv(get[c]) /\ FileStays(c)

AcquisitionInv ==
    /\ AcquisitionTypeOK
    /\ CallsInv
    /\ StoreInv

-----------------------------------------------------------------------------
(* What a step does to the record of a call. *)

Kin(g, h) ==
    /\ h.pin = g.pin /\ h.platform = g.platform /\ h.registry = g.registry /\ h.meta = g.meta

LEMMA KinAreAskedTheSame ==
  ASSUME NEW g \in CallState, NEW h \in CallState, Kin(g, h)
  PROVE  /\ Target(h) = Target(g) /\ MetaMatches(h) <=> MetaMatches(g)
         /\ \A u \in Url : UrlIsAsked(h, u) <=> UrlIsAsked(g, u)
BY DEF Kin, Target, MetaMatches, UrlIsAsked, FirstUrl, Asset, Generic

LEMMA MovesTo ==
  ASSUME NEW g \in CallState, NEW at \in Places
  PROVE  /\ [g EXCEPT !.at = at] \in CallState
         /\ [g EXCEPT !.at = at].at = at
         /\ Kin(g, [g EXCEPT !.at = at])
         /\ [g EXCEPT !.at = at].urls = g.urls /\ [g EXCEPT !.at = at].content = g.content
         /\ [g EXCEPT !.at = at].source = g.source /\ [g EXCEPT !.at = at].honest = g.honest
         /\ [g EXCEPT !.at = at].verified = g.verified
BY DEF CallState, Kin

\* A call that moves on with what it has.
LEMMA MovingOnKeeps ==
  ASSUME NEW g \in CallState, NEW h \in CallState, CallInv(g),
         Kin(g, h), h.content = g.content, h.source = g.source, h.honest = g.honest,
         h.verified = g.verified,
         h.at \in {"raised", "storing", "rejected", "killed"}
           \/ (g.at = "query" /\ h.at = "fallback")
  PROVE  CallInv(h)
<1>1. AnswerIsKept(h) /\ NothingYet(h) /\ PlanIsAsked(h) /\ ReportIsOfContent(h)
  BY DEF CallInv, AnswerIsKept, NothingYet, PlanIsAsked, ReportIsOfContent, Kin
<1>2. ContentIsAsked(h)
  BY KinAreAskedTheSame DEF CallInv, ContentIsAsked, Rightly
<1>3. DigestIsOfContent(h)
  BY KinAreAskedTheSame DEF CallInv, DigestIsOfContent, Kin
<1> QED BY <1>1, <1>2, <1>3 DEF CallInv

LEMMA AnswerTypes ==
  /\ Unanswered \in Answer
  /\ \A a \in MarketAnswers : a \in Answer /\ (a.sum # Nothing => Selected(a.sum))
  /\ \A a \in OpenAnswers : a \in Answer /\ a.sum = Nothing
<1>1. Versions \subseteq Nat /\ Unanswered \in Answer
  BY DownloadAssumption DEF Unanswered, Answer
<1>2. Missing \in Answer /\ Missing.sum = Nothing
  <2>1. ASSUME NEW a \in Answer PROVE [a EXCEPT !.state = "missing"] \in Answer
                                       /\ [a EXCEPT !.state = "missing"].sum = a.sum
    BY DEF Answer
  <2>2. Unanswered.sum = Nothing
    BY DEF Unanswered
  <2> QED BY <1>1, <2>1, <2>2, Zenon DEF Missing
<1>3. ASSUME NEW a \in MarketAnswers PROVE a \in Answer /\ (a.sum # Nothing => Selected(a.sum))
  <2>1. CASE a = Unanswered \/ a = Missing
    <3>1. Unanswered.sum = Nothing
      BY DEF Unanswered
    <3> QED BY <1>1, <1>2, <2>1, <3>1
  <2>2. CASE a \in [state : {"found"}, version : Versions,
                    sum : {s \in Served : Selected(s)} \cup {Nothing}, address : BOOLEAN]
    BY <1>1, <2>2 DEF Answer
  <2> QED BY <2>1, <2>2 DEF MarketAnswers
<1>4. ASSUME NEW a \in OpenAnswers PROVE a \in Answer /\ a.sum = Nothing
  <2>1. CASE a = Unanswered \/ a = Missing
    <3>1. Unanswered.sum = Nothing
      BY DEF Unanswered
    <3> QED BY <1>1, <1>2, <2>1, <3>1
  <2>2. CASE a \in [state : {"found"}, version : Versions, sum : {Nothing}, address : BOOLEAN]
    BY <1>1, <2>2 DEF Answer
  <2> QED BY <2>1, <2>2 DEF OpenAnswers
<1> QED BY <1>1, <1>3, <1>4

LEMMA NoCallKeeps == NoCall \in CallState /\ CallInv(NoCall) /\ NoCall.content = Nothing
<1>1. NoCall \in CallState
  <2>1. <<>> \in Urls
    BY DEF Urls
  <2>2. Unanswered \in Answer
    BY AnswerTypes
  <2> QED BY <2>1, <2>2 DEF NoCall, CallState, Places, Names, Registries
<1>2. CallInv(NoCall)
  BY DEF NoCall, CallInv, AnswerIsKept, Truthful, Unanswered, NothingYet, PlanIsAsked,
     ContentIsAsked, DigestIsOfContent, ReportIsOfContent
<1> QED BY <1>1, <1>2 DEF NoCall

LEMMA AskKeeps ==
  ASSUME NEW r \in Requests, NEW none \in CallState, none = NoCall
  PROVE  LET new == [none EXCEPT !.at = "query", !.pin = r.pin, !.platform = r.platform]
         IN  new \in CallState /\ CallInv(new) /\ new.at = "query"
<1> DEFINE new == [none EXCEPT !.at = "query", !.pin = r.pin, !.platform = r.platform]
<1>1. r.pin \in Nat /\ r.platform \in BOOLEAN
  <2>1. r \in [pin : Versions \cup {0}, platform : BOOLEAN] /\ Versions \cup {0} \subseteq Nat
    BY DownloadAssumption
  <2> QED BY <2>1
<1>2. /\ new \in CallState /\ new.at = "query" /\ new.content = none.content
      /\ new.meta = none.meta /\ new.verified = none.verified
  BY <1>1 DEF CallState, Places
<1>3. CallInv(new)
  <2> HIDE DEF new
  <2> QED BY <1>2, NoCallKeeps DEF CallInv, AnswerIsKept, Truthful, Unanswered, NothingYet, PlanIsAsked,
     ContentIsAsked, DigestIsOfContent, ReportIsOfContent, NoCall
<1> QED BY <1>2, <1>3

LEMMA QueryKeeps ==
  ASSUME NEW g \in CallState, CallInv(g), g.at = "query", NEW answer \in MarketAnswers
  PROVE  LET new == [[g EXCEPT !.at = "plan"] EXCEPT !.meta = answer,
                       !.registry = "vs-marketplace", !.honest = Truthful(answer)]
         IN  new \in CallState /\ CallInv(new) /\ new.at = "plan"
<1> DEFINE new == [[g EXCEPT !.at = "plan"] EXCEPT !.meta = answer,
                       !.registry = "vs-marketplace", !.honest = Truthful(answer)]
<1>1. answer \in Answer /\ (answer.sum # Nothing => Selected(answer.sum))
  BY AnswerTypes
<1>2. Truthful(answer) \in BOOLEAN
  BY <1>1 DEF Truthful, Answer
<1>3. /\ new \in CallState /\ new.at = "plan" /\ new.content = g.content
      /\ new.meta = answer /\ new.registry = "vs-marketplace" /\ new.honest = Truthful(answer)
      /\ new.verified = g.verified
  BY <1>1, <1>2 DEF CallState, Places, Names, Registries
<1>4. CallInv(new)
  <2> HIDE DEF new
  <2> QED BY <1>1, <1>3 DEF CallInv, AnswerIsKept, NothingYet, PlanIsAsked,
     ContentIsAsked, DigestIsOfContent, ReportIsOfContent
<1> QED BY <1>3, <1>4

LEMMA OneOrTwo ==
  ASSUME NEW S, NEW u \in S, NEW v \in S
  PROVE  /\ <<u>> \in Seq(S) /\ <<u, v>> \in Seq(S)
         /\ Tail(<<u>>) = <<>> /\ Tail(<<u, v>>) = <<v>>
         /\ <<u>> \o <<>> = <<u>> /\ <<u>> \o <<v>> = <<u, v>>
<1>1. <<u>> \in Seq(S) /\ <<u, v>> \in Seq(S) /\ <<>> \in Seq(S) /\ <<v>> \in Seq(S)
  OBVIOUS
<1>2. Tail(<<u>>) = <<>> /\ Tail(<<u, v>>) = <<v>>
  BY <1>1
<1>3. <<u>> \o <<>> = <<u>>
  BY <1>1
<1>4. <<u>> \o <<v>> = <<u, v>>
  <2> DEFINE s == <<u>> \o <<v>>
             t == <<u, v>>
  <2>1. s \in Seq(S) /\ t \in Seq(S) /\ Len(s) = 2 /\ Len(t) = 2
    BY <1>1, ConcatProperties
  <2>2. s[1] = u /\ s[2] = v
    BY <1>1, ConcatProperties
  <2>3. t[1] = u /\ t[2] = v
    OBVIOUS
  <2> HIDE DEF s, t
  <2>4. \A i \in 1 .. Len(s) : s[i] = t[i]
    BY <2>1, <2>2, <2>3
  <2>5. Len(s) = Len(t)
    BY <2>1
  <2>6. s = t
    BY <2>1, <2>4, <2>5, SeqEqual
  <2> QED BY <2>6 DEF s, t
<1> QED BY <1>1, <1>2, <1>3, <1>4

\* The addresses that are planned are of what was asked for.
LEMMA PlannedKeeps ==
  ASSUME NEW g \in CallState, NEW open \in OpenAnswers, AnswerIsKept(g),
         g.content = Nothing, g.verified = "none",
         \/ g.registry = "vs-marketplace"
         \/ g.registry = "openvsx" /\ ~g.platform /\ MetaMatches(g)
  PROVE  /\ Planned(g, open) \in CallState /\ CallInv(Planned(g, open))
         /\ Planned(g, open).at = "fetch"
<1> DEFINE u == FirstUrl(g)
           v == [registry |-> "openvsx", kind |-> "asset", version |-> open.version]
           rest == SecondUrl(g, open)
           urls == <<u>> \o rest
           new == [g EXCEPT !.at = "fetch", !.urls = urls]
<1>1. open.version \in Nat /\ Target(g) \in Nat
  BY AnswerTypes DEF Answer, Target, CallState
<1>2. u \in Url /\ UrlIsAsked(g, u)
  BY <1>1 DEF CallState, Answer, Url, Registries, UrlIsAsked, FirstUrl, Asset, Generic, MetaMatches, Target
<1>3. v \in Url /\ v.registry = "openvsx"
  BY <1>1 DEF Url, Registries
<1>4. \/ rest = <<>>
      \/ rest = <<v>> /\ UrlIsAsked(g, v)
  BY DEF SecondUrl, UrlIsAsked, Target
<1> HIDE DEF u, v, rest
<1>5. urls = <<u>> \/ (urls = <<u, v>> /\ UrlIsAsked(g, v))
  BY <1>2, <1>3, <1>4, OneOrTwo, Zenon
<1>6. urls \in Urls
  BY <1>2, <1>3, <1>5, OneOrTwo DEF Urls
<1> HIDE DEF urls
<1>7. /\ new \in CallState /\ new.at = "fetch" /\ new.urls = urls /\ new.content = g.content
      /\ new.verified = g.verified /\ new.honest = g.honest /\ Kin(g, new)
  BY <1>6 DEF CallState, Places, Kin
<1>8. Planned(g, open) = new
  BY Zenon DEF Planned, urls, u, rest
<1> HIDE DEF new
<1>9. UrlIsAsked(new, u) /\ (urls = <<u>> \/ (urls = <<u, v>> /\ UrlIsAsked(new, v)))
  BY <1>2, <1>3, <1>5, <1>7, KinAreAskedTheSame
<1>10. PlanIsAsked(new)
  BY <1>2, <1>3, <1>7, <1>9 DEF PlanIsAsked
<1>11. CallInv(new)
  BY <1>7, <1>10 DEF CallInv, AnswerIsKept, Kin, NothingYet, ContentIsAsked, DigestIsOfContent,
     ReportIsOfContent
<1> QED BY <1>7, <1>8, <1>11

LEMMA FallbackKeeps ==
  ASSUME NEW g \in CallState, CallInv(g), g.at = "fallback", NEW answer \in OpenAnswers,
         NEW new, new = [[g EXCEPT !.at = "fallback"] EXCEPT !.meta = answer, !.registry = "openvsx"],
         ~new.platform, MetaMatches(new)
  PROVE  /\ Planned(new, Unanswered) \in CallState /\ CallInv(Planned(new, Unanswered))
         /\ Planned(new, Unanswered).at = "fetch"
<1>1. answer \in Answer /\ answer.sum = Nothing
  BY AnswerTypes
<1>2. /\ new \in CallState /\ new.meta = answer /\ new.registry = "openvsx"
      /\ new.content = g.content /\ new.verified = g.verified
  <2> DEFINE h == [[g EXCEPT !.at = "fallback"] EXCEPT !.meta = answer, !.registry = "openvsx"]
  <2>1. /\ h \in CallState /\ h.meta = answer /\ h.registry = "openvsx"
        /\ h.content = g.content /\ h.verified = g.verified
    BY <1>1 DEF CallState, Places, Names, Registries
  <2> HIDE DEF h
  <2>2. new = h
    BY Zenon DEF h
  <2> QED BY <2>1, <2>2
<1>3. AnswerIsKept(new) /\ new.content = Nothing /\ new.verified = "none"
  BY <1>1, <1>2 DEF AnswerIsKept, Truthful, CallInv, NothingYet
<1>4. Unanswered \in OpenAnswers
  BY DEF OpenAnswers
<1> QED BY <1>2, <1>3, <1>4, PlannedKeeps

AfterFetch(g, s, honest, new) ==
    new = [[g EXCEPT !.at = "fetched"] EXCEPT !.content = s,
             !.source = Head(g.urls).registry, !.urls = <<>>, !.honest = honest]

LEMMA FetchKeeps ==
  ASSUME NEW g \in CallState, CallInv(g), g.at = "fetch", NEW s \in Served, NEW honest \in BOOLEAN,
         honest => g.honest /\ Rightly(g, Head(g.urls), s),
         NEW fetched, AfterFetch(g, s, honest, fetched)
  PROVE  fetched \in CallState /\ CallInv(fetched) /\ fetched.at = "fetched" /\ fetched.content = s
<1> DEFINE url == Head(g.urls)
           registry == url.registry
           new == [[g EXCEPT !.at = "fetched"] EXCEPT !.content = s,
                       !.source = registry, !.urls = <<>>, !.honest = honest]
<1>1. url \in Url /\ UrlIsAsked(g, url)
  BY DEF CallInv, PlanIsAsked
<1>2. registry \in Names /\ <<>> \in Urls
  BY <1>1 DEF Url, Names, Urls
<1> HIDE DEF url, registry
<1>3. /\ new \in CallState /\ new.at = "fetched" /\ new.content = s /\ new.source = registry
      /\ new.honest = honest /\ Kin(g, new) /\ new.verified = g.verified
  BY <1>2 DEF CallState, Places, Kin
<1> HIDE DEF new
<1>4. ContentIsAsked(new)
  <2>1. UrlIsAsked(new, url)
    BY <1>1, <1>3, KinAreAskedTheSame
  <2>2. new.source = url.registry /\ (new.honest => Rightly(new, url, new.content))
    BY <1>3 DEF Rightly, url, registry
  <2> QED BY <1>1, <2>1, <2>2 DEF ContentIsAsked
<1>5. CallInv(new)
  BY <1>3, <1>4 DEF CallInv, AnswerIsKept, Kin, NothingYet, PlanIsAsked, DigestIsOfContent,
     ReportIsOfContent
<1>6. new = fetched
  BY Zenon DEF new, registry, url, AfterFetch
<1> QED BY <1>3, <1>5, <1>6

LEMMA NextUrlKeeps ==
  ASSUME NEW g \in CallState, CallInv(g), g.at = "fetch", Tail(g.urls) # <<>>
  PROVE  LET new == [[g EXCEPT !.at = "fetch"] EXCEPT !.urls = Tail(g.urls)]
         IN  new \in CallState /\ CallInv(new) /\ new.at = "fetch"
<1> DEFINE urls == Tail(g.urls)
           new == [[g EXCEPT !.at = "fetch"] EXCEPT !.urls = urls]
<1>1. PICK u \in Url : urls = <<u>> /\ UrlIsAsked(g, u)
  BY OneOrTwo DEF CallInv, PlanIsAsked
<1>2. urls \in Urls
  BY <1>1, OneOrTwo DEF Urls
<1> HIDE DEF urls
<1>3. /\ new \in CallState /\ new.at = "fetch" /\ new.urls = urls /\ new.content = g.content
      /\ new.source = g.source /\ new.honest = g.honest /\ Kin(g, new)
      /\ new.verified = g.verified
  BY <1>2 DEF CallState, Places, Kin
<1> HIDE DEF new
<1>4. PlanIsAsked(new)
  BY <1>1, <1>3, KinAreAskedTheSame DEF PlanIsAsked
<1>5. CallInv(new)
  BY <1>3, <1>4 DEF CallInv, AnswerIsKept, Kin, NothingYet, ContentIsAsked, DigestIsOfContent,
     ReportIsOfContent
<1> QED BY <1>3, <1>5 DEF new, urls

\* The digest that an honest registry publishes is that of what it serves.
LEMMA HonestDigest ==
  ASSUME NEW g \in CallState, CallInv(g), g.at = "fetched", g.content \in Served, g.honest,
         Expected(g) # Nothing
  PROVE  Expected(g) = g.content
<1>1. /\ DigestApplies(g) /\ Expected(g) = g.meta.sum /\ g.meta.sum # Nothing
      /\ g.content # Nothing
  BY DownloadAssumption DEF Expected
<1>2. PICK url \in Url : UrlIsAsked(g, url) /\ g.source = url.registry /\ Rightly(g, url, g.content)
  BY <1>1 DEF CallInv, ContentIsAsked
<1>3. url = Asset(g)
  BY <1>1, <1>2 DEF DigestApplies, UrlIsAsked, FirstUrl, CallInv, AnswerIsKept, Truthful
<1>4. url.kind = "asset" /\ url.version = g.meta.version
  BY <1>3 DEF Asset
<1>5. Selected(g.meta.sum) /\ g.meta.sum.version = g.meta.version
  BY <1>1 DEF CallInv, AnswerIsKept, Truthful
<1>6. g.meta.sum \in Served
  BY <1>1 DEF CallState, Answer
<1>7. ASSUME NEW s \in Served, NEW r \in Served, s.id = r.id, s.version = r.version, s.build = r.build,
             s.whole, r.whole, ~s.studio, ~r.studio
      PROVE  s = r
  <2>1. /\ s \in [id : STRING, version : Versions, build : STRING, whole : BOOLEAN, studio : BOOLEAN]
        /\ r \in [id : STRING, version : Versions, build : STRING, whole : BOOLEAN, studio : BOOLEAN]
    BY DownloadAssumption
  <2> QED BY <1>7, <2>1
<1> QED BY <1>1, <1>2, <1>4, <1>5, <1>6, <1>7 DEF Rightly, Selected

LEMMA CompareKeeps ==
  ASSUME NEW g \in CallState, CallInv(g), g.at = "fetched", g.content \in Served,
         Expected(g) \in {Nothing, g.content} \/ worker.optedIn
  PROVE  LET e == Expected(g)
             new == [g EXCEPT !.at = "got",
                              !.verified = IF e = Nothing THEN "none"
                                           ELSE IF e = g.content THEN "true"
                                           ELSE "mismatch"]
         IN  new \in CallState /\ CallInv(new) /\ new.at = "got" /\ new.content = g.content
<1> DEFINE e == Expected(g)
           verified == IF e = Nothing THEN "none"
                       ELSE IF e = g.content THEN "true"
                       ELSE "mismatch"
           new == [g EXCEPT !.at = "got", !.verified = verified]
<1>1. /\ verified \in {"none", "true", "mismatch"}
      /\ verified = "true" => g.content = g.meta.sum /\ MetaMatches(g)
      /\ verified = "mismatch" => worker.optedIn
  BY DEF Expected, DigestApplies
<1> HIDE DEF verified
<1>2. /\ new \in CallState /\ new.at = "got" /\ new.content = g.content
      /\ new.source = g.source /\ new.honest = g.honest /\ Kin(g, new)
      /\ new.verified = verified
  BY <1>1 DEF CallState, Places, Kin
<1> HIDE DEF new
<1>3. ContentIsAsked(new)
  BY <1>2, KinAreAskedTheSame DEF CallInv, ContentIsAsked, Rightly
<1>4. DigestIsOfContent(new)
  BY <1>1, <1>2, KinAreAskedTheSame DEF DigestIsOfContent, Kin
<1>5. CallInv(new)
  BY <1>2, <1>3, <1>4 DEF CallInv, AnswerIsKept, Kin, NothingYet, PlanIsAsked, ReportIsOfContent
<1> QED BY <1>2, <1>5 DEF new, verified

-----------------------------------------------------------------------------
(* A step of the download.                                                    *)

DownloadsTo(c, new) ==
    /\ get' = [get EXCEPT ![c] = new]
    /\ CallInv(new)
    /\ new.at \notin {"none", "storing", "accepted", "rejected", "killed"}
    /\ new.at \in {"fetched", "got"} => new.content \in Served
    /\ \A d \in temp : d = c \/ d \in temp'
    /\ new.at = "fetched" => c \in temp'
    /\ new.at = "raised" /\ new.honest /\ new.content # Nothing => c \in temp'

LEMMA AskingStep ==
  ASSUME AcquisitionInv, NEW c \in Scans \ Others,
         \/ \E r \in Requests : Ask(c, r)
         \/ \E a \in MarketAnswers : Query(c, a)
         \/ \E a \in OpenAnswers : QueryOpenVsx(c, a) \/ Plan(c, a)
  PROVE  \E new \in CallState : DownloadsTo(c, new)
<1>1. PICK g \in CallState : g = get[c] /\ CallInv(g)
  BY DEF AcquisitionInv, AcquisitionTypeOK, CallsInv
<1>2. ASSUME NEW r \in Requests, Ask(c, r) PROVE \E new \in CallState : DownloadsTo(c, new)
  <2>1. PICK none \in CallState : none = NoCall
    BY NoCallKeeps
  <2> DEFINE new == [none EXCEPT !.at = "query", !.pin = r.pin, !.platform = r.platform]
  <2>2. new \in CallState /\ CallInv(new) /\ new.at = "query"
    BY <2>1, AskKeeps
  <2>3. get' = [get EXCEPT ![c] = new] /\ temp' = temp
    BY <1>2, <2>1, Zenon DEF Ask
  <2> HIDE DEF new
  <2> QED BY <2>2, <2>3 DEF DownloadsTo
<1>3. ASSUME NEW a \in MarketAnswers, Query(c, a), a.state = "found"
      PROVE \E new \in CallState : DownloadsTo(c, new)
  <2> DEFINE new == [[g EXCEPT !.at = "plan"] EXCEPT !.meta = a,
                       !.registry = "vs-marketplace", !.honest = Truthful(a)]
  <2>1. new \in CallState /\ CallInv(new) /\ new.at = "plan"
    BY <1>1, <1>3, QueryKeeps DEF Query, At
  <2>2. get' = [get EXCEPT ![c] = new] /\ temp' = temp
    BY <1>1, <1>3, Zenon DEF Query, To
  <2> HIDE DEF new
  <2> QED BY <2>1, <2>2 DEF DownloadsTo
<1>4. ASSUME NEW a \in MarketAnswers, Query(c, a), a.state # "found"
      PROVE \E new \in CallState : DownloadsTo(c, new)
  <2> DEFINE new == [g EXCEPT !.at = "fallback"]
  <2>1. new \in CallState /\ CallInv(new) /\ new.at = "fallback"
    BY ZenonT(40), <1>1, <1>4, MovesTo, MovingOnKeeps DEF Query, At, Places
  <2>2. get' = [get EXCEPT ![c] = new] /\ temp' = temp
    BY <1>1, <1>4, Zenon DEF Query, To
  <2> HIDE DEF new
  <2> QED BY <2>1, <2>2 DEF DownloadsTo
<1>5. ASSUME NEW a \in OpenAnswers, QueryOpenVsx(c, a) PROVE \E new \in CallState : DownloadsTo(c, new)
  <2> DEFINE h == [[g EXCEPT !.at = "fallback"] EXCEPT !.meta = a, !.registry = "openvsx"]
             raised == [g EXCEPT !.at = "raised"]
             planned == Planned(h, Unanswered)
  <2>1. g.at = "fallback" /\ temp' = temp
    BY <1>1, <1>5 DEF QueryOpenVsx, At
  <2>2. \/ get' = [get EXCEPT ![c] = raised]
        \/ /\ get' = [get EXCEPT ![c] = planned]
           /\ ~h.platform /\ MetaMatches(h)
    BY <1>1, <1>5, Zenon DEF QueryOpenVsx, To, Raise
  <2>3. /\ raised \in CallState /\ CallInv(raised) /\ raised.at = "raised"
        /\ raised.content = g.content
    BY ZenonT(40), <1>1, MovesTo, MovingOnKeeps DEF Places
  <2>4. ~h.platform /\ MetaMatches(h) =>
          planned \in CallState /\ CallInv(planned) /\ planned.at = "fetch"
    BY <1>1, <2>1, FallbackKeeps, Zenon
  <2>5. g.content = Nothing
    BY <1>1, <2>1 DEF CallInv, NothingYet
  <2> HIDE DEF h, raised, planned
  <2> QED BY <2>1, <2>2, <2>3, <2>4, <2>5 DEF DownloadsTo
<1>6. ASSUME NEW a \in OpenAnswers, Plan(c, a) PROVE \E new \in CallState : DownloadsTo(c, new)
  <2> DEFINE new == Planned(g, a)
  <2>1. g.at = "plan" /\ temp' = temp /\ get' = [get EXCEPT ![c] = new]
    BY <1>1, <1>6 DEF Plan, At
  <2>2. new \in CallState /\ CallInv(new) /\ new.at = "fetch"
    BY <1>1, <2>1, PlannedKeeps DEF CallInv, PlanIsAsked, NothingYet
  <2> HIDE DEF new
  <2> QED BY <2>1, <2>2 DEF DownloadsTo
<1> QED BY <1>2, <1>3, <1>4, <1>5, <1>6

LEMMA FetchingStep ==
  ASSUME AcquisitionInv, NEW c \in Scans \ Others,
         \/ \E s \in Served : Fetch(c, s)
         \/ FetchFails(c) \/ FetchBreaks(c) \/ FetchesNothing(c)
  PROVE  \E new \in CallState : DownloadsTo(c, new)
<1>1. PICK g \in CallState : g = get[c] /\ CallInv(g)
  BY DEF AcquisitionInv, AcquisitionTypeOK, CallsInv
<1>2. g.at = "fetch" /\ g.content = Nothing
  BY <1>1 DEF Fetch, FetchFails, FetchBreaks, FetchesNothing, At, CallInv, NothingYet
<1> DEFINE raised == [g EXCEPT !.at = "raised"]
<1>3. raised \in CallState /\ CallInv(raised) /\ raised.at = "raised" /\ raised.content = Nothing
  BY ZenonT(40), <1>1, <1>2, MovesTo, MovingOnKeeps DEF Places
<1>4. ASSUME NEW s \in Served, Fetch(c, s) PROVE \E new \in CallState : DownloadsTo(c, new)
  <2> DEFINE honest == g.honest /\ Rightly(g, Head(g.urls), s)
             new == [[g EXCEPT !.at = "fetched"] EXCEPT !.content = s,
                       !.source = Head(g.urls).registry, !.urls = <<>>, !.honest = honest]
  <2>1. get' = [get EXCEPT ![c] = new] /\ temp' = temp \cup {c}
    BY <1>1, <1>4, Zenon DEF Fetch, To
  <2>2. honest \in BOOLEAN
    BY <1>1 DEF CallState, Rightly
  <2>3. new \in CallState /\ CallInv(new) /\ new.at = "fetched" /\ new.content = s
    <3>1. honest => g.honest /\ Rightly(g, Head(g.urls), s)
      OBVIOUS
    <3>2. AfterFetch(g, s, honest, new)
      BY Zenon DEF AfterFetch
    <3> HIDE DEF honest, new
    <3> QED BY <1>1, <1>2, <2>2, <3>1, <3>2, FetchKeeps
  <2> HIDE DEF new
  <2> QED BY <2>1, <2>3 DEF DownloadsTo
<1>5. ASSUME FetchFails(c) PROVE \E new \in CallState : DownloadsTo(c, new)
  <2> DEFINE next == [[g EXCEPT !.at = "fetch"] EXCEPT !.urls = Tail(g.urls)]
  <2>1. \/ get' = [get EXCEPT ![c] = raised]
        \/ get' = [get EXCEPT ![c] = next] /\ Tail(g.urls) # <<>>
    BY <1>1, <1>5, Zenon DEF FetchFails, To
  <2>2. Tail(g.urls) # <<>> => next \in CallState /\ CallInv(next) /\ next.at = "fetch"
    BY <1>1, <1>2, NextUrlKeeps
  <2>3. \A d \in temp : d = c \/ d \in temp'
    BY <1>5 DEF FetchFails
  <2> HIDE DEF next, raised
  <2> QED BY <1>3, <2>1, <2>2, <2>3 DEF DownloadsTo
<1>6. ASSUME FetchBreaks(c) PROVE \E new \in CallState : DownloadsTo(c, new)
  <2>1. PICK none \in CallState : none = NoCall
    BY NoCallKeeps
  <2> DEFINE new == [none EXCEPT !.at = "escaped"]
  <2>2. /\ new \in CallState /\ new.at = "escaped" /\ Kin(none, new)
        /\ new.content = none.content /\ new.honest = none.honest /\ new.verified = none.verified
    <3>1. "escaped" \in Places
      BY DEF Places
    <3> QED BY <2>1, <3>1, MovesTo, Zenon
  <2>3. get' = [get EXCEPT ![c] = new] /\ temp' = temp \cup {c}
    BY <1>6, <2>1, Zenon DEF FetchBreaks
  <2> HIDE DEF new
  <2>4. CallInv(new)
    BY <2>1, <2>2, NoCallKeeps DEF CallInv, AnswerIsKept, NothingYet, PlanIsAsked, ContentIsAsked,
       DigestIsOfContent, ReportIsOfContent, Kin, NoCall
  <2> QED BY <2>2, <2>3, <2>4 DEF DownloadsTo
<1>7. ASSUME FetchesNothing(c) PROVE \E new \in CallState : DownloadsTo(c, new)
  <2>1. get' = [get EXCEPT ![c] = raised] /\ temp' = temp \ {c}
    BY <1>1, <1>7, Zenon DEF FetchesNothing, Raise, To
  <2> HIDE DEF raised
  <2> QED BY <1>3, <2>1 DEF DownloadsTo
<1> QED BY <1>4, <1>5, <1>6, <1>7

LEMMA ComparingStep ==
  ASSUME AcquisitionInv, NEW c \in Scans \ Others, UnwrapFails(c) \/ Compare(c, worker.optedIn)
  PROVE  \E new \in CallState : DownloadsTo(c, new)
<1>1. PICK g \in CallState : g = get[c] /\ CallInv(g)
  BY DEF AcquisitionInv, AcquisitionTypeOK, CallsInv
<1>2. g.at = "fetched" /\ c \in temp /\ g.content \in Served
  BY <1>1 DEF UnwrapFails, Compare, At, AcquisitionInv, CallsInv, FileStays, InHand
<1> DEFINE raised == [g EXCEPT !.at = "raised"]
           e == Expected(g)
           verified == IF e = Nothing THEN "none" ELSE IF e = g.content THEN "true" ELSE "mismatch"
           got == [g EXCEPT !.at = "got", !.verified = verified]
<1>3. /\ raised \in CallState /\ CallInv(raised) /\ raised.at = "raised"
      /\ raised.content = g.content /\ raised.honest = g.honest
  <2>1. "raised" \in Places
    BY DEF Places
  <2>2. /\ raised \in CallState /\ raised.at = "raised" /\ Kin(g, raised)
        /\ raised.content = g.content /\ raised.honest = g.honest
        /\ raised.source = g.source /\ raised.verified = g.verified
    BY <1>1, <2>1, MovesTo, ZenonT(90)
  <2> HIDE DEF raised
  <2> QED BY <1>1, <2>2, MovingOnKeeps
<1>4. \/ get' = [get EXCEPT ![c] = raised] /\ temp' = temp
      \/ /\ get' = [get EXCEPT ![c] = raised] /\ temp' = temp \ {c}
         /\ e # Nothing /\ e # g.content
      \/ /\ get' = [get EXCEPT ![c] = got] /\ temp' = temp
         /\ e = Nothing \/ e = g.content \/ worker.optedIn
  BY <1>1, Zenon DEF UnwrapFails, Compare, Raise, To
<1>5. e \in {Nothing, g.content} \/ worker.optedIn =>
        got \in CallState /\ CallInv(got) /\ got.at = "got" /\ got.content = g.content
  BY <1>1, <1>2, CompareKeeps, Zenon
<1>6. e # Nothing /\ e # g.content => ~g.honest
  BY <1>1, <1>2, HonestDigest
<1> HIDE DEF raised, got, e
<1>7. CASE get' = [get EXCEPT ![c] = raised] /\ temp' = temp
  BY <1>2, <1>3, <1>7 DEF DownloadsTo
<1>8. CASE get' = [get EXCEPT ![c] = raised] /\ temp' = temp \ {c} /\ ~g.honest
  BY <1>2, <1>3, <1>8 DEF DownloadsTo
<1>9. CASE /\ get' = [get EXCEPT ![c] = got] /\ temp' = temp
           /\ e = Nothing \/ e = g.content \/ worker.optedIn
  BY <1>2, <1>5, <1>9 DEF DownloadsTo
<1> QED BY <1>4, <1>6, <1>7, <1>8, <1>9

-----------------------------------------------------------------------------
(* One call moves, the others stay.                                           *)

LEMMA CallInvIsOfTheCall ==
  ASSUME NEW g \in CallState, UNCHANGED worker, NEW c \in Scans, get'[c] = g, CallInv(g)
  PROVE  CallInv(get[c])'
BY DEF CallInv, AnswerIsKept, Truthful, NothingYet, PlanIsAsked, UrlIsAsked, FirstUrl, MetaMatches,
   Target, Asset, Generic, ContentIsAsked, Rightly, DigestIsOfContent, ReportIsOfContent, IsAsked,
   ScannedId, Selected

LEMMA CallMoves ==
  ASSUME AcquisitionInv, NEW c \in Scans, NEW new \in CallState,
         get' = [get EXCEPT ![c] = new], UNCHANGED worker, hurt \subseteq hurt',
         \A d \in temp : d = c \/ d \in temp',
         c \in Others => new.at \notin Asking,
         c \notin Others => CallInv(new),
         new.at \in {"fetched", "got", "storing"} => new.content \in Served,
         new.at = "fetched" => c \in temp',
         new.at = "raised" /\ new.honest /\ new.content # Nothing => c \in temp',
         new.at = "rejected" /\ new.honest /\ new.content # Nothing =>
           c \in Others \/ hurt' # {}
  PROVE  get' \in [Scans -> CallState] /\ CallsInv'
<1>1. /\ get' \in [Scans -> CallState] /\ get'[c] = new
      /\ \A d \in Scans : d # c => get'[d] = get[d] /\ get[d] \in CallState
  BY DEF AcquisitionInv, AcquisitionTypeOK
<1>2. ASSUME NEW d \in Scans PROVE InHand(d)'
  BY <1>1 DEF InHand, AcquisitionInv, CallsInv
<1>3. ASSUME NEW d \in Others PROVE get'[d].at \notin Asking
  BY <1>1, AcquisitionAssumption DEF AcquisitionInv, CallsInv
<1>4. ASSUME NEW d \in Scans \ Others PROVE CallInv(get[d])'
  <2>1. CASE d = c
    BY <1>1, <2>1, CallInvIsOfTheCall
  <2>2. CASE d # c
    <3>1. CallInv(get[d]) /\ get'[d] = get[d] /\ get[d] \in CallState
      BY <1>1, <2>2 DEF AcquisitionInv, CallsInv
    <3> QED BY <3>1, CallInvIsOfTheCall
  <2> QED BY <2>1, <2>2
<1>5. ASSUME NEW d \in Scans \ Others PROVE FileStays(d)'
  BY <1>1 DEF FileStays, At, AcquisitionInv, CallsInv
<1> QED BY <1>1, <1>2, <1>3, <1>4, <1>5 DEF CallsInv

LEMMA CallsStay ==
  ASSUME AcquisitionInv, UNCHANGED <<get, temp, worker>>, hurt \subseteq hurt'
  PROVE  CallsInv'
<1>1. ASSUME NEW d \in Scans \ Others PROVE CallInv(get[d])'
  <2>1. CallInv(get[d]) /\ get'[d] = get[d] /\ get[d] \in CallState
    BY DEF AcquisitionInv, CallsInv, AcquisitionTypeOK
  <2> QED BY <2>1, CallInvIsOfTheCall
<1>2. ASSUME NEW d \in Scans \ Others PROVE FileStays(d)'
  BY DEF FileStays, At, AcquisitionInv, CallsInv
<1> QED BY <1>1, <1>2 DEF CallsInv, AcquisitionInv, InHand

\* The vault does not see a call that neither starts nor ends with it.
LEMMA VaultStays ==
  ASSUME AcquisitionInv, NEW c \in Scans, NEW new \in CallState,
         get' = [get EXCEPT ![c] = new], UNCHANGED <<objects, rows, staging, keep, worker>>,
         hurt \subseteq hurt', hurt' \cap Contents = hurt \cap Contents,
         new.at = "storing" => keep[c].at # "none" /\ keep[c].sum = new.content
                                 /\ keep[c].label = LabelOf(new),
         new.at \notin {"storing", "accepted", "rejected", "killed"} => keep[c].at = "none",
         new.at = "accepted" /\ worker.store => <<LabelOf(new), new.content>> \in rows
  PROVE  StoreInv'
<1>1. /\ get'[c] = new
      /\ \A d \in Scans : d # c => get'[d] = get[d]
  BY DEF AcquisitionInv, AcquisitionTypeOK
<1>2. RottenIsHurt' /\ RowsHaveObjects' /\ OnlyFaultsStopPreserving'
  BY DEF AcquisitionInv, StoreInv, RottenIsHurt, RowsHaveObjects, OnlyFaultsStopPreserving, Keeping
<1>3. ASSUME NEW d \in Scans PROVE KeepsWhatItGot(d)' /\ LinkedIsThere(d)' /\ RowIsWritten(d)'
  <2>1. LabelOf(get[d])' = LabelOf(get'[d])
    BY DEF LabelOf, Target
  <2>2. KeepsWhatItGot(d) /\ LinkedIsThere(d) /\ RowIsWritten(d)
    BY DEF AcquisitionInv, StoreInv
  <2>3. CASE d = c
    BY <1>1, <2>1, <2>2, <2>3 DEF KeepsWhatItGot, LinkedIsThere, RowIsWritten, At, Keeping
  <2>4. CASE d # c
    BY <1>1, <2>1, <2>2, <2>4 DEF KeepsWhatItGot, LinkedIsThere, RowIsWritten, At, Keeping
  <2> QED BY <2>3, <2>4
<1> QED BY <1>2, <1>3 DEF StoreInv

LEMMA DownloadKeeps ==
  ASSUME AcquisitionInv, NEW c \in Scans, Download(c)
  PROVE  AcquisitionInv'
<1>1. get[c].at \in Asking
  BY DEF Download, DownloadStep, Ask, Query, QueryOpenVsx, Plan, Fetch, FetchFails, FetchBreaks,
     FetchesNothing, UnwrapFails, Compare, At, Asking
<1>2. c \in Scans \ Others
  BY <1>1 DEF AcquisitionInv, CallsInv
<1>3. PICK new \in CallState : DownloadsTo(c, new)
  BY <1>2, AskingStep, FetchingStep, ComparingStep DEF Download, DownloadStep
<1>4. /\ UNCHANGED <<objects, rows, staging, keep, worker, hurt>>
      /\ keep[c].at = "none"
  BY <1>1 DEF Download, storeVars, AcquisitionInv, StoreInv, KeepsWhatItGot, Asking
<1>5. get' \in [Scans -> CallState] /\ CallsInv'
  BY <1>2, <1>3, <1>4, CallMoves DEF DownloadsTo
<1>6. StoreInv'
  BY <1>3, <1>4, VaultStays DEF DownloadsTo
<1> QED BY <1>4, <1>5, <1>6 DEF AcquisitionInv, AcquisitionTypeOK

-----------------------------------------------------------------------------
(* The steps with the vault.                                                  *)

LEMMA KeepIsAt ==
  ASSUME keep \in [Callers -> KeepState], NEW c \in Callers, NEW at \in KeepPlaces, KeepTo(c, at)
  PROVE  /\ keep' \in [Callers -> KeepState]
         /\ keep'[c].at = at /\ keep'[c].sum = keep[c].sum /\ keep'[c].label = keep[c].label
         /\ \A d \in Callers : d # c => keep'[d] = keep[d]
<1>1. PICK k \in KeepState : k = keep[c]
  OBVIOUS
<1> DEFINE new == [k EXCEPT !.at = at]
<1>2. new \in KeepState /\ new.at = at /\ new.sum = k.sum /\ new.label = k.label
  BY DEF KeepState
<1>3. keep' = [keep EXCEPT ![c] = new]
  BY <1>1, Zenon DEF KeepTo
<1> HIDE DEF new
<1> QED BY <1>1, <1>2, <1>3

LEMMA StartPreservingKeeps ==
  ASSUME AcquisitionInv, NEW c \in Scans, StartPreserving(c)
  PROVE  AcquisitionInv'
<1>1. PICK g \in CallState : g = get[c] /\ (c \notin Others => CallInv(g)) /\ g.content \in Served
  BY DEF AcquisitionInv, AcquisitionTypeOK, CallsInv, InHand, StartPreserving, At
<1> DEFINE new == [g EXCEPT !.at = "storing"]
           k == [at |-> "stage", sum |-> g.content, label |-> LabelOf(g)]
<1>2. /\ get' = [get EXCEPT ![c] = new] /\ UNCHANGED <<temp, worker, hurt, objects, rows, staging>>
      /\ keep' = [keep EXCEPT ![c] = k] /\ keep[c].at = "none"
  BY <1>1, Zenon DEF StartPreserving, Preserve, To, Keeping
<1>3. /\ new \in CallState /\ new.at = "storing" /\ Kin(g, new) /\ new.content = g.content
      /\ new.source = g.source /\ new.honest = g.honest /\ new.verified = g.verified
  <2>1. "storing" \in Places
    BY DEF Places
  <2> QED BY <2>1, MovesTo, Zenon
<1>4. k \in KeepState /\ k.at = "stage" /\ k.sum = g.content /\ k.label = LabelOf(g)
  BY <1>1, AcquisitionAssumption DEF KeepState, KeepPlaces, LabelOf, Target, CallState, Answer
<1>5. LabelOf(new) = LabelOf(g)
  BY <1>3 DEF LabelOf, Target, Kin
<1> HIDE DEF new, k
<1>6. get' \in [Scans -> CallState] /\ CallsInv'
  BY <1>1, <1>2, <1>3, MovingOnKeeps, CallMoves DEF Asking
<1>7. AcquisitionTypeOK'
  BY <1>2, <1>4, <1>6, AcquisitionAssumption DEF AcquisitionInv, AcquisitionTypeOK
<1>8. RottenIsHurt' /\ RowsHaveObjects' /\ OnlyFaultsStopPreserving'
  BY <1>2, <1>4, AcquisitionAssumption DEF AcquisitionInv, AcquisitionTypeOK, StoreInv, RottenIsHurt, RowsHaveObjects,
     OnlyFaultsStopPreserving, Keeping
<1>9. ASSUME NEW d \in Scans PROVE KeepsWhatItGot(d)' /\ LinkedIsThere(d)' /\ RowIsWritten(d)'
  <2>1. LabelOf(get[d])' = LabelOf(get'[d])
    BY DEF LabelOf, Target
  <2>2. KeepsWhatItGot(d) /\ LinkedIsThere(d) /\ RowIsWritten(d)
    BY DEF AcquisitionInv, StoreInv
  <2>3. /\ get'[c] = new /\ keep'[c] = k
        /\ d # c => get'[d] = get[d] /\ keep'[d] = keep[d]
    BY <1>2, AcquisitionAssumption DEF AcquisitionInv, AcquisitionTypeOK
  <2>4. CASE d = c
    BY <1>1, <1>3, <1>4, <1>5, <2>1, <2>3, <2>4, AcquisitionAssumption
       DEF KeepsWhatItGot, LinkedIsThere, RowIsWritten, At, Keeping
  <2>5. CASE d # c
    BY <1>2, <2>1, <2>2, <2>3, <2>5 DEF KeepsWhatItGot, LinkedIsThere, RowIsWritten, At, Keeping
  <2> QED BY <2>4, <2>5
<1> QED BY <1>6, <1>7, <1>8, <1>9 DEF AcquisitionInv, StoreInv

\* A step of the vault, a fault included, in the middle of which the call waits.
LEMMA VaultMoves ==
  ASSUME AcquisitionInv, NEW c \in Scans, NEW at \in KeepPlaces, KeepTo(c, at),
         keep[c].at \notin {"none", "kept", "failed"}, at # "none", At(c, "storing"),
         UNCHANGED <<get, temp, worker>>, hurt \subseteq hurt', hurt' \subseteq hurt \cup {c},
         objects' \in [Contents -> {"none", "whole", "rotten"}],
         \A s \in Contents : objects'[s] = objects[s] \/ (objects[s] = "none" /\ objects'[s] = "whole"),
         rows \subseteq rows', \A r \in rows' : r \in rows \/ r = <<keep[c].label, keep[c].sum>>,
         rows' # rows => objects[keep[c].sum] # "none",
         at \in {"check", "catalog", "kept"} => objects'[keep[c].sum] # "none",
         at = "kept" => <<keep[c].label, keep[c].sum>> \in rows',
         at = "failed" => c \in hurt' \/ objects[keep[c].sum] = "rotten"
  PROVE  AcquisitionInv'
<1>1. CallsInv'
  BY CallsStay
<1>2. /\ keep' \in [Callers -> KeepState]
      /\ keep'[c].at = at /\ keep'[c].sum = keep[c].sum /\ keep'[c].label = keep[c].label
      /\ \A d \in Scans : d # c => keep'[d] = keep[d]
  BY KeepIsAt, AcquisitionAssumption DEF AcquisitionInv, AcquisitionTypeOK
<1>3. AcquisitionTypeOK'
  BY <1>2 DEF AcquisitionInv, AcquisitionTypeOK
<1>4. keep[c].sum \in Contents
  BY DEF AcquisitionInv, StoreInv, KeepsWhatItGot
<1>5. RottenIsHurt'
  BY AcquisitionAssumption DEF AcquisitionInv, StoreInv, RottenIsHurt
<1>6. RowsHaveObjects'
  BY <1>4 DEF AcquisitionInv, StoreInv, RowsHaveObjects
<1>7. OnlyFaultsStopPreserving'
  <2>1. ASSUME NEW d \in Scans, Keeping(d, "failed")'
        PROVE  d \in hurt' \/ objects'[keep'[d].sum] = "rotten"
    <3>1. CASE d = c
      BY <1>2, <1>4, <2>1, <3>1 DEF Keeping
    <3>2. CASE d # c
      <4>1. Keeping(d, "failed") /\ keep'[d] = keep[d]
        BY <1>2, <2>1, <3>2 DEF Keeping
      <4>2. (d \in hurt \/ objects[keep[d].sum] = "rotten") /\ keep[d].sum \in Contents
        BY <4>1 DEF AcquisitionInv, StoreInv, OnlyFaultsStopPreserving, KeepsWhatItGot, Keeping
      <4> QED BY <4>1, <4>2
    <3> QED BY <3>1, <3>2
  <2> QED BY <2>1 DEF OnlyFaultsStopPreserving
<1>8. ASSUME NEW d \in Scans PROVE KeepsWhatItGot(d)' /\ LinkedIsThere(d)' /\ RowIsWritten(d)'
  <2>1. LabelOf(get[d])' = LabelOf(get[d])
    BY DEF LabelOf, Target
  <2>2. KeepsWhatItGot(d) /\ LinkedIsThere(d) /\ RowIsWritten(d)
    BY DEF AcquisitionInv, StoreInv
  <2>3. CASE d = c
    BY <1>2, <1>4, <2>1, <2>2, <2>3 DEF KeepsWhatItGot, LinkedIsThere, RowIsWritten, At, Keeping
  <2>4. CASE d # c
    BY <1>2, <2>1, <2>2, <2>4 DEF KeepsWhatItGot, LinkedIsThere, RowIsWritten, At, Keeping
  <2> QED BY <2>3, <2>4
<1> QED BY <1>1, <1>3, <1>5, <1>6, <1>7, <1>8 DEF AcquisitionInv, StoreInv

LEMMA PreservingKeeps ==
  ASSUME AcquisitionInv, NEW c \in Scans, Preserving(c) \/ Faults(c)
  PROVE  AcquisitionInv'
<1>1. At(c, "storing") /\ UNCHANGED <<get, temp, worker>>
  BY DEF Preserving, Faults, downloadVars
<1>2. objects \in [Contents -> {"none", "whole", "rotten"}] /\ keep[c].sum \in Contents
  BY <1>1 DEF AcquisitionInv, AcquisitionTypeOK, StoreInv, KeepsWhatItGot
<1>3. CASE Faults(c)
  BY <1>1, <1>2, <1>3, VaultMoves DEF Faults, Hurt, StoreFault, Fail, KeepPlaces
<1>4. CASE Preserving(c) /\ (Stage(c) \/ Look(c))
  <2>1. UNCHANGED <<hurt, objects, rows>>
    BY <1>4 DEF Preserving, Stage, Look
  <2> QED BY <1>1, <1>2, <1>4, <2>1, VaultMoves DEF Stage, Look, Keeping, KeepPlaces
<1>5. CASE Preserving(c) /\ Link(c)
  <2>1. /\ UNCHANGED <<hurt, rows>> /\ KeepTo(c, "check") /\ keep[c].at = "link"
        /\ objects' = [objects EXCEPT ![keep[c].sum] = IF @ = "none" THEN "whole" ELSE @]
    BY <1>5 DEF Preserving, Link, Keeping
  <2>2. /\ objects' \in [Contents -> {"none", "whole", "rotten"}]
        /\ \A s \in Contents :
             objects'[s] = objects[s] \/ (objects[s] = "none" /\ objects'[s] = "whole")
        /\ objects'[keep[c].sum] # "none"
    BY <1>2, <2>1
  <2> QED BY <1>1, <2>1, <2>2, VaultMoves DEF KeepPlaces
<1>6. CASE Preserving(c) /\ Check(c)
  <2>1. /\ UNCHANGED <<hurt, objects, rows>> /\ keep[c].at = "check"
        /\ \/ objects[keep[c].sum] = "whole" /\ KeepTo(c, "catalog")
           \/ objects[keep[c].sum] # "whole" /\ KeepTo(c, "failed")
    BY <1>6 DEF Preserving, Check, Fail, Keeping
  <2>2. objects[keep[c].sum] \in {"whole", "rotten"}
    BY <1>2, <2>1 DEF AcquisitionInv, StoreInv, LinkedIsThere
  <2> QED BY <1>1, <1>2, <2>1, <2>2, VaultMoves DEF KeepPlaces
<1>7. CASE Preserving(c) /\ Catalog(c)
  <2>1. /\ UNCHANGED <<hurt, objects>> /\ keep[c].at = "catalog" /\ KeepTo(c, "kept")
        /\ rows' = rows \cup {<<keep[c].label, keep[c].sum>>}
    BY <1>7 DEF Preserving, Catalog, Keeping
  <2>2. objects[keep[c].sum] # "none"
    BY <2>1 DEF AcquisitionInv, StoreInv, LinkedIsThere
  <2> QED BY <1>1, <1>2, <2>1, <2>2, VaultMoves DEF KeepPlaces
<1> QED BY <1>3, <1>4, <1>5, <1>6, <1>7 DEF Preserving, StoreStep

LEMMA DamageKeeps ==
  ASSUME AcquisitionInv, NEW s \in Contents, Damage(s)
  PROVE  AcquisitionInv'
<1>1. /\ UNCHANGED <<get, temp, worker, rows, staging, keep>>
      /\ hurt' = hurt \cup {s} /\ objects[s] = "whole"
      /\ objects' = [objects EXCEPT ![s] = "rotten"]
  BY DEF Damage, Rot, Hurt, downloadVars
<1>2. CallsInv'
  BY <1>1, CallsStay
<1>3. AcquisitionTypeOK'
  BY <1>1 DEF AcquisitionInv, AcquisitionTypeOK
<1>4. \A r \in Contents : objects'[r] = IF r = s THEN "rotten" ELSE objects[r]
  BY <1>1 DEF AcquisitionInv, AcquisitionTypeOK
<1>5. RottenIsHurt' /\ RowsHaveObjects'
  BY <1>1, <1>4 DEF AcquisitionInv, StoreInv, RottenIsHurt, RowsHaveObjects
<1>6. OnlyFaultsStopPreserving'
  BY <1>1, <1>4 DEF AcquisitionInv, StoreInv, OnlyFaultsStopPreserving, KeepsWhatItGot, Keeping
<1>7. ASSUME NEW d \in Scans PROVE KeepsWhatItGot(d)' /\ LinkedIsThere(d)' /\ RowIsWritten(d)'
  <2>1. LabelOf(get[d])' = LabelOf(get[d])
    BY <1>1 DEF LabelOf, Target
  <2>2. KeepsWhatItGot(d) /\ LinkedIsThere(d) /\ RowIsWritten(d)
    BY DEF AcquisitionInv, StoreInv
  <2> QED BY <1>1, <1>4, <2>1, <2>2 DEF KeepsWhatItGot, LinkedIsThere, RowIsWritten, At, Keeping
<1> QED BY <1>2, <1>3, <1>5, <1>6, <1>7 DEF AcquisitionInv, StoreInv

LEMMA KillKeeps ==
  ASSUME AcquisitionInv, NEW c \in Scans, Kill(c)
  PROVE  AcquisitionInv'
<1>1. PICK none \in CallState : none = NoCall
  BY NoCallKeeps
<1> DEFINE new == [none EXCEPT !.at = "killed"]
<1>2. /\ get' = [get EXCEPT ![c] = new] /\ hurt' = hurt \cup {c}
      /\ UNCHANGED <<temp, objects, rows, staging, keep, worker>>
  BY <1>1, Zenon DEF Kill, Hurt, storeVars
<1>3. /\ new \in CallState /\ new.at = "killed" /\ Kin(none, new) /\ new.content = none.content
      /\ new.source = none.source /\ new.honest = none.honest /\ new.verified = none.verified
  <2>1. "killed" \in Places
    BY DEF Places
  <2> QED BY <2>1, MovesTo, Zenon
<1> HIDE DEF new
<1>4. CallInv(new)
  BY <1>1, <1>3, NoCallKeeps, MovingOnKeeps
<1>5. get' \in [Scans -> CallState] /\ CallsInv'
  BY <1>2, <1>3, <1>4, CallMoves DEF Asking
<1>6. hurt' \cap Contents = hurt \cap Contents
  BY <1>2, AcquisitionAssumption
<1>7. StoreInv'
  BY <1>2, <1>3, <1>6, VaultStays
<1> QED BY <1>2, <1>5, <1>7 DEF AcquisitionInv, AcquisitionTypeOK

LEMMA ScanKeeps ==
  ASSUME AcquisitionInv, NEW c \in Scans, Scan(c) \/ NotPreserved(c)
  PROVE  AcquisitionInv'
<1>1. PICK g \in CallState :
        g = get[c] /\ (c \notin Others => CallInv(g)) /\ g.content \in Served
          /\ g.at \in {"got", "storing"}
  BY DEF AcquisitionInv, AcquisitionTypeOK, CallsInv, InHand, Scan, NotPreserved, At
<1> DEFINE passes == Scan(c) /\ Unpacks(g) /\ IsAsked(g)
           at == IF passes THEN "accepted" ELSE "rejected"
           new == [g EXCEPT !.at = at]
<1>2. UNCHANGED <<objects, rows, staging, keep, worker, hurt>> /\ temp' = temp \ {c}
  BY DEF Scan, NotPreserved, storeVars
<1>3. get' = [get EXCEPT ![c] = new]
  <2>1. CASE Scan(c)
    BY <1>1, <2>1, Zenon DEF Scan, To
  <2>2. CASE NotPreserved(c) /\ ~Scan(c)
    BY <1>1, <2>2, Zenon DEF NotPreserved, To
  <2> QED BY <2>1, <2>2
<1>4. at \in {"accepted", "rejected"} /\ (at = "accepted" <=> passes)
  OBVIOUS
<1> HIDE DEF at
<1>5. /\ new \in CallState /\ new.at = at /\ Kin(g, new) /\ new.content = g.content
      /\ new.source = g.source /\ new.honest = g.honest /\ new.verified = g.verified
  <2>1. at \in Places
    BY <1>4 DEF Places
  <2> QED BY <2>1, MovesTo, Zenon
<1> HIDE DEF new
<1>6. ASSUME c \notin Others PROVE CallInv(new)
  <2>1. CallInv(g)
    BY <1>1, <1>6
  <2>2. AnswerIsKept(new) /\ NothingYet(new) /\ PlanIsAsked(new)
    BY <1>4, <1>5, <2>1 DEF CallInv, AnswerIsKept, NothingYet, PlanIsAsked, Kin
  <2>3. ContentIsAsked(new) /\ DigestIsOfContent(new)
    BY <1>4, <1>5, <2>1, KinAreAskedTheSame DEF CallInv, ContentIsAsked, Rightly, DigestIsOfContent, Kin
  <2>4. ReportIsOfContent(new)
    BY <1>1, <1>4, <1>5 DEF ReportIsOfContent, Unpacks, IsAsked, ScannedId, Kin
  <2> QED BY <2>2, <2>3, <2>4 DEF CallInv
<1>7. ASSUME c \notin Others, at = "rejected", g.honest PROVE hurt # {}
  <2>1. PICK url \in Url : UrlIsAsked(g, url) /\ Rightly(g, url, g.content)
    BY <1>1, <1>7, DownloadAssumption DEF CallInv, ContentIsAsked
  <2>2. /\ g.content.whole /\ ~g.content.studio /\ g.content.id = "asked"
        /\ g.pin # 0 => g.content.version = g.pin
    BY <2>1 DEF Rightly, UrlIsAsked
  <2>3. CASE Scan(c)
    <3>1. worker.store /\ objects[g.content] # "whole"
      BY <1>4, <1>7, <2>2, <2>3 DEF Unpacks, IsAsked, ScannedId
    <3>2. keep[c].at = "kept" /\ keep[c].sum = g.content /\ g.content \in Contents
      BY <1>1, <2>3, <3>1 DEF Scan, Keeping, At, AcquisitionInv, StoreInv, KeepsWhatItGot
    <3>3. objects[g.content] = "rotten"
      BY <3>1, <3>2 DEF AcquisitionInv, AcquisitionTypeOK, StoreInv, LinkedIsThere
    <3> QED BY <3>2, <3>3 DEF AcquisitionInv, StoreInv, RottenIsHurt
  <2>4. CASE NotPreserved(c)
    <3>1. keep[c].sum \in Contents /\ (c \in hurt \/ objects[keep[c].sum] = "rotten")
      BY <2>4 DEF NotPreserved, Keeping, AcquisitionInv, StoreInv, OnlyFaultsStopPreserving,
         KeepsWhatItGot
    <3> QED BY <3>1 DEF AcquisitionInv, StoreInv, RottenIsHurt
  <2> QED BY <2>3, <2>4
<1>8. get' \in [Scans -> CallState] /\ CallsInv'
  BY <1>2, <1>3, <1>4, <1>5, <1>6, <1>7, CallMoves DEF Asking
<1>9. at = "accepted" /\ worker.store => <<LabelOf(new), new.content>> \in rows
  <2>1. LabelOf(new) = LabelOf(g)
    BY <1>5 DEF LabelOf, Target, Kin
  <2>2. at = "accepted" /\ worker.store =>
          keep[c].at = "kept" /\ keep[c].sum = g.content /\ keep[c].label = LabelOf(g)
    BY <1>1, <1>4 DEF Scan, At, Keeping, AcquisitionInv, StoreInv, KeepsWhatItGot
  <2> QED BY <1>5, <2>1, <2>2 DEF AcquisitionInv, StoreInv, RowIsWritten, Keeping
<1>10. StoreInv'
  BY <1>2, <1>3, <1>4, <1>5, <1>9, VaultStays
<1> QED BY <1>2, <1>8, <1>10 DEF AcquisitionInv, AcquisitionTypeOK

LEMMA InitHolds == Init => AcquisitionInv
<1> SUFFICES ASSUME Init PROVE AcquisitionInv
  OBVIOUS
<1>1. PICK s \in [Others -> {x \in Served : x.whole /\ x.id = "asked"}] :
        get = [c \in Scans |-> IF c \in Others THEN Downloaded(s[c]) ELSE NoCall]
  BY DEF Init
<1>2. ASSUME NEW x \in Served
      PROVE  /\ Downloaded(x) \in CallState
             /\ Downloaded(x).at = "got" /\ Downloaded(x).content = x
  <2>1. PICK none \in CallState : none = NoCall
    BY NoCallKeeps
  <2>2. PICK a \in Answer : a = Unanswered
    BY AnswerTypes
  <2> DEFINE meta == [a EXCEPT !.state = "found", !.version = x.version]
             new == [none EXCEPT !.at = "got", !.content = x, !.registry = "vs-marketplace",
                                 !.source = "vs-marketplace", !.meta = meta]
  <2>3. x.version \in Nat
    BY DownloadAssumption
  <2>4. meta \in Answer
    BY <2>3 DEF Answer
  <2> HIDE DEF meta
  <2>5. new \in CallState /\ new.at = "got" /\ new.content = x
    BY <2>4 DEF CallState, Places, Names, Registries
  <2>6. new = Downloaded(x)
    BY <2>1, <2>2, Zenon DEF Downloaded, meta
  <2> HIDE DEF new
  <2> QED BY <2>5, <2>6
<1>3. ASSUME NEW c \in Scans
      PROVE  /\ get[c] \in CallState
             /\ c \in Others => get[c].at = "got" /\ get[c].content \in Served
             /\ c \notin Others => get[c] = NoCall
  BY <1>1, <1>2, NoCallKeeps
<1>4. /\ objects = [x \in Contents |-> "none"] /\ rows = {} /\ hurt = {}
      /\ keep = [c \in Callers |-> NotKeeping]
      /\ worker \in [optedIn : BOOLEAN, store : BOOLEAN]
  BY DEF Init, StoreInit
<1>5. NotKeeping \in KeepState /\ NotKeeping.at = "none"
  BY DEF NotKeeping, KeepState, KeepPlaces
<1>6. NoCall.at = "none" /\ CallInv(NoCall) /\ NoCall.content = Nothing
  BY NoCallKeeps DEF NoCall
<1>7. AcquisitionTypeOK
  <2>1. get \in [Scans -> CallState]
    BY <1>1, <1>3
  <2> QED BY <2>1, <1>4, <1>5 DEF AcquisitionTypeOK
<1>8. CallsInv
  BY <1>3, <1>6, AcquisitionAssumption DEF CallsInv, InHand, Asking, FileStays, At
<1>9. StoreInv
  BY <1>3, <1>4, <1>5, <1>6, AcquisitionAssumption DEF StoreInv, RottenIsHurt, RowsHaveObjects,
     OnlyFaultsStopPreserving, KeepsWhatItGot, LinkedIsThere, RowIsWritten, Keeping, At
<1> QED BY <1>7, <1>8, <1>9 DEF AcquisitionInv

LEMMA StutterKeeps ==
  ASSUME AcquisitionInv, UNCHANGED vars
  PROVE  AcquisitionInv'
<1>1. UNCHANGED <<get, temp, objects, rows, staging, keep, worker, hurt>>
  BY DEF vars
<1>2. CallsInv'
  BY <1>1, CallsStay
<1>3. AcquisitionTypeOK' /\ StoreInv'
  BY <1>1 DEF AcquisitionInv, AcquisitionTypeOK, StoreInv, RottenIsHurt, RowsHaveObjects,
     OnlyFaultsStopPreserving, KeepsWhatItGot, LinkedIsThere, RowIsWritten, Keeping, At, LabelOf, Target
<1> QED BY <1>2, <1>3 DEF AcquisitionInv

LEMMA AcquisitionIsSound == Spec => []AcquisitionInv
<1>1. AcquisitionInv /\ [Next]_vars => AcquisitionInv'
  BY DownloadKeeps, StartPreservingKeeps, PreservingKeeps, ScanKeeps, KillKeeps, DamageKeeps,
     StutterKeeps DEF Next
<1> QED BY <1>1, InitHolds, PTL DEF Spec

-----------------------------------------------------------------------------
(* The theorems. *)

\* scan_marketplace_extension and _load_and_scan: an accepted report is of the
\* extension, the pinned release and the registry that were asked for; bytes that
\* it calls verified have the digest of just this release, and a mismatch is
\* accepted by workers only that have opted in.
THEOREM ReportsAreOfWhatWasAsked == Spec => []AcceptedIsAsked
<1>1. AcquisitionInv => AcceptedIsAsked
  <2> SUFFICES ASSUME AcquisitionInv, NEW c \in Scans \ Others, At(c, "accepted")
               PROVE  LET g == get[c]
                      IN /\ g.content.whole
                         /\ g.content.id = "asked" \/ g.content.studio
                         /\ g.pin # 0 => g.content.version = g.pin
                         /\ g.platform => g.source = "vs-marketplace"
                         /\ g.verified = "true" => g.content = g.meta.sum /\ g.pin \in {0, g.meta.version}
                         /\ g.verified = "mismatch" => worker.optedIn
    BY DEF AcceptedIsAsked
  <2>1. PICK g \in CallState : g = get[c] /\ CallInv(g) /\ g.at = "accepted"
    BY DEF AcquisitionInv, AcquisitionTypeOK, CallsInv, At
  <2>2. /\ g.content \in Served /\ g.content.whole
        /\ g.content.id = "asked" \/ g.content.studio
        /\ g.pin # 0 => g.content.version = g.pin
    BY <2>1 DEF CallInv, ReportIsOfContent, IsAsked, ScannedId
  <2>3. PICK url \in Url : UrlIsAsked(g, url) /\ g.source = url.registry
    BY <2>1, <2>2, DownloadAssumption DEF CallInv, ContentIsAsked
  <2>4. g.platform => g.source = "vs-marketplace"
    BY <2>3 DEF UrlIsAsked
  <2>5. /\ g.verified = "true" => g.content = g.meta.sum /\ g.pin \in {0, g.meta.version}
        /\ g.verified = "mismatch" => worker.optedIn
    BY <2>1 DEF CallInv, DigestIsOfContent, MetaMatches, Target
  <2> QED BY <2>1, <2>2, <2>4, <2>5
<1> QED BY <1>1, AcquisitionIsSound, PTL

\* What honest registries serve is accepted, unless it cannot be unwrapped or
\* something was killed or damaged: no digest, asset or release of something else
\* is held against it.
THEOREM HonestReleasesPass == Spec => []HonestReleaseAccepted
<1>1. AcquisitionInv => HonestReleaseAccepted
  BY DEF AcquisitionInv, CallsInv, FileStays, HonestReleaseAccepted
<1> QED BY <1>1, AcquisitionIsSound, PTL

\* FilesystemArtifactStore.preserve: a row of the catalog always has its object,
\* which is whole unless damaged later, and an accepted report was preserved
\* under the label of its download, however many scans share the vault.
THEOREM CatalogIsTrue == Spec => []PreservedIsOnRecord
<1>1. AcquisitionInv => PreservedIsOnRecord
  BY DEF AcquisitionInv, AcquisitionTypeOK, StoreInv, RottenIsHurt, RowsHaveObjects,
     PreservedIsOnRecord, RowIsWritten
<1> QED BY <1>1, AcquisitionIsSound, PTL

\* preserve: scans that preserve the same bytes into one vault without a lock
\* never make each other fail.
THEOREM ScansDoNotDisturb == Spec => []OnlyFaultsStopPreserving
<1>1. AcquisitionInv => OnlyFaultsStopPreserving
  BY DEF AcquisitionInv, StoreInv
<1> QED BY <1>1, AcquisitionIsSound, PTL
=============================================================================
