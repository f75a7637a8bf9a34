------------------------ MODULE RuntimeSandboxProofs ------------------------
(***************************************************************************)
(* Proofs about RuntimeSandbox, for every artifact, worker and limit: what *)
(* a covered run shows is all that the artifact was seen doing, a worker   *)
(* that is ready runs, and nothing of the artifact runs on.                *)
(*                                                                         *)
(* The argument for the observations follows a record on its way: what the *)
(* hook was asked to record is in the pipe, in the capture or torn, until  *)
(* the phase is collected; and whatever makes the capture incomplete (the  *)
(* deadline, the limit, a process that cannot be reaped) leaves a mark in  *)
(* the capture first and an observation that refuses coverage later.       *)
(***************************************************************************)
EXTENDS RuntimeSandbox, SequenceTheorems, TLAPS

-----------------------------------------------------------------------------
(* The inductive invariant. *)

Line == [kind : {"handshake", "event", "text"}, node : Nat, what : Told \cup {"none"}]
Lines == Seq(Line)

HostState ==
    [at : {"none", "script", "runner", "load", "activate", "probe", "exited"},
     node : Nat, nodes : Nat, boots : Nat, acts : Nat, handlers : Nat,
     code : {"none", "zero", "error", "limit", "killed"},
     did : SUBSET Hooked, torn : BOOLEAN]
WireState  == [pipe : Lines, open : BOOLEAN, closed : BOOLEAN]
TraceState == [seen : SUBSET Traced, cut : BOOLEAN]
CapState ==
    [at : {"none", "reading", "waiting", "stopping", "ended"}, lines : Lines,
     limited : BOOLEAN, late : BOOLEAN]
RunState ==
    [at : {"start", "refused", "raised", "idle", "running", "returned"}, next : Nat \ {0}]

HostTypeOK == host \in HostState /\ wire \in WireState /\ trace \in TraceState

SandboxTypeOK ==
    /\ HostTypeOK
    /\ \E c \in Cases : package = c[1] /\ env = c[2]
    /\ run \in RunState
    /\ cap \in CapState

\* The process has ended, or is about to.
Harmless == ~Alive \/ host.code = "killed"

\* run_sandbox refuses and raises for reasons that it names.
RefusedForAReason ==
    /\ run.at = "refused" => ~env.bwrap \/ (env.traced /\ ~env.strace)
    /\ run.at = "raised" => package.archive = "refused" \/ env.privileged

\* Whatever is not being captured is over, and so is what was killed.
OverOutsideCapture ==
    /\ run.at \in {"start", "refused", "idle", "returned"} => Harmless
    /\ run.at = "raised" => Harmless \/ env.privileged
    /\ run.at = "running" /\ cap.at \in {"stopping", "ended"} => Harmless

Recorded(lines, b) ==
    \E i \in 1..Len(lines) : lines[i].kind = "event" /\ lines[i].what = b

Capturing == run.at = "running" /\ ~cap.late /\ ~cap.limited

\* A record is on its way until it is captured.
NothingIsMissed ==
    Capturing /\ ~host.torn =>
      \A b \in host.did : Recorded(wire.pipe, b) \/ Recorded(cap.lines, b)

\* A capture that ended by itself has everything: nothing more can be written.
PipeIsDry ==
    Capturing /\ cap.at # "reading" =>
      /\ wire.pipe = <<>>
      /\ wire.closed \/ Harmless

Refusing == Kinds \cap HardFailures # {}

\* What spoiled a phase is marked in its capture, and then observed.
SpoilingIsObserved ==
    /\ \A p \in Phases, r \in {"late", "stuck"} :
         <<p, r>> \in spoiled =>
           Refusing \/ run.at = "raised" \/ (run.at = "running" /\ cap.late)
    /\ <<"activation", "cut">> \in spoiled =>
           \/ Refusing \/ run.at = "raised"
           \/ run.at = "running" /\ PhaseNow = "activation" /\ (cap.late \/ cap.limited)

\* The activation has left its observations behind.
ActivationIsTold ==
    run.at = "returned" /\ package.entry /\ ~Refusing =>
      /\ <<"activation", "torn">> \in spoiled \/ host.did \subseteq Kinds
      /\ env.traced => trace.seen \subseteq Kinds

SandboxInv ==
    /\ SandboxTypeOK
    /\ RefusedForAReason
    /\ OverOutsideCapture
    /\ NothingIsMissed
    /\ PipeIsDry
    /\ SpoilingIsObserved
    /\ ActivationIsTold

-----------------------------------------------------------------------------
(* What the process and its extension can do to the pipe and the tracer. *)

\* The process is there, and its step loses nothing that was written.
HostMove ==
    /\ HostTypeOK'
    /\ Alive /\ host.code = "none"
    /\ host.torn => host'.torn
    /\ \A b \in host'.did : b \in host.did \/ host'.torn \/ Recorded(wire'.pipe, b)
    /\ wire.closed => wire'.closed /\ wire'.pipe = wire.pipe
    /\ \A b \in Hooked : Recorded(wire.pipe, b) => Recorded(wire'.pipe, b)

LEMMA LineTypes ==
    /\ \A n \in Nat : Shake(n) \in Line
    /\ \A n \in Nat, b \in Told : Event(n, b) \in Line
    /\ Text \in Line
  BY DEF Shake, Event, Text, Line, Told

LEMMA RecordedAfter ==
    ASSUME NEW p \in Lines, NEW q \in Lines, NEW b
    PROVE  /\ p \o q \in Lines
           /\ Recorded(p, b) \/ Recorded(q, b) => Recorded(p \o q, b)
<1>1. p \in Seq(Line) /\ q \in Seq(Line)
  BY DEF Lines
<1>2. /\ p \o q \in Seq(Line)
      /\ Len(p) \in Nat /\ Len(q) \in Nat
      /\ Len(p \o q) = Len(p) + Len(q)
      /\ \A i \in 1..(Len(p) + Len(q)) :
           (p \o q)[i] = IF i <= Len(p) THEN p[i] ELSE q[i - Len(p)]
  BY <1>1, ConcatProperties, LenProperties
<1>3. ASSUME Recorded(p, b) PROVE Recorded(p \o q, b)
  <2> PICK i \in 1..Len(p) : p[i].kind = "event" /\ p[i].what = b
    BY <1>3 DEF Recorded
  <2>1. i \in 1..Len(p \o q) /\ (p \o q)[i] = p[i]
    BY <1>2
  <2> QED BY <2>1 DEF Recorded
<1>4. ASSUME Recorded(q, b) PROVE Recorded(p \o q, b)
  <2> PICK i \in 1..Len(q) : q[i].kind = "event" /\ q[i].what = b
    BY <1>4 DEF Recorded
  <2>1. /\ Len(p) + i \in 1..Len(p \o q)
        /\ (p \o q)[Len(p) + i] = q[i]
    BY <1>2
  <2> QED BY <2>1 DEF Recorded
<1> QED BY <1>2, <1>3, <1>4 DEF Lines

LEMMA RecordedOne ==
    ASSUME NEW n \in Nat, NEW b \in Told
    PROVE  <<Event(n, b)>> \in Lines /\ Recorded(<<Event(n, b)>>, b)
<1> <<Event(n, b)>> \in Lines BY LineTypes DEF Lines
<1> QED BY DEF Recorded, Event

\* Written: the pipe only grows, unless it is closed.
LEMMA WrittenKeeps ==
    ASSUME wire \in WireState, NEW lines \in Lines, lines # <<>>
    PROVE  /\ Written(lines) \in WireState
           /\ Written(lines).closed = wire.closed
           /\ wire.closed => Written(lines) = wire
           /\ \A b \in Hooked : Recorded(wire.pipe, b) => Recorded(Written(lines).pipe, b)
           /\ ~Lost => \A b \in Hooked : Recorded(lines, b) => Recorded(Written(lines).pipe, b)
<1> PICK w \in WireState : w = wire OBVIOUS
<1> DEFINE more == IF w.open THEN Tail(lines) ELSE lines
           new == [w EXCEPT !.pipe = @ \o more, !.open = FALSE]
<1>1. more \in Lines
  BY DEF Lines, WireState
<1>2. /\ w.pipe \in Lines
      /\ w.closed \in BOOLEAN
  BY DEF WireState
<1> HIDE DEF more
<1>3. /\ new.pipe = w.pipe \o more
      /\ new.open = FALSE
      /\ new.closed = w.closed
  BY DEF WireState
<1>4. new \in WireState
  <2>1. w.pipe \o more \in Lines
    BY <1>1, <1>2, RecordedAfter
  <2> DEFINE all == w.pipe \o more
  <2>2. all \in Lines
    BY <2>1
  <2> HIDE DEF all
  <2>3. [w EXCEPT !.pipe = all, !.open = FALSE] \in WireState
    BY <2>2 DEF WireState
  <2> QED BY <2>3, Zenon DEF all
<1>5. Written(lines) = IF w.closed THEN w ELSE new
  BY Zenon DEF Written, more
<1>6. \A b \in Hooked : Recorded(w.pipe, b) => Recorded(new.pipe, b)
  BY <1>1, <1>2, <1>3, RecordedAfter
<1>7. ~Lost => more = lines
  BY DEF Lost, more
<1>8. ~Lost => \A b \in Hooked : Recorded(lines, b) => Recorded(new.pipe, b)
  BY <1>1, <1>2, <1>3, <1>7, RecordedAfter
<1> HIDE DEF new
<1> QED BY <1>3, <1>4, <1>5, <1>6, <1>8 DEF Lost

\* Tell and Act with one record, Boot with two.
LEMMA WroteMoves ==
    ASSUME HostTypeOK, HostTypeOK', NEW lines \in Lines, lines # <<>>,
           Alive, host.code = "none",
           wire' = Written(lines),
           Lost \/ host.torn => host'.torn,
           \A b \in host'.did : b \in host.did \/ Recorded(lines, b)
    PROVE  HostMove
  BY WrittenKeeps DEF HostMove, HostTypeOK, HostState

LEMMA QuietMoves ==
    ASSUME HostTypeOK, HostTypeOK', Alive, host.code = "none",
           host'.did = host.did, host.torn => host'.torn,
           wire'.pipe = wire.pipe, wire.closed => wire'.closed
    PROVE  HostMove
  BY DEF HostMove

\* The hook of a node process announces itself.
LEMMA BootMoves ==
    ASSUME HostTypeOK, Boot PROVE HostMove
<1> DEFINE n == host.nodes + 1
           lines == <<Shake(n), Event(n, "started")>>
<1> PICK h \in HostState : h = host
  BY DEF HostTypeOK
<1> DEFINE new == [h EXCEPT !.nodes = n, !.boots = @ - 1,
                            !.node = IF h.at \in {"runner", "script"} THEN n ELSE @,
                            !.at = IF @ = "runner" THEN "load" ELSE @,
                            !.torn = @ \/ Lost]
<1>1. n \in Nat /\ lines \in Lines /\ lines # <<>>
  <2>1. n \in Nat
    BY DEF HostState
  <2>2. Shake(n) \in Line /\ Event(n, "started") \in Line
    BY <2>1, LineTypes DEF Told
  <2> QED BY <2>1, <2>2 DEF Lines
<1>2. /\ wire' = Written(lines)
      /\ host' = new
      /\ trace' = trace
      /\ Alive /\ host.code = "none" /\ host.boots > 0
  BY Zenon DEF Boot
<1>3. h.boots - 1 \in Nat
  BY <1>2 DEF HostState
<1> HIDE DEF lines
<1> HIDE DEF n
<1>4. Lost \in BOOLEAN
  BY DEF Lost, HostTypeOK, WireState
<1>5. new \in HostState
  BY ZenonT(40), <1>1, <1>3, <1>4 DEF HostState
<1>6. new.did = h.did /\ (Lost \/ h.torn => new.torn)
  BY DEF HostState
<1> HIDE DEF new
<1>7. HostTypeOK'
  BY <1>1, <1>2, <1>5, WrittenKeeps DEF HostTypeOK
<1> QED BY <1>1, <1>2, <1>6, <1>7, WroteMoves

\* Register and Probe.
LEMMA TellMoves ==
    ASSUME HostTypeOK, Alive, host.code = "none",
           NEW g \in HostState, g.did = host.did, host.torn => g.torn, Tell(g)
    PROVE  HostMove
<1> DEFINE lines == <<Event(host.node, "host")>>
           new == [g EXCEPT !.torn = @ \/ Lost]
<1>1. lines \in Lines /\ lines # <<>>
  BY RecordedOne DEF HostTypeOK, HostState, Told
<1>2. wire' = Written(lines) /\ host' = new /\ trace' = trace
  BY Zenon DEF Tell
<1> HIDE DEF lines
<1>3. Lost \in BOOLEAN
  BY DEF Lost, HostTypeOK, WireState
<1>4. new \in HostState /\ new.did = g.did /\ (Lost \/ g.torn => new.torn)
  BY <1>3 DEF HostState
<1> HIDE DEF new
<1>5. HostTypeOK'
  BY <1>1, <1>2, <1>4, WrittenKeeps DEF HostTypeOK
<1> QED BY <1>1, <1>2, <1>4, <1>5, WroteMoves

\* Code in or beside a node process does something.
LEMMA ActMoves ==
    ASSUME HostTypeOK, NEW n \in Nat, NEW b \in Behaviours, Act(n, b)
    PROVE  HostMove
<1> PICK h \in HostState : h = host
  BY DEF HostTypeOK
<1> PICK t \in TraceState : t = trace
  BY DEF HostTypeOK
<1> DEFINE told == b \in Hooked /\ n > 0
           lines == <<Event(n, b)>>
           loud == [h EXCEPT !.acts = @ + 1, !.did = @ \cup {b}, !.torn = @ \/ Lost]
           quiet == [h EXCEPT !.acts = @ + 1]
           now == [t EXCEPT !.seen = @ \cup ({b} \cap Traced)]
<1>1. Alive /\ host.code = "none"
  BY DEF Act, Running, Alive
<1>2. Lost \in BOOLEAN
  BY DEF Lost, HostTypeOK, WireState
<1>3. now \in TraceState /\ trace' = now
  <2>1. now \in TraceState BY DEF TraceState
  <2>2. trace' = now BY Zenon DEF Act
  <2> QED BY <2>1, <2>2
<1>4. CASE told
  <2>1. lines \in Lines /\ lines # <<>> /\ \A c \in {b} : Recorded(lines, c)
    BY <1>4, RecordedOne DEF Told
  <2> HIDE DEF lines
  <2>2. wire' = Written(lines) /\ host' = loud
    <3>1. (IF told THEN lines ELSE <<>>) = lines
      BY <1>4
    <3>2. /\ wire' = IF lines = <<>> THEN wire ELSE Written(lines)
          /\ host' = [h EXCEPT !.acts = @ + 1,
                               !.did = IF lines = <<>> THEN @ ELSE @ \cup {b},
                               !.torn = @ \/ (lines # <<>> /\ Lost)]
      BY <3>1, Zenon DEF Act, lines
    <3> QED BY <3>2, <2>1
  <2>3. loud \in HostState
    <3>1. h.did \cup {b} \in SUBSET Hooked /\ h.acts + 1 \in Nat
      BY <1>4 DEF HostState
    <3> DEFINE dd == h.did \cup {b}
               ac == h.acts + 1
    <3>2. dd \in SUBSET Hooked /\ ac \in Nat
      BY <3>1
    <3> HIDE DEF dd, ac
    <3>3. [h EXCEPT !.acts = ac, !.did = dd, !.torn = h.torn \/ Lost] \in HostState
      BY <3>2, <1>2 DEF HostState
    <3> QED BY <3>3, Zenon DEF dd, ac
  <2>4. loud.did = h.did \cup {b} /\ (Lost \/ h.torn => loud.torn)
    BY DEF HostState
  <2> HIDE DEF loud, now
  <2>5. HostTypeOK'
    BY <2>1, <2>2, <2>3, <1>3, WrittenKeeps DEF HostTypeOK
  <2>6. \A c \in host'.did : c \in host.did \/ Recorded(lines, c)
    BY <2>1, <2>2, <2>4
  <2>7. Lost \/ host.torn => host'.torn
    BY <2>2, <2>4
  <2> QED BY <1>1, <2>1, <2>2, <2>5, <2>6, <2>7, WroteMoves
<1>5. CASE ~told
  <2>1. wire' = wire /\ host' = [h EXCEPT !.acts = @ + 1, !.did = @,
                                          !.torn = @ \/ (FALSE /\ Lost)]
    <3> DEFINE some == IF b \in Hooked /\ n > 0 THEN lines ELSE <<>>
    <3>1. some = <<>>
      BY <1>5
    <3>2. /\ wire' = IF some = <<>> THEN wire ELSE Written(some)
          /\ host' = [h EXCEPT !.acts = @ + 1,
                               !.did = IF some = <<>> THEN @ ELSE @ \cup {b},
                               !.torn = @ \/ (some # <<>> /\ Lost)]
      BY Zenon DEF Act
    <3> HIDE DEF some
    <3> QED BY <3>1, <3>2
  <2> DEFINE same == [h EXCEPT !.acts = @ + 1, !.did = @, !.torn = @ \/ (FALSE /\ Lost)]
  <2>2. same \in HostState /\ same.did = h.did /\ (h.torn => same.torn)
    <3>1. (h.torn \/ (FALSE /\ Lost)) = h.torn
      BY DEF HostState
    <3> DEFINE kept == h.torn \/ (FALSE /\ Lost)
    <3>2. kept = h.torn
      BY <3>1
    <3> DEFINE plain == [h EXCEPT !.acts = @ + 1, !.did = @, !.torn = @]
    <3>3. plain \in HostState /\ plain.did = h.did /\ (h.torn => plain.torn)
      <4>1. h.acts + 1 \in Nat /\ h.did \in SUBSET Hooked /\ h.torn \in BOOLEAN
        BY DEF HostState
      <4>2. plain \in HostState
        BY <4>1 DEF HostState
      <4>3. plain.did = h.did
        BY <4>1 DEF HostState
      <4>4. h.torn => plain.torn
        BY <4>1 DEF HostState
      <4> QED BY <4>2, <4>3, <4>4
    <3>4. same = plain
      BY <3>2, Zenon DEF kept
    <3> QED BY <3>3, <3>4
  <2> HIDE DEF same, now
  <2>3. host' = same
    BY <2>1, Zenon DEF same
  <2>4. HostTypeOK'
    BY <1>3, <2>1, <2>2, <2>3 DEF HostTypeOK
  <2> QED BY <1>1, <2>1, <2>2, <2>3, <2>4, QuietMoves
<1> QED BY <1>4, <1>5

LEMMA SpawnMoves ==
    ASSUME HostTypeOK, Spawn PROVE HostMove
<1> PICK h \in HostState : h = host
  BY DEF HostTypeOK
<1> DEFINE new == [h EXCEPT !.acts = @ + 1, !.boots = @ + 1]
<1>1. /\ host' = new /\ wire' = wire /\ trace' = trace
      /\ Alive /\ host.code = "none"
  <2>1. host' = new BY Zenon DEF Spawn
  <2> QED BY <2>1 DEF Spawn, Running, Alive
<1>2. new \in HostState /\ new.did = h.did /\ (h.torn => new.torn)
  <2>1. h.acts + 1 \in Nat /\ h.boots + 1 \in Nat /\ h.did \in SUBSET Hooked
    BY DEF HostState
  <2>2. new \in HostState
    BY <2>1 DEF HostState
  <2>3. new.did = h.did
    BY <2>1 DEF HostState
  <2>4. h.torn => new.torn
    BY <2>1 DEF HostState
  <2> QED BY <2>2, <2>3, <2>4
<1> HIDE DEF new
<1>3. HostTypeOK'
  BY <1>1, <1>2 DEF HostTypeOK
<1> QED BY <1>1, <1>2, <1>3, QuietMoves

\* Text is no record: what was written stays, and nothing is asked of the hook.
LEMMA PrintTextMoves ==
    ASSUME HostTypeOK, NEW ended \in BOOLEAN, PrintText(ended) PROVE HostMove
<1> PICK h \in HostState : h = host
  BY DEF HostTypeOK
<1> PICK w \in WireState : w = wire
  BY DEF HostTypeOK
<1> DEFINE new == [h EXCEPT !.acts = @ + 1]
           pipe == IF w.open THEN w.pipe ELSE Append(w.pipe, Text)
           put == [w EXCEPT !.pipe = pipe, !.open = ~ended]
<1>1. /\ Alive /\ host.code = "none" /\ ~wire.closed
      /\ trace' = trace
  BY DEF PrintText, Running, Alive
<1>2. host' = new /\ wire' = put
  BY Zenon DEF PrintText
<1>3. new \in HostState /\ new.did = h.did /\ (h.torn => new.torn)
  BY DEF HostState
<1>4. pipe \in Lines /\ \A b \in Hooked : Recorded(w.pipe, b) => Recorded(pipe, b)
  <2>1. w.pipe \in Lines
    BY DEF WireState
  <2>2. <<Text>> \in Lines /\ Append(w.pipe, Text) = w.pipe \o <<Text>>
    BY <2>1, LineTypes, AppendIsConcat DEF Lines
  <2> QED BY <2>1, <2>2, RecordedAfter
<1> HIDE DEF pipe
<1>5. put \in WireState /\ put.pipe = pipe
  BY <1>4 DEF WireState
<1> HIDE DEF new, put
<1>6. HostTypeOK'
  BY <1>1, <1>2, <1>3, <1>5 DEF HostTypeOK
<1> QED BY <1>1, <1>2, <1>3, <1>4, <1>5, <1>6 DEF HostMove

LEMMA ClosePipesMoves ==
    ASSUME HostTypeOK, ClosePipes PROVE HostMove
<1> PICK h \in HostState : h = host
  BY DEF HostTypeOK
<1> PICK w \in WireState : w = wire
  BY DEF HostTypeOK
<1> DEFINE new == [h EXCEPT !.acts = @ + 1]
           shut == [w EXCEPT !.closed = TRUE]
<1>1. Alive /\ host.code = "none" /\ trace' = trace
  BY DEF ClosePipes, Running, Alive
<1>2. host' = new /\ wire' = shut
  BY Zenon DEF ClosePipes
<1>3. /\ new \in HostState /\ new.did = h.did /\ (h.torn => new.torn)
      /\ shut \in WireState /\ shut.pipe = w.pipe /\ shut.closed
  <2>1. new \in HostState /\ new.did = h.did /\ (h.torn => new.torn)
    BY DEF HostState
  <2>2. shut \in WireState /\ shut.pipe = w.pipe /\ shut.closed
    BY DEF WireState
  <2> QED BY <2>1, <2>2
<1> HIDE DEF new, shut
<1>4. HostTypeOK'
  BY <1>1, <1>2, <1>3 DEF HostTypeOK
<1> QED BY <1>1, <1>2, <1>3, <1>4, QuietMoves

LEMMA RegisterMoves ==
    ASSUME HostTypeOK, Register PROVE HostMove
<1> PICK h \in HostState : h = host
  BY DEF HostTypeOK
<1> DEFINE g == [h EXCEPT !.handlers = @ + 1]
<1>1. Alive /\ host.code = "none"
  BY DEF Register, Running, Alive
<1>2. Tell(g)
  BY Zenon DEF Register
<1>3. g \in HostState /\ g.did = h.did /\ (h.torn => g.torn)
  BY DEF HostState
<1> HIDE DEF g
<1> QED BY <1>1, <1>2, <1>3, TellMoves

LEMMA ProbeMoves ==
    ASSUME HostTypeOK, Probe PROVE HostMove
<1> PICK h \in HostState : h = host
  BY DEF HostTypeOK
<1> DEFINE g == [h EXCEPT !.handlers = @ - 1]
<1>1. Alive /\ host.code = "none" /\ host.handlers > 0
  BY DEF Probe, Running, Alive
<1>2. Tell(g)
  BY Zenon DEF Probe
<1>3. g \in HostState /\ g.did = h.did /\ (h.torn => g.torn)
  <2>1. h.handlers - 1 \in Nat
    BY <1>1 DEF HostState
  <2> QED BY <2>1 DEF HostState
<1> HIDE DEF g
<1> QED BY <1>1, <1>2, <1>3, TellMoves

\* Whoever leaves keeps what it has done.
LEMMA LeaveMoves ==
    ASSUME HostTypeOK, Running, NEW code \in {"zero", "error", "limit"}, Leave(code)
    PROVE  HostMove
<1> PICK h \in HostState : h = host
  BY DEF HostTypeOK
<1> DEFINE new == [h EXCEPT !.at = "exited", !.code = code]
<1>1. /\ Alive /\ host.code = "none"
      /\ wire' = wire /\ trace' = trace
  BY DEF Leave, Running, Alive
<1>2. host' = new
  BY Zenon DEF Leave
<1>3. new \in HostState /\ new.did = h.did /\ (h.torn => new.torn)
  BY DEF HostState
<1> HIDE DEF new
<1>4. HostTypeOK'
  BY <1>1, <1>2, <1>3 DEF HostTypeOK
<1> QED BY <1>1, <1>2, <1>3, <1>4, QuietMoves

LEMMA ProceedMoves ==
    ASSUME HostTypeOK, Proceed PROVE HostMove
<1> PICK h \in HostState : h = host
  BY DEF HostTypeOK
<1> DEFINE new == [h EXCEPT !.at = IF @ = "load" THEN "activate" ELSE "probe"]
<1>1. CASE Running /\ Leave("zero")
  BY <1>1, LeaveMoves
<1>2. CASE Running /\ host' = new /\ UNCHANGED <<wire, trace>>
  <2>1. Alive /\ host.code = "none" /\ wire' = wire /\ trace' = trace
    BY <1>2 DEF Running, Alive
  <2>2. new \in HostState /\ new.did = h.did /\ (h.torn => new.torn)
    BY DEF HostState
  <2> HIDE DEF new
  <2>3. HostTypeOK'
    BY <1>2, <2>1, <2>2 DEF HostTypeOK
  <2> QED BY <1>2, <2>1, <2>2, <2>3, QuietMoves
<1>3. \/ Running /\ Leave("zero")
      \/ Running /\ host' = new /\ UNCHANGED <<wire, trace>>
  BY Zenon DEF Proceed
<1> QED BY <1>1, <1>2, <1>3

LEMMA FillTraceMoves ==
    ASSUME HostTypeOK, FillTrace PROVE HostMove
<1> PICK h \in HostState : h = host
  BY DEF HostTypeOK
<1> PICK t \in TraceState : t = trace
  BY DEF HostTypeOK
<1> DEFINE new == [h EXCEPT !.at = "exited", !.code = "limit"]
           full == [t EXCEPT !.cut = TRUE]
<1>1. Alive /\ host.code = "none" /\ wire' = wire
  BY DEF FillTrace, Running, Alive
<1>2. host' = new /\ trace' = full
  BY Zenon DEF FillTrace
<1>3. /\ new \in HostState /\ new.did = h.did /\ (h.torn => new.torn)
      /\ full \in TraceState
  BY DEF HostState, TraceState
<1> HIDE DEF new, full
<1>4. HostTypeOK'
  BY <1>1, <1>2, <1>3 DEF HostTypeOK
<1> QED BY <1>1, <1>2, <1>3, <1>4, QuietMoves

LEMMA HostNextMoves ==
    ASSUME HostTypeOK, NEW traced, HostNext(traced) PROVE HostMove
<1>1. CASE Boot BY <1>1, BootMoves
<1>2. CASE Spawn BY <1>2, SpawnMoves
<1>3. CASE \E n \in 0..2, b \in Behaviours : Act(n, b) BY <1>3, ActMoves
<1>4. CASE \E ended \in BOOLEAN : PrintText(ended) BY <1>4, PrintTextMoves
<1>5. CASE ClosePipes BY <1>5, ClosePipesMoves
<1>6. CASE Register BY <1>6, RegisterMoves
<1>7. CASE Probe BY <1>7, ProbeMoves
<1>8. CASE Proceed BY <1>8, ProceedMoves
<1>9. CASE Throw BY <1>9, LeaveMoves DEF Throw
<1>10. CASE \E code \in {"zero", "error"} : Quit(code) BY <1>10, LeaveMoves DEF Quit
<1>11. CASE Breach BY <1>11, LeaveMoves DEF Breach
<1>12. CASE traced /\ FillTrace BY <1>12, FillTraceMoves
<1> QED
  BY <1>1, <1>2, <1>3, <1>4, <1>5, <1>6, <1>7, <1>8, <1>9, <1>10, <1>11, <1>12
     DEF HostNext

-----------------------------------------------------------------------------
(* The steps of the scanner and of its clock. *)

LEMMA CaseTypes ==
    ASSUME SandboxTypeOK
    PROVE  /\ Commands \in Seq([named : BOOLEAN, boots : 0..2])
           /\ Len(Commands) \in Nat
           /\ package.entry \in BOOLEAN
           /\ env.privileged \in BOOLEAN /\ env.traced \in BOOLEAN
<1> PICK c \in Cases : package = c[1] /\ env = c[2]
  BY DEF SandboxTypeOK
<1>1. package.scripts \in Seq([named : BOOLEAN, boots : 0..2])
  BY SandboxAssumption
<1> QED BY <1>1, SandboxAssumption, LenProperties DEF Commands

LEMMA InitIsSound == Init => SandboxInv
<1> SUFFICES ASSUME Init PROVE SandboxInv
  OBVIOUS
<1> <<>> \in Lines
  BY DEF Lines
<1>1. NoHost \in HostState /\ NoWire \in WireState /\ NoTrace \in TraceState
  BY DEF NoHost, NoWire, NoTrace, HostState, WireState, TraceState
<1>2. NoCapture \in CapState
  BY DEF NoCapture, CapState
<1>3. run.at = "start" /\ host = NoHost /\ spoiled = {}
  BY DEF Init, HostInit
<1>4. SandboxTypeOK
  BY <1>1, <1>2 DEF Init, HostInit, SandboxTypeOK, HostTypeOK, RunState
<1>5. Harmless
  BY <1>3 DEF Harmless, Alive, NoHost
<1> QED
  BY <1>3, <1>4, <1>5
     DEF SandboxInv, RefusedForAReason, OverOutsideCapture, NothingIsMissed, PipeIsDry,
         Capturing, SpoilingIsObserved, ActivationIsTold

LEMMA HostStepKeeps ==
    ASSUME SandboxInv, HostStep PROVE SandboxInv'
<1>1. HostMove /\ UNCHANGED <<package, env, run, cap, obs, spoiled>>
  BY HostNextMoves DEF HostStep, SandboxInv, SandboxTypeOK
<1>2. ~Harmless
  BY <1>1 DEF HostMove, Harmless
<1>3. SandboxTypeOK'
  BY <1>1 DEF HostMove, SandboxInv, SandboxTypeOK
<1>4. RefusedForAReason'
  BY <1>1 DEF SandboxInv, RefusedForAReason
<1>5. OverOutsideCapture'
  BY <1>1, <1>2 DEF SandboxInv, OverOutsideCapture
<1>6. NothingIsMissed'
  <2> SUFFICES ASSUME Capturing, ~host'.torn, NEW b \in host'.did
               PROVE  Recorded(wire'.pipe, b) \/ Recorded(cap.lines, b)
    BY <1>1 DEF NothingIsMissed, Capturing
  <2>1. (b \in host.did /\ b \in Hooked) \/ Recorded(wire'.pipe, b)
    BY <1>1 DEF HostMove, SandboxInv, SandboxTypeOK, HostTypeOK, HostState
  <2>2. CASE b \in host.did /\ b \in Hooked
    BY <1>1, <2>2 DEF HostMove, SandboxInv, NothingIsMissed
  <2> QED BY <2>1, <2>2
<1>7. PipeIsDry'
  BY <1>1, <1>2 DEF HostMove, SandboxInv, PipeIsDry, Capturing
<1>8. SpoilingIsObserved'
  BY <1>1 DEF SandboxInv, SpoilingIsObserved, Refusing, Kinds, PhaseNow, Commands
<1>9. ActivationIsTold'
  BY <1>1, <1>2 DEF SandboxInv, ActivationIsTold, OverOutsideCapture
<1> QED BY <1>3, <1>4, <1>5, <1>6, <1>7, <1>8, <1>9 DEF SandboxInv

\* The steps at which run_sandbox is decided before anything is started.
LEMMA BeginKeeps ==
    ASSUME SandboxInv, Begin PROVE SandboxInv'
<1> PICK r \in RunState : r = run
  BY DEF SandboxInv, SandboxTypeOK
<1> DEFINE to == IF ~env.bwrap \/ (env.traced /\ ~env.strace) THEN "refused"
                 ELSE IF package.archive = "refused" THEN "raised"
                 ELSE "idle"
           new == [r EXCEPT !.at = to]
<1>1. /\ run.at = "start"
      /\ UNCHANGED <<host, wire, trace, package, env, cap, obs, spoiled>>
  BY DEF Begin, hostVars
<1>2. run' = new
  BY Zenon DEF Begin
<1>3. /\ to \in {"refused", "raised", "idle"}
      /\ to = "refused" => ~env.bwrap \/ (env.traced /\ ~env.strace)
      /\ to = "raised" => package.archive = "refused"
  OBVIOUS
<1> HIDE DEF to
<1>4. new \in RunState /\ new.at = to
  BY <1>3 DEF RunState
<1> HIDE DEF new
<1>5. Harmless /\ Harmless'
  BY <1>1 DEF SandboxInv, OverOutsideCapture, Harmless, Alive
<1>6. SandboxTypeOK'
  BY <1>1, <1>2, <1>4 DEF SandboxInv, SandboxTypeOK, HostTypeOK
<1>7. Kinds' = Kinds
  BY <1>1 DEF Kinds
<1>8. \A p \in Phases, q \in {"late", "stuck"} : <<p, q>> \in spoiled => Refusing
  BY <1>1 DEF SandboxInv, SpoilingIsObserved
<1>9. <<"activation", "cut">> \in spoiled => Refusing
  BY <1>1 DEF SandboxInv, SpoilingIsObserved
<1> QED
  BY <1>1, <1>2, <1>3, <1>4, <1>5, <1>6, <1>7, <1>8, <1>9
     DEF SandboxInv, RefusedForAReason, OverOutsideCapture, NothingIsMissed, PipeIsDry,
         Capturing, SpoilingIsObserved, Refusing, ActivationIsTold

LEMMA StartRaisesKeeps ==
    ASSUME SandboxInv, StartRaises PROVE SandboxInv'
<1> PICK r \in RunState : r = run
  BY DEF SandboxInv, SandboxTypeOK
<1> DEFINE new == [r EXCEPT !.at = "raised"]
<1>1. /\ run.at = "idle" /\ env.privileged
      /\ UNCHANGED <<host, wire, trace, package, env, cap, obs, spoiled>>
  BY DEF StartRaises, SudoMissing, hostVars
<1>2. run' = new
  BY Zenon DEF StartRaises
<1>3. new \in RunState /\ new.at = "raised"
  BY DEF RunState
<1> HIDE DEF new
<1>4. SandboxTypeOK'
  BY <1>1, <1>2, <1>3 DEF SandboxInv, SandboxTypeOK, HostTypeOK
<1> QED
  BY <1>1, <1>2, <1>3, <1>4
     DEF SandboxInv, RefusedForAReason, OverOutsideCapture, NothingIsMissed, PipeIsDry,
         Capturing, SpoilingIsObserved, ActivationIsTold

LEMMA FreshTypes ==
    /\ NoHost \in HostState /\ NoWire \in WireState /\ NoTrace \in TraceState
    /\ NoCapture \in CapState
    /\ <<>> \in Lines
<1> <<>> \in Lines
  BY DEF Lines
<1>1. NoHost \in HostState /\ NoWire \in WireState /\ NoTrace \in TraceState
  BY DEF NoHost, NoWire, NoTrace, HostState, WireState, TraceState
<1>2. NoCapture \in CapState
  BY DEF NoCapture, CapState
<1> QED BY <1>1, <1>2

LEMMA KilledIs ==
    ASSUME HostTypeOK
    PROVE  /\ Killed \in HostState
           /\ Killed.code = "killed"
           /\ Killed.did = host.did
           /\ Killed.torn <=> host.torn
<1> PICK h \in HostState : h = host
  BY DEF HostTypeOK
<1> PICK n \in HostState : n = NoHost
  BY FreshTypes
<1> DEFINE new == [n EXCEPT !.at = h.at, !.code = "killed", !.did = h.did, !.torn = h.torn]
<1>1. h.at \in {"none", "script", "runner", "load", "activate", "probe", "exited"}
      /\ h.did \in SUBSET Hooked /\ h.torn \in BOOLEAN
  BY DEF HostState
<1>2. new \in HostState
  BY <1>1 DEF HostState
<1>3. new.code = "killed" /\ new.did = h.did
  BY <1>1 DEF HostState
<1>4. new.torn <=> h.torn
  BY <1>1 DEF HostState
<1>5. Killed = new
  BY Zenon DEF Killed
<1> HIDE DEF new
<1> QED BY <1>2, <1>3, <1>4, <1>5

\* The process is killed, or the exception of a refused signal leaves.
LEMMA StopKeeps ==
    ASSUME SandboxInv, run.at = "running", NEW c \in CapState, NEW reason,
           c.at \in {"waiting", "stopping"},
           \/ c.late \/ c.limited
           \/ cap.at # "reading" /\ c.lines = cap.lines,
           cap.late => c.late, cap.limited => c.limited \/ c.late,
           reason = "late" => c.late, reason = "cut" => c.limited, reason # "stuck",
           StopWith(c, reason), UNCHANGED <<trace, package, env, obs>>
    PROVE  SandboxInv'
<1> DEFINE mark == <<PhaseNow, reason>>
<1>1. HostTypeOK /\ run \in RunState /\ spoiled' = spoiled \cup {mark}
  BY Zenon DEF StopWith, SandboxInv, SandboxTypeOK
<1>2. PhaseNow \in Phases
  BY DEF PhaseNow, Phases
<1>3. Kinds' = Kinds /\ Refusing' = Refusing
  BY DEF Kinds, Refusing
<1>4. CASE env.privileged /\ Alive
  <2> PICK r \in RunState : r = run
    BY <1>1
  <2> DEFINE new == [r EXCEPT !.at = "raised"]
  <2>1. run' = new /\ UNCHANGED <<host, wire, cap>>
    BY <1>4, Zenon DEF StopWith
  <2>2. new \in RunState /\ new.at = "raised"
    BY DEF RunState
  <2> HIDE DEF new
  <2>3. SandboxTypeOK'
    BY <2>1, <2>2 DEF SandboxInv, SandboxTypeOK, HostTypeOK
  <2> QED
    BY <1>4, <2>1, <2>2, <2>3
       DEF SandboxInv, RefusedForAReason, OverOutsideCapture, NothingIsMissed, PipeIsDry,
           Capturing, SpoilingIsObserved, ActivationIsTold
<1>5. CASE ~(env.privileged /\ Alive)
  <2>1. /\ run' = run /\ cap' = c /\ wire' = NoWire
        /\ host' = IF Alive THEN Killed ELSE host
    BY <1>5, Zenon DEF StopWith
  <2>2. /\ Harmless'
        /\ host' \in HostState
        /\ host'.did = host.did /\ (host'.torn <=> host.torn)
    <3>1. CASE Alive
      BY <1>1, <2>1, <3>1, KilledIs DEF Harmless
    <3>2. CASE ~Alive
      BY <1>1, <2>1, <3>2 DEF Harmless, Alive, HostTypeOK
    <3> QED BY <3>1, <3>2
  <2>3. SandboxTypeOK'
    BY <1>1, <2>1, <2>2, FreshTypes DEF SandboxInv, SandboxTypeOK, HostTypeOK
  <2>4. RefusedForAReason' /\ OverOutsideCapture' /\ ActivationIsTold'
    BY <2>1, <2>2 DEF RefusedForAReason, OverOutsideCapture, ActivationIsTold
  <2>5. NothingIsMissed'
    <3> SUFFICES ASSUME ~c.late, ~c.limited, ~host.torn, NEW b \in host.did
                 PROVE  Recorded(c.lines, b)
      BY <2>1, <2>2 DEF NothingIsMissed, Capturing
    <3>1. Capturing /\ cap.at # "reading" /\ c.lines = cap.lines
      BY DEF Capturing
    <3>2. Recorded(wire.pipe, b) \/ Recorded(cap.lines, b)
      BY <3>1 DEF SandboxInv, NothingIsMissed
    <3>3. wire.pipe = <<>>
      BY <3>1 DEF SandboxInv, PipeIsDry
    <3>4. ~Recorded(wire.pipe, b)
      BY <3>3 DEF Recorded
    <3> QED BY <3>1, <3>2, <3>4
  <2>6. PipeIsDry'
    BY <2>1, <2>2 DEF PipeIsDry, NoWire
  <2>7. SpoilingIsObserved'
    <3>1. PhaseNow' = PhaseNow
      BY <2>1 DEF PhaseNow, Commands
    <3>2. ASSUME NEW p \in Phases, NEW q \in {"late", "stuck"}, <<p, q>> \in spoiled'
          PROVE  Refusing \/ c.late
      <4>1. CASE <<p, q>> \in spoiled
        BY <4>1 DEF SandboxInv, SpoilingIsObserved
      <4>2. CASE <<p, q>> = mark
        BY <4>2
      <4> QED BY <1>1, <3>2, <4>1, <4>2
    <3>3. ASSUME <<"activation", "cut">> \in spoiled'
          PROVE  Refusing \/ (PhaseNow = "activation" /\ (c.late \/ c.limited))
      <4>1. CASE <<"activation", "cut">> \in spoiled
        BY <4>1 DEF SandboxInv, SpoilingIsObserved
      <4>2. CASE <<"activation", "cut">> = mark
        BY <4>2
      <4> QED BY <1>1, <3>3, <4>1, <4>2
    <3> QED BY <1>3, <2>1, <3>1, <3>2, <3>3 DEF SpoilingIsObserved
  <2> QED BY <2>3, <2>4, <2>5, <2>6, <2>7 DEF SandboxInv
<1> QED BY <1>4, <1>5

LEMMA DeadlineKeeps ==
    ASSUME SandboxInv, Deadline PROVE SandboxInv'
<1> PICK n \in CapState : n = NoCapture
  BY FreshTypes
<1> DEFINE new == [n EXCEPT !.at = "waiting", !.late = TRUE]
<1>1. new \in CapState /\ new.at = "waiting" /\ new.late
  BY DEF CapState
<1>2. StopWith(new, "late")
  BY Zenon DEF Deadline, TooLate
<1>3. run.at = "running" /\ UNCHANGED <<trace, package, env, obs>>
  BY DEF Deadline, Reading
<1> HIDE DEF new
<1> QED BY <1>1, <1>2, <1>3, StopKeeps

LEMMA WaitEndsKeeps ==
    ASSUME SandboxInv, WaitEnds PROVE SandboxInv'
<1> PICK k \in CapState : k = cap
  BY DEF SandboxInv, SandboxTypeOK
<1> DEFINE new == [k EXCEPT !.at = "stopping"]
<1>1. /\ new \in CapState /\ new.at = "stopping" /\ new.lines = k.lines
      /\ k.late => new.late
      /\ k.limited => new.limited
  BY DEF CapState
<1>2. StopWith(new, "stopped")
  BY Zenon DEF WaitEnds
<1>3. run.at = "running" /\ cap.at = "waiting" /\ UNCHANGED <<trace, package, env, obs>>
  BY DEF WaitEnds, Waiting
<1> HIDE DEF new
<1> QED BY <1>1, <1>2, <1>3, StopKeeps

LEMMA RecordedHeadTail ==
    ASSUME NEW p \in Lines, p # <<>>
    PROVE  /\ <<Head(p)>> \in Lines /\ Tail(p) \in Lines
           /\ \A b : Recorded(p, b) => Recorded(<<Head(p)>>, b) \/ Recorded(Tail(p), b)
<1>1. p \in Seq(Line)
  BY DEF Lines
<1>2. /\ Head(p) \in Line /\ Head(p) = p[1]
      /\ Tail(p) \in Seq(Line)
      /\ Len(p) \in Nat /\ Len(Tail(p)) = Len(p) - 1
      /\ \A i \in 1..Len(Tail(p)) : Tail(p)[i] = p[i + 1]
  BY <1>1, HeadTailProperties, LenProperties
<1>3. <<Head(p)>> \in Lines /\ Tail(p) \in Lines
  BY <1>2 DEF Lines
<1>4. ASSUME NEW b, Recorded(p, b)
      PROVE  Recorded(<<Head(p)>>, b) \/ Recorded(Tail(p), b)
  <2> PICK i \in 1..Len(p) : p[i].kind = "event" /\ p[i].what = b
    BY <1>4 DEF Recorded
  <2>1. CASE i = 1
    BY <1>2, <2>1 DEF Recorded
  <2>2. CASE i # 1
    <3>1. i - 1 \in 1..Len(Tail(p)) /\ Tail(p)[i - 1] = p[i]
      BY <1>2, <2>2
    <3> QED BY <3>1 DEF Recorded
  <2> QED BY <2>1, <2>2
<1> QED BY <1>3, <1>4

LEMMA ReadKeeps ==
    ASSUME SandboxInv, Read PROVE SandboxInv'
<1> PICK k \in CapState : k = cap
  BY DEF SandboxInv, SandboxTypeOK
<1> PICK w \in WireState : w = wire
  BY DEF SandboxInv, SandboxTypeOK, HostTypeOK
<1>1. /\ run.at = "running" /\ cap.at = "reading" /\ wire.pipe # <<>>
      /\ UNCHANGED <<trace, package, env, obs>>
  BY DEF Read, Reading
<1>2. CASE Len(cap.lines) = MaxLines
  <2> DEFINE cut == [k EXCEPT !.at = "waiting", !.limited = TRUE]
  <2>1. cut \in CapState /\ cut.at = "waiting" /\ cut.limited /\ (k.late => cut.late)
    BY DEF CapState
  <2>2. StopWith(cut, "cut")
    BY <1>2, Zenon DEF Read
  <2> HIDE DEF cut
  <2> QED BY <1>1, <2>1, <2>2, StopKeeps
<1>3. CASE Len(cap.lines) # MaxLines
  <2> DEFINE lines == Append(k.lines, Head(w.pipe))
             new == [k EXCEPT !.lines = lines]
             rest == Tail(w.pipe)
             left == [w EXCEPT !.pipe = rest]
  <2>1. cap' = new /\ wire' = left /\ UNCHANGED <<host, run, spoiled>>
    BY <1>3, Zenon DEF Read
  <2>2. w.pipe \in Lines /\ k.lines \in Lines
    BY DEF WireState, CapState
  <2>3. lines = k.lines \o <<Head(w.pipe)>> /\ rest \in Lines /\ <<Head(w.pipe)>> \in Lines
    BY <1>1, <2>2, RecordedHeadTail, AppendIsConcat, HeadTailProperties DEF Lines
  <2>4. /\ lines \in Lines
        /\ \A b \in Hooked :
             Recorded(w.pipe, b) \/ Recorded(k.lines, b) => Recorded(rest, b) \/ Recorded(lines, b)
    <3> DEFINE one == <<Head(w.pipe)>>
    <3>1. one \in Lines /\ lines = k.lines \o one /\ rest \in Lines
      BY <2>3
    <3>2. \A b : Recorded(w.pipe, b) => Recorded(one, b) \/ Recorded(rest, b)
      BY <1>1, <2>2, RecordedHeadTail
    <3> HIDE DEF one, rest, lines
    <3> QED BY <2>2, <3>1, <3>2, RecordedAfter
  <2> HIDE DEF lines, rest
  <2>5. new \in CapState /\ new.lines = lines /\ new.at = "reading"
        /\ (new.late <=> k.late) /\ (new.limited <=> k.limited)
    BY <1>1, <2>4 DEF CapState
  <2>6. left \in WireState /\ left.pipe = rest
    BY <2>3 DEF WireState
  <2> HIDE DEF new, left
  <2>7. SandboxTypeOK'
    BY <1>1, <2>1, <2>5, <2>6 DEF SandboxInv, SandboxTypeOK, HostTypeOK
  <2>8. Harmless' <=> Harmless
    BY <2>1 DEF Harmless, Alive
  <2>9. NothingIsMissed'
    <3>1. host.did \subseteq Hooked
      BY DEF SandboxInv, SandboxTypeOK, HostTypeOK, HostState
    <3> QED BY <2>1, <2>4, <2>5, <2>6, <3>1 DEF SandboxInv, NothingIsMissed, Capturing
  <2>10. SpoilingIsObserved'
    BY <1>1, <2>1, <2>5 DEF SandboxInv, SpoilingIsObserved, Refusing, Kinds, PhaseNow, Commands
  <2> QED
    BY <1>1, <2>1, <2>5, <2>7, <2>8, <2>9, <2>10
       DEF SandboxInv, RefusedForAReason, OverOutsideCapture, PipeIsDry, ActivationIsTold
<1> QED BY <1>2, <1>3

\* The capture proceeds, and nothing is read, killed or observed.
LEMMA CaptureKeeps ==
    ASSUME SandboxInv, run.at = "running", NEW at \in {"waiting", "ended"},
           cap' = [cap EXCEPT !.at = at],
           at = "ended" => Harmless,
           Capturing => wire.pipe = <<>> /\ (wire.closed \/ Harmless),
           UNCHANGED <<host, wire, trace, package, env, run, obs, spoiled>>
    PROVE  SandboxInv'
<1> PICK k \in CapState : k = cap
  BY DEF SandboxInv, SandboxTypeOK
<1> DEFINE new == [k EXCEPT !.at = at]
<1>1. cap' = new
  BY Zenon
<1>2. new \in CapState /\ new.lines = k.lines /\ new.at = at
      /\ (new.late <=> k.late) /\ (new.limited <=> k.limited)
  BY DEF CapState
<1> HIDE DEF new
<1>3. SandboxTypeOK'
  BY <1>1, <1>2 DEF SandboxInv, SandboxTypeOK, HostTypeOK
<1>4. Harmless' <=> Harmless
  BY DEF Harmless, Alive
<1>5. SpoilingIsObserved'
  BY <1>1, <1>2 DEF SandboxInv, SpoilingIsObserved, Refusing, Kinds, PhaseNow, Commands
<1>6. NothingIsMissed' /\ PipeIsDry'
  BY <1>1, <1>2, <1>4 DEF SandboxInv, NothingIsMissed, PipeIsDry, Capturing
<1> QED
  BY <1>1, <1>2, <1>3, <1>4, <1>5, <1>6
     DEF SandboxInv, RefusedForAReason, OverOutsideCapture, ActivationIsTold

LEMMA ReadEndKeeps ==
    ASSUME SandboxInv, ReadEnd PROVE SandboxInv'
  BY CaptureKeeps DEF ReadEnd, Reading, hostVars, Harmless

LEMMA ReapKeeps ==
    ASSUME SandboxInv, Reap PROVE SandboxInv'
<1>1. /\ run.at = "running" /\ cap.at \in {"waiting", "stopping"} /\ Harmless
      /\ UNCHANGED <<host, wire, trace, package, env, run, obs, spoiled>>
      /\ cap' = [cap EXCEPT !.at = "ended"]
  BY DEF Reap, Waiting, hostVars, Harmless
<1>2. Capturing => wire.pipe = <<>>
  BY <1>1 DEF SandboxInv, PipeIsDry
<1> QED BY <1>1, <1>2, CaptureKeeps

LEMMA DieKeeps ==
    ASSUME SandboxInv, Die PROVE SandboxInv'
<1> PICK h \in HostState : h = host
  BY DEF SandboxInv, SandboxTypeOK, HostTypeOK
<1> DEFINE new == [h EXCEPT !.at = "exited", !.code = "killed"]
<1>1. UNCHANGED <<wire, trace, package, env, run, cap, obs, spoiled>>
  BY DEF Die, Leave
<1>2. host' = new
  BY Zenon DEF Die, Leave
<1>3. new \in HostState /\ new.did = h.did /\ (new.torn <=> h.torn) /\ new.at = "exited"
  BY DEF HostState
<1> HIDE DEF new
<1>4. SandboxTypeOK'
  BY <1>1, <1>2, <1>3 DEF SandboxInv, SandboxTypeOK, HostTypeOK
<1>5. Harmless'
  BY <1>2, <1>3 DEF Harmless, Alive
<1>6. SpoilingIsObserved' /\ ActivationIsTold'
  BY <1>1, <1>2, <1>3
     DEF SandboxInv, SpoilingIsObserved, ActivationIsTold, Refusing, Kinds, PhaseNow, Commands
<1>7. NothingIsMissed' /\ PipeIsDry'
  BY <1>1, <1>2, <1>3, <1>5 DEF SandboxInv, NothingIsMissed, PipeIsDry, Capturing
<1> QED
  BY <1>1, <1>4, <1>5, <1>6, <1>7
     DEF SandboxInv, RefusedForAReason, OverOutsideCapture

LEMMA GiveUpKeeps ==
    ASSUME SandboxInv, GiveUp PROVE SandboxInv'
<1> PICK n \in CapState : n = NoCapture
  BY FreshTypes
<1> DEFINE new == [n EXCEPT !.at = "ended", !.late = TRUE]
<1>1. /\ run.at = "running" /\ cap.at = "stopping"
      /\ UNCHANGED <<host, wire, trace, package, env, run, obs>>
      /\ spoiled' = spoiled \cup {<<PhaseNow, "stuck">>}
  BY DEF GiveUp, Waiting, hostVars
<1>2. cap' = new
  BY Zenon DEF GiveUp, TooLate
<1>3. new \in CapState /\ new.late
  BY DEF CapState
<1> HIDE DEF new
<1>4. SandboxTypeOK'
  BY <1>1, <1>2, <1>3 DEF SandboxInv, SandboxTypeOK, HostTypeOK
<1>5. Harmless /\ (Harmless' <=> Harmless)
  BY <1>1 DEF Harmless, Alive, SandboxInv, OverOutsideCapture
<1>6. SpoilingIsObserved'
  BY <1>1, <1>2, <1>3
     DEF SandboxInv, SpoilingIsObserved, Refusing, Kinds, PhaseNow, Commands
<1> QED
  BY <1>1, <1>2, <1>3, <1>4, <1>5, <1>6
     DEF SandboxInv, RefusedForAReason, OverOutsideCapture, ActivationIsTold,
         NothingIsMissed, PipeIsDry, Capturing

LEMMA SeenAdds ==
    ASSUME NEW phase, NEW items, obs' = obs \cup Seen(phase, items)
    PROVE  Kinds' = Kinds \cup items
<1>1. ASSUME NEW k PROVE k \in Kinds' <=> k \in Kinds \cup items
  <2>1. k \in Kinds' <=> \E o \in obs' : o.kind = k
    BY DEF Kinds
  <2>2. k \in Kinds <=> \E o \in obs : o.kind = k
    BY DEF Kinds
  <2>3. k \in items <=> \E o \in Seen(phase, items) : o.kind = k
    <3>1. ASSUME k \in items PROVE \E o \in Seen(phase, items) : o.kind = k
      <4> DEFINE o == [phase |-> phase, kind |-> k]
      <4>1. o \in Seen(phase, items)
        BY <3>1, Zenon DEF Seen
      <4>2. o.kind = k
        OBVIOUS
      <4> HIDE DEF o
      <4> QED BY <4>1, <4>2
    <3>2. ASSUME NEW o \in Seen(phase, items), o.kind = k PROVE k \in items
      <4> PICK j \in items : o = [phase |-> phase, kind |-> j]
        BY <3>2, Zenon DEF Seen
      <4> QED BY <3>2
    <3> QED BY <3>1, <3>2
  <2> QED BY <2>1, <2>2, <2>3
<1> QED BY <1>1

\* _run_isolated: a script or the entrypoint is started, with nothing captured.
LEMMA StartKeeps ==
    ASSUME SandboxInv, Start PROVE SandboxInv'
<1> PICK r \in RunState : r = run
  BY DEF SandboxInv, SandboxTypeOK
<1> PICK k \in CapState : k = NoCapture
  BY FreshTypes
<1> PICK n \in HostState : n = NoHost
  BY FreshTypes
<1> DEFINE new == [r EXCEPT !.at = "running"]
           empty == [k EXCEPT !.at = "reading"]
           failed == [n EXCEPT !.at = "exited", !.code = "error"]
           boots == Commands[run.next].boots
           script == [n EXCEPT !.at = "script", !.boots = boots]
           runner == [n EXCEPT !.at = "runner", !.boots = 1]
<1>1. run.at = "idle" /\ UNCHANGED <<package, env, obs, spoiled>>
  BY DEF Start
<1>2. run' = new /\ cap' = empty
  BY Zenon DEF Start
<1>3. /\ wire' = NoWire /\ trace' = NoTrace
      /\ \/ host' = failed
         \/ PhaseNow = "lifecycle" /\ host' = script
         \/ host' = runner
  <2>1. CASE ~env.namespace
    BY <2>1, Zenon DEF Start
  <2>2. CASE env.namespace /\ PhaseNow = "lifecycle"
    BY <2>2, Zenon DEF Start, Launch
  <2>3. CASE env.namespace /\ PhaseNow # "lifecycle"
    BY <2>3, Zenon DEF Start, Launch
  <2> QED BY <2>1, <2>2, <2>3, Zenon
<1>4. new \in RunState /\ new.at = "running" /\ empty \in CapState /\ empty.at = "reading"
  BY DEF RunState, CapState
<1>5. PhaseNow = "lifecycle" => boots \in Nat
  <2>1. run.next \in Nat \ {0}
    BY DEF SandboxInv, SandboxTypeOK, RunState
  <2> SUFFICES ASSUME PhaseNow = "lifecycle" PROVE boots \in Nat
    OBVIOUS
  <2>2. run.next \in 1..Len(Commands)
    BY <2>1, CaseTypes DEF PhaseNow, SandboxInv
  <2>3. Commands[run.next] \in [named : BOOLEAN, boots : 0..2]
    BY <2>2, CaseTypes, ElementOfSeq DEF SandboxInv
  <2> QED BY <2>3
<1>6. host' \in HostState /\ host'.did = {}
  <2>1. n.did = {}
    BY DEF NoHost
  <2>2. failed \in HostState /\ failed.did = {}
    BY <2>1 DEF HostState
  <2>3. PhaseNow = "lifecycle" => script \in HostState /\ script.did = {}
    <3> HIDE DEF boots
    <3> QED BY <1>5, <2>1 DEF HostState
  <2>4. runner \in HostState /\ runner.did = {}
    BY <2>1 DEF HostState
  <2> HIDE DEF failed, script, runner
  <2> QED BY <1>3, <2>2, <2>3, <2>4
<1> HIDE DEF new, empty, failed, script, runner, boots
<1>7. SandboxTypeOK'
  BY <1>1, <1>2, <1>3, <1>4, <1>6, FreshTypes DEF SandboxInv, SandboxTypeOK, HostTypeOK
<1>8. SpoilingIsObserved'
  BY <1>1 DEF SandboxInv, SpoilingIsObserved, Refusing, Kinds
<1> QED
  BY <1>1, <1>2, <1>4, <1>6, <1>7, <1>8
     DEF SandboxInv, RefusedForAReason, OverOutsideCapture, ActivationIsTold,
         NothingIsMissed, PipeIsDry

\* The observations of a phase say what its capture does not show.
LEMMA CollectKeeps ==
    ASSUME SandboxInv, run.at = "running", cap.at = "ended", NEW items, Collect(items),
           items \cap HardFailures = {} => ~cap.late,
           PhaseNow = "activation" /\ items \cap HardFailures = {} =>
             /\ ~cap.limited
             /\ host.torn \/ host.did \subseteq items
             /\ env.traced => trace.seen \subseteq items
    PROVE  SandboxInv'
<1> PICK n \in HostState : n = NoHost
  BY FreshTypes
<1> DEFINE new == [n EXCEPT !.did = host.did]
<1>1. /\ UNCHANGED <<package, env>>
      /\ run' = [at |-> IF PhaseNow = "activation" THEN "returned" ELSE "idle",
                 next |-> run.next + 1]
      /\ cap' = NoCapture /\ wire' = NoWire
      /\ obs' = obs \cup Seen(PhaseNow, items)
      /\ spoiled' = spoiled
           \cup (IF host.torn THEN {<<PhaseNow, "torn">>} ELSE {})
           \cup (IF host.code = "limit" THEN {<<PhaseNow, "limit">>} ELSE {})
  BY DEF Collect
<1>2. \/ Alive /\ UNCHANGED <<host, trace>>
      \/ ~Alive /\ PhaseNow = "lifecycle" /\ host' = NoHost /\ trace' = NoTrace
      \/ ~Alive /\ PhaseNow # "lifecycle" /\ host' = new /\ trace' = trace
  BY Zenon DEF Collect
<1>3. Kinds' = Kinds \cup items
  BY <1>1, SeenAdds
<1>4. HostTypeOK /\ host.did \in SUBSET Hooked /\ run.next + 1 \in Nat \ {0}
  BY DEF SandboxInv, SandboxTypeOK, HostTypeOK, HostState, RunState
<1>5. new \in HostState /\ new.at = "none" /\ new.did = host.did
  <2>1. n.at = "none"
    BY DEF NoHost
  <2> QED BY <1>4, <2>1 DEF HostState
<1> HIDE DEF new
<1>6. Harmless /\ Harmless'
  <2>1. Harmless
    BY DEF SandboxInv, OverOutsideCapture
  <2>2. CASE Alive
    BY <1>2, <2>1, <2>2 DEF Harmless, Alive
  <2>3. CASE ~Alive
    BY <1>2, <1>5, <2>3 DEF Harmless, Alive, NoHost
  <2> QED BY <2>1, <2>2, <2>3
<1>7. SandboxTypeOK'
  <2>1. HostTypeOK'
    BY <1>1, <1>2, <1>4, <1>5, FreshTypes DEF HostTypeOK
  <2>2. run' \in RunState
    BY <1>1, <1>4 DEF RunState
  <2> QED BY <1>1, <2>1, <2>2, FreshTypes DEF SandboxInv, SandboxTypeOK
<1>8. run'.at \in {"returned", "idle"} /\ (run'.at = "returned" => PhaseNow = "activation")
  BY <1>1
<1>9. SpoilingIsObserved'
  <2>1. ASSUME NEW p \in Phases, NEW q \in {"late", "stuck"}, <<p, q>> \in spoiled'
        PROVE  Refusing'
    <3>1. <<p, q>> \in spoiled
      BY <1>1, <2>1
    <3>2. Refusing \/ cap.late
      BY <3>1 DEF SandboxInv, SpoilingIsObserved
    <3> QED BY <1>3, <3>2 DEF Refusing
  <2>2. ASSUME <<"activation", "cut">> \in spoiled'
        PROVE  Refusing'
    <3>1. <<"activation", "cut">> \in spoiled
      BY <1>1, <2>2
    <3>2. Refusing \/ (PhaseNow = "activation" /\ (cap.late \/ cap.limited))
      BY <3>1 DEF SandboxInv, SpoilingIsObserved
    <3> QED BY <1>3, <3>2 DEF Refusing
  <2> QED BY <2>1, <2>2 DEF SpoilingIsObserved
<1>10. ActivationIsTold'
  <2> SUFFICES ASSUME run'.at = "returned", ~Refusing'
               PROVE  /\ <<"activation", "torn">> \in spoiled' \/ host'.did \subseteq Kinds'
                      /\ env.traced => trace'.seen \subseteq Kinds'
    BY <1>1 DEF ActivationIsTold
  <2>1. PhaseNow = "activation" /\ items \cap HardFailures = {}
    BY <1>3, <1>8 DEF Refusing
  <2>2. host'.did = host.did /\ trace' = trace
    BY <1>2, <1>5, <2>1
  <2>3. host.torn => <<"activation", "torn">> \in spoiled'
    BY <1>1, <2>1
  <2> QED BY <1>3, <2>1, <2>2, <2>3
<1> QED
  BY <1>1, <1>6, <1>7, <1>8, <1>9, <1>10
     DEF SandboxInv, RefusedForAReason, OverOutsideCapture, NothingIsMissed, PipeIsDry,
         Capturing

LEMMA FinishScriptKeeps ==
    ASSUME SandboxInv, FinishScript PROVE SandboxInv'
<1> PICK readable \in Readable : Collect(ScriptItems(readable))
  BY DEF FinishScript
<1>1. run.at = "running" /\ cap.at = "ended" /\ PhaseNow = "lifecycle"
  BY DEF FinishScript
<1>2. cap.late => "runtime_timeout" \in ScriptItems(readable)
  BY DEF ScriptItems
<1> QED BY <1>1, <1>2, CollectKeeps DEF HardFailures

\* An activation without a refusing observation was captured to its end, and its
\* output was authentic.
LEMMA FinishEntryKeeps ==
    ASSUME SandboxInv, FinishEntry PROVE SandboxInv'
<1> PICK readable \in Readable : Collect(EntryItems(readable))
  BY DEF FinishEntry
<1> DEFINE items == EntryItems(readable)
<1>1. run.at = "running" /\ cap.at = "ended" /\ PhaseNow = "activation"
  BY DEF FinishEntry
<1>2. cap.late => "runtime_timeout" \in items
  BY DEF EntryItems
<1>3. ~cap.late /\ items \cap HardFailures = {} =>
        /\ Verified
        /\ env.traced => readable
        /\ Events \ {"started"} \subseteq items
        /\ Logged(readable) \subseteq items
  BY DEF EntryItems, HardFailures, Failing
<1> HIDE DEF items
<1>4. ASSUME items \cap HardFailures = {}
      PROVE  /\ ~cap.late /\ ~cap.limited
             /\ host.torn \/ host.did \subseteq items
             /\ env.traced => trace.seen \subseteq items
  <2>1. ~cap.late
    BY <1>2, <1>4 DEF HardFailures
  <2>2. Verified /\ ~cap.limited
    BY <1>3, <1>4, <2>1 DEF Verified
  <2>3. env.traced => trace.seen \subseteq items
    BY <1>3, <1>4, <2>1 DEF Logged
  <2>4. ASSUME ~host.torn, NEW b \in host.did PROVE b \in items
    <3>1. wire.pipe = <<>>
      BY <1>1, <2>1, <2>2 DEF SandboxInv, PipeIsDry, Capturing
    <3>2. Recorded(wire.pipe, b) \/ Recorded(cap.lines, b)
      BY <1>1, <2>1, <2>2, <2>4 DEF SandboxInv, NothingIsMissed, Capturing
    <3>3. Recorded(cap.lines, b)
      BY <3>1, <3>2 DEF Recorded
    <3>4. cap.lines \in Seq(Line)
      BY DEF SandboxInv, SandboxTypeOK, CapState, Lines
    <3>5. b \in Events
      <4> PICK i \in 1..Len(cap.lines) : cap.lines[i].kind = "event" /\ cap.lines[i].what = b
        BY <3>3 DEF Recorded
      <4>1. i \in Is("event")
        BY <3>4 DEF Is
      <4> QED BY <2>2, <4>1 DEF Events
    <3>6. b # "started"
      BY HostAssumption DEF SandboxInv, SandboxTypeOK, HostTypeOK, HostState
    <3> QED BY <1>3, <1>4, <2>1, <3>5, <3>6
  <2> QED BY <2>1, <2>2, <2>3, <2>4
<1> QED BY <1>1, <1>4, CollectKeeps DEF items

LEMMA NoEntryKeeps ==
    ASSUME SandboxInv, NoEntry PROVE SandboxInv'
<1> PICK r \in RunState : r = run
  BY DEF SandboxInv, SandboxTypeOK
<1> DEFINE new == [r EXCEPT !.at = "returned"]
<1>1. /\ run.at = "idle" /\ ~package.entry
      /\ UNCHANGED <<host, wire, trace, package, env, cap, spoiled>>
      /\ obs' = obs \cup Seen("activation", {"entrypoint_not_applicable"})
  BY DEF NoEntry, hostVars
<1>2. run' = new
  BY Zenon DEF NoEntry
<1>3. new \in RunState /\ new.at = "returned"
  BY DEF RunState
<1> HIDE DEF new
<1>4. Refusing => Refusing'
  BY <1>1, SeenAdds DEF Refusing
<1>5. SandboxTypeOK'
  BY <1>1, <1>2, <1>3 DEF SandboxInv, SandboxTypeOK, HostTypeOK
<1>6. Harmless'
  BY <1>1 DEF SandboxInv, OverOutsideCapture, Harmless, Alive
<1>7. SpoilingIsObserved'
  BY <1>1, <1>4 DEF SandboxInv, SpoilingIsObserved
<1> QED
  BY <1>1, <1>2, <1>3, <1>5, <1>6, <1>7
     DEF SandboxInv, RefusedForAReason, OverOutsideCapture, NothingIsMissed, PipeIsDry,
         Capturing, ActivationIsTold

LEMMA NextKeeps == SandboxInv /\ [Next]_vars => SandboxInv'
<1> SUFFICES ASSUME SandboxInv, [Next]_vars PROVE SandboxInv'
  OBVIOUS
<1>1. CASE HostStep BY <1>1, HostStepKeeps
<1>2. CASE Begin BY <1>2, BeginKeeps
<1>3. CASE Start BY <1>3, StartKeeps
<1>4. CASE StartRaises BY <1>4, StartRaisesKeeps
<1>5. CASE Read BY <1>5, ReadKeeps
<1>6. CASE ReadEnd BY <1>6, ReadEndKeeps
<1>7. CASE Deadline BY <1>7, DeadlineKeeps
<1>8. CASE Die BY <1>8, DieKeeps
<1>9. CASE Reap BY <1>9, ReapKeeps
<1>10. CASE WaitEnds BY <1>10, WaitEndsKeeps
<1>11. CASE GiveUp BY <1>11, GiveUpKeeps
<1>12. CASE FinishScript BY <1>12, FinishScriptKeeps
<1>13. CASE FinishEntry BY <1>13, FinishEntryKeeps
<1>14. CASE NoEntry BY <1>14, NoEntryKeeps
<1>15. CASE UNCHANGED vars
  BY <1>15
     DEF vars, SandboxInv, SandboxTypeOK, HostTypeOK, RefusedForAReason, OverOutsideCapture,
         Harmless, Alive, NothingIsMissed, PipeIsDry, Capturing, SpoilingIsObserved, Refusing,
         Kinds, PhaseNow, Commands, ActivationIsTold
<1> QED
  BY <1>1, <1>2, <1>3, <1>4, <1>5, <1>6, <1>7, <1>8, <1>9, <1>10, <1>11, <1>12, <1>13,
     <1>14, <1>15
     DEF Next

LEMMA SandboxIsSound == Spec => []SandboxInv
  BY InitIsSound, NextKeeps, PTL DEF Spec

-----------------------------------------------------------------------------
(* The theorems. *)

\* A covered run has no observation of a hard failure.
LEMMA CoveredIsNotRefusing ==
    Covered => run.at = "returned" /\ env.traced /\ ~Refusing
  BY DEF Covered, TraceOfRun, Items, Refusing, HardFailures

\* run_sandbox and the receipt of the pipeline: a run counts as coverage only
\* when no phase met its deadline or could not be reaped, and the output of the
\* entrypoint was captured to its end.
THEOREM CoverageIsEarned == Spec => []CoveredRunIsWhole
<1>1. SandboxInv => CoveredRunIsWhole
  <2> SUFFICES ASSUME SandboxInv, Covered
               PROVE  /\ spoiled \cap (Phases \X {"late", "stuck"}) = {}
                      /\ <<"activation", "cut">> \notin spoiled
    BY DEF CoveredRunIsWhole
  <2>1. run.at = "returned" /\ ~Refusing
    BY CoveredIsNotRefusing
  <2>2. \A p \in Phases, r \in {"late", "stuck"} : <<p, r>> \notin spoiled
    BY <2>1 DEF SandboxInv, SpoilingIsObserved
  <2>3. <<"activation", "cut">> \notin spoiled
    BY <2>1 DEF SandboxInv, SpoilingIsObserved
  <2>4. ASSUME NEW s \in spoiled, s \in Phases \X {"late", "stuck"} PROVE FALSE
    <3> PICK p \in Phases, r \in {"late", "stuck"} : s = <<p, r>>
      BY <2>4
    <3> QED BY <2>2
  <2> QED BY <2>3, <2>4
<1> QED BY <1>1, SandboxIsSound, PTL

\* _verified_runtime_events and _external_trace_observations: what hook and
\* tracer recorded of a covered activation is among its observations, whatever
\* the artifact printed in between and whatever its exit code.
THEOREM CoverageTellsAll == Spec => []CoveredRunTellsAll
<1>1. SandboxInv => CoveredRunTellsAll
  BY CoveredIsNotRefusing DEF SandboxInv, ActivationIsTold, CoveredRunTellsAll
<1> QED BY <1>1, SandboxIsSound, PTL

\* sandbox_preflight, run_sandbox and _run_isolated agree on what they need: a
\* worker that is ready refuses no run and fails to start none.
THEOREM ReadyIsEnough == Spec => []ReadyWorkerRuns
<1>1. SandboxInv => ReadyWorkerRuns
  BY DEF SandboxInv, RefusedForAReason, ReadyWorkerRuns, Ready
<1> QED BY <1>1, SandboxIsSound, PTL

\* _run_bounded_capture: between two phases and after the last one nothing of
\* the artifact runs on, unless the worker may not kill what it has started.
THEOREM NothingIsLeftRunning == Spec => []NothingRunsOn
<1>1. SandboxInv => NothingRunsOn
  BY DEF SandboxInv, OverOutsideCapture, Harmless, NothingRunsOn
<1> QED BY <1>1, SandboxIsSound, PTL
=============================================================================
