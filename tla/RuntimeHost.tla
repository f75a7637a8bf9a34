---------------------------- MODULE RuntimeHost ----------------------------
(***************************************************************************)
(* What runs inside the sandbox: a lifecycle script, or the activation     *)
(* runner with the hook that the scanner loads before the extension.  The  *)
(* hook and the extension share a process and its stderr.  The hook        *)
(* announces a secret of its process and authenticates every record with   *)
(* it; whatever else arrives on stderr is text.                            *)
(*                                                                         *)
(* A record is [kind, node, what]: a handshake, an authenticated event, or *)
(* text.  Node processes of one run are numbered in the order in which     *)
(* they start, and a number stands for the secret of its process.          *)
(***************************************************************************)
EXTENDS Naturals, Sequences, FiniteSets

CONSTANTS
    Hooked,      \* behaviours that go through a patched function
    Traced,      \* behaviours that make a system call
    MaxActs,     \* bound: what the extension does in one run
    MaxHandlers, \* commands that the probe invokes at most
    PipeLines    \* capacity of the pipe, in lines

ASSUME HostAssumption ==
    /\ MaxActs \in Nat
    /\ MaxHandlers \in Nat
    /\ PipeLines \in Nat \ {0, 1}
    /\ {"started", "host"} \cap (Hooked \cup Traced) = {}

VARIABLES
    host,   \* the process that runs, and what it has done
    wire,   \* its stderr
    trace   \* what the system call tracer has seen of it

hostVars == <<host, wire, trace>>

Behaviours == Hooked \cup Traced
Told == Hooked \cup {"started", "host"}

Shake(n)    == [kind |-> "handshake", node |-> n, what |-> "none"]
Event(n, b) == [kind |-> "event", node |-> n, what |-> b]
Text        == [kind |-> "text", node |-> 0, what |-> "none"]

\* "torn" and "did" are what really happened, for the properties: a record that
\* was lost, and the behaviours that the hook was asked to record.
NoHost ==
    [at |-> "none", node |-> 0, nodes |-> 0, boots |-> 0, acts |-> 0, handlers |-> 0,
     code |-> "none", did |-> {}, torn |-> FALSE]
NoWire  == [pipe |-> <<>>, open |-> FALSE, closed |-> FALSE]
NoTrace == [seen |-> {}, cut |-> FALSE]

HostInit == host = NoHost /\ wire = NoWire /\ trace = NoTrace

Alive   == host.at \notin {"none", "exited"}
Running == host.at \in {"script", "load", "activate", "probe"} /\ host.code = "none"

\* A run starts: "boots" node processes will load the hook.
Launch(at, boots) ==
    /\ host'  = [NoHost EXCEPT !.at = at, !.boots = boots]
    /\ wire'  = NoWire
    /\ trace' = NoTrace

\* A writer waits while the pipe is full. What is written to a closed pipe is
\* dropped, and the hook does not notice.
CanWrite(lines) == wire.closed \/ Len(wire.pipe) + Len(lines) <= PipeLines

\* A record that follows text without a line end becomes part of that text.
Written(lines) ==
    IF wire.closed THEN wire
    ELSE [wire EXCEPT !.pipe = @ \o (IF wire.open THEN Tail(lines) ELSE lines),
                      !.open = FALSE]
Lost == wire.closed \/ wire.open

\* The hook is loaded: it says its secret and records that it has started. The
\* process is the runner, one of a script, or a child of the extension, which
\* inherits the hook with its environment.
Boot ==
    /\ Alive /\ host.code = "none"
    /\ host.boots > 0
    /\ LET n == host.nodes + 1
           lines == <<Shake(n), Event(n, "started")>>
       IN /\ CanWrite(lines)
          /\ wire' = Written(lines)
          /\ host' = [host EXCEPT !.nodes = n, !.boots = @ - 1,
                                  !.node = IF host.at \in {"runner", "script"} THEN n ELSE @,
                                  !.at = IF @ = "runner" THEN "load" ELSE @,
                                  !.torn = @ \/ Lost]
    /\ UNCHANGED trace

Spawn ==
    /\ Running /\ host.at # "script"
    /\ host.acts < MaxActs
    /\ host.nodes + host.boots < 2
    /\ host' = [host EXCEPT !.acts = @ + 1, !.boots = @ + 1]
    /\ UNCHANGED <<wire, trace>>

\* The records of registrations, probes and errors.
Tell(h) ==
    LET lines == <<Event(host.node, "host")>>
    IN /\ CanWrite(lines)
       /\ wire' = Written(lines)
       /\ host' = [h EXCEPT !.torn = @ \/ Lost]
       /\ UNCHANGED trace

\* Code in node process n, or in no node process (n = 0), does something.
\* Patched network functions never reach the system; native code never reaches
\* the hook.
Act(n, b) ==
    /\ Running
    /\ host.acts < MaxActs
    /\ n <= host.nodes
    /\ LET lines == IF b \in Hooked /\ n > 0 THEN <<Event(n, b)>> ELSE <<>>
       IN /\ CanWrite(lines)
          /\ wire' = IF lines = <<>> THEN wire ELSE Written(lines)
          /\ host' = [host EXCEPT !.acts = @ + 1,
                                  !.did = IF lines = <<>> THEN @ ELSE @ \cup {b},
                                  !.torn = @ \/ (lines # <<>> /\ Lost)]
    /\ trace' = [trace EXCEPT !.seen = @ \cup ({b} \cap Traced)]

\* The extension, or a program it runs, prints to stderr.
PrintText(ended) ==
    /\ Running
    /\ host.acts < MaxActs
    /\ ~wire.closed
    /\ CanWrite(<<Text>>)
    /\ host' = [host EXCEPT !.acts = @ + 1]
    /\ wire' = [wire EXCEPT !.pipe = IF wire.open THEN @ ELSE Append(@, Text),
                            !.open = ~ended]
    /\ UNCHANGED trace

ClosePipes ==
    /\ Running
    /\ host.acts < MaxActs
    /\ ~wire.closed
    /\ host' = [host EXCEPT !.acts = @ + 1]
    /\ wire' = [wire EXCEPT !.closed = TRUE]
    /\ UNCHANGED trace

Register ==
    /\ Running /\ host.at \in {"load", "activate"}
    /\ host.handlers < MaxHandlers
    /\ Tell([host EXCEPT !.handlers = @ + 1])

\* An error in a handler that the probe invokes is a record, not the end.
Probe ==
    /\ Running /\ host.at = "probe"
    /\ host.handlers > 0
    /\ Tell([host EXCEPT !.handlers = @ - 1])

Leave(code) ==
    /\ host' = [host EXCEPT !.at = "exited", !.code = code]
    /\ UNCHANGED <<wire, trace>>

\* The module is loaded, activate() has returned, the handlers were probed.
Proceed ==
    \/ /\ Running /\ host.at \in {"load", "activate"}
       /\ host' = [host EXCEPT !.at = IF @ = "load" THEN "activate" ELSE "probe"]
       /\ UNCHANGED <<wire, trace>>
    \/ /\ Running /\ host.at = "probe"
       /\ host.handlers = 0
       /\ Leave("zero")

\* Errors end the runner until activation has returned, and are ignored then.
Throw == Running /\ host.at \in {"load", "activate"} /\ Leave("error")

\* process.exit() in the extension; the end of a script.
Quit(code) == Running /\ (host.at = "script" => host.boots = 0) /\ Leave(code)

\* A limit on processor time or memory ends the process.
Breach == Running /\ Leave("limit")

\* The tracer inherits the limit on file size, and its log is the file that
\* meets it first. The processes that it traces die with it.
FillTrace ==
    /\ Running
    /\ trace.seen # {}
    /\ host' = [host EXCEPT !.at = "exited", !.code = "limit"]
    /\ trace' = [trace EXCEPT !.cut = TRUE]
    /\ UNCHANGED wire

HostNext(traced) ==
    \/ Boot
    \/ Spawn
    \/ \E n \in 0..2, b \in Behaviours : Act(n, b)
    \/ \E ended \in BOOLEAN : PrintText(ended)
    \/ ClosePipes
    \/ Register
    \/ Probe
    \/ Proceed
    \/ Throw
    \/ \E code \in {"zero", "error"} : Quit(code)
    \/ Breach
    \/ traced /\ FillTrace
=============================================================================
