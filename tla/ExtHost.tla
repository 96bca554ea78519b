------------------------------ MODULE ExtHost -------------------------------
(***************************************************************************)
(* The host of one extension process: Start, Call and Close over a pair of *)
(* pipes, with calls one at a time, a wall-clock budget on each, and a     *)
(* kill as the answer to a broken stream.  The extension may answer late,  *)
(* twice, out of order or never, send what is no frame, stop reading, or   *)
(* exit.                                                                   *)
(*                                                                         *)
(* stdout is what lies between the extension and the host's next           *)
(* awaitFrame: the pipe, readLoop's buffer and the frames channel.  A      *)
(* frame of the extension answers a request that it has read, and carries  *)
(* its id.  Requests are numbered, so that two with one id can be told     *)
(* apart; the host sees the id only.                                       *)
(***************************************************************************)
EXTENDS Integers, Sequences, FiniteSets

CONSTANTS
  Callers,    \* goroutines that use the extension
  MaxCalls,   \* bound on the calls
  MaxFrames,  \* bound on the frames that the extension sends
  StdinRoom   \* frames that stdin takes before a write blocks, the hello among them

ASSUME ExtHostAssumption ==
  /\ "nobody" \notin Callers /\ IsFiniteSet(Callers)
  /\ {MaxCalls, MaxFrames} \subseteq Nat /\ StdinRoom \in Nat \ {0}

VARIABLES
  closed, done,    \* Extension.closed; how often Extension.done was closed
  nextID, callMu,  \* Extension.nextID; the caller that holds callMu
  calls,           \* how many calls were given an id
  violations,      \* the calls that reached for an undeclared port
  main,            \* the goroutine of Start and Close
  call,            \* the Call of each caller
  child,           \* the process
  stdin,           \* what the extension has yet to read: requests, or Other for any other frame
  stdinOpen, stdout,
  got, sent        \* the requests the extension has read; how many frames it sent

ids == <<nextID, calls>>
host == <<closed, done, ids, callMu, violations>>
pipes == <<stdin, stdinOpen, stdout>>
extension == <<child, got, sent>>
vars == <<host, main, call, pipes, extension>>

Ids      == 1..MaxCalls
Nobody   == "nobody"
NoCall   == [pc |-> "idle", id |-> 0, no |-> 0, expired |-> FALSE, outcome |-> "none", of |-> 0]
Requests == [id : Ids, no : Ids]
Other    == [id |-> 0, no |-> 0]
Answers  == {"result", "error", "port", "undeclared"}
Others   == {"ack", "other", "garbled"}  \* other: not allowed in a call, or of a confidence that is not
Frames   == [t : Answers, re : Requests] \cup [t : Others, re : {Other}]
Outcomes == {"none", "result", "error", "protocol", "refused", "timeout", "crashed", "closed", "unknown"}

CallStates ==
  [pc : {"idle", "queue", "send", "await", "serve", "refuse", "kill", "killing"}, id : 0..MaxCalls,
   no : 0..MaxCalls, expired : BOOLEAN, outcome : Outcomes, of : 0..MaxCalls]

(* Every variable has its type; done is closed once, a second close is a   *)
(* panic.                                                                  *)
TypeOK ==
  /\ closed \in BOOLEAN /\ done \in 0..1
  /\ nextID \in 0..MaxCalls /\ calls \in 0..MaxCalls /\ callMu \in Callers \cup {Nobody} /\ violations \subseteq Ids
  /\ main \in {"start", "handshake", "ready", "shutdown", "drain", "kill", "killing", "end"}
  /\ call \in [Callers -> CallStates]
  /\ child \in {"none", "running", "mute", "dead"}
  /\ stdin \in Seq(Requests \cup {Other}) /\ stdinOpen \in BOOLEAN
  /\ stdout \in Seq(Frames)
  /\ got \subseteq Requests /\ sent \in 0..MaxFrames

Init ==
  /\ closed = FALSE /\ done = 0 /\ nextID = 0 /\ calls = 0 /\ callMu = Nobody /\ violations = {}
  /\ main = "start" /\ call = [c \in Callers |-> NoCall]
  /\ child = "none" /\ stdin = <<>> /\ stdinOpen = FALSE /\ stdout = <<>>
  /\ got = {} /\ sent = 0

(***************************************************************************)
(* Pipes.                                                                  *)
(***************************************************************************)

(* WriteFrame fails once either end of stdin is closed, and blocks while   *)
(* the pipe is full.                                                       *)
Broken == ~stdinOpen \/ child = "dead"
Fits == ~Broken /\ Len(stdin) < StdinRoom
WriteFrame(request) == stdin' = Append(stdin, request)

(* readLoop has a frame for awaitFrame, or has closed the channel.         *)
HasFrame == stdout # <<>> /\ Head(stdout).t # "garbled"
StreamEnds ==
  IF stdout = <<>> THEN child \in {"mute", "dead"} ELSE Head(stdout).t = "garbled"

(* kill: the first to find closed unset marks it and closes done...        *)
MarkClosed == closed' = TRUE /\ done' = done + 1

(* Mutant of Killed: stdin is closed, the process lives.                   *)
KilledPolitely ==
  /\ stdinOpen' = FALSE
  /\ stdout' \in {SubSeq(stdout, 1, n) : n \in 0..Len(stdout)}
  /\ UNCHANGED <<child, stdin>>

(* ...and then ends the process; readLoop may drop what it has not passed  *)
(* on.                                                                     *)
Killed ==
  /\ child' = "dead" /\ stdin' = <<>> /\ stdinOpen' = FALSE
  /\ stdout' \in {SubSeq(stdout, 1, n) : n \in 0..Len(stdout)}

(***************************************************************************)
(* Start and Close.                                                        *)
(***************************************************************************)

(* Start after its checks: spawn and send hello.                           *)
Start ==
  /\ main = "start" /\ main' = "handshake"
  /\ child' = "running" /\ stdinOpen' = TRUE /\ WriteFrame(Other)
  /\ UNCHANGED <<host, call, stdout, got, sent>>

(* The first frame must be a matching hello_ack, within startGrace.        *)
handshake ==
  /\ main = "handshake"
  /\ \/ /\ HasFrame /\ stdout' = Tail(stdout)
        /\ main' \in IF Head(stdout).t = "ack" THEN {"ready", "kill"} ELSE {"kill"}
     \/ main' = "kill" /\ UNCHANGED stdout
  /\ UNCHANGED <<host, call, stdin, stdinOpen, extension>>

Close ==
  /\ main = "ready"
  /\ main' = IF closed THEN "end" ELSE "shutdown"
  /\ UNCHANGED <<host, call, pipes, extension>>

(* The shutdown frame, whose failure is ignored, and the end of stdin.     *)
CloseStdin ==
  /\ main = "shutdown" /\ main' = "drain"
  /\ Fits \/ Broken
  /\ stdinOpen' = FALSE
  /\ UNCHANGED <<host, call, stdin, stdout, extension>>

(* Close reads frames off the channel, until the end or for startGrace.    *)
Drain ==
  /\ main = "drain" /\ HasFrame /\ stdout' = Tail(stdout)
  /\ UNCHANGED <<host, main, call, stdin, stdinOpen, extension>>

DrainEnds ==
  /\ main = "drain" /\ main' = "kill"
  /\ UNCHANGED <<host, call, pipes, extension>>

killMain ==
  /\ \/ main = "kill" /\ closed /\ main' = "end" /\ UNCHANGED <<host, pipes, child>>
     \/ /\ main = "kill" /\ ~closed /\ main' = "killing" /\ MarkClosed
        /\ UNCHANGED <<ids, callMu, violations, pipes, child>>
     \/ main = "killing" /\ main' = "end" /\ Killed /\ UNCHANGED host
  /\ UNCHANGED <<call, got, sent>>

(***************************************************************************)
(* Call.                                                                   *)
(***************************************************************************)

Goto(c, s) == call' = [call EXCEPT ![c].pc = s]

Return(c, outcome, of) ==
  /\ call' = [call EXCEPT ![c].pc = "idle", ![c].expired = FALSE, ![c].outcome = outcome, ![c].of = of]
  /\ callMu' = Nobody

(* A goroutine calls an operation and waits for callMu.                    *)
Call(c) ==
  /\ main \notin {"start", "handshake"} /\ call[c].pc = "idle"
  /\ calls + Cardinality({d \in Callers : call[d].pc = "queue"}) < MaxCalls
  /\ call' = [call EXCEPT ![c] = [NoCall EXCEPT !.pc = "queue"]]
  /\ UNCHANGED <<host, main, pipes, extension>>

(* Mutant of NewID: the ids of a stream start again with every call.       *)
NewIDAgain == nextID' = 1

(* The id of the next call.                                                *)
NewID == nextID' = nextID + 1

(* With callMu held: a closed extension and an operation that it does not  *)
(* advertise are refused, any other call takes an id.                      *)
Enter(c) ==
  /\ call[c].pc = "queue" /\ callMu = Nobody
  /\ \/ closed /\ Return(c, "closed", 0) /\ UNCHANGED ids
     \/ ~closed /\ Return(c, "unknown", 0) /\ UNCHANGED ids
     \/ /\ ~closed
        /\ NewID /\ calls' = calls + 1 /\ callMu' = c
        /\ call' = [call EXCEPT ![c].pc = "send", ![c].id = nextID', ![c].no = calls + 1]
  /\ UNCHANGED <<closed, done, violations, main, pipes, extension>>

(* The call frame.                                                         *)
Send(c) ==
  /\ call[c].pc = "send"
  /\ \/ Fits /\ WriteFrame([id |-> call[c].id, no |-> call[c].no]) /\ Goto(c, "await") /\ UNCHANGED callMu
     \/ Broken /\ Return(c, "crashed", 0) /\ UNCHANGED stdin
  /\ UNCHANGED <<closed, done, ids, violations, main, stdinOpen, stdout, extension>>

(* The budget runs out, or the caller cancels.                             *)
Expire(c) ==
  /\ call[c].pc \in {"send", "await", "serve"} /\ ~call[c].expired
  /\ call' = [call EXCEPT ![c].expired = TRUE]
  /\ UNCHANGED <<host, main, pipes, extension>>

(* Mutant of TimesOut: the budget is not looked at.                        *)
TimesOutNever(c) == FALSE /\ UNCHANGED vars

(* awaitFrame sees the budget spent: the process is to be killed.          *)
TimesOut(c) ==
  /\ call[c].pc = "await" /\ call[c].expired
  /\ call' = [call EXCEPT ![c].pc = "kill", ![c].outcome = "timeout"]
  /\ UNCHANGED <<host, main, pipes, extension>>

(* The stream ended or lost its framing.                                   *)
CallStreamEnds(c) ==
  /\ call[c].pc = "await" /\ StreamEnds
  /\ call' = [call EXCEPT ![c].pc = "kill", ![c].outcome = "crashed"]
  /\ UNCHANGED <<host, main, pipes, extension>>

(* A result must carry the id of the call.                                 *)
CheckResult(c, f) == IF f.re.id = call[c].id THEN "result" ELSE "protocol"

(* The next frame during a call.                                           *)
Receive(c) ==
  /\ call[c].pc = "await" /\ HasFrame /\ stdout' = Tail(stdout)
  /\ LET f == Head(stdout)
     IN  CASE f.t = "port" -> Goto(c, "serve") /\ UNCHANGED <<violations, callMu>>
           [] f.t = "undeclared" ->
                /\ violations' = violations \cup {call[c].id}
                /\ Goto(c, "refuse") /\ UNCHANGED callMu
           [] f.t = "result" -> Return(c, CheckResult(c, f), f.re.no) /\ UNCHANGED violations
           [] f.t = "error" -> Return(c, "error", f.re.no) /\ UNCHANGED violations
           [] OTHER -> Return(c, "protocol", 0) /\ UNCHANGED violations
  /\ UNCHANGED <<closed, done, ids, main, stdin, stdinOpen, extension>>

(* servePortCall on a declared port: the handler's answer or its error.    *)
servePortCall(c) ==
  /\ call[c].pc = "serve"
  /\ \/ Fits /\ WriteFrame(Other) /\ Goto(c, "await") /\ UNCHANGED callMu
     \/ Broken /\ Return(c, "crashed", 0) /\ UNCHANGED stdin
  /\ UNCHANGED <<closed, done, ids, violations, main, stdinOpen, stdout, extension>>

(* Mutant of Refuse: the call goes on.                                     *)
RefuseQuietly(c) ==
  /\ call[c].pc = "refuse"
  /\ \/ Fits /\ WriteFrame(Other)
     \/ Broken /\ UNCHANGED stdin
  /\ Goto(c, "await") /\ UNCHANGED callMu
  /\ UNCHANGED <<closed, done, ids, violations, main, stdinOpen, stdout, extension>>

(* servePortCall on an undeclared one: the refusal fails the call too.     *)
Refuse(c) ==
  /\ call[c].pc = "refuse"
  /\ \/ Fits /\ WriteFrame(Other)
     \/ Broken /\ UNCHANGED stdin
  /\ Return(c, "refused", 0)
  /\ UNCHANGED <<closed, done, ids, violations, main, stdinOpen, stdout, extension>>

(* Mutant of kill: closed is not looked at.                                *)
killUnchecked(c) ==
  /\ \/ /\ call[c].pc = "kill" /\ Goto(c, "killing") /\ MarkClosed
        /\ UNCHANGED <<callMu, pipes, child>>
     \/ /\ call[c].pc = "killing" /\ Killed
        /\ Return(c, call[c].outcome, 0) /\ UNCHANGED <<closed, done>>
  /\ UNCHANGED <<ids, violations, main, got, sent>>

kill(c) ==
  /\ \/ /\ call[c].pc = "kill" /\ closed
        /\ Return(c, call[c].outcome, 0) /\ UNCHANGED <<closed, done, pipes, child>>
     \/ /\ call[c].pc = "kill" /\ ~closed /\ Goto(c, "killing") /\ MarkClosed
        /\ UNCHANGED <<callMu, pipes, child>>
     \/ /\ call[c].pc = "killing" /\ Killed
        /\ Return(c, call[c].outcome, 0) /\ UNCHANGED <<closed, done>>
  /\ UNCHANGED <<ids, violations, main, got, sent>>

(***************************************************************************)
(* The extension.                                                          *)
(***************************************************************************)

ExtensionReads ==
  /\ child \in {"running", "mute"} /\ stdin # <<>>
  /\ stdin' = Tail(stdin)
  /\ got' = (got \cup {Head(stdin)}) \ {Other}
  /\ UNCHANGED <<host, main, call, stdinOpen, stdout, child, sent>>

ExtensionSends ==
  /\ child = "running" /\ sent < MaxFrames
  /\ sent' = sent + 1
  /\ stdout' \in {Append(stdout, f) : f \in [t : Answers, re : got] \cup [t : Others, re : {Other}]}
  /\ UNCHANGED <<host, main, call, stdin, stdinOpen, child, got>>

(* It closes its stdout, or exits.                                         *)
ExtensionEnds ==
  /\ child \in {"running", "mute"} /\ child' \in {"mute", "dead"} \ {child}
  /\ stdin' = IF child' = "dead" THEN <<>> ELSE stdin
  /\ UNCHANGED <<host, main, call, stdinOpen, stdout, got, sent>>

Main == Start \/ handshake \/ CloseStdin \/ Drain \/ DrainEnds \/ killMain

CallStep(c) ==
  \/ Enter(c) \/ Send(c) \/ TimesOut(c) \/ CallStreamEnds(c) \/ Receive(c)
  \/ servePortCall(c) \/ Refuse(c) \/ kill(c)

Next ==
  \/ Main \/ Close
  \/ \E c \in Callers : Call(c) \/ CallStep(c) \/ Expire(c)
  \/ ExtensionReads \/ ExtensionSends \/ ExtensionEnds

(* The host's goroutines run on and its timers fire; nothing is assumed of *)
(* the extension.  As calls and frames are bounded, no assumption on the   *)
(* handing over of callMu or on the choices of select is needed.           *)
Fairness ==
  /\ WF_vars(Main)
  /\ \A c \in Callers : WF_vars(CallStep(c)) /\ WF_vars(Expire(c))

Spec == Init /\ [][Next]_vars /\ Fairness

(***************************************************************************)
(* Properties.                                                             *)
(***************************************************************************)

(* A result that Call returns is the extension's answer to the request of  *)
(* that very call, never the late or repeated answer to an earlier one     *)
(* that was left in the stream: the counter under callMu gives no id twice *)
(* and Call compares it.                                                   *)
Correlated == \A c \in Callers : call[c].outcome = "result" => call[c].of = call[c].no

(* A call during which the extension reached for an undeclared port never  *)
(* returns a result.                                                       *)
FailsClosed == \A c \in Callers : call[c].outcome = "result" => call[c].id \notin violations

(* The pipe to the extension does not stay full for good.                  *)
ReadsOn == []<>(Fits \/ Broken)

(* Every call returns, whatever else the extension does, as long as it     *)
(* reads on: at its budget at the latest, which is looked at only between  *)
(* writes (awaitFrame).                                                    *)
CallReturns == ReadsOn => \A c \in Callers : (call[c].pc # "idle") ~> (call[c].pc = "idle")


(* Once Close is under way, or anyone has marked the extension closed, no  *)
(* process is left behind, as long as the extension reads on.              *)
NoOrphan == ReadsOn => ((main \in {"shutdown", "end"} \/ closed) ~> (child = "dead"))
=============================================================================
