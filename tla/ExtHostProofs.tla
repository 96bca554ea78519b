--------------------------- MODULE ExtHostProofs ----------------------------
(***************************************************************************)
(* A call returns no result but the extension's answer to it, and none at  *)
(* all once the extension has reached for an undeclared port.              *)
(***************************************************************************)
EXTENDS ExtHost, FiniteSetTheorems, SequenceTheorems, TLAPS

(***************************************************************************)
(* The inductive invariant.                                                *)
(***************************************************************************)

Queue == {c \in Callers : call[c].pc = "queue"}
InCall == {"send", "await", "serve", "refuse", "kill", "killing"}

(* There is an id for every caller that waits for one, and ids number the  *)
(* calls.                                                                  *)
Numbered == nextID = calls /\ nextID + Cardinality(Queue) <= MaxCalls

(* A request has the id of its number, wherever it is: on its way to the   *)
(* extension, read by it, or answered.                                     *)
Sound == {r \in Requests \cup {Other} : r.id = r.no}
SoundFrames == {f \in Frames : f.re.id = f.re.no}
Genuine ==
  /\ stdin \in Seq(Sound) /\ got \subseteq Sound /\ stdout \in Seq(SoundFrames)
  /\ \A c \in Callers : call[c].id = call[c].no

(* done is closed by whoever set closed.                                   *)
ClosedOnce == done = IF closed THEN 1 ELSE 0

(* Calls are made one at a time; the one under way has the last id, and no *)
(* two calls have the same.                                                *)
OneAtATime ==
  /\ \A c \in Callers : call[c].pc \in InCall => callMu = c /\ call[c].id = nextID /\ nextID > 0
  /\ \A c \in Callers : call[c].id <= nextID
  /\ \A c, d \in Callers : c # d /\ call[c].id = call[d].id => call[c].id = 0
  /\ \A v \in violations : v <= nextID

(* A call under way has no outcome, or one that is no result.              *)
NoEarlyOutcome ==
  \A c \in Callers :
    /\ call[c].pc \in {"queue", "send", "await", "serve", "refuse"} => call[c].outcome = "none"
    /\ call[c].pc \in {"kill", "killing"} => call[c].outcome \in {"timeout", "crashed"}

(* A call that reached for an undeclared port is being refused.            *)
Refused == \A c \in Callers : call[c].pc \in InCall /\ call[c].id \in violations => call[c].pc = "refuse"

ExtHostInv ==
  TypeOK /\ Numbered /\ Genuine /\ ClosedOnce /\ OneAtATime /\ NoEarlyOutcome /\ Refused /\ Correlated /\ FailsClosed

(***************************************************************************)
(* Facts about the parts of the model.                                     *)
(***************************************************************************)

LEMMA QueueNat == IsFiniteSet(Queue) /\ Cardinality(Queue) \in Nat
  BY ExtHostAssumption, FS_Subset, FS_CardinalityType DEF Queue

(* A waiting caller finds an id.                                           *)
LEMMA NextId ==
  ASSUME TypeOK, Numbered, NEW c \in Callers, call[c].pc = "queue"
  PROVE  nextID + 1 \in Ids /\ nextID + 1 \in 0..MaxCalls
  <1>1. c \in Queue BY DEF Queue
  <1>2. Cardinality(Queue) # 0 BY <1>1, QueueNat, FS_EmptySet
  <1> QED BY <1>2, QueueNat, ExtHostAssumption DEF TypeOK, Numbered, Ids

(* A step that queues no caller and takes no id.                           *)
LEMMA NumberedFrame ==
  ASSUME TypeOK, Numbered, nextID' = nextID, calls' = calls, Queue' \subseteq Queue
  PROVE  Numbered'
  <1>1. IsFiniteSet(Queue') /\ Cardinality(Queue') <= Cardinality(Queue) BY QueueNat, FS_Subset
  <1>2. Cardinality(Queue') \in Nat BY <1>1, FS_CardinalityType
  <1> QED BY <1>1, <1>2, QueueNat, ExtHostAssumption DEF TypeOK, Numbered

LEMMA NumberedQueued ==
  ASSUME TypeOK, Numbered, nextID + Cardinality(Queue) < MaxCalls, nextID' = nextID, calls' = calls, NEW c \in Callers,
         Queue' \subseteq Queue \cup {c}
  PROVE  Numbered'
  <1>1. IsFiniteSet(Queue \cup {c}) /\ Cardinality(Queue \cup {c}) <= Cardinality(Queue) + 1
    <2>1. /\ IsFiniteSet(Queue \cup {c})
          /\ Cardinality(Queue \cup {c}) = IF c \in Queue THEN Cardinality(Queue) ELSE Cardinality(Queue) + 1
      BY QueueNat, FS_AddElement
    <2> QED BY <2>1, QueueNat
  <1>2. IsFiniteSet(Queue') /\ Cardinality(Queue') <= Cardinality(Queue \cup {c}) BY <1>1, FS_Subset
  <1>3. Cardinality(Queue') \in Nat /\ Cardinality(Queue \cup {c}) \in Nat BY <1>1, <1>2, FS_CardinalityType
  <1> QED BY <1>1, <1>2, <1>3, QueueNat, ExtHostAssumption DEF TypeOK, Numbered

LEMMA NumberedEntered ==
  ASSUME TypeOK, Numbered, nextID' = nextID + 1, calls' = calls + 1, NEW c \in Callers, call[c].pc = "queue",
         Queue' \subseteq Queue \ {c}
  PROVE  Numbered'
  <1>1. c \in Queue BY DEF Queue
  <1>2. IsFiniteSet(Queue \ {c}) /\ Cardinality(Queue \ {c}) = Cardinality(Queue) - 1
    BY <1>1, QueueNat, FS_RemoveElement
  <1>3. IsFiniteSet(Queue') /\ Cardinality(Queue') <= Cardinality(Queue \ {c}) BY <1>2, FS_Subset
  <1>4. Cardinality(Queue') \in Nat BY <1>3, FS_CardinalityType
  <1> QED BY <1>2, <1>3, <1>4, QueueNat, ExtHostAssumption DEF TypeOK, Numbered

(* A kill may lose what was not passed on.                                 *)
LEMMA KilledType ==
  ASSUME TypeOK, Killed
  PROVE  stdin' \in Seq(Requests \cup {Other}) /\ stdout' \in Seq(Frames) /\ child' = "dead" /\ stdinOpen' = FALSE
  <1>1. PICK n \in 0..Len(stdout) : stdout' = SubSeq(stdout, 1, n) BY DEF Killed
  <1>2. stdout \in Seq(Frames) BY DEF TypeOK
  <1>3. \A i \in 1..n : stdout[i] \in Frames BY <1>1, <1>2
  <1>4. SubSeq(stdout, 1, n) \in Seq(Frames) BY <1>1, <1>2, <1>3
  <1> QED BY <1>1, <1>4 DEF Killed

(* The record of a call under the changes that are made to it.             *)
LEMMA GotoType ==
  ASSUME TypeOK, NEW c \in Callers, NEW s \in {"await", "serve", "refuse", "kill", "killing"}, Goto(c, s)
  PROVE  call' \in [Callers -> CallStates]
  BY DEF TypeOK, Goto, CallStates

LEMMA ReturnType ==
  ASSUME TypeOK, NEW c \in Callers, NEW outcome \in Outcomes, NEW of \in 0..MaxCalls, Return(c, outcome, of)
  PROVE  call' \in [Callers -> CallStates] /\ callMu' \in Callers \cup {Nobody}
  <1>1. call \in [Callers -> CallStates] BY DEF TypeOK
  <1>2. call' = [call EXCEPT ![c] = [call[c] EXCEPT !.pc = "idle", !.expired = FALSE, !.outcome = outcome, !.of = of]]
    BY <1>1 DEF Return, CallStates
  <1>3. [call[c] EXCEPT !.pc = "idle", !.expired = FALSE, !.outcome = outcome, !.of = of] \in CallStates
    BY <1>1 DEF CallStates
  <1>4. callMu' \in Callers \cup {Nobody} BY DEF Return
  <1> QED BY <1>1, <1>2, <1>3, <1>4

LEMMA WriteType ==
  ASSUME TypeOK, NEW request \in Requests \cup {Other}, WriteFrame(request)
  PROVE  stdin' \in Seq(Requests \cup {Other})
  BY DEF TypeOK, WriteFrame

LEMMA HeadTail ==
  ASSUME NEW S, NEW q \in Seq(S), q # <<>>
  PROVE  Head(q) \in S /\ Tail(q) \in Seq(S)
  OBVIOUS

(* The next frame on stdout.                                               *)
LEMMA FrameType ==
  ASSUME TypeOK, HasFrame
  PROVE  /\ Head(stdout) \in Frames /\ Tail(stdout) \in Seq(Frames)
         /\ Head(stdout).t \in Answers => Head(stdout).re \in Requests
  <1>1. stdout \in Seq(Frames) /\ stdout # <<>> BY DEF TypeOK, HasFrame
  <1>2. Head(stdout) \in Frames /\ Tail(stdout) \in Seq(Frames) BY <1>1
  <1> QED BY <1>2 DEF Frames, Answers, Others

LEMMA ExtHostTypeInit == Init => TypeOK
  <1>1. 0 \in 0..MaxCalls /\ 0 \in 0..MaxFrames BY ExtHostAssumption
  <1>2. NoCall \in CallStates BY <1>1 DEF NoCall, CallStates, Outcomes
  <1>3. <<>> \in Seq(Requests \cup {Other}) /\ <<>> \in Seq(Frames) OBVIOUS
  <1>4. 0 \in 0..1 OBVIOUS
  <1> QED BY <1>1, <1>2, <1>3, <1>4 DEF Init, TypeOK, Ids, Nobody

LEMMA ExtHostTypeStep == TypeOK /\ Numbered /\ Genuine /\ ClosedOnce /\ OneAtATime /\ [Next]_vars => TypeOK'
  <1> SUFFICES ASSUME TypeOK, Numbered, Genuine, ClosedOnce, OneAtATime, [Next]_vars PROVE TypeOK' OBVIOUS
  <1>z. 0 \in 0..MaxCalls BY ExtHostAssumption
  <1>o. {"none", "result", "error", "protocol", "refused", "timeout", "crashed", "closed", "unknown"} = Outcomes
    BY DEF Outcomes
  <1>r. Other \in Requests \cup {Other} OBVIOUS
  <1> USE <1>z, <1>r DEF ids, host, pipes, extension
  <1>1. CASE Start BY <1>1, WriteType DEF Start, TypeOK
  <1>2. CASE handshake BY <1>2, FrameType DEF handshake, TypeOK
  <1>3. CASE Close \/ CloseStdin \/ DrainEnds BY <1>3 DEF Close, CloseStdin, DrainEnds, TypeOK
  <1>4. CASE Drain BY <1>4, FrameType DEF Drain, TypeOK
  <1>5. ASSUME ~closed, MarkClosed PROVE closed' \in BOOLEAN /\ done' \in 0..1
    BY <1>5 DEF MarkClosed, ClosedOnce
  <1>6. CASE killMain
    <2>1. CASE main = "kill" /\ closed BY <1>6, <2>1 DEF killMain, TypeOK
    <2>2. CASE main = "kill" /\ ~closed BY <1>6, <2>2, <1>5 DEF killMain, TypeOK
    <2>3. CASE main = "killing" BY <1>6, <2>3, KilledType DEF killMain, TypeOK
    <2> QED BY <1>6, <2>1, <2>2, <2>3 DEF killMain
  <1>7. ASSUME NEW c \in Callers, Call(c) PROVE TypeOK'
    <2>1. [NoCall EXCEPT !.pc = "queue"] \in CallStates BY <1>o DEF NoCall, CallStates
    <2> QED BY <1>7, <2>1 DEF Call, TypeOK
  <1>8. ASSUME NEW c \in Callers, Enter(c) PROVE TypeOK'
    <2>1. CASE (Return(c, "closed", 0) \/ Return(c, "unknown", 0)) /\ UNCHANGED ids
      <3>1. "closed" \in Outcomes /\ "unknown" \in Outcomes BY DEF Outcomes
      <3>2. call' \in [Callers -> CallStates] /\ callMu' \in Callers \cup {Nobody} BY <2>1, <3>1, ReturnType
      <3> QED BY <1>8, <2>1, <3>2 DEF Enter, TypeOK
    <2>2. CASE nextID' = nextID + 1 /\ calls' = calls + 1 /\ callMu' = c
               /\ call' = [call EXCEPT ![c].pc = "send", ![c].id = nextID', ![c].no = calls + 1]
      <3>1. nextID + 1 \in 0..MaxCalls /\ calls = nextID BY <1>8, NextId DEF Enter, Numbered
      <3>c. call \in [Callers -> CallStates] BY DEF TypeOK
      <3>d. [call[c] EXCEPT !.pc = "send", !.id = nextID + 1, !.no = nextID + 1] \in CallStates
        BY <3>1, <3>c DEF CallStates
      <3>e. call' = [call EXCEPT ![c] = [call[c] EXCEPT !.pc = "send", !.id = nextID + 1, !.no = nextID + 1]]
        BY <2>2, <3>1, <3>c DEF CallStates
      <3>2. call' \in [Callers -> CallStates] BY <3>c, <3>d, <3>e
      <3> QED BY <1>8, <2>2, <3>1, <3>2 DEF Enter, TypeOK
    <2> QED BY <1>8, <2>1, <2>2 DEF Enter, NewID
  <1>9. ASSUME NEW c \in Callers, Send(c) PROVE TypeOK'
    <2>1. [id |-> call[c].id, no |-> call[c].no] \in Requests
      <3>1. call[c].id \in 0..MaxCalls /\ call[c].id > 0 /\ call[c].no = call[c].id
        BY <1>9 DEF Send, OneAtATime, InCall, TypeOK, CallStates, Genuine
      <3> QED BY <3>1, ExtHostAssumption DEF Requests, Ids
    <2>2. call' \in [Callers -> CallStates] /\ callMu' \in Callers \cup {Nobody}
      BY <1>9, <1>o, ReturnType, GotoType DEF Send, TypeOK
    <2>3. stdin' \in Seq(Requests \cup {Other}) BY <1>9, <2>1, WriteType DEF Send, TypeOK
    <2> QED BY <1>9, <2>2, <2>3 DEF Send, TypeOK
  <1>10. ASSUME NEW c \in Callers, Expire(c) PROVE TypeOK' BY <1>10 DEF Expire, TypeOK, CallStates
  <1>11. ASSUME NEW c \in Callers, TimesOut(c) \/ CallStreamEnds(c) PROVE TypeOK'
    <2>1. PICK o \in {"timeout", "crashed"} : call' = [call EXCEPT ![c].pc = "kill", ![c].outcome = o]
      BY <1>11 DEF TimesOut, CallStreamEnds
    <2>2. o \in Outcomes BY DEF Outcomes
    <2>3. call' \in [Callers -> CallStates] BY <2>1, <2>2 DEF TypeOK, CallStates
    <2> QED BY <1>11, <2>3 DEF TimesOut, CallStreamEnds, TypeOK
  <1>12. ASSUME NEW c \in Callers, Receive(c) PROVE TypeOK'
    <2> DEFINE f == Head(stdout)
    <2>1. f \in Frames /\ stdout' \in Seq(Frames) /\ (f.t \in Answers => f.re \in Requests)
      BY <1>12, FrameType DEF Receive
    <2>2. Ids \subseteq 0..MaxCalls BY DEF Ids
    <2>3. call[c].id \in Ids BY <1>12 DEF Receive, OneAtATime, InCall, TypeOK, CallStates, Ids
    <2>4. CheckResult(c, f) \in Outcomes /\ "error" \in Outcomes /\ "protocol" \in Outcomes
      BY DEF CheckResult, Outcomes
    <2>5. \/ f.t = "port" /\ Goto(c, "serve") /\ UNCHANGED <<violations, callMu>>
          \/ /\ f.t = "undeclared" /\ violations' = violations \cup {call[c].id}
             /\ Goto(c, "refuse") /\ UNCHANGED callMu
          \/ f.t = "result" /\ Return(c, CheckResult(c, f), f.re.no) /\ UNCHANGED violations
          \/ f.t = "error" /\ Return(c, "error", f.re.no) /\ UNCHANGED violations
          \/ Return(c, "protocol", 0) /\ UNCHANGED violations
      BY <1>12 DEF Receive
    <2>6. call' \in [Callers -> CallStates] /\ callMu' \in Callers \cup {Nobody}
      <3>1. callMu \in Callers \cup {Nobody} BY DEF TypeOK
      <3>2. f.t \in {"result", "error"} => f.re.no \in 0..MaxCalls BY <2>1, <2>2 DEF Answers, Requests
      <3> HIDE DEF f
      <3> QED BY <2>4, <2>5, <3>1, <3>2, GotoType, ReturnType
    <2>7. violations' \subseteq Ids BY <2>3, <2>5 DEF TypeOK
    <2> QED BY <1>12, <2>1, <2>6, <2>7 DEF Receive, TypeOK
  <1>13. ASSUME NEW c \in Callers, servePortCall(c) PROVE TypeOK'
    <2>2. call' \in [Callers -> CallStates] /\ callMu' \in Callers \cup {Nobody}
      BY <1>13, <1>o, ReturnType, GotoType DEF servePortCall, TypeOK
    <2>3. stdin' \in Seq(Requests \cup {Other}) BY <1>13, WriteType DEF servePortCall, TypeOK
    <2> QED BY <1>13, <2>2, <2>3 DEF servePortCall, TypeOK
  <1>14. ASSUME NEW c \in Callers, Refuse(c) PROVE TypeOK'
    <2>2. call' \in [Callers -> CallStates] /\ callMu' \in Callers \cup {Nobody}
      BY <1>14, <1>o, ReturnType DEF Refuse
    <2>3. stdin' \in Seq(Requests \cup {Other}) BY <1>14, WriteType DEF Refuse, TypeOK
    <2> QED BY <1>14, <2>2, <2>3 DEF Refuse, TypeOK
  <1>15. ASSUME NEW c \in Callers, kill(c) PROVE TypeOK'
    <2>1. call[c].outcome \in Outcomes BY DEF TypeOK, CallStates
    <2>2. CASE call[c].pc = "kill" /\ closed BY <1>15, <2>1, <2>2, ReturnType DEF kill, TypeOK
    <2>3. CASE call[c].pc = "kill" /\ ~closed BY <1>15, <2>3, <1>5, GotoType DEF kill, TypeOK
    <2>4. CASE call[c].pc = "killing" BY <1>15, <2>1, <2>4, KilledType, ReturnType DEF kill, TypeOK
    <2> QED BY <1>15, <2>2, <2>3, <2>4 DEF kill
  <1>16. CASE ExtensionReads
    <2>1. stdin \in Seq(Requests \cup {Other}) /\ stdin # <<>> BY <1>16 DEF ExtensionReads, TypeOK
    <2>2. Head(stdin) \in Requests \cup {Other} /\ Tail(stdin) \in Seq(Requests \cup {Other}) BY <2>1, HeadTail
    <2>4. (got \cup {Head(stdin)}) \ {Other} \subseteq Requests BY <2>2 DEF TypeOK
    <2> QED BY <1>16, <2>2, <2>4 DEF ExtensionReads, TypeOK
  <1>17. CASE ExtensionSends
    <2>1. PICK f \in [t : Answers, re : got] \cup [t : Others, re : {Other}] : stdout' = Append(stdout, f)
      BY <1>17 DEF ExtensionSends
    <2>2. f \in Frames BY DEF Frames, TypeOK
    <2>3. stdout' \in Seq(Frames) BY <2>1, <2>2 DEF TypeOK
    <2>4. sent' \in 0..MaxFrames BY <1>17, ExtHostAssumption DEF ExtensionSends, TypeOK
    <2> QED BY <1>17, <2>3, <2>4 DEF ExtensionSends, TypeOK
  <1>18. CASE ExtensionEnds
    <2>1. child' \in {"none", "running", "mute", "dead"} BY <1>18 DEF ExtensionEnds
    <2>2. <<>> \in Seq(Requests \cup {Other}) /\ stdin \in Seq(Requests \cup {Other}) BY DEF TypeOK
    <2>3. stdin' = <<>> \/ stdin' = stdin BY <1>18 DEF ExtensionEnds
    <2>4. stdin' \in Seq(Requests \cup {Other}) BY <2>2, <2>3
    <2> QED BY <1>18, <2>1, <2>4 DEF ExtensionEnds, TypeOK
  <1>19. CASE UNCHANGED vars BY <1>19 DEF vars, TypeOK
  <1> QED BY <1>1, <1>2, <1>3, <1>4, <1>6, <1>7, <1>8, <1>9, <1>10, <1>11, <1>12, <1>13, <1>14, <1>15, <1>16,
             <1>17, <1>18, <1>19 DEF Next, Main, CallStep

(***************************************************************************)
(* What a step does to the calls: nothing, or one of four changes to one.  *)
(***************************************************************************)

Queues(c) ==
  /\ call[c].pc = "idle" /\ call'[c] = [NoCall EXCEPT !.pc = "queue"]
  /\ nextID + Cardinality(Queue) < MaxCalls
  /\ callMu' = callMu /\ nextID' = nextID /\ calls' = calls /\ violations' = violations

Enters(c) ==
  /\ call[c].pc = "queue" /\ call'[c].pc = "send"
  /\ callMu = Nobody /\ callMu' = c
  /\ nextID' = nextID + 1 /\ call'[c].id = nextID + 1
  /\ calls' = calls + 1 /\ call'[c].no = calls + 1
  /\ call'[c].outcome = call[c].outcome /\ violations' = violations

Returns(c) ==
  /\ call[c].pc \in InCall \/ (call[c].pc = "queue" /\ callMu = Nobody)
  /\ call'[c].pc = "idle" /\ callMu' = Nobody
  /\ call'[c].id = call[c].id /\ nextID' = nextID /\ violations' = violations
  /\ call'[c].no = call[c].no /\ calls' = calls
  /\ call'[c].outcome = "result" => call[c].pc = "await" /\ call'[c].of = call[c].no

GoesOn(c) ==
  /\ call[c].pc \in InCall \ {"refuse"} /\ call'[c].pc \in InCall
  /\ call'[c].id = call[c].id /\ nextID' = nextID /\ callMu' = callMu
  /\ call'[c].no = call[c].no /\ calls' = calls
  /\ \/ call[c].pc \notin {"kill", "killing"} /\ call'[c].pc \notin {"kill", "killing"}
        /\ call'[c].outcome = call[c].outcome
     \/ call'[c].pc \in {"kill", "killing"} /\ call'[c].outcome \in {"timeout", "crashed"}
  /\ \/ violations' = violations
     \/ violations' = violations \cup {call[c].id} /\ call'[c].pc = "refuse"

OthersKeep(c) == \A d \in Callers : d # c => call'[d] = call[d]

Change(c) == (Queues(c) \/ Enters(c) \/ Returns(c) \/ GoesOn(c)) /\ OthersKeep(c)

NoChange == UNCHANGED <<call, callMu, nextID, calls, violations>>

(* The return of c, from a call under way or from the queue.               *)
MayReturn(c) == call[c].pc \in InCall \/ (call[c].pc = "queue" /\ callMu = Nobody)
MayGive(c, o, of) == o = "result" => call[c].pc = "await" /\ of = call[c].no

LEMMA Returning ==
  ASSUME TypeOK, NEW c \in Callers, NEW o, NEW of, Return(c, o, of), MayReturn(c), MayGive(c, o, of),
         nextID' = nextID, calls' = calls, violations' = violations
  PROVE  Change(c)
  <1>1. call \in [Callers -> CallStates] BY DEF TypeOK
  <1>2. call' = [call EXCEPT ![c] = [call[c] EXCEPT !.pc = "idle", !.expired = FALSE, !.outcome = o, !.of = of]]
    BY <1>1 DEF Return, CallStates
  <1>3. call'[c] = [call[c] EXCEPT !.pc = "idle", !.expired = FALSE, !.outcome = o, !.of = of]
    BY <1>1, <1>2
  <1>4. /\ call'[c].pc = "idle" /\ call'[c].id = call[c].id /\ call'[c].no = call[c].no /\ call'[c].outcome = o /\ call'[c].of = of
    BY <1>1, <1>3 DEF CallStates
  <1>5. OthersKeep(c) BY <1>1, <1>2 DEF OthersKeep
  <1>6. Returns(c) BY <1>4 DEF Returns, Return, MayReturn, MayGive
  <1> QED BY <1>5, <1>6 DEF Change

LEMMA Going ==
  ASSUME TypeOK, NoEarlyOutcome, NEW c \in Callers, NEW s \in InCall, Goto(c, s),
         call[c].pc \in InCall \ {"refuse"},
         call[c].pc \in {"kill", "killing"} <=> s \in {"kill", "killing"},
         nextID' = nextID, calls' = calls, callMu' = callMu,
         \/ violations' = violations
         \/ violations' = violations \cup {call[c].id} /\ s = "refuse"
  PROVE  Change(c)
  <1>1. call \in [Callers -> CallStates] BY DEF TypeOK
  <1>2. call'[c].pc = s /\ call'[c].id = call[c].id /\ call'[c].no = call[c].no /\ call'[c].outcome = call[c].outcome
    BY <1>1 DEF Goto, CallStates
  <1>3. OthersKeep(c) BY <1>1 DEF OthersKeep, Goto
  <1>4. GoesOn(c) BY <1>2 DEF GoesOn, NoEarlyOutcome
  <1> QED BY <1>3, <1>4 DEF Change

LEMMA StepChange ==
  ASSUME TypeOK, Numbered, Genuine, NoEarlyOutcome, [Next]_vars
  PROVE  NoChange \/ \E c \in Callers : Change(c)
  <1> USE DEF ids, host, pipes, extension
  <1>0. call \in [Callers -> CallStates] BY DEF TypeOK
  <1>1. CASE Start \/ handshake \/ Close \/ CloseStdin \/ Drain \/ DrainEnds
    BY <1>1 DEF Start, handshake, Close, CloseStdin, Drain, DrainEnds, NoChange
  <1>2. CASE killMain BY <1>2 DEF killMain, NoChange
  <1>3. CASE ExtensionReads \/ ExtensionSends \/ ExtensionEnds \/ UNCHANGED vars
    BY <1>3 DEF ExtensionReads, ExtensionSends, ExtensionEnds, vars, NoChange
  <1>4. ASSUME NEW c \in Callers, Call(c) PROVE Change(c)
    <2>1. call'[c] = [NoCall EXCEPT !.pc = "queue"] /\ OthersKeep(c) BY <1>0, <1>4 DEF Call, OthersKeep
    <2>2. Queues(c) BY <1>4, <2>1 DEF Call, Queues, Queue, Numbered
    <2> QED BY <2>1, <2>2 DEF Change
  <1>5. ASSUME NEW c \in Callers, Enter(c) PROVE Change(c)
    <2>1. CASE (Return(c, "closed", 0) \/ Return(c, "unknown", 0)) /\ UNCHANGED ids
      BY <1>5, <2>1, Returning DEF Enter, MayReturn, MayGive
    <2>2. CASE nextID' = nextID + 1 /\ calls' = calls + 1 /\ callMu' = c
               /\ call' = [call EXCEPT ![c].pc = "send", ![c].id = nextID', ![c].no = calls + 1]
      <3>1. call'[c].pc = "send" /\ call'[c].id = nextID + 1 /\ call'[c].no = calls + 1 /\ call'[c].outcome = call[c].outcome
        BY <1>0, <2>2 DEF CallStates
      <3>2. OthersKeep(c) BY <1>0, <2>2 DEF OthersKeep
      <3>3. Enters(c) BY <1>5, <2>2, <3>1 DEF Enter, Enters
      <3> QED BY <3>2, <3>3 DEF Change
    <2> QED BY <1>5, <2>1, <2>2 DEF Enter, NewID
  <1>6. ASSUME NEW c \in Callers, Send(c) \/ servePortCall(c) PROVE Change(c)
    <2>1. call[c].pc \in {"send", "serve"} /\ nextID' = nextID /\ calls' = calls /\ violations' = violations
      BY <1>6 DEF Send, servePortCall
    <2>2. CASE Goto(c, "await") /\ UNCHANGED callMu BY <2>1, <2>2, Going DEF InCall
    <2>3. MayReturn(c) /\ MayGive(c, "crashed", 0) BY <2>1 DEF InCall, MayReturn, MayGive
    <2>4. CASE Return(c, "crashed", 0) BY <2>1, <2>3, <2>4, Returning
    <2> QED BY <1>6, <2>2, <2>4 DEF Send, servePortCall
  <1>7. ASSUME NEW c \in Callers, Expire(c) PROVE Change(c)
    <2>1. /\ call'[c].pc = call[c].pc /\ call'[c].id = call[c].id /\ call'[c].no = call[c].no /\ call'[c].outcome = call[c].outcome
      BY <1>0, <1>7 DEF Expire, CallStates
    <2>2. OthersKeep(c) BY <1>0, <1>7 DEF Expire, OthersKeep
    <2>3. GoesOn(c) BY <1>7, <2>1 DEF Expire, GoesOn, InCall
    <2> QED BY <2>2, <2>3 DEF Change
  <1>8. ASSUME NEW c \in Callers, TimesOut(c) \/ CallStreamEnds(c) PROVE Change(c)
    <2>1. PICK o \in {"timeout", "crashed"} : call' = [call EXCEPT ![c].pc = "kill", ![c].outcome = o]
      BY <1>8 DEF TimesOut, CallStreamEnds
    <2>2. call'[c].pc = "kill" /\ call'[c].id = call[c].id /\ call'[c].no = call[c].no /\ call'[c].outcome = o
      BY <1>0, <2>1 DEF CallStates
    <2>3. OthersKeep(c) BY <1>0, <2>1 DEF OthersKeep
    <2>4. GoesOn(c) BY <1>8, <2>2 DEF TimesOut, CallStreamEnds, GoesOn, InCall
    <2> QED BY <2>3, <2>4 DEF Change
  <1>9. ASSUME NEW c \in Callers, Receive(c) PROVE Change(c)
    <2> DEFINE f == Head(stdout)
    <2>1. call[c].pc = "await" /\ nextID' = nextID /\ calls' = calls BY <1>9 DEF Receive
    <2>2. \/ Goto(c, "serve") /\ UNCHANGED <<violations, callMu>>
          \/ violations' = violations \cup {call[c].id} /\ Goto(c, "refuse") /\ UNCHANGED callMu
          \/ Return(c, CheckResult(c, f), f.re.no) /\ UNCHANGED violations
          \/ Return(c, "error", f.re.no) /\ UNCHANGED violations
          \/ Return(c, "protocol", 0) /\ UNCHANGED violations
      BY <1>9 DEF Receive
    <2>3. CheckResult(c, f) = "result" => f.re.no = call[c].no
      <3>1. stdout \in Seq(SoundFrames) /\ stdout # <<>> /\ call[c].id = call[c].no BY <1>9 DEF Receive, HasFrame, Genuine
      <3>2. f.re.id = f.re.no BY <3>1, HeadTail DEF SoundFrames
      <3> QED BY <3>1, <3>2 DEF CheckResult
    <2> HIDE DEF f
    <2>4. CASE Goto(c, "serve") /\ UNCHANGED <<violations, callMu>> BY <2>1, <2>4, Going DEF InCall
    <2>5. CASE violations' = violations \cup {call[c].id} /\ Goto(c, "refuse") /\ UNCHANGED callMu
      BY <2>1, <2>5, Going DEF InCall
    <2>9. MayReturn(c) BY <2>1 DEF InCall, MayReturn
    <2>6. CASE Return(c, CheckResult(c, f), f.re.no) /\ UNCHANGED violations
      <3>1. MayGive(c, CheckResult(c, f), f.re.no) BY <2>1, <2>3 DEF MayGive
      <3> QED BY <2>1, <2>9, <2>6, <3>1, Returning
    <2>7. CASE (Return(c, "error", f.re.no) \/ Return(c, "protocol", 0)) /\ UNCHANGED violations
      <3>1. MayGive(c, "error", f.re.no) /\ MayGive(c, "protocol", 0) BY DEF MayGive
      <3> QED BY <2>1, <2>9, <2>7, <3>1, Returning
    <2>8. \/ Goto(c, "serve") /\ UNCHANGED <<violations, callMu>>
          \/ violations' = violations \cup {call[c].id} /\ Goto(c, "refuse") /\ UNCHANGED callMu
          \/ Return(c, CheckResult(c, f), f.re.no) /\ UNCHANGED violations
          \/ (Return(c, "error", f.re.no) \/ Return(c, "protocol", 0)) /\ UNCHANGED violations
      BY <2>2 DEF f
    <2> QED BY <2>4, <2>5, <2>6, <2>7, <2>8
  <1>10. ASSUME NEW c \in Callers, Refuse(c) PROVE Change(c) BY <1>10, Returning DEF Refuse, InCall, MayReturn, MayGive
  <1>11. ASSUME NEW c \in Callers, kill(c) PROVE Change(c)
    <2>1. call[c].pc \in {"kill", "killing"} /\ nextID' = nextID /\ calls' = calls /\ violations' = violations
      BY <1>11 DEF kill
    <2>2. call[c].outcome # "result" BY <2>1 DEF NoEarlyOutcome
    <2>3. MayReturn(c) /\ MayGive(c, call[c].outcome, 0) BY <2>1, <2>2 DEF InCall, MayReturn, MayGive
    <2>4. CASE Return(c, call[c].outcome, 0) BY <2>1, <2>3, <2>4, Returning
    <2>5. CASE Goto(c, "killing") /\ UNCHANGED callMu BY <2>1, <2>5, Going DEF InCall
    <2> QED BY <1>11, <2>4, <2>5 DEF kill
  <1> QED BY <1>1, <1>2, <1>3, <1>4, <1>5, <1>6, <1>7, <1>8, <1>9, <1>10, <1>11 DEF Next, Main, CallStep

(***************************************************************************)
(* The invariant is inductive.                                             *)
(***************************************************************************)

LEMMA NumberedStep ==
  ASSUME TypeOK, Numbered, NoChange \/ \E c \in Callers : Change(c)
  PROVE  Numbered'
  <1>1. CASE NoChange
    <2>1. Queue' \subseteq Queue /\ nextID' = nextID /\ calls' = calls BY <1>1 DEF NoChange, Queue
    <2> QED BY <2>1, NumberedFrame
  <1>2. ASSUME NEW c \in Callers, Change(c) PROVE Numbered'
    <2>1. CASE Queues(c)
      <3>1. Queue' \subseteq Queue \cup {c} BY <1>2 DEF Change, OthersKeep, Queue
      <3>2. nextID + Cardinality(Queue) < MaxCalls /\ nextID' = nextID /\ calls' = calls BY <2>1 DEF Queues
      <3> QED BY <3>1, <3>2, NumberedQueued
    <2>2. CASE Enters(c)
      <3>1. call'[c].pc # "queue" /\ call[c].pc = "queue" /\ nextID' = nextID + 1 /\ calls' = calls + 1 BY <2>2 DEF Enters
      <3>2. Queue' \subseteq Queue \ {c} BY <1>2, <3>1 DEF Change, OthersKeep, Queue
      <3> QED BY <3>1, <3>2, NumberedEntered
    <2>3. CASE Returns(c) \/ GoesOn(c)
      <3>1. call'[c].pc # "queue" /\ nextID' = nextID /\ calls' = calls BY <2>3 DEF Returns, GoesOn, InCall
      <3>2. Queue' \subseteq Queue BY <1>2, <3>1 DEF Change, OthersKeep, Queue
      <3> QED BY <3>1, <3>2, NumberedFrame
    <2> QED BY <1>2, <2>1, <2>2, <2>3 DEF Change
  <1> QED BY <1>1, <1>2

LEMMA ClosedOnceStep == TypeOK /\ ClosedOnce /\ [Next]_vars => ClosedOnce'
  <1> SUFFICES ASSUME TypeOK, ClosedOnce, [Next]_vars PROVE ClosedOnce' OBVIOUS
  <1>1. \/ UNCHANGED <<closed, done>>
        \/ ~closed /\ MarkClosed
    BY DEF Next, Main, CallStep, Start, handshake, Close, CloseStdin, Drain, DrainEnds, killMain, Call, Enter, Send,
           Expire, TimesOut, CallStreamEnds, Receive, servePortCall, Refuse, kill, ExtensionReads, ExtensionSends,
           ExtensionEnds, vars, host, ids
  <1> QED BY <1>1 DEF ClosedOnce, MarkClosed

(* What is written is the request of the call that holds callMu, and the   *)
(* extension answers what it has read.                                     *)
LEMMA GenuineStep ==
  ASSUME TypeOK, Numbered, Genuine, OneAtATime, [Next]_vars, NoChange \/ \E c \in Callers : Change(c)
  PROVE  Genuine'
  <1> USE DEF ids, host, pipes, extension
  <1>0. Other \in Sound BY DEF Sound, Other
  <1>1. \A c \in Callers : call'[c].id = call'[c].no
    <2>1. CASE NoChange BY <2>1 DEF NoChange, Genuine
    <2>2. ASSUME NEW c \in Callers, Change(c) PROVE \A d \in Callers : call'[d].id = call'[d].no
      <3>1. call'[c].id = call'[c].no BY <2>2 DEF Change, Queues, Enters, Returns, GoesOn, Genuine, Numbered, NoCall
      <3> QED BY <2>2, <3>1 DEF Change, OthersKeep, Genuine
    <2> QED BY <2>1, <2>2
  <1>2. stdin \in Seq(Sound) /\ got \subseteq Sound /\ stdout \in Seq(SoundFrames) BY DEF Genuine
  <1>3. ASSUME Killed PROVE stdin' \in Seq(Sound) /\ stdout' \in Seq(SoundFrames)
    <2>1. PICK n \in 0..Len(stdout) : stdout' = SubSeq(stdout, 1, n) BY <1>3 DEF Killed
    <2>2. \A i \in 1..n : stdout[i] \in SoundFrames BY <1>2, <2>1
    <2>3. SubSeq(stdout, 1, n) \in Seq(SoundFrames) BY <1>2, <2>1, <2>2
    <2> QED BY <1>3, <2>1, <2>3 DEF Killed
  <1>4. ASSUME HasFrame PROVE Tail(stdout) \in Seq(SoundFrames) BY <1>2, <1>4, HeadTail DEF HasFrame
  <1>5. ASSUME NEW q \in Sound, WriteFrame(q) PROVE stdin' \in Seq(Sound) BY <1>2, <1>5 DEF WriteFrame
  <1>6. stdin' \in Seq(Sound)
    <2>1. CASE Start \/ \E c \in Callers : servePortCall(c) \/ Refuse(c)
      BY <1>0, <1>2, <1>5, <2>1 DEF Start, servePortCall, Refuse
    <2>2. ASSUME NEW c \in Callers, Send(c) PROVE stdin' \in Seq(Sound)
      <3>1. call[c].id \in 0..MaxCalls /\ call[c].id > 0 /\ call[c].no = call[c].id
        BY <2>2 DEF Send, OneAtATime, InCall, TypeOK, CallStates, Genuine
      <3>2. [id |-> call[c].id, no |-> call[c].no] \in Sound
        BY <3>1, ExtHostAssumption DEF Sound, Requests, Ids
      <3> QED BY <1>2, <1>5, <2>2, <3>2 DEF Send
    <2>3. CASE ExtensionReads BY <1>2, <2>3, HeadTail DEF ExtensionReads
    <2>4. CASE ExtensionEnds BY <1>2, <2>4 DEF ExtensionEnds
    <2>5. CASE killMain BY <1>2, <1>3, <2>5 DEF killMain
    <2>6. ASSUME NEW c \in Callers, kill(c) PROVE stdin' \in Seq(Sound) BY <1>2, <1>3, <2>6 DEF kill
    <2>7. CASE UNCHANGED stdin BY <1>2, <2>7
    <2> QED BY <2>1, <2>2, <2>3, <2>4, <2>5, <2>6, <2>7
        DEF Next, Main, CallStep, handshake, Close, CloseStdin, Drain, DrainEnds, Call, Enter, Expire, TimesOut,
            CallStreamEnds, Receive, ExtensionSends, vars
  <1>7. stdout' \in Seq(SoundFrames)
    <2>1. CASE handshake \/ Drain \/ \E c \in Callers : Receive(c)
      BY <1>2, <1>4, <2>1 DEF handshake, Drain, Receive
    <2>2. CASE ExtensionSends
      <3>1. PICK f \in [t : Answers, re : got] \cup [t : Others, re : {Other}] : stdout' = Append(stdout, f)
        BY <2>2 DEF ExtensionSends
      <3>2. f \in Frames BY DEF Frames, TypeOK
      <3>3. f.re \in Sound BY <1>0, <1>2
      <3>4. f \in SoundFrames BY <3>2, <3>3 DEF SoundFrames, Sound
      <3> QED BY <1>2, <3>1, <3>4
    <2>3. CASE killMain BY <1>2, <1>3, <2>3 DEF killMain
    <2>4. ASSUME NEW c \in Callers, kill(c) PROVE stdout' \in Seq(SoundFrames) BY <1>2, <1>3, <2>4 DEF kill
    <2>5. CASE UNCHANGED stdout BY <1>2, <2>5
    <2> QED BY <2>1, <2>2, <2>3, <2>4, <2>5
        DEF Next, Main, CallStep, Start, Close, CloseStdin, DrainEnds, Call, Enter, Send, Expire, TimesOut,
            CallStreamEnds, servePortCall, Refuse, ExtensionReads, ExtensionEnds, vars
  <1>8. got' \subseteq Sound
    <2>1. CASE ExtensionReads
      <3>1. Head(stdin) \in Sound BY <1>2, <2>1, HeadTail DEF ExtensionReads
      <3> QED BY <1>2, <2>1, <3>1 DEF ExtensionReads
    <2>2. CASE UNCHANGED got BY <1>2, <2>2
    <2> QED BY <2>1, <2>2
        DEF Next, Main, CallStep, Start, handshake, Close, CloseStdin, Drain, DrainEnds, killMain, Call, Enter, Send,
            Expire, TimesOut, CallStreamEnds, Receive, servePortCall, Refuse, kill, ExtensionSends, ExtensionEnds, vars
  <1> QED BY <1>1, <1>6, <1>7, <1>8 DEF Genuine

LEMMA OneAtATimeStep ==
  ASSUME TypeOK, OneAtATime, NoEarlyOutcome, NoChange \/ \E c \in Callers : Change(c)
  PROVE  OneAtATime'
  <1>0. /\ nextID \in Nat /\ violations \subseteq Nat /\ Nobody \notin Callers
        /\ \A c \in Callers : call[c].id \in Nat
    BY ExtHostAssumption DEF TypeOK, CallStates, Ids, Nobody
  <1>1. CASE NoChange BY <1>1 DEF NoChange, OneAtATime
  <1>2. ASSUME NEW c \in Callers, Change(c) PROVE OneAtATime'
    <2>1. \A d \in Callers : d # c => call'[d] = call[d] BY <1>2 DEF Change, OthersKeep
    <2>2. CASE Queues(c)
      <3>1. call'[c].pc = "queue" /\ call'[c].id = 0 BY <2>2 DEF Queues, NoCall
      <3>2. callMu' = callMu /\ nextID' = nextID /\ violations' = violations BY <2>2 DEF Queues
      <3>3. \A d, e \in Callers : d # e /\ call'[d].id = call'[e].id => call'[d].id = 0
        BY <2>1, <3>1 DEF OneAtATime
      <3>4. \A d \in Callers : call'[d].pc \in InCall => callMu = d /\ call'[d].id = nextID /\ nextID > 0
        BY <2>1, <3>1 DEF OneAtATime, InCall
      <3>5. \A d \in Callers : call'[d].id <= nextID BY <1>0, <2>1, <3>1 DEF OneAtATime
      <3> QED BY <3>2, <3>3, <3>4, <3>5 DEF OneAtATime
    <2>3. CASE Enters(c)
      <3>1. \A d \in Callers : call[d].pc \notin InCall BY <1>0, <2>3 DEF Enters, OneAtATime
      <3> QED BY <1>0, <2>1, <2>3, <3>1 DEF Enters, OneAtATime
    <2>4. CASE Returns(c)
      <3>1. \A d \in Callers : d # c => call[d].pc \notin InCall BY <1>0, <2>4 DEF Returns, OneAtATime
      <3> QED BY <1>0, <2>1, <2>4, <3>1 DEF Returns, OneAtATime, InCall
    <2>5. CASE GoesOn(c)
      <3>1. callMu = c /\ call[c].id = nextID /\ nextID > 0 BY <2>5 DEF GoesOn, OneAtATime
      <3>2. \A v \in violations' : v <= nextID BY <1>0, <2>5, <3>1 DEF GoesOn, OneAtATime
      <3> QED BY <1>0, <2>1, <2>5, <3>1, <3>2 DEF GoesOn, OneAtATime
    <2> QED BY <1>2, <2>2, <2>3, <2>4, <2>5 DEF Change
  <1> QED BY <1>1, <1>2

LEMMA NoEarlyOutcomeStep ==
  ASSUME TypeOK, NoEarlyOutcome, NoChange \/ \E c \in Callers : Change(c)
  PROVE  NoEarlyOutcome'
  <1>1. CASE NoChange BY <1>1 DEF NoChange, NoEarlyOutcome
  <1>2. ASSUME NEW c \in Callers, Change(c) PROVE NoEarlyOutcome'
    <2>1. \A d \in Callers : d # c => call'[d] = call[d] BY <1>2 DEF Change, OthersKeep
    <2>2. CASE Queues(c)
      <3>1. call'[c].pc = "queue" /\ call'[c].outcome = "none" BY <2>2 DEF Queues, NoCall
      <3> QED BY <2>1, <3>1 DEF NoEarlyOutcome
    <2>3. CASE Enters(c) BY <2>1, <2>3 DEF Enters, NoEarlyOutcome
    <2>4. CASE Returns(c) BY <2>1, <2>4 DEF Returns, NoEarlyOutcome
    <2>5. CASE GoesOn(c) BY <2>1, <2>5 DEF GoesOn, NoEarlyOutcome, InCall
    <2> QED BY <1>2, <2>2, <2>3, <2>4, <2>5 DEF Change
  <1> QED BY <1>1, <1>2

LEMMA RefusedStep ==
  ASSUME TypeOK, OneAtATime, Refused, NoChange \/ \E c \in Callers : Change(c)
  PROVE  Refused'
  <1>0. /\ nextID \in Nat /\ violations \subseteq Nat /\ Nobody \notin Callers
    BY ExtHostAssumption DEF TypeOK, Ids, Nobody
  <1>1. CASE NoChange BY <1>1 DEF NoChange, Refused
  <1>2. ASSUME NEW c \in Callers, Change(c) PROVE Refused'
    <2>1. \A d \in Callers : d # c => call'[d] = call[d] BY <1>2 DEF Change, OthersKeep
    <2>2. CASE Queues(c)
      <3>1. call'[c].pc = "queue" BY <2>2 DEF Queues, NoCall
      <3> QED BY <2>1, <2>2, <3>1 DEF Queues, Refused, InCall
    <2>3. CASE Enters(c)
      <3>1. call'[c].id \notin violations BY <1>0, <2>3 DEF Enters, OneAtATime
      <3> QED BY <2>1, <2>3, <3>1 DEF Enters, Refused
    <2>4. CASE Returns(c) BY <2>1, <2>4 DEF Returns, Refused, InCall
    <2>5. CASE GoesOn(c)
      <3>1. \A d \in Callers : d # c => call[d].pc \notin InCall BY <2>5 DEF GoesOn, OneAtATime
      <3> QED BY <2>1, <2>5, <3>1 DEF GoesOn, Refused
    <2> QED BY <1>2, <2>2, <2>3, <2>4, <2>5 DEF Change
  <1> QED BY <1>1, <1>2

LEMMA ResultsStep ==
  ASSUME TypeOK, OneAtATime, NoEarlyOutcome, Refused, Correlated, FailsClosed,
         NoChange \/ \E c \in Callers : Change(c)
  PROVE  Correlated' /\ FailsClosed'
  <1>1. CASE NoChange BY <1>1 DEF NoChange, Correlated, FailsClosed
  <1>2. ASSUME NEW c \in Callers, Change(c) PROVE Correlated' /\ FailsClosed'
    <2>1. \A d \in Callers : d # c => call'[d] = call[d] BY <1>2 DEF Change, OthersKeep
    <2>2. CASE Queues(c)
      <3>1. call'[c].outcome = "none" BY <2>2 DEF Queues, NoCall
      <3> QED BY <2>1, <2>2, <3>1 DEF Queues, Correlated, FailsClosed
    <2>3. CASE Enters(c)
      <3>1. call'[c].outcome = "none" BY <2>3 DEF Enters, NoEarlyOutcome
      <3> QED BY <2>1, <2>3, <3>1 DEF Enters, Correlated, FailsClosed
    <2>4. CASE Returns(c)
      <3>1. call'[c].outcome = "result" => call[c].id \notin violations BY <2>4 DEF Returns, Refused, InCall
      <3> QED BY <2>1, <2>4, <3>1 DEF Returns, Correlated, FailsClosed
    <2>5. CASE GoesOn(c)
      <3>1. call'[c].outcome # "result" BY <2>5 DEF GoesOn, NoEarlyOutcome, InCall
      <3>2. call[c].id # 0 BY <2>5 DEF GoesOn, OneAtATime
      <3>3. \A d \in Callers : d # c => call[d].id # call[c].id BY <3>2 DEF OneAtATime
      <3> QED BY <2>1, <2>5, <3>1, <3>3 DEF GoesOn, Correlated, FailsClosed
    <2> QED BY <1>2, <2>2, <2>3, <2>4, <2>5 DEF Change
  <1> QED BY <1>1, <1>2

LEMMA ExtHostInit == Init => ExtHostInv
  <1> SUFFICES ASSUME Init PROVE ExtHostInv OBVIOUS
  <1>1. TypeOK BY ExtHostTypeInit
  <1>2. \A c \in Callers : call[c].pc = "idle" /\ call[c].id = 0 /\ call[c].outcome = "none"
    BY DEF Init, NoCall
  <1>3. Numbered
    <2>1. Queue = {} BY <1>2 DEF Queue
    <2>2. Cardinality(Queue) = 0 BY <2>1, FS_EmptySet
    <2> QED BY <2>2, ExtHostAssumption DEF Numbered, Init
  <1>4. Genuine
    <2>1. <<>> \in Seq(Sound) /\ <<>> \in Seq(SoundFrames) OBVIOUS
    <2> QED BY <2>1 DEF Init, NoCall, Genuine
  <1> QED BY <1>1, <1>2, <1>3, <1>4 DEF Init, ExtHostInv, ClosedOnce, OneAtATime, NoEarlyOutcome, Refused, Correlated,
                                  FailsClosed, InCall

LEMMA ExtHostStep == ExtHostInv /\ [Next]_vars => ExtHostInv'
  <1> SUFFICES ASSUME ExtHostInv, [Next]_vars PROVE ExtHostInv' OBVIOUS
  <1>1. TypeOK /\ Numbered /\ Genuine /\ ClosedOnce /\ OneAtATime /\ NoEarlyOutcome /\ Refused /\ Correlated /\ FailsClosed
    BY DEF ExtHostInv
  <1>2. NoChange \/ \E c \in Callers : Change(c) BY <1>1, StepChange
  <1> QED BY <1>1, <1>2, ExtHostTypeStep, NumberedStep, GenuineStep, ClosedOnceStep, OneAtATimeStep, NoEarlyOutcomeStep,
             RefusedStep, ResultsStep DEF ExtHostInv

(* Every variable keeps its type: above all, done is closed once, by       *)
(* whichever of Call and Close finds closed unset.                         *)
THEOREM ExtHostTypeCorrect == Spec => []TypeOK
  <1>1. ExtHostInv => TypeOK BY DEF ExtHostInv
  <1> QED BY <1>1, ExtHostInit, ExtHostStep, PTL DEF Spec

(* Whatever the extension sends, late, twice or out of order, and whoever  *)
(* calls, a result is the answer to the request of the call that returns   *)
(* it: no two requests ever have one id.                                   *)
THEOREM ExtHostCorrelated == Spec => []Correlated
  <1>1. ExtHostInv => Correlated BY DEF ExtHostInv
  <1> QED BY <1>1, ExtHostInit, ExtHostStep, PTL DEF Spec

(* No call returns a result once the extension has reached, during it, for *)
(* a port that it did not declare.                                         *)
THEOREM ExtHostFailsClosed == Spec => []FailsClosed
  <1>1. ExtHostInv => FailsClosed BY DEF ExtHostInv
  <1> QED BY <1>1, ExtHostInit, ExtHostStep, PTL DEF Spec
=============================================================================
