-------------------------- MODULE McpSessionProofs --------------------------
(***************************************************************************)
(* A session serves what it bound last, keeps it open under a tool call,   *)
(* and closes every runtime once.                                          *)
(***************************************************************************)
EXTENDS McpSession, FiniteSetTheorems, TLAPS

(***************************************************************************)
(* The inductive invariant.                                                *)
(***************************************************************************)

UsedSet == {a \in Attempts : attempts[a].pc # "unused"}
Binding == {h \in Handlers : handler[h].pc = "bind"}

(* Attempts are numbered as they start, and there is one for each handler  *)
(* that is about to start one.                                             *)
Numbered == UsedSet = 1..Used /\ Used + Cardinality(Binding) <= MaxAttempts

(* What holds a runtime is about to close it.                              *)
Holds ==
  /\ \A a \in Attempts : attempts[a].old # {} => attempts[a].pc = "finish"
  /\ \A h \in Handlers : handler[h].old # {} => handler[h].pc = "cleanup"

(* No two of them hold the same one...                                     *)
Apart ==
  /\ \A a, b \in Attempts : a # b => attempts[a].old \cap attempts[b].old = {}
  /\ \A g, h \in Handlers : g # h => handler[g].old \cap handler[h].old = {}
  /\ \A a \in Attempts, h \in Handlers : attempts[a].old \cap handler[h].old = {}
  /\ \A a \in Attempts : srv.cleanup \notin attempts[a].old
  /\ \A h \in Handlers : srv.cleanup \notin handler[h].old
  /\ \A r \in Attempts : attempts[r].pc = "publish" =>
       /\ srv.cleanup # r
       /\ \A a \in Attempts : r \notin attempts[a].old
       /\ \A h \in Handlers : r \notin handler[h].old

(* ...and the open ones are those that something holds.                    *)
Held(r) ==
  \/ \E a \in Attempts : r \in attempts[a].old
  \/ \E h \in Handlers : r \in handler[h].old
  \/ srv.cleanup = r \/ attempts[r].pc = "publish"
Covered == \A r \in Attempts : r \in opened <=> Held(r)

(* A runtime is open only after its binder returned.                       *)
NotYet == \A a \in Attempts : attempts[a].pc \in {"unused", "join", "binder"} => a \notin opened

(* A tool call has a runtime, and it is the bound one.                     *)
Calls == \A h \in Handlers : handler[h].pc = "call" => handler[h].on = srv.bound /\ srv.bound # None

Ownership == Holds /\ Apart /\ Covered /\ NotYet /\ Calls /\ ServesCurrent

SessionInv == TypeOK /\ Numbered /\ Ownership

(***************************************************************************)
(* Facts about the parts of the model.                                     *)
(***************************************************************************)

LEMMA FiniteHandlers == IsFiniteSet(Handlers)
  BY SessionAssumption, FS_Singleton, FS_Union DEF Handlers

LEMMA FiniteAttempts == IsFiniteSet(Attempts) /\ Cardinality(Attempts) = MaxAttempts
  BY SessionAssumption, FS_Interval DEF Attempts

LEMMA UsedNat == IsFiniteSet(UsedSet) /\ Used \in Nat /\ Used = Cardinality(UsedSet)
  BY FiniteAttempts, FS_Subset, FS_CardinalityType DEF UsedSet, Used

LEMMA BindingNat == IsFiniteSet(Binding) /\ Cardinality(Binding) \in Nat
  BY FiniteHandlers, FS_Subset, FS_CardinalityType DEF Binding

(* A handler that starts an attempt finds a number for it that is new.     *)
LEMMA NextAttempt ==
  ASSUME Numbered, NEW h \in Handlers, handler[h].pc = "bind"
  PROVE  Used + 1 \in Attempts /\ attempts[Used + 1].pc = "unused"
  <1>1. h \in Binding BY DEF Binding
  <1>2. Cardinality(Binding) # 0 BY <1>1, BindingNat, FS_EmptySet
  <1>3. Used + 1 \in Attempts BY <1>2, BindingNat, UsedNat, SessionAssumption DEF Numbered, Attempts
  <1>4. Used + 1 \notin 1..Used BY UsedNat
  <1> QED BY <1>3, <1>4 DEF Numbered, UsedSet

(* A step that starts no attempt and lets no handler start one.            *)
LEMMA NumberedFrame ==
  ASSUME Numbered, UsedSet' = UsedSet, Binding' \subseteq Binding
  PROVE  Numbered'
  <1>1. Used' = Used BY DEF UsedSet, Used
  <1>2. IsFiniteSet(Binding') /\ Cardinality(Binding') <= Cardinality(Binding)
    BY BindingNat, FS_Subset
  <1>3. Cardinality(Binding') \in Nat BY <1>2, FS_CardinalityType
  <1> QED BY <1>1, <1>2, <1>3, BindingNat, UsedNat, SessionAssumption DEF Numbered

(* Room is what one more handler needs.                                    *)
LEMMA NumberedRoom ==
  ASSUME Numbered, Room, UsedSet' = UsedSet, NEW h \in Handlers, Binding' \subseteq Binding \cup {h}
  PROVE  Numbered'
  <1>1. Used' = Used BY DEF UsedSet, Used
  <1>2. IsFiniteSet(Binding \cup {h}) /\ Cardinality(Binding \cup {h}) <= Cardinality(Binding) + 1
    BY BindingNat, FS_AddElement
  <1>3. IsFiniteSet(Binding') /\ Cardinality(Binding') <= Cardinality(Binding \cup {h})
    BY <1>2, FS_Subset
  <1>4. Cardinality(Binding') \in Nat /\ Cardinality(Binding \cup {h}) \in Nat
    BY <1>2, <1>3, FS_CardinalityType
  <1> QED BY <1>1, <1>2, <1>3, <1>4, BindingNat, UsedNat, SessionAssumption DEF Numbered, Room, Binding

(* A handler that starts an attempt is no longer about to.                 *)
LEMMA NumberedStart ==
  ASSUME Numbered, NEW h \in Handlers, handler[h].pc = "bind",
         UsedSet' = UsedSet \cup {Used + 1}, Binding' \subseteq Binding \ {h}
  PROVE  Numbered'
  <1>1. Used + 1 \notin UsedSet BY NextAttempt DEF UsedSet
  <1>2. Used' = Cardinality(UsedSet') BY DEF Used, UsedSet
  <1>3. Used' = Used + 1 BY <1>1, <1>2, UsedNat, FS_AddElement
  <1>4. 1..(Used + 1) = 1..Used \cup {Used + 1} BY UsedNat
  <1>5. h \in Binding BY DEF Binding
  <1>6. IsFiniteSet(Binding \ {h}) /\ Cardinality(Binding \ {h}) = Cardinality(Binding) - 1
    BY <1>5, BindingNat, FS_RemoveElement
  <1>7. IsFiniteSet(Binding') /\ Cardinality(Binding') <= Cardinality(Binding \ {h})
    BY <1>6, FS_Subset
  <1>8. Cardinality(Binding') \in Nat BY <1>7, FS_CardinalityType
  <1> QED BY <1>3, <1>4, <1>6, <1>7, <1>8, BindingNat, UsedNat, SessionAssumption DEF Numbered

(***************************************************************************)
(* Types.                                                                  *)
(***************************************************************************)

LEMMA Numbers ==
  /\ 0 \in 0..MaxAttempts /\ 0 \in 0..MaxChanges /\ 0 \in 0..MaxAsks
  /\ Attempts \subseteq 0..MaxAttempts /\ \A n \in 0..MaxAttempts : n # 0 => n \in Attempts
  BY SessionAssumption DEF Attempts

LEMMA SessionTypeInit == Init => TypeOK
  <1>1. "stdio" \in Handlers BY DEF Handlers
  <1> QED BY <1>1, Numbers DEF Init, TypeOK, None, Unused, Idle, ServerStates, AttemptStates, HandlerStates

LEMMA CancelType ==
  ASSUME TypeOK, NEW S, Cancel(S)
  PROVE  attempts' \in [Attempts -> AttemptStates]
  <1>1. ASSUME NEW a \in Attempts PROVE [attempts[a] EXCEPT !.cancelled = TRUE] \in AttemptStates
    <2>1. attempts[a] \in AttemptStates BY DEF TypeOK
    <2> QED BY <2>1 DEF AttemptStates
  <1> QED BY <1>1 DEF TypeOK, Cancel

(* Answering changes the handler and cancels attempts.                     *)
LEMMA ReturnType ==
  ASSUME TypeOK, NEW h \in Handlers, Return(h)
  PROVE  handler' \in [Handlers -> HandlerStates] /\ attempts' \in [Attempts -> AttemptStates]
  <1>1. handler' \in [Handlers -> HandlerStates] BY Numbers DEF TypeOK, Return, Idle, None, HandlerStates
  <1>2. attempts' \in [Attempts -> AttemptStates] BY CancelType DEF Return
  <1> QED BY <1>1, <1>2

LEMMA SessionTypeStep == TypeOK /\ Numbered /\ [Next]_vars => TypeOK'
  <1> SUFFICES ASSUME TypeOK, Numbered, [Next]_vars PROVE TypeOK' OBVIOUS
  <1>s. "stdio" \in Handlers BY DEF Handlers
  <1>c. Owned(srv.cleanup) \in SUBSET Attempts BY Numbers DEF TypeOK, ServerStates, Owned, None
  <1> USE <1>s, <1>c, Numbers DEF TypeOK, None, Idle, Unused, Step
  <1>1. ASSUME NEW h \in Handlers, Request(h) PROVE TypeOK'
    <2>1. ASSUME NEW supplied \in BOOLEAN, NEW rootsCapable \in BOOLEAN, initialize(h, supplied, rootsCapable)
          PROVE  TypeOK'
      BY <2>1 DEF initialize, ServerStates, HandlerStates
    <2>2. CASE requestRootsIfNeeded(h)
      <3>1. srv.rootsRequestID + 1 \in 0..MaxAsks /\ srv.rootsRequestID + 1 \in 1..MaxAsks
        BY <2>2, SessionAssumption DEF requestRootsIfNeeded, ServerStates
      <3>2. srv' \in ServerStates BY <2>2, <3>1 DEF requestRootsIfNeeded, ServerStates
      <3>3. asked' \subseteq 1..MaxAsks BY <2>2, <3>1 DEF requestRootsIfNeeded, ServerStates
      <3> QED BY <2>2, <3>2, <3>3 DEF requestRootsIfNeeded
    <2>3. CASE invalidateRootsChanged(h)
      <3>1. srv.bindGen + 1 \in 0..MaxChanges
        BY <2>3, SessionAssumption DEF invalidateRootsChanged, ServerStates
      <3>2. srv' \in ServerStates BY <2>3, <3>1 DEF invalidateRootsChanged, ServerStates
      <3>3. srv.bindCancel \in 0..MaxAttempts BY DEF ServerStates
      <3>4. handler' \in [Handlers -> HandlerStates] BY <2>3, <3>3 DEF invalidateRootsChanged, HandlerStates
      <3> QED BY <2>3, <3>2, <3>4 DEF invalidateRootsChanged
    <2>4. CASE ToolsCall(h)
      <3>1. srv.bound \in 0..MaxAttempts BY DEF ServerStates
      <3> QED BY <2>4, <3>1 DEF ToolsCall, HandlerStates
    <2>5. CASE ToolsList(h) BY <2>5 DEF ToolsList, ServerStates
    <2> QED BY <1>1, <2>1, <2>2, <2>3, <2>4, <2>5 DEF Request
  <1>3. ASSUME NEW h \in Handlers, Disconnect(h) \/ bind(h) \/ CallReturns(h) PROVE TypeOK'
    BY <1>3, ReturnType DEF Disconnect, bind, CallReturns
  <1>4. ASSUME NEW id \in 1..MaxAsks, NEW ok \in BOOLEAN, handleRootsResponse(id, ok) PROVE TypeOK'
    <2>1. srv' \in ServerStates BY <1>4 DEF handleRootsResponse, ServerStates
    <2>2. handler' \in [Handlers -> HandlerStates] BY <1>4 DEF handleRootsResponse, HandlerStates
    <2>3. asked' \subseteq 1..MaxAsks BY <1>4 DEF handleRootsResponse
    <2> QED BY <1>4, <2>1, <2>2, <2>3 DEF handleRootsResponse
  <1>5. ASSUME NEW h \in Handlers, startBind(h) PROVE TypeOK'
    <2>1. CASE srv.closed /\ Return(h) /\ UNCHANGED srv BY <1>5, <2>1, ReturnType DEF startBind
    <2>2. CASE handler' = [handler EXCEPT ![h] = [Idle EXCEPT !.pc = "wait", !.on = srv.bindDone]]
               /\ UNCHANGED <<srv, attempts>>
      <3>1. srv.bindDone \in 0..MaxAttempts BY DEF ServerStates
      <3> QED BY <1>5, <2>2, <3>1 DEF startBind, HandlerStates
    <2>3. CASE ~srv.closed /\ ~srv.bindInFlight
      <3>1. Used + 1 \in Attempts BY <1>5, NextAttempt DEF startBind
      <3>2. srv' \in ServerStates BY <1>5, <2>3, <3>1 DEF startBind, ServerStates
      <3>3. handler' \in [Handlers -> HandlerStates]
        <4>1. [Idle EXCEPT !.pc = "wait", !.on = Used + 1] \in HandlerStates BY <3>1 DEF HandlerStates
        <4>2. handler' = [handler EXCEPT ![h] = [Idle EXCEPT !.pc = "wait", !.on = Used + 1]]
          BY <1>5, <2>3 DEF startBind
        <4> QED BY <4>1, <4>2
      <3>4. srv.bindDone \in 0..MaxAttempts /\ srv.bindGen \in 0..MaxChanges BY DEF ServerStates
      <3> DEFINE new == [Unused EXCEPT !.pc = "join", !.parent = h, !.gen = srv.bindGen, !.prev = srv.bindDone]
      <3>5. attempts' \in [Attempts -> AttemptStates]
        <4>1. new \in AttemptStates BY <3>4 DEF AttemptStates
        <4>2. attempts' = [attempts EXCEPT ![Used + 1] = new] BY <1>5, <2>3 DEF startBind
        <4> QED BY <4>1, <4>2
      <3> QED BY <1>5, <3>2, <3>3, <3>5 DEF startBind
    <2> QED BY <1>5, <2>1, <2>2, <2>3 DEF startBind
  <1>6. ASSUME NEW h \in Handlers, failBinding(h) PROVE TypeOK'
    BY <1>6 DEF failBinding, ServerStates, HandlerStates
  <1>7. ASSUME NEW h \in Handlers, Cleanup(h) PROVE TypeOK'
    BY <1>7, CancelType DEF Cleanup, HandlerStates
  <1>8. ASSUME NEW a \in Attempts, Goroutine(a) PROVE TypeOK'
    <2>1. CASE Join(a) BY <2>1 DEF Join, AttemptStates
    <2>2. CASE JoinCancelled(a) BY <2>2 DEF JoinCancelled, AttemptStates
    <2>3. CASE BinderReturns(a) BY <2>3 DEF BinderReturns, AttemptStates
    <2>4. CASE runBind(a)
      <3>0. a \in 0..MaxAttempts BY DEF Attempts
      <3>1. srv' \in ServerStates
        <4>1. [srv EXCEPT !.bindInFlight = FALSE, !.bindCancel = None, !.cleanup = a, !.bound = a,
                          !.optimisticList = FALSE] \in ServerStates
          BY <3>0 DEF ServerStates
        <4> QED BY <2>4, <4>1 DEF runBind
      <3>2. srv.optimisticList \in BOOLEAN BY DEF ServerStates
      <3>3. attempts' \in [Attempts -> AttemptStates] 
        <4>0. Discard(a) \in AttemptStates
          <5>1. attempts[a] \in AttemptStates /\ {a} \in SUBSET Attempts OBVIOUS
          <5> QED BY <5>1 DEF Discard, AttemptStates
        <4>1. CASE Stale(a) BY <2>4, <4>0, <4>1 DEF runBind
        <4>2. CASE ~Stale(a) BY <2>4, <3>2, <4>2 DEF runBind, AttemptStates
        <4> QED BY <4>1, <4>2
      <3> QED BY <2>4, <3>1, <3>3 DEF runBind
    <2>5. CASE publishBindFailure(a)
      <3>1. srv' \in ServerStates BY <2>5 DEF publishBindFailure, ServerStates
      <3>2. srv.optimisticList \in BOOLEAN BY DEF ServerStates
      <3>3. attempts' \in [Attempts -> AttemptStates] BY <2>5, <3>2 DEF publishBindFailure, AttemptStates
      <3> QED BY <2>5, <3>1, <3>3 DEF publishBindFailure
    <2>6. CASE Finish(a)
      <3>1. srv' \in ServerStates BY <2>6 DEF Finish, ServerStates
      <3>2. attempts' \in [Attempts -> AttemptStates] BY <2>6 DEF Finish, Ended, AttemptStates
      <3> QED BY <2>6, <3>1, <3>2 DEF Finish
    <2> QED BY <1>8, <2>1, <2>2, <2>3, <2>4, <2>5, <2>6 DEF Goroutine
  <1>9. CASE ServeEnds BY <1>9 DEF ServeEnds
  <1>10. CASE ListChanged BY <1>10 DEF ListChanged, ServerStates
  <1>11. CASE Close
    <2>1. srv' \in ServerStates BY <1>11 DEF Close, ServerStates
    <2>2. attempts' \in [Attempts -> AttemptStates] BY <1>11, CancelType DEF Close
    <2> QED BY <1>11, <2>1, <2>2 DEF Close
  <1>12. CASE UNCHANGED vars BY <1>12 DEF vars
  <1> HIDE DEF TypeOK
  <1> QED BY <1>1, <1>3, <1>4, <1>5, <1>6, <1>7, <1>8, <1>9, <1>10, <1>11, <1>12
          DEF Next, Environment, Continue

(***************************************************************************)
(* Numbers of attempts.                                                    *)
(***************************************************************************)

LEMMA CancelKeeps ==
  ASSUME TypeOK, NEW S, Cancel(S), NEW a \in Attempts
  PROVE  /\ attempts'[a].pc = attempts[a].pc /\ attempts'[a].gen = attempts[a].gen
         /\ attempts'[a].old = attempts[a].old
  <1>1. attempts[a] \in AttemptStates BY DEF TypeOK
  <1>2. attempts'[a] = IF a \in S THEN [attempts[a] EXCEPT !.cancelled = TRUE] ELSE attempts[a] BY DEF Cancel
  <1> QED BY <1>1, <1>2 DEF AttemptStates

LEMMA NumberedStep == TypeOK /\ Numbered /\ [Next]_vars => Numbered'
  <1> SUFFICES ASSUME TypeOK, Numbered, [Next]_vars PROVE Numbered' OBVIOUS
  <1>s. "stdio" \in Handlers BY DEF Handlers
  <1> USE <1>s DEF TypeOK, HandlerStates, AttemptStates, Idle, Step
  <1>1. ASSUME NEW h \in Handlers, Room, UNCHANGED attempts, Step(h, "bind") PROVE Numbered'
    <2>1. UsedSet' = UsedSet BY <1>1 DEF UsedSet
    <2>2. Binding' \subseteq Binding \cup {h} BY <1>1 DEF Binding
    <2> QED BY <1>1, <2>1, <2>2, NumberedRoom
  <1>2. ASSUME UNCHANGED attempts, NEW h \in Handlers, NEW x, x.pc # "bind", handler' = [handler EXCEPT ![h] = x]
        PROVE  Numbered'
    <2>1. UsedSet' = UsedSet BY <1>2 DEF UsedSet
    <2>2. Binding' \subseteq Binding BY <1>2 DEF Binding
    <2> QED BY <2>1, <2>2, NumberedFrame
  <1>3. ASSUME UNCHANGED <<attempts, handler>> PROVE Numbered'
    BY <1>3, NumberedFrame DEF UsedSet, Binding
  <1>4. ASSUME NEW S, Cancel(S), \A h \in Handlers : handler'[h].pc = "bind" => handler[h].pc = "bind"
        PROVE  Numbered'
    BY <1>4, CancelKeeps, NumberedFrame DEF UsedSet, Binding
  <1>5. ASSUME NEW a \in Attempts, attempts[a].pc # "unused", UNCHANGED handler,
               \A b \in Attempts \ {a} : attempts'[b] = attempts[b], attempts'[a].pc # "unused"
        PROVE  Numbered'
    BY <1>5, NumberedFrame DEF UsedSet, Binding
  <1>6. ASSUME NEW h \in Handlers, Return(h) PROVE Numbered'
    BY <1>4, <1>6 DEF Return
  <1>7. ASSUME NEW h \in Handlers, Request(h) PROVE Numbered'
    <2>1. ASSUME NEW supplied \in BOOLEAN, NEW rootsCapable \in BOOLEAN, initialize(h, supplied, rootsCapable)
          PROVE  Numbered'
      BY <2>1, <1>1, <1>3 DEF initialize
    <2>2. CASE requestRootsIfNeeded(h) BY <2>2, <1>3 DEF requestRootsIfNeeded
    <2>3. CASE invalidateRootsChanged(h) BY <2>3, <1>2 DEF invalidateRootsChanged
    <2>4. CASE ToolsCall(h) BY <2>4, <1>2 DEF ToolsCall
    <2>5. CASE ToolsList(h) BY <2>5, <1>3 DEF ToolsList
    <2> QED BY <1>7, <2>1, <2>2, <2>3, <2>4, <2>5 DEF Request
  <1>8. ASSUME NEW h \in Handlers, Disconnect(h) \/ bind(h) \/ CallReturns(h) PROVE Numbered'
    BY <1>6, <1>8 DEF Disconnect, bind, CallReturns
  <1>9. ASSUME NEW id \in 1..MaxAsks, NEW ok \in BOOLEAN, handleRootsResponse(id, ok) PROVE Numbered'
    <2>1. CASE Step("stdio", "bind") BY <1>9, <2>1, <1>1 DEF handleRootsResponse
    <2>2. CASE Step("stdio", "fail")
      <3>1. UsedSet' = UsedSet BY <1>9 DEF handleRootsResponse, UsedSet
      <3>2. Binding' \subseteq Binding BY <2>2 DEF Binding
      <3> QED BY <3>1, <3>2, NumberedFrame
    <2>3. CASE UNCHANGED handler BY <1>9, <2>3, <1>3 DEF handleRootsResponse
    <2> QED BY <1>9, <2>1, <2>2, <2>3 DEF handleRootsResponse
  <1>10. ASSUME NEW h \in Handlers, startBind(h) PROVE Numbered'
    <2>1. CASE Return(h) BY <2>1, <1>6
    <2>2. CASE UNCHANGED attempts /\ handler' = [handler EXCEPT ![h] = [Idle EXCEPT !.pc = "wait", !.on = srv.bindDone]]
      BY <2>2, <1>2
    <2>3. CASE ~srv.closed /\ ~srv.bindInFlight
      <3>1. Used + 1 \in Attempts /\ attempts[Used + 1].pc = "unused" /\ handler[h].pc = "bind"
        BY <1>10, NextAttempt DEF startBind
      <3> DEFINE new == [Unused EXCEPT !.pc = "join", !.parent = h, !.gen = srv.bindGen, !.prev = srv.bindDone]
                 wait == [Idle EXCEPT !.pc = "wait", !.on = Used + 1]
      <3>2. UsedSet' = UsedSet \cup {Used + 1}
        <4>1. new.pc = "join" BY DEF Unused
        <4>2. attempts' = [attempts EXCEPT ![Used + 1] = new] BY <1>10, <2>3 DEF startBind
        <4> HIDE DEF new
        <4> QED BY <3>1, <4>1, <4>2 DEF UsedSet
      <3>3. Binding' \subseteq Binding \ {h}
        <4>1. wait.pc = "wait" OBVIOUS
        <4>2. handler' = [handler EXCEPT ![h] = wait] BY <1>10, <2>3 DEF startBind
        <4> HIDE DEF wait
        <4> QED BY <4>1, <4>2 DEF Binding
      <3> QED BY <3>1, <3>2, <3>3, NumberedStart
    <2> QED BY <1>10, <2>1, <2>2, <2>3 DEF startBind
  <1>11. ASSUME NEW h \in Handlers, failBinding(h) PROVE Numbered' BY <1>11, <1>2 DEF failBinding
  <1>12. ASSUME NEW h \in Handlers, Cleanup(h) PROVE Numbered'
    <2>1. \A g \in Handlers : handler'[g].pc = "bind" => handler[g].pc = "bind" BY <1>12 DEF Cleanup
    <2> QED BY <1>12, <2>1, <1>4 DEF Cleanup
  <1>13. ASSUME NEW a \in Attempts, Goroutine(a) PROVE Numbered'
    <2>1. attempts[a].pc # "unused" /\ UNCHANGED handler /\ \A b \in Attempts \ {a} : attempts'[b] = attempts[b]
      BY <1>13 DEF Goroutine, Join, JoinCancelled, BinderReturns, runBind, publishBindFailure, Finish
    <2>2. attempts'[a].pc # "unused"
      <3>1. CASE Join(a) \/ JoinCancelled(a) \/ BinderReturns(a) BY <3>1 DEF Join, JoinCancelled, BinderReturns
      <3>2. CASE runBind(a)
        <4>1. attempts[a] \in AttemptStates BY DEF TypeOK
        <4>2. Discard(a).pc = "finish" BY <4>1 DEF Discard
        <4> QED BY <3>2, <4>2 DEF runBind
      <3>3. CASE publishBindFailure(a) BY <3>3 DEF publishBindFailure
      <3>4. CASE Finish(a)
        <4>1. Ended(a).pc = "done" BY DEF Ended, Unused
        <4> QED BY <3>4, <4>1 DEF Finish
      <3> QED BY <1>13, <3>1, <3>2, <3>3, <3>4 DEF Goroutine
    <2> QED BY <2>1, <2>2, <1>5
  <1>14. CASE ServeEnds \/ ListChanged BY <1>14, <1>3 DEF ServeEnds, ListChanged
  <1>15. CASE Close BY <1>15, <1>4 DEF Close
  <1>16. CASE UNCHANGED vars BY <1>16, <1>3 DEF vars
  <1> HIDE DEF TypeOK
  <1> QED BY <1>7, <1>8, <1>9, <1>10, <1>11, <1>12, <1>13, <1>14, <1>15, <1>16
          DEF Next, Environment, Continue

(***************************************************************************)
(* Owners of runtimes.                                                     *)
(***************************************************************************)

(* What is bound is open, and its attempt has published.                   *)
LEMMA BoundOpen ==
  ASSUME TypeOK, Ownership, srv.bound # None
  PROVE  /\ srv.bound \in Attempts /\ srv.bound \in opened
         /\ attempts[srv.bound].pc \notin {"unused", "join", "binder"}
  <1>1. srv.bound \in Attempts BY Numbers DEF TypeOK, ServerStates, None
  <1> QED BY <1>1 DEF Ownership, ServesCurrent, Covered, Held, NotYet

(* Most steps give no runtime to another owner.                            *)
LEMMA OwnershipFrame ==
  ASSUME TypeOK, Ownership, UNCHANGED opened,
         srv'.cleanup = srv.cleanup, srv'.bound = srv.bound, srv'.bindGen = srv.bindGen, srv'.closed = srv.closed,
         \A a \in Attempts :
           /\ attempts'[a].old = attempts[a].old
           /\ a = srv.bound => attempts'[a].gen = attempts[a].gen
           /\ attempts'[a].pc = "publish" <=> attempts[a].pc = "publish"
           /\ attempts[a].pc = "finish" => attempts'[a].pc = "finish"
           /\ attempts'[a].pc \in {"unused", "join", "binder"} => attempts[a].pc \in {"unused", "join", "binder"},
         \A h \in Handlers :
           /\ handler'[h].old = handler[h].old
           /\ handler[h].pc = "cleanup" => handler'[h].pc = "cleanup"
           /\ handler'[h].pc = "call" => \/ handler[h].pc = "call" /\ handler'[h].on = handler[h].on
                                         \/ handler'[h].on = srv.bound /\ srv.bound # None
  PROVE  Ownership'
  <1>1. Holds' BY DEF Ownership, Holds
  <1>2. Apart' BY DEF Ownership, Apart
  <1>3. Covered' BY DEF Ownership, Covered, Held
  <1>4. NotYet' BY DEF Ownership, NotYet
  <1>5. Calls' BY DEF Ownership, Calls
  <1>6. ServesCurrent' BY BoundOpen DEF Ownership, ServesCurrent
  <1> QED BY <1>1, <1>2, <1>3, <1>4, <1>5, <1>6 DEF Ownership

(* A request takes the bound runtime away, to close it.                    *)
LEMMA OwnershipTaken ==
  ASSUME TypeOK, Ownership, UNCHANGED <<opened, attempts>>, NoCall, NEW h \in Handlers, handler[h].pc # "cleanup",
         srv'.cleanup = None, srv'.bound = None,
         handler'[h].pc = "cleanup", handler'[h].old = Owned(srv.cleanup),
         \A g \in Handlers \ {h} : handler'[g] = handler[g]
  PROVE  Ownership'
  <1>1. handler[h].old = {} BY DEF Ownership, Holds
  <1>2. None \notin Attempts BY DEF None, Attempts
  <1>3. Holds' BY DEF Ownership, Holds
  <1>4. Apart' BY <1>1, <1>2 DEF Ownership, Apart, Owned, TypeOK, AttemptStates, HandlerStates
  <1>5. Covered' BY <1>1, <1>2 DEF Ownership, Covered, Held, Owned
  <1>6. NotYet' BY DEF Ownership, NotYet
  <1>7. Calls' BY DEF Ownership, Calls, NoCall
  <1>8. ServesCurrent' BY DEF ServesCurrent
  <1> QED BY <1>3, <1>4, <1>5, <1>6, <1>7, <1>8 DEF Ownership

(* An attempt publishes: it takes the bound runtime away, to close it, and *)
(* gives the server what it opened itself, if anything.                    *)
LEMMA OwnershipPublished ==
  ASSUME TypeOK, Ownership, UNCHANGED <<opened, handler>>, NoCall, NEW a \in Attempts, NEW r,
         \/ r = None /\ attempts[a].pc = "failed"
         \/ r = a /\ attempts[a].pc = "publish" /\ attempts[a].gen = srv.bindGen /\ ~srv.closed,
         srv'.cleanup = r, srv'.bound = r, srv'.bindGen = srv.bindGen, srv'.closed = srv.closed,
         attempts'[a].pc = "finish", attempts'[a].old = Owned(srv.cleanup), attempts'[a].gen = attempts[a].gen,
         \A b \in Attempts \ {a} : attempts'[b] = attempts[b]
  PROVE  Ownership'
  <1>1. attempts[a].old = {} BY DEF Ownership, Holds
  <1>2. None \notin Attempts BY DEF None, Attempts
  <1>3. Holds' BY DEF Ownership, Holds
  <1>4. Apart'
    <2>1. \A b \in Attempts : attempts[b].old \subseteq Attempts BY DEF TypeOK, AttemptStates
    <2>2. \A h \in Handlers : handler[h].old \subseteq Attempts BY DEF TypeOK, HandlerStates
    <2>3. \A b \in Attempts \ {a} : attempts'[a].old \cap attempts'[b].old = {} BY DEF Ownership, Apart, Owned
    <2>4. \A h \in Handlers : attempts'[a].old \cap handler[h].old = {} BY DEF Ownership, Apart, Owned
    <2>5. srv'.cleanup \notin attempts'[a].old BY <1>2 DEF Ownership, Apart, Owned, None
    <2>6. \A b \in Attempts \ {a} : srv'.cleanup \notin attempts[b].old BY <1>2, <2>1 DEF Ownership, Apart
    <2>7. \A h \in Handlers : srv'.cleanup \notin handler[h].old BY <1>2, <2>2 DEF Ownership, Apart
    <2>8. \A b \in Attempts \ {a} : attempts[b].pc = "publish" => srv'.cleanup # b /\ b \notin attempts'[a].old
      BY <1>2 DEF Ownership, Apart, Owned
    <2> QED BY <2>3, <2>4, <2>5, <2>6, <2>7, <2>8 DEF Ownership, Apart
  <1>5. Covered' BY <1>1, <1>2 DEF Ownership, Covered, Held, Owned
  <1>6. NotYet' BY DEF Ownership, NotYet
  <1>7. Calls' BY DEF Ownership, Calls, NoCall
  <1>8. ServesCurrent' BY <1>2 DEF Ownership, ServesCurrent
  <1> QED BY <1>3, <1>4, <1>5, <1>6, <1>7, <1>8 DEF Ownership

(* What an attempt, a request or Close held is closed.                     *)
LEMMA OwnershipClosed ==
  ASSUME TypeOK, Ownership, NoCall \/ srv'.bound = srv.bound, NEW S,
         opened' = opened \ S,
         \/ S = Owned(srv.cleanup) /\ srv'.cleanup = None /\ srv'.bound = None
            /\ (\A h \in Handlers : handler'[h] = handler[h])
            /\ (\A a \in Attempts : attempts'[a].pc = attempts[a].pc /\ attempts'[a].old = attempts[a].old)
         \/ /\ srv'.cleanup = srv.cleanup /\ srv'.bound = srv.bound
            /\ srv'.bindGen = srv.bindGen /\ srv'.closed = srv.closed
            /\ \A a \in Attempts : attempts'[a].gen = attempts[a].gen
            /\ \/ \E h \in Handlers :
                    /\ S = handler[h].old /\ handler'[h].pc = "idle" /\ handler'[h].old = {}
                    /\ \A g \in Handlers \ {h} : handler'[g] = handler[g]
                    /\ \A a \in Attempts : attempts'[a].pc = attempts[a].pc /\ attempts'[a].old = attempts[a].old
               \/ \E a \in Attempts :
                    /\ S = attempts[a].old /\ attempts[a].pc = "finish"
                    /\ attempts'[a].pc = "done" /\ attempts'[a].old = {}
                    /\ \A b \in Attempts \ {a} : attempts'[b] = attempts[b]
                    /\ \A h \in Handlers : handler'[h] = handler[h]
  PROVE  Ownership'
  <1>0. None \notin Attempts BY DEF None, Attempts
  <1>a. \A b \in Attempts : attempts[b].old \subseteq Attempts BY DEF TypeOK, AttemptStates
  <1>h. \A h \in Handlers : handler[h].old \subseteq Attempts BY DEF TypeOK, HandlerStates
  <1>1. Holds' BY DEF Ownership, Holds
  <1>2. Apart' BY <1>0, <1>a, <1>h DEF Ownership, Apart
  <1>3. Covered' BY <1>0 DEF Ownership, Apart, Covered, Held, Owned
  <1>4. NotYet' BY DEF Ownership, NotYet
  <1>5. Calls' BY DEF Ownership, Calls, NoCall
  <1>6. ServesCurrent' BY BoundOpen DEF Ownership, ServesCurrent
  <1> QED BY <1>1, <1>2, <1>3, <1>4, <1>5, <1>6 DEF Ownership

(* A binder returns a runtime, which its attempt holds, whether it is to   *)
(* be published or discarded.                                              *)
LEMMA OwnershipOpened ==
  ASSUME TypeOK, Ownership, UNCHANGED <<srv, handler>>, NEW a \in Attempts,
         \/ attempts[a].pc = "binder" /\ attempts'[a].pc = "publish" /\ attempts'[a].old = attempts[a].old
            /\ opened' = opened \cup {a}
         \/ attempts[a].pc = "publish" /\ attempts'[a].pc = "finish" /\ attempts'[a].old = {a} /\ UNCHANGED opened,
         attempts'[a].gen = attempts[a].gen,
         \A b \in Attempts \ {a} : attempts'[b] = attempts[b]
  PROVE  Ownership'
  <1>1. attempts[a].old = {} BY DEF Ownership, Holds
  <1>2. Holds' BY DEF Ownership, Holds
  <1>3. Apart' BY <1>1 DEF Ownership, Apart, NotYet, Covered, Held
  <1>4. Covered' BY <1>1 DEF Ownership, Covered, Held
  <1>5. NotYet' BY DEF Ownership, NotYet
  <1>6. Calls' BY DEF Ownership, Calls
  <1>7. ServesCurrent' BY BoundOpen DEF Ownership, ServesCurrent
  <1> QED BY <1>2, <1>3, <1>4, <1>5, <1>6, <1>7 DEF Ownership

(* Answering, or waiting, gives no runtime to another owner.               *)
LEMMA OwnershipReturn ==
  ASSUME TypeOK, Ownership, UNCHANGED <<srv, opened>>, NEW h \in Handlers, handler[h].pc # "cleanup", Return(h)
  PROVE  Ownership'
  <1>1. handler[h].old = {} BY DEF Ownership, Holds
  <1>2. \A g \in Handlers : g # h => handler'[g] = handler[g] BY DEF Return, TypeOK
  <1>3. handler'[h] = Idle BY DEF Return, TypeOK
  <1>4. \A a \in Attempts : /\ attempts'[a].pc = attempts[a].pc /\ attempts'[a].gen = attempts[a].gen
                            /\ attempts'[a].old = attempts[a].old
    BY CancelKeeps DEF Return
  <1>5. handler'[h].old = {} /\ handler'[h].pc = "idle" BY <1>3 DEF Idle
  <1>6. \A g \in Handlers :
          /\ handler'[g].old = handler[g].old
          /\ handler[g].pc = "cleanup" => handler'[g].pc = "cleanup"
          /\ handler'[g].pc = "call" => handler[g].pc = "call" /\ handler'[g].on = handler[g].on
    BY <1>1, <1>2, <1>5
  <1> QED BY <1>4, <1>6, OwnershipFrame

LEMMA OwnershipStep == TypeOK /\ Numbered /\ Ownership /\ [Next]_vars => Ownership'
  <1> SUFFICES ASSUME TypeOK, Numbered, Ownership, [Next]_vars PROVE Ownership' OBVIOUS
  <1>s. "stdio" \in Handlers BY DEF Handlers
  <1>t. /\ srv \in ServerStates
        /\ attempts \in [Attempts -> AttemptStates] /\ handler \in [Handlers -> HandlerStates]
    BY DEF TypeOK
  <1> USE <1>s, <1>t DEF Step
  <1>1. ASSUME NEW h \in Handlers, Request(h) PROVE Ownership'
    <2>1. ASSUME NEW supplied \in BOOLEAN, NEW rootsCapable \in BOOLEAN, initialize(h, supplied, rootsCapable)
          PROVE  Ownership'
      BY <2>1, OwnershipFrame DEF initialize, Receives, ServerStates, HandlerStates
    <2>2. CASE requestRootsIfNeeded(h) BY <2>2, OwnershipFrame DEF requestRootsIfNeeded, ServerStates
    <2>3. CASE invalidateRootsChanged(h)
      BY <2>3, OwnershipTaken DEF invalidateRootsChanged, Receives, ServerStates, HandlerStates
    <2>4. CASE ToolsCall(h)
      <3>1. handler[h].old = {} BY <2>4 DEF ToolsCall, Receives, Ownership, Holds
      <3> QED BY <2>4, <3>1, OwnershipFrame DEF ToolsCall, Receives, Idle, HandlerStates
    <2>5. CASE ToolsList(h) BY <2>5, OwnershipFrame DEF ToolsList, ServerStates
    <2> QED BY <1>1, <2>1, <2>2, <2>3, <2>4, <2>5 DEF Request
  <1>2. ASSUME NEW h \in Handlers, Disconnect(h) \/ bind(h) \/ CallReturns(h) PROVE Ownership'
    BY <1>2, OwnershipReturn DEF Disconnect, bind, CallReturns
  <1>3. ASSUME NEW id \in 1..MaxAsks, NEW ok \in BOOLEAN, handleRootsResponse(id, ok) PROVE Ownership'
    BY <1>3, OwnershipFrame DEF handleRootsResponse, Receives, ServerStates, HandlerStates
  <1>4. ASSUME NEW h \in Handlers, startBind(h) PROVE Ownership'
    <2>1. handler[h].old = {} /\ handler[h].pc # "cleanup" BY <1>4 DEF startBind, Ownership, Holds
    <2>2. CASE srv.closed /\ Return(h) /\ UNCHANGED srv BY <1>4, <2>1, <2>2, OwnershipReturn DEF startBind
    <2>3. CASE handler' = [handler EXCEPT ![h] = [Idle EXCEPT !.pc = "wait", !.on = srv.bindDone]]
               /\ UNCHANGED <<srv, attempts>>
      BY <1>4, <2>1, <2>3, OwnershipFrame DEF startBind, Idle, HandlerStates
    <2>4. CASE ~srv.closed /\ ~srv.bindInFlight
      <3> DEFINE new == [Unused EXCEPT !.pc = "join", !.parent = h, !.gen = srv.bindGen, !.prev = srv.bindDone]
                 wait == [Idle EXCEPT !.pc = "wait", !.on = Used + 1]
      <3>1. Used + 1 \in Attempts /\ attempts[Used + 1].pc = "unused" BY <1>4, NextAttempt DEF startBind
      <3>2. new.pc = "join" /\ new.old = {} BY DEF Unused
      <3>3. wait.pc = "wait" /\ wait.old = {} BY DEF Idle
      <3>4. attempts' = [attempts EXCEPT ![Used + 1] = new] /\ handler' = [handler EXCEPT ![h] = wait]
        BY <1>4, <2>4 DEF startBind
      <3>5. attempts[Used + 1].old = {} BY <3>1 DEF Ownership, Holds
      <3>6. srv.bound # Used + 1 BY <3>1, BoundOpen DEF None, Attempts
      <3>7. /\ srv'.cleanup = srv.cleanup /\ srv'.bound = srv.bound
            /\ srv'.bindGen = srv.bindGen /\ srv'.closed = srv.closed /\ UNCHANGED opened
        BY <1>4, <2>4 DEF startBind, ServerStates
      <3> HIDE DEF new, wait
      <3> QED BY <2>1, <3>1, <3>2, <3>3, <3>4, <3>5, <3>6, <3>7, OwnershipFrame
    <2> QED BY <1>4, <2>2, <2>3, <2>4 DEF startBind
  <1>5. ASSUME NEW h \in Handlers, failBinding(h) PROVE Ownership'
    BY <1>5, OwnershipTaken DEF failBinding, Idle, ServerStates, HandlerStates
  <1>6. ASSUME NEW h \in Handlers, Cleanup(h) PROVE Ownership'
    <2>1. handler'[h].pc = "idle" /\ handler'[h].old = {} /\ \A g \in Handlers \ {h} : handler'[g] = handler[g]
      BY <1>6 DEF Cleanup, Idle
    <2>2. \A a \in Attempts : /\ attempts'[a].pc = attempts[a].pc /\ attempts'[a].gen = attempts[a].gen
                              /\ attempts'[a].old = attempts[a].old
      BY <1>6, CancelKeeps DEF Cleanup
    <2> QED BY <1>6, <2>1, <2>2, OwnershipClosed DEF Cleanup
  <1>7. ASSUME NEW a \in Attempts, Goroutine(a) PROVE Ownership'
    <2>0. attempts[a] \in AttemptStates OBVIOUS
    <2>1. CASE Join(a) BY <2>1, OwnershipFrame DEF Join, AttemptStates
    <2>2. CASE JoinCancelled(a) BY <2>2, OwnershipFrame DEF JoinCancelled, AttemptStates
    <2>3. CASE BinderReturns(a)
      <3>1. CASE attempts' = [attempts EXCEPT ![a].pc = "publish"] /\ opened' = opened \cup {a}
        BY <2>3, <3>1, OwnershipOpened DEF BinderReturns, AttemptStates
      <3>2. CASE attempts' = [attempts EXCEPT ![a].pc = "failed"] /\ UNCHANGED opened
        BY <2>3, <3>2, OwnershipFrame DEF BinderReturns, AttemptStates
      <3> QED BY <2>3, <3>1, <3>2 DEF BinderReturns
    <2>4. CASE runBind(a)
      <3>1. CASE Stale(a)
        <4>1. Discard(a).pc = "finish" /\ Discard(a).old = {a} /\ Discard(a).gen = attempts[a].gen
          BY <2>0 DEF Discard, AttemptStates
        <4> QED BY <2>4, <3>1, <4>1, OwnershipOpened DEF runBind
      <3>2. CASE ~Stale(a)
        <4>1. attempts[a].gen = srv.bindGen /\ ~srv.closed BY <3>2 DEF Stale
        <4>2. /\ attempts'[a].pc = "finish" /\ attempts'[a].old = Owned(srv.cleanup)
              /\ attempts'[a].gen = attempts[a].gen /\ \A b \in Attempts \ {a} : attempts'[b] = attempts[b]
          BY <2>4, <3>2 DEF runBind, AttemptStates
        <4>3. /\ srv'.cleanup = a /\ srv'.bound = a /\ srv'.bindGen = srv.bindGen /\ srv'.closed = srv.closed
          BY <2>4, <3>2 DEF runBind, ServerStates
        <4> QED BY <2>4, <4>1, <4>2, <4>3, OwnershipPublished DEF runBind
      <3> QED BY <3>1, <3>2
    <2>5. CASE publishBindFailure(a)
      <3>1. CASE Stale(a) BY <2>5, <3>1, OwnershipFrame DEF publishBindFailure, AttemptStates
      <3>2. CASE ~Stale(a)
        <4>2. /\ attempts'[a].pc = "finish" /\ attempts'[a].old = Owned(srv.cleanup)
              /\ attempts'[a].gen = attempts[a].gen /\ \A b \in Attempts \ {a} : attempts'[b] = attempts[b]
          BY <2>5, <3>2 DEF publishBindFailure, AttemptStates
        <4>3. /\ srv'.cleanup = None /\ srv'.bound = None /\ srv'.bindGen = srv.bindGen /\ srv'.closed = srv.closed
          BY <2>5, <3>2 DEF publishBindFailure, ServerStates
        <4> QED BY <2>5, <4>2, <4>3, OwnershipPublished DEF publishBindFailure
      <3> QED BY <3>1, <3>2
    <2>6. CASE Finish(a)
      <3>1. Ended(a).pc = "done" /\ Ended(a).old = {} /\ Ended(a).gen = attempts[a].gen BY DEF Ended, Unused
      <3>2. /\ srv'.cleanup = srv.cleanup /\ srv'.bound = srv.bound
            /\ srv'.bindGen = srv.bindGen /\ srv'.closed = srv.closed
        BY <2>6 DEF Finish, ServerStates
      <3>3. attempts'[a] = Ended(a) /\ \A b \in Attempts \ {a} : attempts'[b] = attempts[b] BY <2>6 DEF Finish
      <3> QED BY <2>6, <3>1, <3>2, <3>3, OwnershipClosed DEF Finish
    <2> QED BY <1>7, <2>1, <2>2, <2>3, <2>4, <2>5, <2>6 DEF Goroutine
  <1>8. CASE ServeEnds BY <1>8, OwnershipFrame DEF ServeEnds
  <1>9. CASE ListChanged BY <1>9, OwnershipFrame DEF ListChanged, ServerStates
  <1>10. CASE Close
    <2>1. srv'.cleanup = None /\ srv'.bound = None BY <1>10 DEF Close, ServerStates
    <2>2. \A a \in Attempts : attempts'[a].pc = attempts[a].pc /\ attempts'[a].old = attempts[a].old
      BY <1>10, CancelKeeps DEF Close
    <2> QED BY <1>10, <2>1, <2>2, OwnershipClosed DEF Close
  <1>11. CASE UNCHANGED vars BY <1>11, OwnershipFrame DEF vars
  <1> QED BY <1>1, <1>2, <1>3, <1>4, <1>5, <1>6, <1>7, <1>8, <1>9, <1>10, <1>11
          DEF Next, Environment, Continue

(***************************************************************************)
(* The theorems.                                                           *)
(***************************************************************************)

LEMMA SessionInit == Init => SessionInv
  <1> SUFFICES ASSUME Init PROVE SessionInv OBVIOUS
  <1>1. UsedSet = {} /\ Binding = {} BY DEF Init, UsedSet, Binding, Unused, Idle
  <1>2. Numbered BY <1>1, UsedNat, FS_EmptySet, SessionAssumption DEF Numbered
  <1>3. Ownership
    BY DEF Init, Ownership, Holds, Apart, Covered, Held, NotYet, Calls, ServesCurrent, Unused, Idle, None, Attempts
  <1> QED BY <1>2, <1>3, SessionTypeInit DEF SessionInv

LEMMA SessionStep == SessionInv /\ [Next]_vars => SessionInv'
  BY SessionTypeStep, NumberedStep, OwnershipStep DEF SessionInv

(* For any number of handlers, attempts and roots changes, a tool call     *)
(* finds its runtime bound and open for as long as it runs.                *)
THEOREM SessionNoUseAfterClose == Spec => []NoUseAfterClose
  <1>1. SessionInv => NoUseAfterClose BY BoundOpen DEF SessionInv, Ownership, Calls, NoUseAfterClose
  <1> QED BY <1>1, SessionInit, SessionStep, PTL DEF Spec

(* What is bound was bound since the last roots change, and is the         *)
(* server's to close.                                                      *)
THEOREM SessionServesCurrent == Spec => []ServesCurrent
  <1>1. SessionInv => ServesCurrent BY DEF SessionInv, Ownership
  <1> QED BY <1>1, SessionInit, SessionStep, PTL DEF Spec

(* A set with at most one element.                                         *)
LEMMA AtMostOne ==
  ASSUME NEW S, \A x, y \in S : x = y
  PROVE  Cardinality(S) = IF S = {} THEN 0 ELSE 1
  <1>1. CASE S = {} BY <1>1, FS_EmptySet
  <1>2. CASE S # {}
    <2>1. PICK x \in S : TRUE BY <1>2
    <2>2. S = {x} BY <2>1
    <2> QED BY <1>2, <2>2, FS_Singleton
  <1> QED BY <1>1, <1>2

(* Every open runtime has exactly one owner, and no other runtime has one. *)
THEOREM SessionOneOwner == Spec => []OneOwner
  <1>1. SessionInv => OneOwner
    <2> SUFFICES ASSUME SessionInv, NEW r \in Attempts
                 PROVE  Cardinality({a \in Attempts : r \in attempts[a].old})
                          + Cardinality({h \in Handlers : r \in handler[h].old})
                          + Cardinality({r} \cap {srv.cleanup})
                          + Cardinality({a \in {r} : attempts[a].pc = "publish"})
                        = Cardinality({r} \cap opened)
      BY DEF OneOwner
    <2> DEFINE A == {a \in Attempts : r \in attempts[a].old}
               H == {h \in Handlers : r \in handler[h].old}
               C == {r} \cap {srv.cleanup}
               P == {a \in {r} : attempts[a].pc = "publish"}
               O == {r} \cap opened
    <2>1. \A x, y \in A : x = y BY DEF SessionInv, Ownership, Apart
    <2>2. \A x, y \in H : x = y BY DEF SessionInv, Ownership, Apart
    <2>3. Cardinality(A) = IF A = {} THEN 0 ELSE 1 BY <2>1, AtMostOne
    <2>4. Cardinality(H) = IF H = {} THEN 0 ELSE 1 BY <2>2, AtMostOne
    <2>5. Cardinality(C) = IF C = {} THEN 0 ELSE 1 BY AtMostOne
    <2>6. Cardinality(P) = IF P = {} THEN 0 ELSE 1 BY AtMostOne
    <2>7. Cardinality(O) = IF O = {} THEN 0 ELSE 1 BY AtMostOne
    <2>8. O = {} <=> A = {} /\ H = {} /\ C = {} /\ P = {}
      BY DEF SessionInv, Ownership, Covered, Held
    <2>9. /\ A # {} => H = {} /\ C = {} /\ P = {}
          /\ H # {} => C = {} /\ P = {}
          /\ C # {} => P = {}
      BY DEF SessionInv, Ownership, Apart
    <2> HIDE DEF A, H, C, P, O
    <2>10. Cardinality(A) + Cardinality(H) + Cardinality(C) + Cardinality(P) = Cardinality(O)
      BY <2>3, <2>4, <2>5, <2>6, <2>7, <2>8, <2>9
    <2> QED BY <2>10 DEF A, H, C, P, O
  <1> QED BY <1>1, SessionInit, SessionStep, PTL DEF Spec
=============================================================================
