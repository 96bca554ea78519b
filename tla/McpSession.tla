----------------------------- MODULE McpSession -----------------------------
(***************************************************************************)
(* The repository binding of an MCP server: requests handled by the stdio  *)
(* loop and by HTTP handlers, binding attempts that run on goroutines of   *)
(* their own, and the runtimes they open.  A roots change or Close cancels *)
(* an attempt whose binder may still be unwinding.                         *)
(*                                                                         *)
(* An attempt, its done channel, its cancel function and the runtime it    *)
(* opens share one number.  The write side of the dispatch lock is held    *)
(* within one step; a tool call holds the read side from ToolsCall to      *)
(* CallReturns.                                                            *)
(***************************************************************************)
EXTENDS Integers, FiniteSets

CONSTANTS
  Http,         \* the HTTP requests that may be handled at one time
  MaxAttempts,  \* bound on the binding attempts
  MaxChanges,   \* bound on the roots changes
  MaxAsks       \* bound on the roots/list requests

ASSUME SessionAssumption ==
  /\ "stdio" \notin Http /\ IsFiniteSet(Http)
  /\ {MaxAttempts, MaxChanges, MaxAsks} \subseteq Nat

VARIABLES
  srv,      \* the fields of Server
  attempts, \* the goroutines of startBind
  opened,   \* the runtimes that are open
  handler,  \* the request that each handler is serving
  asked,    \* the roots/list requests the client has yet to answer
  catalog,  \* the tools/list answer that the stdio client holds
  serving   \* FALSE: stdin ended or a signal cancelled Serve's context

vars == <<srv, attempts, opened, handler, asked, catalog, serving>>

Handlers == {"stdio"} \cup Http
Attempts == 1..MaxAttempts
None     == 0
Unused   == [pc |-> "unused", parent |-> "stdio", gen |-> 0, prev |-> None, cancelled |-> FALSE,
             old |-> {}, notify |-> FALSE]
Idle     == [pc |-> "idle", on |-> None, old |-> {}]

ServerStates ==
  [bound : 0..MaxAttempts, cleanup : 0..MaxAttempts, rootsCapable : BOOLEAN, awaitingRoots : BOOLEAN,
   rootsRequestID : 0..MaxAsks, bindInFlight : BOOLEAN, bindDone : 0..MaxAttempts,
   bindCancel : 0..MaxAttempts, bindGen : 0..MaxChanges, optimisticList : BOOLEAN,
   toolsChanged : BOOLEAN, closed : BOOLEAN]
AttemptStates ==
  [pc : {"unused", "join", "binder", "publish", "failed", "finish", "done"}, parent : Handlers,
   gen : 0..MaxChanges, prev : 0..MaxAttempts, cancelled : BOOLEAN, old : SUBSET Attempts, notify : BOOLEAN]
HandlerStates ==
  [pc : {"idle", "bind", "wait", "fail", "cleanup", "call"}, on : 0..MaxAttempts, old : SUBSET Attempts]

(* Every variable has its type.                                            *)
TypeOK ==
  /\ srv \in ServerStates
  /\ attempts \in [Attempts -> AttemptStates]
  /\ opened \subseteq Attempts
  /\ handler \in [Handlers -> HandlerStates]
  /\ asked \subseteq 1..MaxAsks
  /\ catalog \in {"none", "optimistic", "bound"}
  /\ serving \in BOOLEAN

Init ==
  /\ srv = [bound |-> None, cleanup |-> None, rootsCapable |-> FALSE, awaitingRoots |-> FALSE,
            rootsRequestID |-> 0, bindInFlight |-> FALSE, bindDone |-> None, bindCancel |-> None,
            bindGen |-> 0, optimisticList |-> FALSE, toolsChanged |-> FALSE, closed |-> FALSE]
  /\ attempts = [a \in Attempts |-> Unused]
  /\ opened = {}
  /\ handler = [h \in Handlers |-> Idle]
  /\ asked = {} /\ catalog = "none" /\ serving = TRUE

(***************************************************************************)
(* Shared parts.                                                           *)
(***************************************************************************)

(* Mutant of NoCall: calls are not waited for.                             *)
NoCallNeeded == TRUE

(* dispatch.Lock is free: no tool call holds the read side.                *)
NoCall == \A h \in Handlers : handler[h].pc # "call"

(* dispatch.RLock waits for the writers that are waiting.                  *)
RLock ==
  /\ \A a \in Attempts : attempts[a].pc \notin {"publish", "failed"}
  /\ \A h \in Handlers : handler[h].pc # "fail"
  /\ serving \/ srv.closed \/ handler["stdio"].pc # "idle"

Owned(cleanup) == {cleanup} \ {None}

Running(a) == attempts[a].pc \notin {"unused", "done"}
Ended(a) == [Unused EXCEPT !.pc = "done", !.gen = attempts[a].gen]
IsDone(a) == a \in Attempts => attempts[a].pc = "done"

(* Mutant of Stale: the generation is not compared.                        *)
StaleClosed(a) == srv.closed

Stale(a) == srv.closed \/ attempts[a].gen # srv.bindGen
Cancelled(a) == attempts[a].cancelled \/ (attempts[a].parent = "stdio" /\ ~serving)

Used == Cardinality({a \in Attempts : attempts[a].pc # "unused"})

(* The bound on the attempts leaves room for one more.                     *)
Room == Used + Cardinality({h \in Handlers : handler[h].pc = "bind"}) < MaxAttempts

Receives(h) == handler[h].pc = "idle" /\ (h = "stdio" => serving)
Bidirectional(h) == h = "stdio"
Step(h, s) == handler' = [handler EXCEPT ![h].pc = s]

(* The contexts of some attempts are cancelled.                            *)
Cancel(S) == attempts' = [a \in Attempts |-> IF a \in S THEN [attempts[a] EXCEPT !.cancelled = TRUE] ELSE attempts[a]]

(* A handler answers.  The context of an HTTP request ends with it.        *)
Return(h) ==
  /\ handler' = [handler EXCEPT ![h] = Idle]
  /\ Cancel({a \in Attempts : Running(a) /\ attempts[a].parent = h /\ h \in Http})

(***************************************************************************)
(* Requests.                                                               *)
(***************************************************************************)

(* initialize.  Over HTTP it must name the roots that it is capable of.    *)
initialize(h, supplied, rootsCapable) ==
  /\ Receives(h) /\ Room /\ (rootsCapable /\ ~supplied => Bidirectional(h))
  /\ srv' = [srv EXCEPT !.rootsCapable = rootsCapable]
  /\ IF supplied \/ ~rootsCapable THEN Step(h, "bind") ELSE UNCHANGED handler
  /\ UNCHANGED <<attempts, opened, asked, catalog, serving>>

(* An attempt in flight is joined; otherwise a new one starts.             *)
startBind(h) ==
  LET a == Used + 1
  IN  /\ handler[h].pc = "bind"
      /\ \/ srv.closed /\ Return(h) /\ UNCHANGED srv
         \/ /\ ~srv.closed /\ srv.bindInFlight
            /\ handler' = [handler EXCEPT ![h] = [Idle EXCEPT !.pc = "wait", !.on = srv.bindDone]]
            /\ UNCHANGED <<srv, attempts>>
         \/ /\ ~srv.closed /\ ~srv.bindInFlight
            /\ attempts' = [attempts EXCEPT ![a] = [Unused EXCEPT !.pc = "join", !.parent = h,
                              !.gen = srv.bindGen, !.prev = srv.bindDone]]
            /\ srv' = [srv EXCEPT !.bindInFlight = TRUE, !.awaitingRoots = FALSE,
                                  !.bindCancel = a, !.bindDone = a]
            /\ handler' = [handler EXCEPT ![h] = [Idle EXCEPT !.pc = "wait", !.on = a]]
      /\ UNCHANGED <<opened, asked, catalog, serving>>

(* bind waits for the attempt: over stdio no longer than the grace.        *)
bind(h) ==
  /\ handler[h].pc = "wait" /\ (IsDone(handler[h].on) \/ Bidirectional(h))
  /\ Return(h)
  /\ UNCHANGED <<srv, opened, asked, catalog, serving>>

(* The HTTP client goes away while its request waits.                      *)
Disconnect(h) ==
  /\ h \in Http /\ handler[h].pc = "wait"
  /\ Return(h)
  /\ UNCHANGED <<srv, opened, asked, catalog, serving>>

(* notifications/initialized: ask for the roots, unless bound or binding.  *)
(* Over HTTP the request cannot be sent.                                   *)
requestRootsIfNeeded(h) ==
  /\ Receives(h) /\ NoCall /\ srv.rootsRequestID < MaxAsks
  /\ ~srv.closed /\ srv.rootsCapable /\ ~srv.awaitingRoots /\ ~srv.bindInFlight /\ srv.bound = None
  /\ srv' = [srv EXCEPT !.rootsRequestID = @ + 1, !.awaitingRoots = TRUE]
  /\ asked' = IF Bidirectional(h) THEN asked \cup {srv'.rootsRequestID} ELSE asked
  /\ UNCHANGED <<attempts, opened, handler, catalog, serving>>

(* The answer to a roots/list request; one that is not awaited is dropped. *)
handleRootsResponse(id, ok) ==
  /\ Receives("stdio") /\ Room /\ id \in asked
  /\ asked' = asked \ {id}
  /\ IF srv.awaitingRoots /\ id = srv.rootsRequestID
     THEN /\ srv' = [srv EXCEPT !.awaitingRoots = FALSE]
          /\ Step("stdio", IF ok THEN "bind" ELSE "fail")
     ELSE UNCHANGED <<srv, handler>>
  /\ UNCHANGED <<attempts, opened, catalog, serving>>

(* roots/list failed or made no sense.                                     *)
failBinding(h) ==
  /\ handler[h].pc = "fail" /\ NoCall
  /\ srv' = [srv EXCEPT !.cleanup = None, !.awaitingRoots = FALSE, !.bound = None]
  /\ handler' = [handler EXCEPT ![h] = [Idle EXCEPT !.pc = "cleanup", !.old = Owned(srv.cleanup)]]
  /\ UNCHANGED <<attempts, opened, asked, catalog, serving>>

(* roots/list_changed: the generation moves on and the attempt in flight   *)
(* is to be cancelled.  bindDone still names it, for the next to join.     *)
invalidateRootsChanged(h) ==
  /\ Receives(h) /\ NoCall /\ ~srv.closed /\ srv.bindGen < MaxChanges
  /\ srv' = [srv EXCEPT !.cleanup = None, !.awaitingRoots = FALSE, !.bindGen = @ + 1,
                        !.bindCancel = None, !.bindInFlight = FALSE, !.bound = None]
  /\ handler' = [handler EXCEPT ![h] = [pc |-> "cleanup", on |-> srv.bindCancel, old |-> Owned(srv.cleanup)]]
  /\ UNCHANGED <<attempts, opened, asked, catalog, serving>>

(* Outside the locks: cancel the attempt, close the old runtime, answer.   *)
Cleanup(h) ==
  /\ handler[h].pc = "cleanup"
  /\ opened' = opened \ handler[h].old
  /\ handler' = [handler EXCEPT ![h] = Idle]
  /\ Cancel({a \in Attempts : Running(a) /\ a = handler[h].on})
  /\ UNCHANGED <<srv, asked, catalog, serving>>

(* A tool call on the bound client.                                        *)
ToolsCall(h) ==
  /\ Receives(h) /\ RLock /\ srv.bound # None
  /\ handler' = [handler EXCEPT ![h] = [Idle EXCEPT !.pc = "call", !.on = srv.bound]]
  /\ UNCHANGED <<srv, attempts, opened, asked, catalog, serving>>

CallReturns(h) ==
  /\ handler[h].pc = "call"
  /\ Return(h)
  /\ UNCHANGED <<srv, opened, asked, catalog, serving>>

(* tools/list: while a binding is awaited the static catalog is served.    *)
ToolsList(h) ==
  /\ Receives(h) /\ RLock /\ (srv.bound # None \/ srv.bindInFlight \/ srv.awaitingRoots)
  /\ srv' = [srv EXCEPT !.optimisticList = @ \/ srv.bound = None]
  /\ catalog' = IF h # "stdio" THEN catalog ELSE IF srv.bound = None THEN "optimistic" ELSE "bound"
  /\ UNCHANGED <<attempts, opened, handler, asked, serving>>

(* The stdio loop sends tools/list_changed.                                *)
ListChanged ==
  /\ Receives("stdio") /\ srv.toolsChanged
  /\ srv' = [srv EXCEPT !.toolsChanged = FALSE] /\ catalog' = "none"
  /\ UNCHANGED <<attempts, opened, handler, asked, serving>>

(***************************************************************************)
(* The goroutine of an attempt.                                            *)
(***************************************************************************)

(* The predecessor's binder returned.                                      *)
Join(a) ==
  /\ attempts[a].pc = "join" /\ IsDone(attempts[a].prev)
  /\ attempts' = [attempts EXCEPT ![a].pc = "binder"]
  /\ UNCHANGED <<srv, opened, handler, asked, catalog, serving>>

(* Mutant of JoinCancelled: nothing is published.                          *)
JoinCancelledSilently(a) ==
  /\ attempts[a].pc = "join" /\ Cancelled(a)
  /\ attempts' = [attempts EXCEPT ![a] = Ended(a)]
  /\ UNCHANGED <<srv, opened, handler, asked, catalog, serving>>

(* Or the attempt is cancelled while it waits for that.                    *)
JoinCancelled(a) ==
  /\ attempts[a].pc = "join" /\ Cancelled(a)
  /\ attempts' = [attempts EXCEPT ![a].pc = "failed"]
  /\ UNCHANGED <<srv, opened, handler, asked, catalog, serving>>

(* The binder returns a runtime, or an error.                              *)
BinderReturns(a) ==
  /\ attempts[a].pc = "binder"
  /\ \/ attempts' = [attempts EXCEPT ![a].pc = "publish"] /\ opened' = opened \cup {a}
     \/ attempts' = [attempts EXCEPT ![a].pc = "failed"] /\ UNCHANGED opened
  /\ UNCHANGED <<srv, handler, asked, catalog, serving>>

(* publishBindFailure: unless the attempt is stale, nothing is bound now.  *)
publishBindFailure(a) ==
  /\ attempts[a].pc = "failed" /\ NoCall
  /\ IF Stale(a)
     THEN attempts' = [attempts EXCEPT ![a].pc = "finish"] /\ UNCHANGED srv
     ELSE /\ attempts' = [attempts EXCEPT ![a].pc = "finish", ![a].old = Owned(srv.cleanup),
                                          ![a].notify = srv.optimisticList]
          /\ srv' = [srv EXCEPT !.bindInFlight = FALSE, !.bindCancel = None, !.cleanup = None,
                                !.bound = None, !.optimisticList = FALSE]
  /\ UNCHANGED <<opened, handler, asked, catalog, serving>>

(* Mutant of Discard: a late runtime is not closed.                        *)
DiscardUnclosed(a) == [attempts[a] EXCEPT !.pc = "finish"]

(* A late runtime is to be closed, never stored.                           *)
Discard(a) == [attempts[a] EXCEPT !.pc = "finish", !.old = {a}]

(* runBind: unless the attempt is stale, its runtime is bound now.         *)
runBind(a) ==
  /\ attempts[a].pc = "publish" /\ NoCall
  /\ IF Stale(a)
     THEN attempts' = [attempts EXCEPT ![a] = Discard(a)] /\ UNCHANGED srv
     ELSE /\ attempts' = [attempts EXCEPT ![a].pc = "finish", ![a].old = Owned(srv.cleanup),
                                          ![a].notify = srv.optimisticList]
          /\ srv' = [srv EXCEPT !.bindInFlight = FALSE, !.bindCancel = None, !.cleanup = a,
                                !.bound = a, !.optimisticList = FALSE]
  /\ UNCHANGED <<opened, handler, asked, catalog, serving>>

(* Mutant of Finish: the list is not signalled.                            *)
FinishQuietly(a) ==
  /\ attempts[a].pc = "finish"
  /\ opened' = opened \ attempts[a].old
  /\ attempts' = [attempts EXCEPT ![a] = Ended(a)]
  /\ UNCHANGED <<srv, handler, asked, catalog, serving>>

(* Outside the locks: close the old runtime, signal the list, close done.  *)
Finish(a) ==
  /\ attempts[a].pc = "finish"
  /\ opened' = opened \ attempts[a].old
  /\ srv' = [srv EXCEPT !.toolsChanged = @ \/ attempts[a].notify]
  /\ attempts' = [attempts EXCEPT ![a] = Ended(a)]
  /\ UNCHANGED <<handler, asked, catalog, serving>>

(***************************************************************************)
(* The end of the session.                                                 *)
(***************************************************************************)

(* End of input or a signal; Serve's context is cancelled.                 *)
ServeEnds ==
  /\ serving /\ serving' = FALSE
  /\ UNCHANGED <<srv, attempts, opened, handler, asked, catalog>>

(* Close, deferred by the caller of Serve.                                 *)
Close ==
  /\ ~serving /\ handler["stdio"].pc = "idle" /\ ~srv.closed /\ NoCall
  /\ srv' = [srv EXCEPT !.closed = TRUE, !.cleanup = None, !.bindCancel = None, !.bound = None]
  /\ opened' = opened \ Owned(srv.cleanup)
  /\ Cancel({srv.bindCancel})
  /\ UNCHANGED <<handler, asked, catalog, serving>>

Request(h) ==
  \/ \E supplied, rootsCapable \in BOOLEAN : initialize(h, supplied, rootsCapable)
  \/ requestRootsIfNeeded(h) \/ invalidateRootsChanged(h)
  \/ ToolsCall(h) \/ ToolsList(h)

Environment ==
  \/ \E h \in Handlers : Request(h) \/ Disconnect(h)
  \/ \E id \in 1..MaxAsks, ok \in BOOLEAN : handleRootsResponse(id, ok)
  \/ ServeEnds

Continue(h) == startBind(h) \/ bind(h) \/ failBinding(h) \/ Cleanup(h) \/ CallReturns(h)

Goroutine(a) ==
  \/ Join(a) \/ JoinCancelled(a) \/ BinderReturns(a)
  \/ runBind(a) \/ publishBindFailure(a) \/ Finish(a)

Next ==
  \/ Environment
  \/ \E h \in Handlers : Continue(h)
  \/ \E a \in Attempts : Goroutine(a)
  \/ ListChanged
  \/ Close

(* Every started request and goroutine runs on, and the binder returns.    *)
(* The stdio loop's select, which picks a ready case at random, does not   *)
(* pass over the list_changed signal forever.                              *)
Fairness ==
  /\ \A h \in Handlers : WF_vars(Continue(h))
  /\ \A a \in Attempts : WF_vars(Goroutine(a))
  /\ SF_vars(ListChanged) /\ WF_vars(Close)

Spec == Init /\ [][Next]_vars /\ Fairness

(***************************************************************************)
(* Properties.                                                             *)
(***************************************************************************)

(* What is bound was bound since the last roots change and is owned by the *)
(* server, whose cleanup will close it: a binder that returns late, after  *)
(* its roots were replaced or the session closed, publishes nothing.       *)
ServesCurrent ==
  /\ srv.bound # None => attempts[srv.bound].gen = srv.bindGen /\ ~srv.closed
  /\ srv.cleanup = srv.bound

(* The runtime under a tool call stays bound and open until the call       *)
(* returns, whatever roots change, rebind or Close comes meanwhile.        *)
NoUseAfterClose ==
  \A h \in Handlers : handler[h].pc = "call" => srv.bound = handler[h].on /\ srv.bound \in opened

(* Every open runtime has exactly one owner who will close it: the server, *)
(* the goroutine that opened or displaced it, or the request that took it  *)
(* away.  No runtime is leaked and none is closed twice.                   *)
OneOwner ==
  \A r \in Attempts :
    Cardinality({a \in Attempts : r \in attempts[a].old}) + Cardinality({h \in Handlers : r \in handler[h].old})
      + Cardinality({r} \cap {srv.cleanup}) + Cardinality({a \in {r} : attempts[a].pc = "publish"})
    = Cardinality({r} \cap opened)

(* A session that is waiting for a binding does not wait forever: each     *)
(* attempt, cancelled or not, is resolved.                                 *)
BindResolves == srv.bindInFlight ~> (~srv.bindInFlight \/ srv.closed)

(* A client that was served the static catalog while a binding was in      *)
(* flight is told to list again, unless its roots change or it goes away.  *)
ListChases ==
  \A g \in 0..MaxChanges :
    (catalog = "optimistic" /\ srv.bindInFlight /\ srv.bindGen = g)
      ~> (catalog # "optimistic" \/ srv.bindGen # g \/ ~serving)
=============================================================================
