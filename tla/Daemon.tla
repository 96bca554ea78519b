------------------------------- MODULE Daemon -------------------------------
(***************************************************************************)
(* Daemon processes that share one socket path, their control plane, and   *)
(* the watch manager behind it.  A connection's requests run on a          *)
(* goroutine of their own: track and untrack change the registry under one *)
(* lock and the watchers under another.  A process may be stopped by a     *)
(* request or a signal, or die.                                            *)
(*                                                                         *)
(* A watch service is a number that is free again once it has stopped.     *)
(***************************************************************************)
EXTENDS Integers, FiniteSets

CONSTANTS
  Daemons,     \* processes, in any order of their starts
  Conns,       \* client connections
  Workspaces,
  None,        \* no daemon, connection or workspace
  MaxServices  \* watch services of a process that may run at one time

ASSUME DaemonAssumption ==
  MaxServices \in Nat /\ None \notin Daemons \cup Conns \cup Workspaces /\ Daemons \cap Conns = {}

VARIABLES
  path,      \* the daemon whose socket file is at the path
  pc,        \* the next step of each process's runDaemon
  closed, done, \* Server.closed, and whether Server.done is closed
  overlap,   \* the daemons that have run beside another
  tracked,   \* control.tracked of each process
  services,  \* Manager.services: the service of each workspace, or 0
  mgrMu,     \* Manager.mu: the connection or process that holds it
  running,   \* the services of each process that are running
  held,      \* the services a connection or a process has taken to stop
  conn       \* the request that each connection is serving

vars == <<path, pc, closed, done, overlap, tracked, services, mgrMu, running, held, conn>>
server == <<closed, done>>
watch == <<services, mgrMu, running, held>>

Services == 1..MaxServices
NoConn   == [pc |-> "idle", d |-> None, w |-> None]
Live(d)  == pc[d] \notin {"off", "exited", "dead"}
Serves(x, d) == x \in Conns /\ conn[x].d = d
Accepts(d) == pc[d] = "wait" /\ ~closed[d]

ConnStates == [pc : {"idle", "open", "start_watch", "building", "stop_watch", "stopping"},
               d : Daemons \cup {None}, w : Workspaces \cup {None}]

(* Every variable has its type.                                            *)
TypeOK ==
  /\ path \in Daemons \cup {None}
  /\ pc \in [Daemons -> {"off", "start", "listen", "chmod", "wait", "stopall", "stopping", "exited", "dead"}]
  /\ closed \in [Daemons -> BOOLEAN] /\ done \subseteq Daemons /\ overlap \subseteq Daemons
  /\ tracked \in [Daemons -> SUBSET Workspaces]
  /\ services \in [Daemons -> [Workspaces -> 0..MaxServices]]
  /\ mgrMu \in [Daemons -> Conns \cup {None}]
  /\ running \in [Daemons -> SUBSET Services]
  /\ held \in [Daemons \cup Conns -> SUBSET Services]
  /\ conn \in [Conns -> ConnStates]

Init ==
  /\ path = None
  /\ pc = [d \in Daemons |-> "off"] /\ closed = [d \in Daemons |-> FALSE] /\ done = {} /\ overlap = {}
  /\ tracked = [d \in Daemons |-> {}]
  /\ services = [d \in Daemons |-> [w \in Workspaces |-> 0]]
  /\ mgrMu = [d \in Daemons |-> None]
  /\ running = [d \in Daemons |-> {}]
  /\ held = [x \in Daemons \cup Conns |-> {}]
  /\ conn = [c \in Conns |-> NoConn]

Goto(d, s) == pc' = [pc EXCEPT ![d] = s]
Step(c, s) == conn' = [conn EXCEPT ![c].pc = s]

(***************************************************************************)
(* The process.                                                            *)
(***************************************************************************)

(* daemon start, by an operator or by a client that found no daemon.       *)
startDaemon(d) ==
  /\ pc[d] = "off" /\ Goto(d, "start")
  /\ overlap' = IF \E e \in Daemons : Live(e) THEN overlap \cup {d} \cup {e \in Daemons : Live(e)} ELSE overlap
  /\ UNCHANGED <<path, server, tracked, watch, conn>>

(* Mutant of Remove: the path is left as it is.                            *)
RemoveNot(d) ==
  /\ pc[d] = "start" /\ Goto(d, "listen")
  /\ UNCHANGED <<path, server, overlap, tracked, watch, conn>>

(* Server.Start removes what is at the path...                             *)
Remove(d) ==
  /\ pc[d] = "start" /\ Goto(d, "listen")
  /\ path' = None
  /\ UNCHANGED <<server, overlap, tracked, watch, conn>>

(* ...listens there, which fails if another daemon was quicker...          *)
Listen(d) ==
  /\ pc[d] = "listen"
  /\ \/ path = None /\ path' = d /\ Goto(d, "chmod")
     \/ path # None /\ Goto(d, "exited") /\ UNCHANGED path
  /\ UNCHANGED <<server, overlap, tracked, watch, conn>>

(* ...and restricts the file, which fails if another daemon removed it.    *)
Chmod(d) ==
  /\ pc[d] = "chmod"
  /\ Goto(d, IF path = None THEN "exited" ELSE "wait")
  /\ UNCHANGED <<path, server, overlap, tracked, watch, conn>>

(* Mutant of Stop: done is not closed.                                     *)
StopUnsignalled(d) ==
  /\ path' = IF closed[d] THEN path ELSE None
  /\ closed' = [closed EXCEPT ![d] = TRUE]
  /\ UNCHANGED done

(* Server.Stop closes the listener, removes the file at the path, whoever  *)
(* made it, and signals done.                                              *)
Stop(d) ==
  /\ path' = IF closed[d] THEN path ELSE None
  /\ closed' = [closed EXCEPT ![d] = TRUE] /\ done' = done \cup {d}

Signal(d) ==
  /\ pc[d] = "wait" /\ ~closed[d]
  /\ Stop(d)
  /\ UNCHANGED <<pc, overlap, tracked, watch, conn>>

(* runDaemon sees done.                                                    *)
Done(d) ==
  /\ pc[d] = "wait" /\ d \in done /\ Goto(d, "stopall")
  /\ UNCHANGED <<path, server, overlap, tracked, watch, conn>>

(* StopAll empties the map under the lock and stops outside it.            *)
StopAll(d) ==
  /\ pc[d] = "stopall" /\ mgrMu[d] = None
  /\ held' = [held EXCEPT ![d] = {services[d][w] : w \in Workspaces} \ {0}]
  /\ services' = [services EXCEPT ![d] = [w \in Workspaces |-> 0]]
  /\ Goto(d, "stopping")
  /\ UNCHANGED <<path, server, overlap, tracked, mgrMu, running, conn>>

StopNext(d) ==
  /\ pc[d] = "stopping"
  /\ \E n \in held[d] : running' = [running EXCEPT ![d] = @ \ {n}] /\ held' = [held EXCEPT ![d] = @ \ {n}]
  /\ UNCHANGED <<path, pc, server, overlap, tracked, services, mgrMu, conn>>

(* What ends with the process: goroutines, watchers, connections.          *)
Ends(d) ==
  /\ tracked' = [tracked EXCEPT ![d] = {}]
  /\ services' = [services EXCEPT ![d] = [w \in Workspaces |-> 0]]
  /\ mgrMu' = [mgrMu EXCEPT ![d] = None]
  /\ running' = [running EXCEPT ![d] = {}]
  /\ held' = [x \in Daemons \cup Conns |-> IF x = d \/ Serves(x, d) THEN {} ELSE held[x]]
  /\ conn' = [c \in Conns |-> IF Serves(c, d) THEN NoConn ELSE conn[c]]

Exit(d) ==
  /\ pc[d] = "stopping" /\ held[d] = {} /\ Goto(d, "exited")
  /\ Ends(d)
  /\ UNCHANGED <<path, server, overlap>>

(* The process is killed; the socket file stays.                           *)
Die(d) ==
  /\ Live(d) /\ Goto(d, "dead")
  /\ Ends(d)
  /\ UNCHANGED <<path, server, overlap>>

(***************************************************************************)
(* Connections.                                                            *)
(***************************************************************************)

(* connect, once the daemon whose file is at the path accepts.             *)
dial(c) ==
  /\ conn[c].pc = "idle" /\ path # None /\ Accepts(path)
  /\ conn' = [conn EXCEPT ![c] = [NoConn EXCEPT !.pc = "open", !.d = path]]
  /\ UNCHANGED <<path, pc, server, overlap, tracked, watch>>

Disconnect(c) ==
  /\ conn[c].pc = "open"
  /\ conn' = [conn EXCEPT ![c] = NoConn]
  /\ UNCHANGED <<path, pc, server, overlap, tracked, watch>>

(* The stop request, once it is acknowledged.                              *)
StopRequest(c) ==
  /\ conn[c].pc = "open"
  /\ Stop(conn[c].d)
  /\ conn' = [conn EXCEPT ![c] = NoConn]
  /\ UNCHANGED <<pc, overlap, tracked, watch>>

(* track: the registry, and the watcher unless it was there already.       *)
track(c, w) ==
  LET d == conn[c].d
  IN  /\ conn[c].pc = "open"
      /\ tracked' = [tracked EXCEPT ![d] = @ \cup {w}]
      /\ conn' = [conn EXCEPT ![c].pc = IF w \in tracked[d] THEN "open" ELSE "start_watch", ![c].w = w]
      /\ UNCHANGED <<path, pc, server, overlap, watch>>

(* Mutant of StartWatch: the lock is freed before indexing.                *)
StartWatchUnlocked(c) ==
  LET d == conn[c].d
  IN  /\ conn[c].pc = "start_watch" /\ mgrMu[d] = None
      /\ IF services[d][conn[c].w] # 0 THEN Step(c, "open") ELSE Step(c, "building")
      /\ UNCHANGED <<path, pc, server, overlap, tracked, watch>>

(* StartWatch keeps the lock while it indexes the workspace.               *)
StartWatch(c) ==
  LET d == conn[c].d
  IN  /\ conn[c].pc = "start_watch" /\ mgrMu[d] = None
      /\ IF services[d][conn[c].w] # 0
         THEN Step(c, "open") /\ UNCHANGED mgrMu
         ELSE Step(c, "building") /\ mgrMu' = [mgrMu EXCEPT ![d] = c]
      /\ UNCHANGED <<path, pc, server, overlap, tracked, services, running, held>>

(* The service is running and registered, or one of the steps failed.      *)
Built(c) ==
  LET d == conn[c].d
      n == CHOOSE m \in Services : m \notin running[d]
  IN  /\ conn[c].pc = "building" /\ Step(c, "open")
      /\ mgrMu' = [mgrMu EXCEPT ![d] = None]
      /\ \/ /\ running[d] # Services
            /\ running' = [running EXCEPT ![d] = @ \cup {n}]
            /\ services' = [services EXCEPT ![d][conn[c].w] = n]
         \/ UNCHANGED <<running, services>>
      /\ UNCHANGED <<path, pc, server, overlap, tracked, held>>

(* untrack: the registry, then the watcher if it was there.                *)
untrack(c, w) ==
  LET d == conn[c].d
  IN  /\ conn[c].pc = "open" /\ w \in tracked[d]
      /\ tracked' = [tracked EXCEPT ![d] = @ \ {w}]
      /\ conn' = [conn EXCEPT ![c].pc = "stop_watch", ![c].w = w]
      /\ UNCHANGED <<path, pc, server, overlap, watch>>

(* StopWatch forgets the service under the lock and stops it outside.      *)
StopWatch(c) ==
  LET d == conn[c].d
      n == services[d][conn[c].w]
  IN  /\ conn[c].pc = "stop_watch" /\ mgrMu[d] = None
      /\ services' = [services EXCEPT ![d][conn[c].w] = 0]
      /\ held' = [held EXCEPT ![c] = {n} \ {0}]
      /\ Step(c, IF n = 0 THEN "open" ELSE "stopping")
      /\ UNCHANGED <<path, pc, server, overlap, tracked, mgrMu, running>>

Stopped(c) ==
  /\ conn[c].pc = "stopping" /\ Step(c, "open")
  /\ running' = [running EXCEPT ![conn[c].d] = @ \ held[c]]
  /\ held' = [held EXCEPT ![c] = {}]
  /\ UNCHANGED <<path, pc, server, overlap, tracked, services, mgrMu>>

Environment ==
  \/ \E d \in Daemons : startDaemon(d) \/ Signal(d) \/ Die(d)
  \/ \E c \in Conns : dial(c) \/ Disconnect(c) \/ StopRequest(c)
  \/ \E c \in Conns, w \in Workspaces : track(c, w) \/ untrack(c, w)

runDaemon(d) == Remove(d) \/ Listen(d) \/ Chmod(d) \/ Done(d) \/ StopAll(d) \/ StopNext(d) \/ Exit(d)

Serve(c) == StartWatch(c) \/ Built(c) \/ StopWatch(c) \/ Stopped(c)

Next ==
  \/ Environment
  \/ \E d \in Daemons : runDaemon(d)
  \/ \E c \in Conns : Serve(c)

(* A process runs on and a request is served to its end, an initial index  *)
(* included.  sync.Mutex does not starve StopAll.                          *)
Fairness ==
  /\ \A d \in Daemons : WF_vars(runDaemon(d)) /\ SF_vars(StopAll(d))
  /\ \A c \in Conns : WF_vars(Serve(c))

Spec == Init /\ [][Next]_vars /\ Fairness

(***************************************************************************)
(* Properties.                                                             *)
(***************************************************************************)

(* Every running watcher is in the map of its process or in the hands of   *)
(* exactly one goroutine that is to stop it, and the map holds running     *)
(* watchers only: whatever tracks, untracks and shutdown overlap, no       *)
(* watcher is lost to those who must stop it and none is stopped twice.    *)
WatchersOwned ==
  \A d \in Daemons, n \in Services :
    Cardinality({w \in Workspaces : services[d][w] = n})
      + Cardinality({x \in {d} \cup {c \in Conns : Serves(c, d)} : n \in held[x]})
    = Cardinality({n} \cap running[d])

(* Once it is stopped, by a request or a signal, the process exits, even   *)
(* while a workspace is being indexed or clients go on tracking.           *)
StopExits == \A d \in Daemons : closed[d] ~> ~Live(d)

(* A daemon that runs alone comes to serve at the path, whatever socket    *)
(* file a daemon that died there has left.                                 *)
AloneServes ==
  \A d \in Daemons :
    (pc[d] = "start") ~> ((path = d /\ pc[d] = "wait") \/ d \in overlap \/ pc[d] = "dead")
=============================================================================
