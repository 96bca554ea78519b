---------------------------- MODULE DaemonProofs ----------------------------
(***************************************************************************)
(* No watcher is lost to those who must stop it, and none is stopped       *)
(* twice.                                                                  *)
(***************************************************************************)
EXTENDS Daemon, FiniteSetTheorems, TLAPS

(***************************************************************************)
(* The inductive invariant.                                                *)
(***************************************************************************)

(* A connection that serves a request has a daemon and a workspace.        *)
Connected ==
  \A c \in Conns :
    /\ conn[c].d = None <=> conn[c].pc = "idle"
    /\ conn[c].pc \in {"start_watch", "building", "stop_watch", "stopping"} => conn[c].w # None

(* Who builds a watcher holds the lock, and the workspace has none.        *)
Locked ==
  \A c \in Conns : conn[c].pc = "building" =>
    mgrMu[conn[c].d] = c /\ services[conn[c].d][conn[c].w] = 0

(* Who has taken a watcher is about to stop it.                            *)
Stopping ==
  /\ \A d \in Daemons : held[d] # {} => pc[d] = "stopping"
  /\ \A c \in Conns : held[c] # {} => conn[c].pc = "stopping"

(* The goroutines of a process.                                            *)
Of(x, d) == x = d \/ Serves(x, d)
Holders == Daemons \cup Conns

(* The map has running watchers, one for each workspace...                 *)
Mapped(d) ==
  \A v, w \in Workspaces : services[d][w] # 0 =>
    services[d][w] \in running[d] /\ (services[d][v] = services[d][w] => v = w)

(* ...whoever has taken one is the only one to have it...                  *)
Taken(d) ==
  \A x \in Holders : Of(x, d) =>
    /\ held[x] \subseteq running[d] /\ \A w \in Workspaces : services[d][w] \notin held[x]
    /\ \A y \in Holders : Of(y, d) /\ x # y => held[x] \cap held[y] = {}

(* ...and every running watcher is in the map or taken.                    *)
NoneLost(d) ==
  \A n \in running[d] : \/ \E w \in Workspaces : services[d][w] = n
                        \/ \E x \in Holders : Of(x, d) /\ n \in held[x]

Owners == Stopping /\ \A d \in Daemons : Mapped(d) /\ Taken(d) /\ NoneLost(d)

DaemonInv == TypeOK /\ Connected /\ Locked /\ Owners

(***************************************************************************)
(* Types.                                                                  *)
(***************************************************************************)

LEMMA DaemonTypeInit == Init => TypeOK
  BY DaemonAssumption DEF Init, TypeOK, NoConn, ConnStates

(* The records of connections under the changes that are made to them.     *)
LEMMA NoConnType == NoConn \in ConnStates BY DEF NoConn, ConnStates

LEMMA ConnGoto ==
  ASSUME TypeOK, NEW c \in Conns, NEW s \in {"open", "building", "stopping"}
  PROVE  [conn EXCEPT ![c].pc = s] \in [Conns -> ConnStates]
  BY DEF TypeOK, ConnStates

LEMMA ConnServe ==
  ASSUME TypeOK, NEW c \in Conns, NEW s \in {"open", "start_watch", "stop_watch"}, NEW w \in Workspaces
  PROVE  [conn EXCEPT ![c].pc = s, ![c].w = w] \in [Conns -> ConnStates]
  BY DEF TypeOK, ConnStates

(* The daemon and the workspace of a request.                              *)
LEMMA RequestOf ==
  ASSUME TypeOK, Connected, NEW c \in Conns
  PROVE  /\ conn[c].pc # "idle" => conn[c].d \in Daemons
         /\ conn[c].pc \in {"start_watch", "building", "stop_watch", "stopping"} => conn[c].w \in Workspaces
  BY DEF TypeOK, Connected, ConnStates

LEMMA DaemonTypeStep == TypeOK /\ Connected /\ [Next]_vars => TypeOK'
  <1> SUFFICES ASSUME TypeOK, Connected, [Next]_vars PROVE TypeOK' OBVIOUS
  <1> USE DaemonAssumption DEF TypeOK, Goto, Step, server, watch
  <1>1. ASSUME NEW d \in Daemons, startDaemon(d) PROVE TypeOK' BY <1>1 DEF startDaemon
  <1>2. ASSUME NEW d \in Daemons, Stop(d), UNCHANGED <<pc, overlap, tracked, watch>>, conn' \in [Conns -> ConnStates]
        PROVE  TypeOK'
    BY <1>2 DEF Stop
  <1>3. ASSUME NEW d \in Daemons, Signal(d) PROVE TypeOK' BY <1>2, <1>3 DEF Signal
  <1>4. ASSUME NEW d \in Daemons, Ends(d), NEW s \in {"exited", "dead"}, pc' = [pc EXCEPT ![d] = s],
               UNCHANGED <<path, server, overlap>>
        PROVE  TypeOK'
    <2>1. conn' \in [Conns -> ConnStates] BY <1>4, NoConnType DEF Ends
    <2>2. /\ tracked' \in [Daemons -> SUBSET Workspaces] /\ services' \in [Daemons -> [Workspaces -> 0..MaxServices]]
          /\ mgrMu' \in [Daemons -> Conns \cup {None}] /\ running' \in [Daemons -> SUBSET Services]
          /\ held' \in [Daemons \cup Conns -> SUBSET Services]
      BY <1>4 DEF Ends
    <2>3. pc' \in [Daemons -> {"off", "start", "listen", "chmod", "wait", "stopall", "stopping", "exited", "dead"}]
      BY <1>4
    <2> QED BY <1>4, <2>1, <2>2, <2>3
  <1>5. ASSUME NEW d \in Daemons, Die(d) \/ Exit(d) PROVE TypeOK' BY <1>4, <1>5 DEF Die, Exit
  <1>6. ASSUME NEW d \in Daemons, Remove(d) \/ Listen(d) \/ Chmod(d) \/ Done(d) PROVE TypeOK'
    BY <1>6 DEF Remove, Listen, Chmod, Done
  <1>7. ASSUME NEW d \in Daemons, StopAll(d) PROVE TypeOK'
    <2>1. {services[d][w] : w \in Workspaces} \ {0} \in SUBSET Services BY DEF Services
    <2> QED BY <1>7, <2>1 DEF StopAll
  <1>8. ASSUME NEW d \in Daemons, StopNext(d) PROVE TypeOK' BY <1>8 DEF StopNext
  <1>9. ASSUME NEW c \in Conns, dial(c) PROVE TypeOK' BY <1>9, NoConnType DEF dial, NoConn, ConnStates
  <1>10. ASSUME NEW c \in Conns, Disconnect(c) PROVE TypeOK' BY <1>10, NoConnType DEF Disconnect
  <1>11. ASSUME NEW c \in Conns, StopRequest(c) PROVE TypeOK'
    BY <1>11, <1>2, NoConnType, RequestOf DEF StopRequest
  <1>12. ASSUME NEW c \in Conns, NEW w \in Workspaces, track(c, w) \/ untrack(c, w) PROVE TypeOK'
    <2>1. conn[c].d \in Daemons BY <1>12, RequestOf DEF track, untrack
    <2>2. conn' \in [Conns -> ConnStates]
      <3>1. PICK s \in {"open", "start_watch", "stop_watch"} : conn' = [conn EXCEPT ![c].pc = s, ![c].w = w]
        BY <1>12 DEF track, untrack
      <3> HIDE DEF TypeOK
      <3> QED BY <3>1, ConnServe
    <2>3. tracked' \in [Daemons -> SUBSET Workspaces]
      <3>1. CASE track(c, w) BY <2>1, <3>1 DEF track
      <3>2. CASE untrack(c, w) BY <2>1, <3>2 DEF untrack
      <3> QED BY <1>12, <3>1, <3>2
    <2> QED BY <1>12, <2>2, <2>3 DEF track, untrack
  <1>13. ASSUME NEW c \in Conns, StartWatch(c) PROVE TypeOK'
    <2>1. conn' \in [Conns -> ConnStates]
      <3>1. conn' = [conn EXCEPT ![c].pc = "open"] \/ conn' = [conn EXCEPT ![c].pc = "building"]
        BY <1>13 DEF StartWatch
      <3> HIDE DEF TypeOK
      <3> QED BY <3>1, ConnGoto
    <2>2. mgrMu' \in [Daemons -> Conns \cup {None}] BY <1>13 DEF StartWatch
    <2> QED BY <1>13, <2>1, <2>2 DEF StartWatch
  <1>14. ASSUME NEW c \in Conns, Built(c) PROVE TypeOK'
    <2> DEFINE d == conn[c].d
               n == CHOOSE m \in Services : m \notin running[d]
    <2>1. conn' \in [Conns -> ConnStates] BY <1>14, ConnGoto DEF Built
    <2>2. d \in Daemons /\ conn[c].w \in Workspaces BY <1>14, RequestOf DEF Built
    <2>3. running[d] # Services => n \in Services /\ n \in 0..MaxServices
      <3>1. running[d] # Services => \E m \in Services : m \notin running[d] BY <2>2
      <3>2. Services \subseteq 0..MaxServices BY DEF Services
      <3>3. (\E m \in Services : m \notin running[d]) => n \in Services BY Zenon
      <3> HIDE DEF n
      <3> QED BY <3>1, <3>2, <3>3
    <2>4. mgrMu' \in [Daemons -> Conns \cup {None}] BY <1>14 DEF Built
    <2> HIDE DEF n
    <2>5. running' \in [Daemons -> SUBSET Services] /\ services' \in [Daemons -> [Workspaces -> 0..MaxServices]]
      <3>1. CASE /\ running[d] # Services /\ running' = [running EXCEPT ![d] = @ \cup {n}]
                 /\ services' = [services EXCEPT ![d][conn[c].w] = n]
        BY <2>2, <2>3, <3>1
      <3>2. CASE UNCHANGED <<running, services>> BY <3>2
      <3> QED BY <1>14, <3>1, <3>2 DEF Built, n
    <2> QED BY <1>14, <2>1, <2>4, <2>5 DEF Built
  <1>15. ASSUME NEW c \in Conns, StopWatch(c) PROVE TypeOK'
    <2>1. conn' \in [Conns -> ConnStates] BY <1>15, ConnGoto DEF StopWatch
    <2>2. conn[c].d \in Daemons /\ conn[c].w \in Workspaces BY <1>15, RequestOf DEF StopWatch
    <2>3. {services[conn[c].d][conn[c].w]} \ {0} \in SUBSET Services BY <2>2 DEF Services
    <2>4. held' \in [Daemons \cup Conns -> SUBSET Services] BY <1>15, <2>3 DEF StopWatch
    <2>5. services' \in [Daemons -> [Workspaces -> 0..MaxServices]] BY <1>15, <2>2 DEF StopWatch
    <2> QED BY <1>15, <2>1, <2>4, <2>5 DEF StopWatch
  <1>16. ASSUME NEW c \in Conns, Stopped(c) PROVE TypeOK'
    <2>1. conn' \in [Conns -> ConnStates] BY <1>16, ConnGoto DEF Stopped
    <2>2. running' \in [Daemons -> SUBSET Services] BY <1>16, RequestOf DEF Stopped
    <2> QED BY <1>16, <2>1, <2>2 DEF Stopped
  <1>17. CASE UNCHANGED vars BY <1>17 DEF vars
  <1> HIDE DEF TypeOK
  <1> QED BY <1>1, <1>3, <1>5, <1>6, <1>7, <1>8, <1>9, <1>10, <1>11, <1>12, <1>13, <1>14, <1>15, <1>16, <1>17
          DEF Next, Environment, runDaemon, Serve

(***************************************************************************)
(* Connections and the lock.                                               *)
(***************************************************************************)

LEMMA ConnectedStep == TypeOK /\ Connected /\ [Next]_vars => Connected'
  <1> SUFFICES ASSUME TypeOK, Connected, [Next]_vars PROVE Connected' OBVIOUS
  <1>t. conn \in [Conns -> ConnStates] BY DEF TypeOK
  <1>n. None \notin Daemons /\ None \notin Workspaces BY DaemonAssumption
  <1>0. NoConn.pc = "idle" /\ NoConn.d = None BY DEF NoConn
  <1> USE <1>t, <1>n, <1>0 DEF Connected, ConnStates, Step
  <1>1. ASSUME NEW c \in Conns, dial(c) PROVE Connected'
    <2>1. path \in Daemons BY <1>1 DEF dial, TypeOK
    <2> QED BY <1>1, <2>1 DEF dial, NoConn
  <1>2. ASSUME NEW c \in Conns, Disconnect(c) \/ StopRequest(c) PROVE Connected'
    BY <1>2 DEF Disconnect, StopRequest
  <1>3. ASSUME NEW c \in Conns, NEW w \in Workspaces, track(c, w) PROVE Connected' BY <1>3 DEF track
  <1>4. ASSUME NEW c \in Conns, NEW w \in Workspaces, untrack(c, w) PROVE Connected' BY <1>4 DEF untrack
  <1>5. ASSUME NEW c \in Conns, Serve(c) PROVE Connected'
    <2>1. CASE StartWatch(c) BY <2>1 DEF StartWatch
    <2>2. CASE Built(c) BY <2>2 DEF Built
    <2>3. CASE StopWatch(c) BY <2>3 DEF StopWatch
    <2>4. CASE Stopped(c) BY <2>4 DEF Stopped
    <2> QED BY <1>5, <2>1, <2>2, <2>3, <2>4 DEF Serve
  <1>6. ASSUME NEW d \in Daemons, Die(d) \/ Exit(d) PROVE Connected' BY <1>6 DEF Die, Exit, Ends
  <1>7. ASSUME UNCHANGED conn PROVE Connected' BY <1>7
  <1>8. ASSUME NEW d \in Daemons, startDaemon(d) \/ Signal(d) PROVE UNCHANGED conn BY <1>8 DEF startDaemon, Signal
  <1>9. ASSUME NEW d \in Daemons, runDaemon(d), ~Exit(d) PROVE UNCHANGED conn
    BY <1>9 DEF runDaemon, Remove, Listen, Chmod, Done, StopAll, StopNext
  <1>10. CASE UNCHANGED vars BY <1>10 DEF vars
  <1> HIDE DEF Connected
  <1> QED BY <1>1, <1>2, <1>3, <1>4, <1>5, <1>6, <1>7, <1>8, <1>9, <1>10 DEF Next, Environment, runDaemon

LEMMA LockedStep == TypeOK /\ Connected /\ Locked /\ [Next]_vars => Locked'
  <1> SUFFICES ASSUME TypeOK, Connected, Locked, [Next]_vars PROVE Locked' OBVIOUS
  <1>t. /\ conn \in [Conns -> ConnStates] /\ services \in [Daemons -> [Workspaces -> 0..MaxServices]]
        /\ mgrMu \in [Daemons -> Conns \cup {None}] /\ None \notin Conns
    BY DaemonAssumption DEF TypeOK
  <1>r. \A c \in Conns : conn[c].pc \in {"start_watch", "building", "stop_watch", "stopping"} =>
                           conn[c].d \in Daemons /\ conn[c].w \in Workspaces
    BY RequestOf
  <1>0. NoConn.pc = "idle" BY DEF NoConn
  <1> USE <1>t, <1>r, <1>0 DEF Locked, ConnStates, Step, watch
  <1>1. ASSUME NEW c \in Conns, dial(c) PROVE Locked' BY <1>1 DEF dial, NoConn
  <1>2. ASSUME NEW c \in Conns, Disconnect(c) \/ StopRequest(c) PROVE Locked'
    BY <1>2 DEF Disconnect, StopRequest
  <1>3. ASSUME NEW c \in Conns, NEW w \in Workspaces, track(c, w) PROVE Locked' BY <1>3 DEF track
  <1>4. ASSUME NEW c \in Conns, NEW w \in Workspaces, untrack(c, w) PROVE Locked' BY <1>4 DEF untrack
  <1>5. ASSUME NEW c \in Conns, StartWatch(c) PROVE Locked'
    <2>1. conn[c].d \in Daemons BY <1>5 DEF StartWatch
    <2>2. \A e \in Conns : conn[e].pc = "building" => conn[e].d # conn[c].d BY <1>5 DEF StartWatch
    <2> QED BY <1>5, <2>1, <2>2 DEF StartWatch
  <1>6. ASSUME NEW c \in Conns, Built(c) PROVE Locked'
    <2>1. conn[c].d \in Daemons BY <1>6 DEF Built
    <2>2. \A e \in Conns : e # c /\ conn[e].pc = "building" => conn[e].d # conn[c].d BY <1>6 DEF Built
    <2>3. \A e \in Conns : e # c => conn'[e] = conn[e] BY <1>6 DEF Built
    <2>4. conn'[c].pc = "open" BY <1>6 DEF Built
    <2>5. \A d \in Daemons : d # conn[c].d => mgrMu'[d] = mgrMu[d] /\ services'[d] = services[d] BY <1>6 DEF Built
    <2> QED BY <2>2, <2>3, <2>4, <2>5
  <1>7. ASSUME NEW c \in Conns, StopWatch(c) PROVE Locked'
    <2>1. \A e \in Conns : conn[e].pc = "building" => conn[e].d # conn[c].d BY <1>7 DEF StopWatch
    <2>2. \A d \in Daemons : d # conn[c].d => mgrMu'[d] = mgrMu[d] /\ services'[d] = services[d]
      BY <1>7 DEF StopWatch
    <2>3. \A e \in Conns : e # c => conn'[e] = conn[e] BY <1>7 DEF StopWatch
    <2>4. conn'[c].pc # "building" BY <1>7 DEF StopWatch
    <2> QED BY <2>1, <2>2, <2>3, <2>4
  <1>8. ASSUME NEW c \in Conns, Stopped(c) PROVE Locked' BY <1>8 DEF Stopped
  <1>9. ASSUME NEW d \in Daemons, Die(d) \/ Exit(d) PROVE Locked'
    <2>1. /\ mgrMu' = [mgrMu EXCEPT ![d] = None] /\ services' = [services EXCEPT ![d] = [w \in Workspaces |-> 0]]
          /\ conn' = [c \in Conns |-> IF conn[c].d = d THEN NoConn ELSE conn[c]]
      BY <1>9 DEF Die, Exit, Ends, Serves
    <2> QED BY <2>1
  <1>10. ASSUME NEW d \in Daemons, StopAll(d) PROVE Locked' BY <1>10 DEF StopAll
  <1>11. ASSUME UNCHANGED <<conn, services, mgrMu>> PROVE Locked' BY <1>11
  <1>12. ASSUME NEW d \in Daemons, startDaemon(d) \/ Signal(d) PROVE UNCHANGED <<conn, services, mgrMu>>
    BY <1>12 DEF startDaemon, Signal
  <1>13. ASSUME NEW d \in Daemons, Remove(d) \/ Listen(d) \/ Chmod(d) \/ Done(d) \/ StopNext(d)
         PROVE  UNCHANGED <<conn, services, mgrMu>>
    BY <1>13 DEF Remove, Listen, Chmod, Done, StopNext
  <1>14. CASE UNCHANGED vars BY <1>14 DEF vars
  <1> HIDE DEF Locked
  <1> QED BY <1>1, <1>2, <1>3, <1>4, <1>5, <1>6, <1>7, <1>8, <1>9, <1>10, <1>11, <1>12, <1>13, <1>14
          DEF Next, Environment, runDaemon, Serve

(***************************************************************************)
(* Owners of watchers.                                                     *)
(***************************************************************************)

(* Most steps touch no watcher and leave alone who is about to stop one.   *)
LEMMA OwnersFrame ==
  ASSUME Owners, UNCHANGED <<services, running, held>>,
         \A c \in Conns : held[c] # {} => conn'[c] = conn[c],
         \A d \in Daemons : held[d] # {} => pc'[d] = pc[d]
  PROVE  Owners'
  <1>1. Stopping' BY DEF Owners, Stopping
  <1>2. ASSUME NEW d \in Daemons PROVE Mapped(d)' BY DEF Owners, Mapped
  <1>3. \A x \in Holders, d \in Daemons : held[x] # {} => (Of(x, d)' <=> Of(x, d)) BY DEF Of, Serves
  <1>4. ASSUME NEW d \in Daemons PROVE Taken(d)' BY <1>3 DEF Owners, Taken
  <1>5. ASSUME NEW d \in Daemons PROVE NoneLost(d)' BY <1>3 DEF Owners, NoneLost
  <1> QED BY <1>1, <1>2, <1>4, <1>5 DEF Owners

(* A step within process d leaves the others' watchers alone.              *)
LEMMA OwnersWithin ==
  ASSUME Owners, Stopping', NEW d \in Daemons, Mapped(d)', Taken(d)', NoneLost(d)',
         \A e \in Daemons : e # d => services'[e] = services[e] /\ running'[e] = running[e],
         \A x \in Holders, e \in Daemons : e # d => (Of(x, e)' <=> Of(x, e)) /\ (Of(x, e) => held'[x] = held[x])
  PROVE  Owners'
  <1>1. ASSUME NEW e \in Daemons, e # d PROVE Mapped(e)' BY <1>1 DEF Owners, Mapped
  <1>2. ASSUME NEW e \in Daemons, e # d PROVE Taken(e)' BY <1>2 DEF Owners, Taken
  <1>3. ASSUME NEW e \in Daemons, e # d PROVE NoneLost(e)' BY <1>3 DEF Owners, NoneLost
  <1> QED BY <1>1, <1>2, <1>3 DEF Owners

LEMMA OwnersStep == TypeOK /\ Connected /\ Locked /\ Owners /\ [Next]_vars => Owners'
  <1> SUFFICES ASSUME TypeOK, Connected, Locked, Owners, [Next]_vars PROVE Owners' OBVIOUS
  <1>a. Daemons \cap Conns = {} /\ None \notin Daemons BY DaemonAssumption
  <1>t. /\ conn \in [Conns -> ConnStates] /\ services \in [Daemons -> [Workspaces -> 0..MaxServices]]
        /\ pc \in [Daemons -> {"off", "start", "listen", "chmod", "wait", "stopall", "stopping", "exited", "dead"}]
        /\ running \in [Daemons -> SUBSET Services] /\ held \in [Holders -> SUBSET Services] /\ 0 \notin Services
    BY DEF TypeOK, Holders, Services
  <1>s. \A c \in Conns : conn[c].pc # "stopping" => held[c] = {} BY DEF Owners, Stopping
  <1>p. \A d \in Daemons : pc[d] # "stopping" => held[d] = {} BY DEF Owners, Stopping
  <1> USE <1>a, <1>t, <1>s, <1>p DEF Goto, Step, watch
  <1>1. ASSUME NEW c \in Conns, dial(c) \/ Disconnect(c) \/ StopRequest(c) PROVE Owners'
    BY <1>1, OwnersFrame DEF dial, Disconnect, StopRequest
  <1>2. ASSUME NEW c \in Conns, NEW w \in Workspaces, track(c, w) \/ untrack(c, w) PROVE Owners'
    BY <1>2, OwnersFrame DEF track, untrack
  <1>3. ASSUME NEW d \in Daemons, startDaemon(d) \/ Signal(d) PROVE Owners'
    BY <1>3, OwnersFrame DEF startDaemon, Signal
  <1>4. ASSUME NEW d \in Daemons, Remove(d) \/ Listen(d) \/ Chmod(d) \/ Done(d) PROVE Owners'
    BY <1>4, OwnersFrame DEF Remove, Listen, Chmod, Done
  <1>5. ASSUME NEW c \in Conns, StartWatch(c) PROVE Owners' BY <1>5, OwnersFrame DEF StartWatch
  <1>6. ASSUME NEW d \in Daemons, StopAll(d) PROVE Owners'
    <2>1. /\ held' = [held EXCEPT ![d] = {services[d][w] : w \in Workspaces} \ {0}]
          /\ services' = [services EXCEPT ![d] = [w \in Workspaces |-> 0]]
          /\ pc' = [pc EXCEPT ![d] = "stopping"] /\ UNCHANGED <<running, conn>> /\ held[d] = {}
      BY <1>6 DEF StopAll
    <2>o. Mapped(d) /\ Taken(d) /\ NoneLost(d) BY DEF Owners
    <2>p. \A x \in Holders, e \in Daemons : Of(x, e)' <=> Of(x, e) BY <2>1 DEF Of, Serves, Holders
    <2>q. \A x \in Holders, e \in Daemons : e # d /\ Of(x, e) => held'[x] = held[x] BY <2>1 DEF Of, Serves, Holders
    <2>r. Stopping' BY <2>1 DEF Owners, Stopping, Holders
    <2>u. Mapped(d)' BY <2>1, <2>o DEF Mapped, Taken, Of, Serves, Holders
    <2>v. Taken(d)' BY <2>1, <2>o, <2>p DEF Taken, Mapped, Of, Serves, Holders
    <2>w. NoneLost(d)' BY <2>1, <2>o DEF Of, Serves, Holders, NoneLost, Mapped, Taken
    <2>x. \A e \in Daemons : e # d => services'[e] = services[e] /\ running'[e] = running[e] BY <2>1
    <2> QED BY <2>p, <2>q, <2>r, <2>u, <2>v, <2>w, <2>x, OwnersWithin
  <1>7. ASSUME NEW d \in Daemons, StopNext(d) PROVE Owners'
    <2>1. PICK n \in held[d] : running' = [running EXCEPT ![d] = @ \ {n}] /\ held' = [held EXCEPT ![d] = @ \ {n}]
      BY <1>7 DEF StopNext
    <2>2. UNCHANGED <<services, pc, conn>> /\ pc[d] = "stopping" BY <1>7 DEF StopNext
    <2>o. Mapped(d) /\ Taken(d) /\ NoneLost(d) BY DEF Owners
    <2>p. \A x \in Holders, e \in Daemons : Of(x, e)' <=> Of(x, e) BY <2>1, <2>2 DEF Of, Serves, Holders
    <2>q. \A x \in Holders, e \in Daemons : e # d /\ Of(x, e) => held'[x] = held[x] BY <2>1, <2>2 DEF Of, Serves, Holders
    <2>r. Stopping' BY <2>1, <2>2 DEF Owners, Stopping, Holders
    <2>u. Mapped(d)' BY <2>1, <2>2, <2>o DEF Mapped, Taken, Of, Serves, Holders
    <2>v. Taken(d)' BY <2>1, <2>2, <2>o, <2>p DEF Taken, Mapped, Of, Serves, Holders
    <2>w. NoneLost(d)' BY <2>1, <2>2, <2>o DEF Of, Serves, Holders, NoneLost, Mapped, Taken
    <2>x. \A e \in Daemons : e # d => services'[e] = services[e] /\ running'[e] = running[e] BY <2>1, <2>2
    <2> QED BY <2>p, <2>q, <2>r, <2>u, <2>v, <2>w, <2>x, OwnersWithin
  <1>8. ASSUME NEW d \in Daemons, Die(d) \/ Exit(d) PROVE Owners'
    <2>1. /\ services' = [services EXCEPT ![d] = [w \in Workspaces |-> 0]] /\ running' = [running EXCEPT ![d] = {}]
          /\ held' = [x \in Holders |-> IF Of(x, d) THEN {} ELSE held[x]]
          /\ conn' = [c \in Conns |-> IF Serves(c, d) THEN NoConn ELSE conn[c]]
          /\ \A e \in Daemons \ {d} : pc'[e] = pc[e]
      BY <1>8 DEF Die, Exit, Ends, Of, Holders
    <2>2. NoConn.d = None BY DEF NoConn
    <2>o. Mapped(d) /\ Taken(d) /\ NoneLost(d) BY DEF Owners
    <2>p. \A x \in Holders, e \in Daemons : e # d => (Of(x, e)' <=> Of(x, e)) BY <2>1, <2>2 DEF Of, Serves, Holders
    <2>q. \A x \in Holders, e \in Daemons : e # d /\ Of(x, e) => held'[x] = held[x] BY <2>1, <2>2 DEF Of, Serves, Holders
    <2>r. Stopping'
      <3>1. \A x \in Holders : held'[x] # {} => ~Of(x, d) /\ held'[x] = held[x] BY <2>1
      <3>2. \A c \in Conns : ~Of(c, d) => conn'[c] = conn[c] BY <2>1 DEF Of
      <3>3. \A e \in Daemons : ~Of(e, d) => pc'[e] = pc[e] BY <2>1 DEF Of
      <3> QED BY <3>1, <3>2, <3>3 DEF Owners, Stopping, Holders
    <2>u. Mapped(d)' BY <2>1, <2>2, <2>o DEF Mapped, Taken, Of, Serves, Holders
    <2>v. Taken(d)' BY <2>1, <2>2, <2>o, <2>p DEF Taken, Mapped, Of, Serves, Holders
    <2>w. NoneLost(d)' BY <2>1, <2>2, <2>o DEF Of, Serves, Holders, NoneLost, Mapped, Taken
    <2>x. \A e \in Daemons : e # d => services'[e] = services[e] /\ running'[e] = running[e] BY <2>1, <2>2
    <2> QED BY <2>p, <2>q, <2>r, <2>u, <2>v, <2>w, <2>x, OwnersWithin
  <1>9. ASSUME NEW c \in Conns, Built(c) PROVE Owners'
    <2>0. PICK d \in Daemons : d = conn[c].d BY <1>9, RequestOf DEF Built
    <2> DEFINE n == CHOOSE m \in Services : m \notin running[d]
    <2>1. conn[c].d = d /\ conn[c].w \in Workspaces BY <1>9, <2>0, RequestOf DEF Built
    <2>2. services[d][conn[c].w] = 0 /\ held[c] = {} BY <1>9, <2>1 DEF Built, Locked
    <2>3. running[d] # Services => n \in Services /\ n \notin running[d]
      <3>1. running[d] # Services => \E m \in Services : m \notin running[d] OBVIOUS
      <3>2. (\E m \in Services : m \notin running[d]) => n \in Services /\ n \notin running[d] BY Zenon
      <3> QED BY <3>1, <3>2
    <2>4. UNCHANGED <<pc, held>> /\ conn'[c].d = d /\ \A e \in Conns : e # c => conn'[e] = conn[e]
      BY <1>9, <2>1 DEF Built, ConnStates
    <2>5. \/ UNCHANGED <<running, services>>
          \/ /\ running[d] # Services /\ running' = [running EXCEPT ![d] = @ \cup {n}]
             /\ services' = [services EXCEPT ![d][conn[c].w] = n]
      BY <1>9, <2>1 DEF Built
    <2> HIDE DEF n
    <2>6. CASE UNCHANGED <<running, services>> BY <2>2, <2>4, <2>6, OwnersFrame
    <2> SUFFICES ASSUME ~UNCHANGED <<running, services>> PROVE Owners' BY <2>6
    <2>7. /\ n \in Services /\ n \notin running[d] /\ running' = [running EXCEPT ![d] = @ \cup {n}]
          /\ services' = [services EXCEPT ![d][conn[c].w] = n]
      BY <2>3, <2>5
    <2>8. /\ running'[d] = running[d] \cup {n} /\ services'[d][conn[c].w] = n
          /\ \A w \in Workspaces : w # conn[c].w => services'[d][w] = services[d][w]
      BY <2>1, <2>7
    <2>o. Mapped(d) /\ Taken(d) /\ NoneLost(d) BY DEF Owners
    <2>p. \A x \in Holders, e \in Daemons : Of(x, e)' <=> Of(x, e) BY <2>1, <2>2, <2>4, <2>7, <2>8 DEF Of, Serves, Holders
    <2>q. \A x \in Holders, e \in Daemons : e # d /\ Of(x, e) => held'[x] = held[x] BY <2>1, <2>2, <2>4, <2>7, <2>8 DEF Of, Serves, Holders
    <2>r. Stopping' BY <2>1, <2>2, <2>4, <2>7, <2>8 DEF Owners, Stopping, Holders
    <2>u. Mapped(d)' BY <2>1, <2>2, <2>4, <2>7, <2>8, <2>o DEF Mapped, Taken, Of, Serves, Holders
    <2>v. Taken(d)' BY <2>1, <2>2, <2>4, <2>7, <2>8, <2>o, <2>p DEF Taken, Mapped, Of, Serves, Holders
    <2>w. NoneLost(d)' BY <2>1, <2>2, <2>4, <2>7, <2>8, <2>o, <2>p DEF NoneLost
    <2>x. \A e \in Daemons : e # d => services'[e] = services[e] /\ running'[e] = running[e] BY <2>1, <2>2, <2>4, <2>7, <2>8
    <2> QED BY <2>p, <2>q, <2>r, <2>u, <2>v, <2>w, <2>x, OwnersWithin
  <1>10. ASSUME NEW c \in Conns, StopWatch(c) PROVE Owners'
    <2>0. PICK d \in Daemons : d = conn[c].d BY <1>10, RequestOf DEF StopWatch
    <2>1. PICK n \in 0..MaxServices : n = services[d][conn[c].w] BY <1>10, <2>0, RequestOf DEF StopWatch
    <2>2. conn[c].d = d /\ conn[c].w \in Workspaces /\ held[c] = {} BY <1>10, <2>0, RequestOf DEF StopWatch
    <2>3. /\ UNCHANGED <<pc, running>> /\ conn'[c].d = d /\ (n # 0 => conn'[c].pc = "stopping")
          /\ \A e \in Conns : e # c => conn'[e] = conn[e]
      BY <1>10, <2>1, <2>2 DEF StopWatch, ConnStates
    <2>4. /\ services' = [services EXCEPT ![d][conn[c].w] = 0] /\ held' = [held EXCEPT ![c] = {n} \ {0}]
      BY <1>10, <2>1, <2>2 DEF StopWatch
    <2>5. /\ services'[d][conn[c].w] = 0 /\ held'[c] = {n} \ {0} /\ \A x \in Holders : x # c => held'[x] = held[x]
          /\ \A w \in Workspaces : w # conn[c].w => services'[d][w] = services[d][w]
      BY <2>2, <2>4 DEF Holders
    <2>o. Mapped(d) /\ Taken(d) /\ NoneLost(d) BY DEF Owners
    <2>p. \A x \in Holders, e \in Daemons : Of(x, e)' <=> Of(x, e) BY <2>1, <2>2, <2>3, <2>4, <2>5 DEF Of, Serves, Holders
    <2>q. \A x \in Holders, e \in Daemons : e # d /\ Of(x, e) => held'[x] = held[x] BY <2>1, <2>2, <2>3, <2>4, <2>5 DEF Of, Serves, Holders
    <2>r. Stopping' BY <2>1, <2>2, <2>3, <2>4, <2>5 DEF Owners, Stopping, Holders
    <2>u. Mapped(d)' BY <2>1, <2>2, <2>3, <2>4, <2>5, <2>o DEF Mapped, Taken, Of, Serves, Holders
    <2>v. Taken(d)' BY <2>1, <2>2, <2>3, <2>4, <2>5, <2>o, <2>p DEF Taken, Mapped, Of, Serves, Holders
    <2>w. NoneLost(d)'
      <3>1. Of(c, d) /\ c \in Holders BY <2>2 DEF Of, Serves, Holders
      <3> SUFFICES ASSUME NEW m \in running[d]
                   PROVE  \/ \E w \in Workspaces : services'[d][w] = m
                          \/ \E x \in Holders : Of(x, d) /\ m \in held'[x]
        BY <2>3, <2>p DEF NoneLost
      <3>2. CASE m = n BY <2>5, <3>1, <3>2
      <3>3. CASE m # n
        <4>1. CASE \E w \in Workspaces : services[d][w] = m BY <2>1, <2>5, <3>3, <4>1
        <4>2. CASE \E x \in Holders : Of(x, d) /\ m \in held[x] BY <2>2, <2>5, <4>2
        <4> QED BY <2>o, <4>1, <4>2 DEF NoneLost
      <3> QED BY <3>2, <3>3
    <2>x. \A e \in Daemons : e # d => services'[e] = services[e] /\ running'[e] = running[e] BY <2>1, <2>2, <2>3, <2>4, <2>5
    <2> QED BY <2>p, <2>q, <2>r, <2>u, <2>v, <2>w, <2>x, OwnersWithin
  <1>11. ASSUME NEW c \in Conns, Stopped(c) PROVE Owners'
    <2>1. PICK d \in Daemons : d = conn[c].d BY <1>11, RequestOf DEF Stopped
    <2>2. /\ UNCHANGED <<pc, services>> /\ conn'[c].d = d /\ \A e \in Conns : e # c => conn'[e] = conn[e]
      BY <1>11, <2>1 DEF Stopped, ConnStates
    <2>3. running' = [running EXCEPT ![d] = @ \ held[c]] /\ held' = [held EXCEPT ![c] = {}]
      BY <1>11, <2>1 DEF Stopped
    <2>4. /\ running'[d] = running[d] \ held[c] /\ held'[c] = {} /\ \A x \in Holders : x # c => held'[x] = held[x]
      BY <2>3 DEF Holders
    <2>o. Mapped(d) /\ Taken(d) /\ NoneLost(d) BY DEF Owners
    <2>p. \A x \in Holders, e \in Daemons : Of(x, e)' <=> Of(x, e) BY <2>1, <2>2, <2>3, <2>4 DEF Of, Serves, Holders
    <2>q. \A x \in Holders, e \in Daemons : e # d /\ Of(x, e) => held'[x] = held[x] BY <2>1, <2>2, <2>3, <2>4 DEF Of, Serves, Holders
    <2>r. Stopping' BY <2>1, <2>2, <2>3, <2>4 DEF Owners, Stopping, Holders
    <2>u. Mapped(d)' BY <2>1, <2>2, <2>3, <2>4, <2>o DEF Mapped, Taken, Of, Serves, Holders
    <2>v. Taken(d)' BY <2>1, <2>2, <2>3, <2>4, <2>o, <2>p DEF Taken, Mapped, Of, Serves, Holders
    <2>w. NoneLost(d)' BY <2>1, <2>2, <2>3, <2>4, <2>o DEF Of, Serves, Holders, NoneLost, Mapped, Taken
    <2>x. \A e \in Daemons : e # d => services'[e] = services[e] /\ running'[e] = running[e] BY <2>1, <2>2, <2>3, <2>4
    <2> QED BY <2>p, <2>q, <2>r, <2>u, <2>v, <2>w, <2>x, OwnersWithin
  <1>12. CASE UNCHANGED vars BY <1>12, OwnersFrame DEF vars
  <1> QED BY <1>1, <1>2, <1>3, <1>4, <1>5, <1>6, <1>7, <1>8, <1>9, <1>10, <1>11, <1>12
          DEF Next, Environment, runDaemon, Serve

(***************************************************************************)
(* The theorem.                                                            *)
(***************************************************************************)

LEMMA DaemonInit == Init => DaemonInv
  BY DaemonTypeInit, DaemonAssumption
     DEF Init, DaemonInv, Connected, Locked, Owners, Stopping, Mapped, Taken, NoneLost, Of, Serves, Holders, NoConn

LEMMA DaemonStep == DaemonInv /\ [Next]_vars => DaemonInv'
  BY DaemonTypeStep, ConnectedStep, LockedStep, OwnersStep DEF DaemonInv

(* A set with at most one element.                                         *)
LEMMA AtMostOne ==
  ASSUME NEW S, \A x, y \in S : x = y
  PROVE  Cardinality(S) = IF S = {} THEN 0 ELSE 1
  <1>1. CASE S = {} BY <1>1, FS_EmptySet
  <1>2. CASE S # {}
    <2>1. PICK x \in S : TRUE BY <1>2
    <2>2. S = {x} BY <2>1
    <2> QED BY <1>2, <2>2, FS_Singleton
  <1> QED BY <1>1, <1>2

(* For any number of daemons, connections and workspaces, every running    *)
(* watcher is in the map of its process or held by the one goroutine that  *)
(* is to stop it, and no watcher that has stopped is in either place.      *)
THEOREM DaemonWatchersOwned == Spec => []WatchersOwned
  <1>1. DaemonInv => WatchersOwned
    <2> SUFFICES ASSUME DaemonInv, NEW d \in Daemons, NEW n \in Services
                 PROVE  Cardinality({w \in Workspaces : services[d][w] = n})
                          + Cardinality({x \in {d} \cup {c \in Conns : Serves(c, d)} : n \in held[x]})
                        = Cardinality({n} \cap running[d])
      BY DEF WatchersOwned
    <2> DEFINE W == {w \in Workspaces : services[d][w] = n}
               X == {x \in {d} \cup {c \in Conns : Serves(c, d)} : n \in held[x]}
               R == {n} \cap running[d]
    <2>0. n # 0 BY DEF Services
    <2>1. X = {x \in Holders : Of(x, d) /\ n \in held[x]} BY DaemonAssumption DEF Of, Serves, Holders
    <2>2. \A v, w \in W : v = w BY <2>0 DEF DaemonInv, Owners, Mapped
    <2>3. \A x, y \in X : x = y BY <2>1 DEF DaemonInv, Owners, Taken
    <2>4. W # {} => X = {} BY <2>1 DEF DaemonInv, Owners, Taken
    <2>5. W # {} \/ X # {} <=> R # {} BY <2>0, <2>1 DEF DaemonInv, Owners, Mapped, Taken, NoneLost
    <2>6. Cardinality(W) = IF W = {} THEN 0 ELSE 1 BY <2>2, AtMostOne
    <2>7. Cardinality(X) = IF X = {} THEN 0 ELSE 1 BY <2>3, AtMostOne
    <2>8. Cardinality(R) = IF R = {} THEN 0 ELSE 1 BY AtMostOne
    <2> HIDE DEF W, X, R
    <2>9. Cardinality(W) + Cardinality(X) = Cardinality(R) BY <2>4, <2>5, <2>6, <2>7, <2>8
    <2> QED BY <2>9 DEF W, X, R
  <1> QED BY <1>1, DaemonInit, DaemonStep, PTL DEF Spec
=============================================================================
