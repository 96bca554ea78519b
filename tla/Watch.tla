------------------------------- MODULE Watch --------------------------------
(***************************************************************************)
(* The watch service of one workspace root: file system notifications,     *)
(* the debouncing coalescer, its timer goroutines, the reconcile loop, and *)
(* Stop.  Timer goroutines and the reconcile loop resolve and parse their  *)
(* paths without a lock and apply them under applyMu.                      *)
(*                                                                         *)
(* Every write of a file makes a new version, so that versions order the   *)
(* contents of a file and two equal versions are two equal hashes.  cache  *)
(* is the sidecar's content cache, what drift is measured against.         *)
(***************************************************************************)
EXTENDS Integers, FiniteSets

CONSTANTS
  Files,      \* the paths of the root
  Dirs,       \* its directories below the root
  DirOf,      \* [Files -> Dirs]
  OldDirs,    \* the directories that exist at the start
  Broken,     \* <<file, version>> pairs that do not parse
  Batches,    \* slots for timer goroutines that carry a batch
  MaxVersion, \* bound on the writes of a file
  MaxEdits,   \* bound on the writes of all files
  MaxLost,    \* bound on the notifications lost
  MaxFaults   \* bound on the I/O errors met

ASSUME WatchAssumption ==
  /\ Files \cap Dirs = {} /\ DirOf \in [Files -> Dirs] /\ OldDirs \subseteq Dirs
  /\ Broken \subseteq Files \X Nat
  /\ {"reconcile", "nobody"} \cap Batches = {}
  /\ {MaxVersion, MaxEdits, MaxLost, MaxFaults} \subseteq Nat

VARIABLES
  disk,      \* each file's version, and whether the file is there
  dirs,      \* the directories that exist
  watched,   \* the directories with an fsnotify watch
  events,    \* notifications not handled yet
  cache,     \* the versions of the content cache; not here: no row
  late,      \* how many passes have committed since Stop
  pending,   \* the coalescer's pending set
  timer,     \* the state of the timer that coalescer.timer refers to
  strays,    \* armed timers that coalescer.timer no longer refers to
  fired,     \* timer goroutines that have not locked the coalescer yet
  stopped,   \* coalescer.stopped
  step,      \* the next step of each applier
  paths,     \* the paths an applier resolved
  parsed,    \* the versions its workers parsed
  walked,    \* what the pass under applyMu walked, then the rows of its transaction
  applyMu,   \* the applier that holds applyMu
  service,   \* how far Start and Stop have come
  lastErr,   \* has an error been recorded?
  left       \* what remains of the environment's bounds

vars == <<disk, dirs, watched, events, cache, late, pending, timer, strays, fired, stopped, step,
          paths, parsed, walked, applyMu, service, lastErr, left>>
treeVars == <<disk, dirs>>
indexVars == <<cache, late>>
coalescerVars == <<pending, timer, strays, fired, stopped>>
applierVars == <<step, paths, parsed, walked, applyMu>>

Nobody   == "nobody"
Appliers == Batches \cup {"reconcile"}
States   == [ver : 0..MaxVersion, here : BOOLEAN]
Unread   == [ver |-> -1, here |-> FALSE]
Parsed   == [Files -> States \cup {Unread}]
NoParse  == [f \in Files |-> Unread]

Parses(f, s) == <<f, s.ver>> \notin Broken

Stopping == service \notin {"new", "running"}

(* Mutant of Cancelled: Stop cancels the context after what it closes.     *)
CancelledLast == service \in {"dropped", "returned"}

(* The service's context is cancelled by the first step of Stop.           *)
Cancelled == Stopping

(* Every variable has its type.                                            *)
TypeOK ==
  /\ disk \in [Files -> States] /\ cache \in [Files -> States] /\ late \in Nat
  /\ dirs \subseteq Dirs /\ watched \subseteq dirs
  /\ events \subseteq Files \cup Dirs /\ pending \subseteq Files
  /\ timer \in {"none", "armed", "fired"}
  /\ strays \in Nat /\ fired \in Nat /\ stopped \in BOOLEAN
  /\ step \in [Appliers -> {"idle", "batch", "parse", "lock", "walk", "commit", "committing", "exited"}]
  /\ paths \in [Appliers -> SUBSET Files]
  /\ parsed \in [Appliers -> Parsed]
  /\ walked \in Parsed
  /\ applyMu \in Appliers \cup {Nobody}
  /\ service \in {"new", "running", "cancelled", "closed", "dropped", "returned"}
  /\ lastErr \in BOOLEAN
  /\ left \in [{"edits", "lost", "faults"} -> Nat]

(* The caller has indexed the root.                                        *)
Init ==
  /\ disk = [f \in Files |-> [ver |-> 0, here |-> DirOf[f] \in OldDirs]]
  /\ cache = disk /\ late = 0
  /\ dirs = OldDirs /\ watched = {} /\ events = {}
  /\ pending = {} /\ timer = "none" /\ strays = 0 /\ fired = 0 /\ stopped = FALSE
  /\ step = [a \in Appliers |-> "idle"]
  /\ paths = [a \in Appliers |-> {}]
  /\ parsed = [a \in Appliers |-> NoParse]
  /\ walked = NoParse /\ applyMu = Nobody
  /\ service = "new" /\ lastErr = FALSE
  /\ left = [edits |-> MaxEdits, lost |-> MaxLost, faults |-> MaxFaults]

Spend(kind) == left[kind] > 0 /\ left' = [left EXCEPT ![kind] = @ - 1]

(***************************************************************************)
(* The environment: users edit the tree, fsnotify reports or loses it.     *)
(***************************************************************************)

(* A notification reaches only a watch that is already registered.         *)
Write(f) ==
  /\ DirOf[f] \in dirs /\ disk[f].ver < MaxVersion
  /\ Spend("edits")
  /\ \E here \in BOOLEAN :
       /\ disk[f].here \/ here
       /\ disk' = [disk EXCEPT ![f] = [ver |-> @.ver + 1, here |-> here]]
  /\ events' = IF DirOf[f] \in watched THEN events \cup {f} ELSE events
  /\ UNCHANGED <<dirs, watched, indexVars, coalescerVars, applierVars, service, lastErr>>

MakeDir(d) ==
  /\ d \notin dirs
  /\ dirs' = dirs \cup {d}
  /\ events' = IF service = "running" THEN events \cup {d} ELSE events
  /\ UNCHANGED <<disk, watched, indexVars, coalescerVars, applierVars, service, lastErr, left>>

(* The queue overflows: fsnotify reports an error, which loop() ignores.   *)
Lose(e) ==
  /\ e \in events
  /\ Spend("lost")
  /\ events' = events \ {e}
  /\ UNCHANGED <<treeVars, watched, indexVars, coalescerVars, applierVars, service, lastErr>>

(***************************************************************************)
(* Watcher and coalescer.                                                  *)
(***************************************************************************)

(* addTree registers the directories there are; the reconcile loop starts. *)
Start ==
  /\ service = "new"
  /\ service' = "running"
  /\ watched' = dirs
  /\ UNCHANGED <<treeVars, events, indexVars, coalescerVars, applierVars, lastErr, left>>

(* A new directory is watched; the files it already has give no event.     *)
HandleDir(d) ==
  /\ service \in {"running", "cancelled"} /\ d \in events
  /\ events' = events \ {d}
  /\ watched' = watched \cup {d}
  /\ UNCHANGED <<treeVars, indexVars, coalescerVars, applierVars, service, lastErr, left>>

(* handle forwards a file's event to coalescer.Add, which replaces its     *)
(* timer.  A timer that has fired cannot be stopped any more.              *)
Add(f) ==
  /\ service \in {"running", "cancelled"} /\ f \in events
  /\ events' = events \ {f}
  /\ IF stopped THEN UNCHANGED <<pending, timer>>
                ELSE pending' = pending \cup {f} /\ timer' = "armed"
  /\ UNCHANGED <<treeVars, watched, indexVars, strays, fired, stopped, applierVars, service, lastErr, left>>

(* Mutant of TimerFires: a timer that flush forgot fires again.            *)
TimerFiresTwice ==
  /\ \/ timer = "armed" /\ timer' = "fired" /\ UNCHANGED strays
     \/ timer = "none" /\ strays' = strays - 1 /\ UNCHANGED timer
  /\ fired' = fired + 1
  /\ UNCHANGED <<treeVars, watched, events, indexVars, pending, stopped, applierVars, service, lastErr, left>>

TimerFires ==
  /\ \/ timer = "armed" /\ timer' = "fired" /\ UNCHANGED strays
     \/ strays > 0 /\ strays' = strays - 1 /\ UNCHANGED timer
  /\ fired' = fired + 1
  /\ UNCHANGED <<treeVars, watched, events, indexVars, pending, stopped, applierVars, service, lastErr, left>>

(* flush takes the pending set and forgets the current timer, even one     *)
(* that is armed again.  fire runs on the same goroutine.                  *)
Flush(b) ==
  /\ fired > 0 /\ fired' = fired - 1
  /\ IF stopped \/ pending = {}
       THEN UNCHANGED <<pending, timer, strays, step, paths>>
       ELSE /\ step[b] = "idle"
            /\ step' = [step EXCEPT ![b] = "batch"]
            /\ paths' = [paths EXCEPT ![b] = pending]
            /\ pending' = {}
            /\ timer' = "none"
            /\ strays' = IF timer = "armed" THEN strays + 1 ELSE strays
  /\ UNCHANGED <<treeVars, watched, events, indexVars, stopped, parsed, walked, applyMu, service, lastErr, left>>

(***************************************************************************)
(* Appliers: a batch of the coalescer or a reconcile pass.                 *)
(***************************************************************************)

(* The applier is done: its slot is free, and applyMu if it held it.       *)
Finish(a, failed) ==
  /\ step' = [step EXCEPT ![a] = "idle"]
  /\ paths' = [paths EXCEPT ![a] = {}]
  /\ parsed' = [parsed EXCEPT ![a] = NoParse]
  /\ walked' = IF applyMu = a THEN NoParse ELSE walked
  /\ applyMu' = IF applyMu = a THEN Nobody ELSE applyMu
  /\ lastErr' = (lastErr \/ failed)

handleBatch(b) ==
  /\ step[b] = "batch"
  /\ IF Cancelled
       THEN Finish(b, FALSE)
       ELSE step' = [step EXCEPT ![b] = "parse"] /\ UNCHANGED <<paths, parsed, walked, applyMu, lastErr>>
  /\ UNCHANGED <<treeVars, watched, events, indexVars, coalescerVars, service, left>>

(* Mutant of DriftOf: files without a cache row are not noticed.           *)
DriftOfKnown == {f \in Files : cache[f].here /\ disk[f] # cache[f]}

(* DriftSet: the added, modified and deleted paths.                        *)
DriftOf == {f \in Files : disk[f].here # cache[f].here \/ (disk[f].here /\ disk[f] # cache[f])}

(* A tick of the reconcile loop.  With the context cancelled DriftSet's    *)
(* walk fails.                                                             *)
Reconcile ==
  /\ service # "new" /\ step["reconcile"] = "idle"
  /\ ~Cancelled /\ DriftOf # {}
  /\ paths' = [paths EXCEPT !["reconcile"] = DriftOf]
  /\ step' = [step EXCEPT !["reconcile"] = "parse"]
  /\ UNCHANGED <<treeVars, watched, events, indexVars, coalescerVars, parsed, walked, applyMu, service, lastErr, left>>

(* Mutant of reconcileExits: the loop leaves only when there is no drift.  *)
reconcileExitsClean ==
  /\ Cancelled /\ step["reconcile"] = "idle" /\ DriftOf = {}
  /\ step' = [step EXCEPT !["reconcile"] = "exited"]
  /\ UNCHANGED <<treeVars, watched, events, indexVars, coalescerVars, paths, parsed, walked, applyMu,
                 service, lastErr, left>>

reconcileExits ==
  /\ Cancelled /\ step["reconcile"] = "idle"
  /\ step' = [step EXCEPT !["reconcile"] = "exited"]
  /\ UNCHANGED <<treeVars, watched, events, indexVars, coalescerVars, paths, parsed, walked, applyMu,
                 service, lastErr, left>>

(* The workers of the pool read the files that are there.  The batch fails *)
(* on a cancelled context, unless it has nothing to parse.                 *)
ParseBatch(a) ==
  /\ step[a] = "parse"
  /\ LET toParse == {f \in paths[a] : disk[f].here}
     IN  IF Cancelled /\ toParse # {}
           THEN Finish(a, TRUE)
           ELSE /\ parsed' = [parsed EXCEPT ![a] = [f \in Files |-> IF f \in toParse THEN disk[f] ELSE Unread]]
                /\ step' = [step EXCEPT ![a] = "lock"]
                /\ UNCHANGED <<paths, walked, applyMu, lastErr>>
  /\ UNCHANGED <<treeVars, watched, events, indexVars, coalescerVars, service, left>>

Lock(a) ==
  /\ step[a] = "lock" /\ applyMu = Nobody
  /\ applyMu' = a
  /\ step' = [step EXCEPT ![a] = "walk"]
  /\ UNCHANGED <<treeVars, watched, events, indexVars, coalescerVars, paths, parsed, walked, service, lastErr, left>>

(* ingestChanged walks the tree and marks its files dirty.                 *)
Walk(a) ==
  /\ step[a] = "walk"
  /\ IF Cancelled
       THEN Finish(a, TRUE)
       ELSE /\ walked' = disk
            /\ step' = [step EXCEPT ![a] = "commit"]
            /\ UNCHANGED <<paths, parsed, applyMu, lastErr>>
  /\ UNCHANGED <<treeVars, watched, events, indexVars, coalescerVars, service, left>>

(* Mutant of Committed: the pool's result is taken as it is.               *)
CommittedUnchecked(a, f) ==
  IF parsed[a][f] # Unread THEN parsed[a][f] ELSE IF disk[f].here THEN disk[f] ELSE cache[f]

(* What the pass commits for a file of its walk: the pool's result if its  *)
(* hash is the one of the walk, else the bytes read now; a file that is    *)
(* gone by now keeps its row.                                              *)
Committed(a, f) ==
  IF parsed[a][f] = walked[f] THEN parsed[a][f] ELSE IF disk[f].here THEN disk[f] ELSE cache[f]

(* database/sql tests the context when Commit is called.                   *)
MayCommit == ~Cancelled

(* The rows of the sidecar transaction: the changed files and dependents   *)
(* of them are read, every row of a file that the walk did not see is to   *)
(* go.  One file that does not parse fails the whole pass.                 *)
ApplyChangedParsed(a) ==
  /\ step[a] = "commit"
  /\ \E more \in SUBSET Files :
       LET work == {f \in paths[a] \cup more : walked[f].here}
           rows == [f \in Files |-> IF f \in work THEN Committed(a, f)
                                    ELSE IF walked[f].here THEN cache[f] ELSE walked[f]]
       IN  IF MayCommit /\ \A f \in work : Parses(f, rows[f])
             THEN /\ walked' = rows
                  /\ step' = [step EXCEPT ![a] = "committing"]
                  /\ paths' = [paths EXCEPT ![a] = {}]
                  /\ parsed' = [parsed EXCEPT ![a] = NoParse]
                  /\ UNCHANGED <<applyMu, lastErr>>
             ELSE Finish(a, TRUE)
  /\ UNCHANGED <<treeVars, watched, events, indexVars, coalescerVars, service, left>>

(* The COMMIT itself, which no context stops any more.                     *)
CommitTx(a) ==
  /\ step[a] = "committing"
  /\ cache' = walked
  /\ late' = IF Stopping THEN late + 1 ELSE late
  /\ Finish(a, FALSE)
  /\ UNCHANGED <<treeVars, watched, events, coalescerVars, service, left>>

(* An I/O or database error of any step of an applier.                     *)
ApplierFails(a) ==
  /\ step[a] \in {"parse", "walk", "commit", "committing"}
  /\ Spend("faults")
  /\ Finish(a, TRUE)
  /\ UNCHANGED <<treeVars, watched, events, indexVars, coalescerVars, service>>

(***************************************************************************)
(* Stop, one step per call it makes.                                       *)
(***************************************************************************)

StopCancel ==
  /\ service = "running"
  /\ service' = "cancelled"
  /\ UNCHANGED <<treeVars, watched, events, indexVars, coalescerVars, applierVars, lastErr, left>>

StopClose ==
  /\ service = "cancelled"
  /\ service' = "closed"
  /\ watched' = {} /\ events' = {}
  /\ UNCHANGED <<treeVars, indexVars, coalescerVars, applierVars, lastErr, left>>

(* coalescer.Stop drops what is pending.                                   *)
StopCoalescer ==
  /\ service = "closed"
  /\ service' = "dropped"
  /\ stopped' = TRUE /\ timer' = "none" /\ pending' = {}
  /\ UNCHANGED <<treeVars, watched, events, indexVars, strays, fired, applierVars, lastErr, left>>

(* Only the reconcile loop is waited for, not a timer goroutine.           *)
StopReturns ==
  /\ service = "dropped" /\ step["reconcile"] = "exited"
  /\ service' = "returned"
  /\ UNCHANGED <<treeVars, watched, events, indexVars, coalescerVars, applierVars, lastErr, left>>

(* The caller waits for the loop, or Stop has returned.                    *)
Done ==
  /\ service \in {"dropped", "returned"}
  /\ UNCHANGED vars

Stop == StopCancel \/ StopClose \/ StopCoalescer \/ StopReturns

Applier(a) == ParseBatch(a) \/ Lock(a) \/ Walk(a) \/ ApplyChangedParsed(a) \/ CommitTx(a)

Next ==
  \/ \E f \in Files : Write(f) \/ Add(f)
  \/ \E d \in Dirs : MakeDir(d) \/ HandleDir(d)
  \/ \E e \in Files \cup Dirs : Lose(e)
  \/ Start \/ TimerFires \/ Reconcile \/ reconcileExits \/ Stop
  \/ \E b \in Batches : Flush(b) \/ handleBatch(b)
  \/ \E a \in Appliers : Applier(a) \/ ApplierFails(a)
  \/ Done

(* The runtime schedules every goroutine, the ticker ticks, and a caller   *)
(* that has begun Stop goes on with it.  Nobody has to edit, and nobody    *)
(* has to stop the service.                                                *)
Fairness ==
  /\ WF_vars(TimerFires) /\ WF_vars(Reconcile) /\ WF_vars(reconcileExits)
  /\ \A f \in Files : WF_vars(Add(f))
  /\ \A d \in Dirs : WF_vars(HandleDir(d))
  /\ \A b \in Batches : WF_vars(Flush(b)) /\ WF_vars(handleBatch(b))
  /\ \A a \in Appliers : WF_vars(ParseBatch(a)) /\ SF_vars(Lock(a)) /\ WF_vars(Walk(a))
                           /\ WF_vars(ApplyChangedParsed(a)) /\ WF_vars(CommitTx(a))
  /\ WF_vars(StopClose) /\ WF_vars(StopCoalescer) /\ WF_vars(StopReturns)

Spec == Init /\ [][Next]_vars /\ Fairness

(***************************************************************************)
(* Properties.                                                             *)
(***************************************************************************)

(* Batches and reconcile passes parse concurrently and apply in any order, *)
(* yet the index never goes back: no apply replaces the version of a file  *)
(* by an older one.  A pool result is used only if it has the hash of the  *)
(* walk made under applyMu.                                                *)
NeverOlder == [][\A f \in Files : cache[f].ver <= cache'[f].ver]_vars

(* Stop waits for the reconcile loop but not for the timer goroutines, so  *)
(* that batches are still under way after it.  Of all of them one at most  *)
(* is committed: the one that held applyMu and whose COMMIT had begun when *)
(* the context was cancelled.  What the others had to bring stays drift,   *)
(* which the next session sees.                                            *)
OneLateCommit == late <= 1

(* The content cache has exactly the files of the tree.                    *)
Fresh == \A f \in Files : cache[f].here = disk[f].here /\ (disk[f].here => cache[f] = disk[f])

(* Notifications may be lost, come before their directory is watched, or   *)
(* be discarded with a failed batch: as long as the service runs and the   *)
(* tree parses in the end, the index reaches the tree and stays with it.   *)
Converges ==
  <>[](service = "running" /\ \A f \in Files : Parses(f, disk[f])) => <>[]Fresh

(* Stop always returns: neither the reconcile loop nor applyMu holds it.   *)
StopTerminates == (service = "cancelled") ~> (service = "returned")
=============================================================================
