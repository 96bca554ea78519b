---------------------------- MODULE WatchProofs -----------------------------
(***************************************************************************)
(* Batches and reconcile passes never take the index back to an older      *)
(* version of a file, and one of them at most commits once Stop has begun. *)
(***************************************************************************)
EXTENDS Watch, TLAPS

(***************************************************************************)
(* The inductive invariant.                                                *)
(***************************************************************************)

(* A directory that is reported exists.                                    *)
Reported == events \cap Dirs \subseteq dirs

(* The applier that walks or commits holds applyMu.                        *)
Committing == {"commit", "committing"}
Exclusive == \A a \in Appliers : step[a] \in {"walk"} \cup Committing => applyMu = a

(* The cache is not ahead of the tree, and the walk of the applier that    *)
(* commits, or the rows that it has made of it, lie between them.          *)
Behind == \A f \in Files : cache[f].ver <= disk[f].ver
Between == \A f \in Files : walked[f] \in States /\ cache[f].ver <= walked[f].ver /\ walked[f].ver <= disk[f].ver
Ordered == Behind /\ ((\E a \in Appliers : step[a] \in Committing) => Between)

(* Nothing is late before Stop, and once a pass was late no other one is   *)
(* past its test of the context.                                           *)
LastLate ==
  /\ late <= 1 /\ (~Stopping => late = 0)
  /\ late = 1 => \A a \in Appliers : step[a] # "committing"

WatchInv == TypeOK /\ Reported /\ Exclusive /\ Ordered /\ LastLate

(***************************************************************************)
(* Types.                                                                  *)
(***************************************************************************)

(* The variables that a Finish or a step of an applier changes.            *)
AppliersOK ==
  /\ step \in [Appliers -> {"idle", "batch", "parse", "lock", "walk", "commit", "committing", "exited"}]
  /\ paths \in [Appliers -> SUBSET Files]
  /\ parsed \in [Appliers -> Parsed]
  /\ walked \in Parsed
  /\ applyMu \in Appliers \cup {Nobody}
  /\ lastErr \in BOOLEAN

RestOK ==
  /\ disk \in [Files -> States] /\ cache \in [Files -> States] /\ late \in Nat
  /\ dirs \subseteq Dirs /\ watched \subseteq dirs
  /\ events \subseteq Files \cup Dirs /\ pending \subseteq Files
  /\ timer \in {"none", "armed", "fired"}
  /\ strays \in Nat /\ fired \in Nat /\ stopped \in BOOLEAN
  /\ service \in {"new", "running", "cancelled", "closed", "dropped", "returned"}
  /\ left \in [{"edits", "lost", "faults"} -> Nat]

LEMMA TypeParts == TypeOK <=> AppliersOK /\ RestOK
  BY DEF TypeOK, AppliersOK, RestOK

LEMMA TypePartsNext == TypeOK' <=> AppliersOK' /\ RestOK'
  BY DEF TypeOK, AppliersOK, RestOK

LEMMA NoParseType == NoParse \in Parsed
  BY DEF NoParse, Parsed

LEMMA FinishType ==
  ASSUME AppliersOK, NEW a \in Appliers, NEW failed \in BOOLEAN, Finish(a, failed)
  PROVE  AppliersOK'
  BY NoParseType DEF AppliersOK, Finish

LEMMA SpendType ==
  ASSUME RestOK, NEW kind \in {"edits", "lost", "faults"}, Spend(kind)
  PROVE  left' \in [{"edits", "lost", "faults"} -> Nat]
  <1>1. left[kind] \in Nat /\ left[kind] > 0 BY DEF RestOK, Spend
  <1>2. left[kind] - 1 \in Nat BY <1>1
  <1> QED BY <1>2 DEF RestOK, Spend

(* What a pass commits has the type of the cache, and what it commits is   *)
(* no older: this is where the hash of the walk counts.                    *)
LEMMA CommittedState ==
  ASSUME TypeOK, Behind, Between, NEW a \in Appliers, NEW f \in Files
  PROVE  Committed(a, f) \in States /\ cache[f].ver <= Committed(a, f).ver /\ Committed(a, f).ver <= disk[f].ver
  <1>1. disk[f] \in States /\ cache[f] \in States BY DEF TypeOK
  <1>2. \A s \in States : s.ver \in Int BY DEF States
  <1>3. CASE parsed[a][f] = walked[f] BY <1>3 DEF Committed, Between
  <1>4. CASE parsed[a][f] # walked[f] BY <1>1, <1>2, <1>4 DEF Committed, Behind
  <1> QED BY <1>3, <1>4

(* The rows of a pass, for whatever set of files it works on.              *)
LEMMA RowsState ==
  ASSUME TypeOK, Behind, Between, NEW a \in Appliers, NEW work,
         walked' = [f \in Files |-> IF f \in work THEN Committed(a, f)
                                   ELSE IF walked[f].here THEN cache[f] ELSE walked[f]]
  PROVE  /\ walked' \in [Files -> States]
         /\ \A f \in Files : cache[f].ver <= walked'[f].ver /\ walked'[f].ver <= disk[f].ver
  <1>1. ASSUME NEW f \in Files
        PROVE  walked'[f] \in States /\ cache[f].ver <= walked'[f].ver /\ walked'[f].ver <= disk[f].ver
    <2>1. CASE f \in work BY <2>1, CommittedState
    <2>2. CASE f \notin work /\ ~walked[f].here BY <2>2 DEF Between
    <2>3. CASE f \notin work /\ walked[f].here
      <3>1. cache[f] \in States /\ walked'[f] = cache[f] BY <2>3 DEF TypeOK
      <3>2. cache[f].ver \in Int BY <3>1 DEF States
      <3> QED BY <3>1, <3>2 DEF Behind
    <2> QED BY <2>1, <2>2, <2>3
  <1>2. walked' \in [Files -> States] BY <1>1
  <1> QED BY <1>1, <1>2

(* The pass has made its rows and passed the test of the context.          *)
Stages(a) ==
  /\ ~Cancelled
  /\ step' = [step EXCEPT ![a] = "committing"]
  /\ paths' = [paths EXCEPT ![a] = {}] /\ parsed' = [parsed EXCEPT ![a] = NoParse]
  /\ walked' \in [Files -> States]
  /\ \A f \in Files : cache[f].ver <= walked'[f].ver /\ walked'[f].ver <= disk[f].ver
  /\ UNCHANGED <<applyMu, lastErr>>

LEMMA Staging ==
  ASSUME WatchInv, NEW a \in Appliers, ApplyChangedParsed(a)
  PROVE  Stages(a) \/ Finish(a, TRUE)
  <1>1. PICK more \in SUBSET Files :
          LET work == {f \in paths[a] \cup more : walked[f].here}
              rows == [f \in Files |-> IF f \in work THEN Committed(a, f)
                                       ELSE IF walked[f].here THEN cache[f] ELSE walked[f]]
          IN  IF MayCommit /\ \A f \in work : Parses(f, rows[f])
                THEN /\ walked' = rows
                     /\ step' = [step EXCEPT ![a] = "committing"]
                     /\ paths' = [paths EXCEPT ![a] = {}]
                     /\ parsed' = [parsed EXCEPT ![a] = NoParse]
                     /\ UNCHANGED <<applyMu, lastErr>>
                ELSE Finish(a, TRUE)
    BY DEF ApplyChangedParsed
  <1> DEFINE work == {f \in paths[a] \cup more : walked[f].here}
             rows == [f \in Files |-> IF f \in work THEN Committed(a, f)
                                      ELSE IF walked[f].here THEN cache[f] ELSE walked[f]]
  <1>2. TypeOK /\ Behind /\ Between BY DEF ApplyChangedParsed, WatchInv, Ordered, Committing
  <1>3. CASE MayCommit /\ \A f \in work : Parses(f, rows[f])
    <2>1. walked' = rows BY <1>1, <1>3
    <2>2. /\ walked' \in [Files -> States]
          /\ \A f \in Files : cache[f].ver <= walked'[f].ver /\ walked'[f].ver <= disk[f].ver
      BY <1>2, <2>1, RowsState
    <2> QED BY <1>1, <1>3, <2>2 DEF Stages, MayCommit
  <1>4. CASE ~(MayCommit /\ \A f \in work : Parses(f, rows[f])) BY <1>1, <1>4
  <1> QED BY <1>3, <1>4

LEMMA WatchTypeInit == Init => TypeOK
  <1> SUFFICES ASSUME Init PROVE TypeOK OBVIOUS
  <1>1. 0 \in 0..MaxVersion /\ {MaxEdits, MaxLost, MaxFaults} \subseteq Nat BY WatchAssumption
  <1>2. disk \in [Files -> States] BY <1>1 DEF Init, States
  <1>3. left \in [{"edits", "lost", "faults"} -> Nat]
    <2>1. left = [edits |-> MaxEdits, lost |-> MaxLost, faults |-> MaxFaults] BY DEF Init
    <2>2. left = [k \in {"edits", "lost", "faults"} |-> left[k]] BY <2>1
    <2>3. \A k \in {"edits", "lost", "faults"} : left[k] \in Nat BY <1>1, <2>1
    <2> QED BY <2>2, <2>3
  <1>4. RestOK BY <1>2, <1>3, WatchAssumption DEF Init, RestOK
  <1>5. AppliersOK BY NoParseType DEF Init, AppliersOK
  <1> QED BY <1>4, <1>5, TypeParts

LEMMA WatchTypeStep == WatchInv /\ [Next]_vars => TypeOK'
  <1> SUFFICES ASSUME WatchInv, [Next]_vars PROVE AppliersOK' /\ RestOK' BY TypePartsNext
  <1>0. TypeOK /\ Reported /\ AppliersOK /\ RestOK BY TypeParts DEF WatchInv
  <1> USE <1>0 DEF treeVars, indexVars, coalescerVars, applierVars
  <1>1. ASSUME NEW f \in Files, Write(f) PROVE AppliersOK' /\ RestOK'
    <2>1. left' \in [{"edits", "lost", "faults"} -> Nat] BY <1>1, SpendType DEF Write
    <2>2. PICK here \in BOOLEAN : disk' = [disk EXCEPT ![f] = [ver |-> disk[f].ver + 1, here |-> here]]
      BY <1>1 DEF Write
    <2>3. disk[f].ver + 1 \in 0..MaxVersion BY <1>1, WatchAssumption DEF Write, RestOK, States
    <2>4. [ver |-> disk[f].ver + 1, here |-> here] \in States BY <2>3 DEF States
    <2>5. disk' \in [Files -> States] BY <2>2, <2>4 DEF RestOK
    <2>6. events' \subseteq Files \cup Dirs BY <1>1 DEF Write, RestOK
    <2> QED BY <1>1, <2>1, <2>5, <2>6 DEF Write, AppliersOK, RestOK
  <1>2. ASSUME NEW f \in Files, Add(f) PROVE AppliersOK' /\ RestOK' BY <1>2 DEF Add, AppliersOK, RestOK
  <1>3. ASSUME NEW d \in Dirs, MakeDir(d) PROVE AppliersOK' /\ RestOK' BY <1>3 DEF MakeDir, AppliersOK, RestOK
  <1>4. ASSUME NEW d \in Dirs, HandleDir(d) PROVE AppliersOK' /\ RestOK'
    BY <1>4 DEF HandleDir, AppliersOK, RestOK, Reported
  <1>5. ASSUME NEW e \in Files \cup Dirs, Lose(e) PROVE AppliersOK' /\ RestOK'
    <2>1. left' \in [{"edits", "lost", "faults"} -> Nat] BY <1>5, SpendType DEF Lose
    <2> QED BY <1>5, <2>1 DEF Lose, AppliersOK, RestOK
  <1>6. CASE Start BY <1>6 DEF Start, AppliersOK, RestOK
  <1>7. CASE TimerFires
    <2>1. strays' \in Nat /\ fired' \in Nat BY <1>7 DEF TimerFires, RestOK
    <2> QED BY <1>7, <2>1 DEF TimerFires, AppliersOK, RestOK
  <1>8. ASSUME NEW b \in Batches, Flush(b) PROVE AppliersOK' /\ RestOK'
    <2>1. strays' \in Nat /\ fired' \in Nat BY <1>8 DEF Flush, RestOK
    <2>2. b \in Appliers BY DEF Appliers
    <2> QED BY <1>8, <2>1, <2>2 DEF Flush, AppliersOK, RestOK
  <1>9. ASSUME NEW b \in Batches, handleBatch(b) PROVE AppliersOK' /\ RestOK'
    <2>1. b \in Appliers BY DEF Appliers
    <2>2. AppliersOK'
      <3>1. CASE Cancelled BY <1>9, <2>1, <3>1, FinishType DEF handleBatch
      <3>2. CASE ~Cancelled BY <1>9, <2>1, <3>2 DEF handleBatch, AppliersOK
      <3> QED BY <3>1, <3>2
    <2> QED BY <1>9, <2>2 DEF handleBatch, RestOK
  <1>10. CASE Reconcile
    <2>1. DriftOf \subseteq Files /\ "reconcile" \in Appliers BY DEF DriftOf, Appliers
    <2> QED BY <1>10, <2>1 DEF Reconcile, AppliersOK, RestOK
  <1>11. CASE reconcileExits BY <1>11 DEF reconcileExits, AppliersOK, RestOK, Appliers
  <1>12. ASSUME NEW a \in Appliers, ParseBatch(a) PROVE AppliersOK' /\ RestOK'
    <2> DEFINE toParse == {f \in paths[a] : disk[f].here}
               read == [f \in Files |-> IF f \in toParse THEN disk[f] ELSE Unread]
    <2>1. CASE Finish(a, TRUE) BY <1>12, <2>1, FinishType DEF ParseBatch, RestOK
    <2>2. CASE /\ parsed' = [parsed EXCEPT ![a] = read] /\ step' = [step EXCEPT ![a] = "lock"]
               /\ UNCHANGED <<paths, walked, applyMu, lastErr>>
      <3>1. read \in Parsed BY DEF Parsed, RestOK
      <3> HIDE DEF read
      <3>2. AppliersOK' BY <2>2, <3>1 DEF AppliersOK
      <3> QED BY <1>12, <3>2 DEF ParseBatch, RestOK
    <2> QED BY <1>12, <2>1, <2>2 DEF ParseBatch
  <1>13. ASSUME NEW a \in Appliers, Lock(a) PROVE AppliersOK' /\ RestOK' BY <1>13 DEF Lock, AppliersOK, RestOK
  <1>14. ASSUME NEW a \in Appliers, Walk(a) PROVE AppliersOK' /\ RestOK'
    <2>1. AppliersOK'
      <3>1. CASE Cancelled BY <1>14, <3>1, FinishType DEF Walk
      <3>2. CASE ~Cancelled
        <4>1. disk \in Parsed BY DEF Parsed, RestOK
        <4> QED BY <1>14, <3>2, <4>1 DEF Walk, AppliersOK
      <3> QED BY <3>1, <3>2
    <2> QED BY <1>14, <2>1 DEF Walk, RestOK
  <1>15. ASSUME NEW a \in Appliers, ApplyChangedParsed(a) PROVE AppliersOK' /\ RestOK'
    <2>1. AppliersOK'
      <3>1. CASE Finish(a, TRUE) BY <3>1, FinishType
      <3>2. CASE Stages(a)
        <4>1. walked' \in Parsed BY <3>2 DEF Stages, Parsed
        <4> QED BY <3>2, <4>1, NoParseType DEF Stages, AppliersOK
      <3> QED BY <1>15, <3>1, <3>2, Staging
    <2> QED BY <1>15, <2>1 DEF ApplyChangedParsed, RestOK
  <1>20. ASSUME NEW a \in Appliers, CommitTx(a) PROVE AppliersOK' /\ RestOK'
    <2>1. AppliersOK' BY <1>20, FinishType DEF CommitTx
    <2>2. Between BY <1>20 DEF CommitTx, WatchInv, Ordered, Committing
    <2>3. walked = [f \in Files |-> walked[f]] BY DEF AppliersOK, Parsed
    <2>4. walked \in [Files -> States] BY <2>2, <2>3 DEF Between
    <2> QED BY <1>20, <2>1, <2>4 DEF CommitTx, RestOK
  <1>16. ASSUME NEW a \in Appliers, ApplierFails(a) PROVE AppliersOK' /\ RestOK'
    <2>1. left' \in [{"edits", "lost", "faults"} -> Nat] BY <1>16, SpendType DEF ApplierFails
    <2> QED BY <1>16, <2>1, FinishType DEF ApplierFails, RestOK
  <1>17. CASE Stop
    BY <1>17 DEF Stop, StopCancel, StopClose, StopCoalescer, StopReturns, AppliersOK, RestOK
  <1>18. CASE Done \/ UNCHANGED vars BY <1>18 DEF Done, vars, AppliersOK, RestOK
  <1> QED BY <1>1, <1>2, <1>3, <1>4, <1>5, <1>6, <1>7, <1>8, <1>9, <1>10, <1>11, <1>12, <1>13, <1>14, <1>15,
             <1>16, <1>17, <1>18, <1>20 DEF Next, Applier

(***************************************************************************)
(* The invariant is inductive.                                             *)
(***************************************************************************)

LEMMA ReportedStep == WatchInv /\ [Next]_vars => Reported'
  <1> SUFFICES ASSUME WatchInv, [Next]_vars PROVE Reported' OBVIOUS
  <1>0. TypeOK /\ Reported /\ Files \cap Dirs = {} BY WatchAssumption DEF WatchInv
  <1> USE <1>0 DEF treeVars, indexVars, coalescerVars, applierVars, Reported
  <1>1. ASSUME NEW f \in Files, Write(f) PROVE Reported' BY <1>1 DEF Write
  <1>2. ASSUME NEW d \in Dirs, MakeDir(d) PROVE Reported' BY <1>2 DEF MakeDir
  <1>3. ASSUME NEW e \in Files \cup Dirs, Lose(e) \/ Add(e) \/ HandleDir(e) PROVE Reported'
    BY <1>3 DEF Lose, Add, HandleDir
  <1>4. CASE Start \/ TimerFires \/ Reconcile \/ reconcileExits \/ Stop \/ Done \/ UNCHANGED vars
    BY <1>4 DEF Start, TimerFires, Reconcile, reconcileExits, Stop, StopCancel, StopClose, StopCoalescer,
                StopReturns, Done, vars
  <1>5. ASSUME NEW b \in Batches, Flush(b) \/ handleBatch(b) PROVE Reported' BY <1>5 DEF Flush, handleBatch
  <1>6. ASSUME NEW a \in Appliers, Applier(a) \/ ApplierFails(a) PROVE Reported'
    BY <1>6 DEF Applier, ParseBatch, Lock, Walk, ApplyChangedParsed, CommitTx, ApplierFails
  <1> QED BY <1>1, <1>2, <1>3, <1>4, <1>5, <1>6 DEF Next

(* A step that leaves the appliers and the cache alone.                    *)
Aside ==
  /\ step' = step /\ applyMu' = applyMu /\ walked' = walked /\ UNCHANGED indexVars
  /\ disk' = disk \/ \E f \in Files : Write(f)

(* Applier a moves on outside of applyMu.                                  *)
Outside(a) ==
  /\ \E s \in {"batch", "parse", "lock", "exited"} : step' = [step EXCEPT ![a] = s]
  /\ UNCHANGED <<applyMu, walked, indexVars, disk>>

(* Applier a is done, and has committed or not.                            *)
Finishes(a) == \E failed \in BOOLEAN : Finish(a, failed) /\ UNCHANGED disk

LEMMA Moves ==
  ASSUME WatchInv, [Next]_vars
  PROVE  \/ Aside
         \/ \E a \in Appliers :
              \/ Outside(a)
              \/ Finishes(a) /\ (UNCHANGED indexVars \/ CommitTx(a))
              \/ Stages(a) /\ step[a] = "commit" /\ UNCHANGED <<indexVars, disk>>
              \/ Lock(a)
              \/ Walk(a) /\ walked' = disk /\ step' = [step EXCEPT ![a] = "commit"] /\ UNCHANGED applyMu
  <1> USE DEF treeVars, indexVars, coalescerVars, applierVars
  <1>1. ASSUME NEW f \in Files, Write(f) PROVE Aside BY <1>1 DEF Write, Aside
  <1>2. ASSUME NEW e \in Files \cup Dirs, Lose(e) \/ Add(e) \/ HandleDir(e) \/ MakeDir(e) PROVE Aside
    BY <1>2 DEF Lose, Add, HandleDir, MakeDir, Aside
  <1>3. CASE Start \/ TimerFires \/ Stop \/ Done \/ UNCHANGED vars
    BY <1>3 DEF Start, TimerFires, Stop, StopCancel, StopClose, StopCoalescer, StopReturns, Done, vars, Aside
  <1>4. CASE Reconcile \/ reconcileExits
    BY <1>4 DEF Reconcile, reconcileExits, Outside, Appliers
  <1>5. ASSUME NEW b \in Batches, Flush(b) PROVE Aside \/ Outside(b) BY <1>5 DEF Flush, Aside, Outside
  <1>6. ASSUME NEW b \in Batches, handleBatch(b) PROVE Outside(b) \/ (Finishes(b) /\ UNCHANGED indexVars)
    BY <1>6 DEF handleBatch, Outside, Finishes
  <1>7. ASSUME NEW a \in Appliers, ParseBatch(a) PROVE Outside(a) \/ (Finishes(a) /\ UNCHANGED indexVars)
    <2>1. CASE Finish(a, TRUE) BY <1>7, <2>1 DEF ParseBatch, Finishes
    <2>2. CASE step' = [step EXCEPT ![a] = "lock"] /\ UNCHANGED <<paths, walked, applyMu, lastErr>>
      BY <1>7, <2>2 DEF ParseBatch, Outside
    <2> QED BY <1>7, <2>1, <2>2 DEF ParseBatch
  <1>8. ASSUME NEW a \in Appliers, Walk(a)
        PROVE  \/ Finishes(a) /\ UNCHANGED indexVars
               \/ walked' = disk /\ step' = [step EXCEPT ![a] = "commit"] /\ UNCHANGED applyMu
    BY <1>8 DEF Walk, Finishes
  <1>9. ASSUME NEW a \in Appliers, ApplyChangedParsed(a)
        PROVE  /\ Finishes(a) \/ (Stages(a) /\ step[a] = "commit" /\ UNCHANGED disk)
               /\ UNCHANGED indexVars
    BY <1>9, Staging DEF ApplyChangedParsed, Finishes
  <1>12. ASSUME NEW a \in Appliers, CommitTx(a) PROVE Finishes(a) BY <1>12 DEF CommitTx, Finishes
  <1>10. ASSUME NEW a \in Appliers, ApplierFails(a) PROVE Finishes(a) /\ UNCHANGED indexVars
    BY <1>10 DEF ApplierFails, Finishes
  <1>11. \A b \in Batches : b \in Appliers BY DEF Appliers
  <1> QED BY <1>1, <1>2, <1>3, <1>4, <1>5, <1>6, <1>7, <1>8, <1>9, <1>10, <1>11, <1>12 DEF Next, Applier

LEMMA ExclusiveStep == WatchInv /\ [Next]_vars => Exclusive'
  <1> SUFFICES ASSUME WatchInv, [Next]_vars PROVE Exclusive' OBVIOUS
  <1>0. /\ Exclusive /\ Nobody \notin Appliers /\ applyMu \in Appliers \cup {Nobody}
        /\ step \in [Appliers -> {"idle", "batch", "parse", "lock", "walk", "commit", "committing", "exited"}]
    BY WatchAssumption DEF WatchInv, TypeOK, Appliers, Nobody
  <1>1. CASE Aside BY <1>0, <1>1 DEF Aside, Exclusive, Committing
  <1>2. ASSUME NEW a \in Appliers, Outside(a) PROVE Exclusive' BY <1>0, <1>2 DEF Outside, Exclusive, Committing
  <1>3. ASSUME NEW a \in Appliers, Finishes(a) PROVE Exclusive' BY <1>0, <1>3 DEF Finishes, Finish, Exclusive, Committing
  <1>4. ASSUME NEW a \in Appliers, Lock(a) PROVE Exclusive'
    <2>1. \A b \in Appliers : step[b] \notin {"walk"} \cup Committing BY <1>0, <1>4 DEF Lock, Exclusive
    <2> QED BY <1>0, <1>4, <2>1 DEF Lock, Exclusive, Committing
  <1>5. ASSUME NEW a \in Appliers, Walk(a), step' = [step EXCEPT ![a] = "commit"], UNCHANGED applyMu
        PROVE  Exclusive'
    BY <1>0, <1>5 DEF Walk, Exclusive, Committing
  <1>6. ASSUME NEW a \in Appliers, Stages(a), step[a] = "commit" PROVE Exclusive'
    BY <1>0, <1>6 DEF Stages, Exclusive, Committing
  <1> QED BY <1>1, <1>2, <1>3, <1>4, <1>5, <1>6, Moves

(* The rows that a pass commits lie between the cache and the tree.        *)
LEMMA ApplyRows ==
  ASSUME WatchInv, NEW a \in Appliers, CommitTx(a)
  PROVE  \A f \in Files : cache[f].ver <= cache'[f].ver /\ cache'[f].ver <= disk[f].ver
  BY DEF CommitTx, WatchInv, Ordered, Committing, Between

LEMMA OrderedStep == WatchInv /\ [Next]_vars => Ordered'
  <1> SUFFICES ASSUME WatchInv, [Next]_vars PROVE Ordered' OBVIOUS
  <1>0. TypeOK /\ Exclusive /\ Behind /\ Ordered BY DEF WatchInv, Ordered
  <1>s. /\ step \in [Appliers -> {"idle", "batch", "parse", "lock", "walk", "commit", "committing", "exited"}]
        /\ Nobody \notin Appliers
    BY <1>0, WatchAssumption DEF TypeOK, Appliers, Nobody
  <1>i. \A f \in Files : disk[f] \in States /\ disk[f].ver \in Int /\ cache[f].ver \in Int
    BY <1>0 DEF TypeOK, States
  <1>1. CASE Aside
    <2>1. \A f \in Files : disk[f].ver <= disk'[f].ver /\ disk'[f].ver \in Int
      <3>1. CASE disk' = disk BY <1>i, <3>1
      <3>2. ASSUME NEW f \in Files, Write(f) PROVE \A g \in Files : disk[g].ver <= disk'[g].ver /\ disk'[g].ver \in Int
        <4>1. PICK here \in BOOLEAN : disk' = [disk EXCEPT ![f] = [ver |-> disk[f].ver + 1, here |-> here]]
          BY <3>2 DEF Write
        <4>2. \A g \in Files : disk'[g] = IF g = f THEN [ver |-> disk[f].ver + 1, here |-> here] ELSE disk[g]
          BY <1>0, <4>1 DEF TypeOK
        <4> QED BY <1>i, <4>2
      <3> QED BY <1>1, <3>1, <3>2 DEF Aside
    <2>2. Behind' BY <1>0, <1>1, <1>i, <2>1 DEF Aside, Behind, indexVars
    <2>3. (\E a \in Appliers : step'[a] \in Committing) => Between'
      <3> SUFFICES ASSUME \E a \in Appliers : step[a] \in Committing PROVE Between' BY <1>1 DEF Aside
      <3>1. Between BY <1>0 DEF Ordered
      <3>2. \A f \in Files : walked[f].ver \in Int BY <3>1 DEF Between, States
      <3> QED BY <1>1, <1>i, <2>1, <3>1, <3>2 DEF Aside, Between, indexVars
    <2> QED BY <2>2, <2>3 DEF Ordered
  <1>2. ASSUME NEW a \in Appliers, Outside(a) \/ Lock(a) PROVE Ordered'
    <2>1. UNCHANGED <<walked, cache, disk>> /\ \E s \in {"batch", "parse", "lock", "exited", "walk"} : step' = [step EXCEPT ![a] = s]
      BY <1>2 DEF Outside, Lock, treeVars, indexVars
    <2>2. (\E b \in Appliers : step'[b] \in Committing) => \E b \in Appliers : step[b] \in Committing BY <1>s, <2>1 DEF Committing
    <2> QED BY <1>0, <2>1, <2>2 DEF Ordered, Behind, Between
  <1>3. ASSUME NEW a \in Appliers, Finishes(a), UNCHANGED indexVars PROVE Ordered'
    <2>1. Behind' BY <1>0, <1>3 DEF Finishes, Behind, indexVars
    <2>2. CASE applyMu = a
      <3>1. \A b \in Appliers : b # a => step[b] \notin Committing BY <1>0, <2>2 DEF Exclusive, Committing
      <3>2. \A b \in Appliers : step'[b] \notin Committing BY <1>3, <1>s, <3>1 DEF Finishes, Finish, Committing
      <3> QED BY <2>1, <3>2 DEF Ordered
    <2>3. CASE applyMu # a
      <3>1. walked' = walked /\ disk' = disk BY <1>3, <2>3 DEF Finishes, Finish, Committing
      <3>2. (\E b \in Appliers : step'[b] \in Committing) => \E b \in Appliers : step[b] \in Committing
        BY <1>3, <1>s DEF Finishes, Finish, Committing
      <3> QED BY <1>0, <1>3, <2>1, <3>1, <3>2 DEF Ordered, Between, indexVars
    <2> QED BY <2>2, <2>3
  <1>4. ASSUME NEW a \in Appliers, Finishes(a), CommitTx(a) PROVE Ordered'
    <2>1. disk' = disk BY <1>4 DEF Finishes
    <2>2. Behind' BY <1>4, <2>1, ApplyRows DEF Behind
    <2>3. applyMu = a BY <1>0, <1>4 DEF CommitTx, Exclusive, Committing
    <2>4. \A b \in Appliers : b # a => step[b] \notin Committing BY <1>0, <2>3 DEF Exclusive, Committing
    <2>5. \A b \in Appliers : step'[b] \notin Committing BY <1>4, <1>s, <2>4 DEF Finishes, Finish, Committing
    <2> QED BY <2>2, <2>5 DEF Ordered
  <1>5. ASSUME NEW a \in Appliers, Walk(a), walked' = disk PROVE Ordered'
    <2>1. UNCHANGED <<cache, disk>> BY <1>5 DEF Walk, treeVars, indexVars
    <2>2. Behind' BY <1>0, <2>1 DEF Behind
    <2>3. Between' BY <1>0, <1>5, <1>i, <2>1 DEF Behind, Between
    <2> QED BY <2>2, <2>3 DEF Ordered
  <1>6. ASSUME NEW a \in Appliers, Stages(a), UNCHANGED <<indexVars, disk>> PROVE Ordered'
    BY <1>0, <1>6 DEF Stages, Ordered, Behind, Between, indexVars
  <1> QED BY <1>1, <1>2, <1>3, <1>4, <1>5, <1>6, Moves

(* Only the holder of applyMu is past its test, and after Stop nobody      *)
(* passes it.                                                              *)
LEMMA LastLateStep == WatchInv /\ [Next]_vars => LastLate'
  <1> SUFFICES ASSUME WatchInv, [Next]_vars PROVE LastLate' OBVIOUS
  <1>0. /\ LastLate /\ Exclusive /\ late \in Nat
        /\ step \in [Appliers -> {"idle", "batch", "parse", "lock", "walk", "commit", "committing", "exited"}]
    BY DEF WatchInv, TypeOK
  <1>1. Stopping => Stopping'
    BY DEF Next, Applier, Stop, Write, Add, MakeDir, HandleDir, Lose, Start, TimerFires, Reconcile, reconcileExits,
           Flush, handleBatch, ParseBatch, Lock, Walk, ApplyChangedParsed, CommitTx, ApplierFails, StopCancel,
           StopClose, StopCoalescer, StopReturns, Done, vars, Stopping
  <1>2. CASE Aside BY <1>0, <1>1, <1>2 DEF Aside, LastLate, indexVars
  <1>3. ASSUME NEW a \in Appliers, Outside(a) \/ (Finishes(a) /\ UNCHANGED indexVars) \/ Lock(a)
                                   \/ (Walk(a) /\ step' = [step EXCEPT ![a] = "commit"])
        PROVE  LastLate'
    <2>1. UNCHANGED late /\ \A b \in Appliers : step'[b] = "committing" => step[b] = "committing"
      BY <1>0, <1>3 DEF Outside, Finishes, Finish, Lock, Walk, indexVars
    <2> QED BY <1>0, <1>1, <2>1 DEF LastLate
  <1>4. ASSUME NEW a \in Appliers, Stages(a), UNCHANGED indexVars PROVE LastLate'
    <2>1. late = 0 /\ late' = 0 BY <1>0, <1>4 DEF Stages, Cancelled, LastLate, indexVars
    <2> QED BY <2>1 DEF LastLate
  <1>5. ASSUME NEW a \in Appliers, Finishes(a), CommitTx(a) PROVE LastLate'
    <2>1. late = 0 /\ \A b \in Appliers : b # a => step[b] # "committing"
      BY <1>0, <1>5 DEF CommitTx, Exclusive, Committing, LastLate
    <2>2. \A b \in Appliers : step'[b] # "committing" BY <1>0, <1>5, <2>1 DEF Finishes, Finish
    <2>3. late' = IF Stopping THEN 1 ELSE 0 BY <1>5, <2>1 DEF CommitTx
    <2>4. Stopping' = Stopping BY <1>5 DEF CommitTx, Stopping
    <2> QED BY <2>2, <2>3, <2>4 DEF LastLate
  <1> QED BY <1>2, <1>3, <1>4, <1>5, Moves

LEMMA WatchInit == Init => WatchInv
  <1> SUFFICES ASSUME Init PROVE WatchInv OBVIOUS
  <1>1. TypeOK BY WatchTypeInit
  <1>2. Reported /\ Exclusive BY DEF Init, Reported, Exclusive, Committing
  <1>3. Behind BY DEF Init, Behind
  <1>4. \A a \in Appliers : step[a] \notin Committing BY DEF Init, Committing
  <1>5. LastLate BY DEF Init, LastLate
  <1> QED BY <1>1, <1>2, <1>3, <1>4, <1>5 DEF WatchInv, Ordered

LEMMA WatchStep == WatchInv /\ [Next]_vars => WatchInv'
  BY WatchTypeStep, ReportedStep, ExclusiveStep, OrderedStep, LastLateStep DEF WatchInv

(***************************************************************************)
(* Theorems.                                                               *)
(***************************************************************************)

(* Every variable keeps its type; a watch is registered only for a         *)
(* directory that exists.                                                  *)
THEOREM WatchTypeCorrect == Spec => []TypeOK
  <1>1. WatchInv => TypeOK BY DEF WatchInv
  <1> QED BY <1>1, WatchInit, WatchStep, PTL DEF Spec

(* Whatever batches and reconcile passes resolve and parse without a lock, *)
(* and in whatever order they apply, no apply takes a file back to an      *)
(* older version.                                                          *)
THEOREM WatchNeverOlder == Spec => NeverOlder
  <1>1. WatchInv /\ [Next]_vars => [\A f \in Files : cache[f].ver <= cache'[f].ver]_vars
    <2> SUFFICES ASSUME WatchInv, [Next]_vars PROVE \A f \in Files : cache[f].ver <= cache'[f].ver OBVIOUS
    <2>1. \A f \in Files : cache[f].ver \in Int BY DEF WatchInv, TypeOK, States
    <2>2. UNCHANGED cache \/ \E a \in Appliers : CommitTx(a)
      BY Moves DEF Aside, Outside, Lock, Walk, indexVars
    <2> QED BY <2>1, <2>2, ApplyRows
  <1> QED BY <1>1, WatchInit, WatchStep, PTL DEF Spec, NeverOlder

(* Stop does not wait for the batches of timer goroutines, of which there  *)
(* may be any number, but one at most is committed after it: the one that  *)
(* held applyMu and had passed its test of the context.                    *)
THEOREM WatchOneLateCommit == Spec => []OneLateCommit
  <1>1. WatchInv => OneLateCommit BY DEF WatchInv, LastLate, OneLateCommit
  <1> QED BY <1>1, WatchInit, WatchStep, PTL DEF Spec
=============================================================================
