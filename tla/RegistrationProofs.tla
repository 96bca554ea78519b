------------------------- MODULE RegistrationProofs -------------------------
(***************************************************************************)
(* Proofs about the registration of checkouts.                             *)
(*                                                                         *)
(* Only the process that holds the lock has more than a request: its       *)
(* memory is the manifest, and of the clients that it was asked for only   *)
(* the change that it is making is pending (Sound).  What a pending change *)
(* may do to a file is fixed when it is announced, against the receipts    *)
(* (Faithful), and holds whenever the file is again the one that was read; *)
(* users' entries are never the ones of a receipt (UsersApart), nor what a *)
(* pending change put where there was nothing (PutThere), so that taking   *)
(* it back takes nothing from them.  A recovery of the manifest keeps all  *)
(* of this (RecoveredFaithful).                                            *)
(***************************************************************************)
EXTENDS Registration, WellFoundedInduction, TLAPS

Changing == {"write", "verify", "restore", "confirm", "failed"}
Placing  == {"store", "apply", "remove"} \cup Changing
Running  == {"disable", "allocate"} \cup Placing
Outside  == {"idle", "lock"}

(* The lock is held by the process that is past it.                        *)
Mutex == \A p \in Procs : loc[p].pc \notin Outside => lock = p

(* The memory of the process that holds the lock is the manifest.          *)
InMemory(l, m) == l.pc \in Running => l.mem = m

(* Of the requested clients, only the change that is being made is pending. *)
Pends(l, m) ==
  /\ l.pc \in Running \ Changing => PendingOf(m, l.req.clients) = {}
  /\ l.pc \in Changing => l.change \in Change /\ PendingOf(m, l.req.clients) = {l.change}

(* The stores that are left have names, which those that are registered    *)
(* keep.                                                                   *)
Places(l, m) ==
  l.pc \in Placing =>
    /\ l.pc # "store" => l.stores # {} /\ l.clients \subseteq l.req.clients
    /\ \A r \in l.stores : l.names[r] \in Names /\ m.reg[r] \in {None, l.names[r]}

(* A store is registered before its entries are written, and an entry is   *)
(* removed only on request.                                                *)
Registers(l, m) ==
  /\ l.pc = "apply" \/ (l.pc \in Changing /\ ~l.change.remove) => m.reg[First(l.stores)] = l.names[First(l.stores)]
  /\ l.pc = "remove" \/ (l.pc \in Changing /\ l.change.remove) => l.req.kind = "unregister"

(* A sync asks for one of the clients that are consented to; setup for     *)
(* what its user asked.                                                    *)
Asks(l, m) ==
  /\ l.sync => ~l.req.auto
  /\ l.pc \in {"lock", "policies", "policy"} => l.sync
  /\ l.pc = "disable" => l.req.kind = "disable"
  /\ l.pc \in {"load"} \cup Running => IF l.sync THEN l.req.kind = "register" /\ l.req.clients \subseteq l.policies
                                                 ELSE l.req \in Requests
  /\ l.sync /\ l.pc \in {"policy", "load"} \cup Running => l.policies \subseteq m.policy

Sound(l, m) == InMemory(l, m) /\ Pends(l, m) /\ Places(l, m) /\ Registers(l, m) /\ Asks(l, m)

(* Receipts, given or announced.                                           *)
Claims(m) == m.receipts \cup {ch.receipt : ch \in m.pending}

Keyed(m) ==
  /\ \A a, b \in m.receipts : a.checkout = b.checkout /\ a.client = b.client /\ a.name = b.name => a = b
  /\ \A a, b \in m.pending : a.receipt.client = b.receipt.client => a = b

(* A receipt describes an entry that binds its checkout.                   *)
Formed(x) == x.managed.checkout = x.checkout /\ x.entry.managed = x.managed

(* What a change does to the file that it was planned from: a removal      *)
(* takes away exactly the entry of a receipt; another change keeps the     *)
(* extra fields, and changes an entry that is there only if its binding is *)
(* the one of a receipt.                                                   *)
Planned(ch, m) ==
  LET x == ch.receipt
      was == ch.before.entries[x.name]
  IN  IF ch.remove
      THEN x \in m.receipts /\ was = x.entry /\ ch.target = [ch.before EXCEPT !.entries[x.name] = None]
      ELSE /\ ch.target = [ch.before EXCEPT !.entries[x.name] = x.entry]
           /\ was # None => /\ x.entry.extra = was.extra
                            /\ \/ ch.target = ch.before
                               \/ \E y \in m.receipts : SameKey(x, y) /\ was.managed = y.managed

Faithful(m) ==
  /\ Keyed(m)
  /\ \A x \in Claims(m) : Formed(x)
  /\ \A ch \in m.pending : Planned(ch, m)

(* An entry of a user is there and is not what a receipt describes.        *)
UsersApart ==
  \A u \in users :
    /\ config[u[1]].entries[u[2]] # None
    /\ \A x \in manifest.receipts : x.client = u[1] /\ x.name = u[2] => x.entry # config[u[1]].entries[u[2]]

(* What a pending change put where there was no entry is not a user's.     *)
PutThere ==
  \A ch \in manifest.pending :
    LET x == ch.receipt IN
    ~ch.remove /\ ch.before.entries[x.name] = None /\ config[x.client].entries[x.name] = x.entry
      => <<x.client, x.name>> \notin users

(* What the processes know.                                                *)
Control ==
  /\ loc \in [Procs -> Local] /\ lock \in Procs \cup {None} /\ manifest \in Manifest
  /\ Mutex
  /\ \A p \in Procs : Sound(loc[p], manifest)

(* What the manifest and the files say of each other.                      *)
Data == Faithful(manifest) /\ UsersApart /\ PutThere /\ OwnedOrAnnounced

Files  == config \in [Clients -> Config] /\ users \subseteq Clients \X Names
Counts == setups \in 0..MaxSetups /\ edits \in 0..MaxEdits /\ edited \subseteq Clients /\ faults \in 0..MaxFaults

Inv == Control /\ Data /\ Files /\ Counts

(* Receipts, given or announced, have the names of their checkouts.        *)
Named(m) == \A x \in Claims(m) : m.reg[x.checkout] = x.name

(***************************************************************************)
(* The order of clients and checkouts, and the records of the model.       *)
(***************************************************************************)

(* A set of naturals that is not empty has a least member.                 *)
LEMMA LeastOf ==
  ASSUME NEW T \in SUBSET Nat, T # {}
  PROVE  \E k \in T : \A j \in T : k <= j
<1> DEFINE R == OpToRel(<, Nat)
<1>1. IsWellFoundedOn(R, Nat) BY NatLessThanWellFounded
<1> HIDE DEF R
<1>2. PICK k \in T : \A j \in T : ~(<<j, k>> \in R) BY <1>1, WFMin
<1>3. \A i, j \in Nat : i < j => <<i, j>> \in R BY DEF R, OpToRel
<1>4. \A j \in T : k <= j
  <2> SUFFICES ASSUME NEW j \in T PROVE k <= j OBVIOUS
  <2>1. j \in Nat /\ k \in Nat OBVIOUS
  <2>2. ~(j < k) BY <1>2, <1>3, <2>1, Zenon
  <2> QED BY <2>1, <2>2
<1> QED BY <1>4

(* First is a member: clients and checkouts are ranked by naturals.        *)
LEMMA FirstIn ==
  ASSUME NEW S, S \subseteq Clients \/ S \subseteq Checkouts, S # {}
  PROVE  First(S) \in S
<1> DEFINE T == {Rank[x] : x \in S}
<1>1. \A x \in S : Rank[x] \in Nat BY RegistrationAssumption
<1>2. T \in SUBSET Nat /\ T # {} BY <1>1
<1> HIDE DEF T
<1>3. PICK k \in T : \A j \in T : k <= j BY <1>2, LeastOf
<1>4. PICK x \in S : k = Rank[x] BY DEF T
<1>5. \A y \in S : Rank[x] <= Rank[y] BY <1>3, <1>4 DEF T
<1> QED BY <1>5, Zenon DEF First

(* The fields of a manifest, a change and a receipt have their types.      *)
LEMMA ManifestFields ==
  ASSUME NEW m \in Manifest
  PROVE  /\ m.reg \in [Checkouts -> Names \cup {None}] /\ m.receipts \subseteq Receipt
         /\ m.pending \subseteq Change /\ m.policy \subseteq Clients
BY DEF Manifest

LEMMA ChangeFields ==
  ASSUME NEW ch \in Change
  PROVE  ch.receipt \in Receipt /\ ch.before \in Config /\ ch.target \in Config /\ ch.remove \in BOOLEAN
BY DEF Change

LEMMA ReceiptFields ==
  ASSUME NEW x \in Receipt
  PROVE  /\ x.checkout \in Checkouts /\ x.client \in Clients /\ x.name \in Names
         /\ x.managed \in Managed /\ x.entry \in Entry
BY DEF Receipt

(* Manifests with the same fields are equal.                               *)
LEMMA SameManifest ==
  ASSUME NEW m \in Manifest, NEW k \in Manifest, m.reg = k.reg, m.receipts = k.receipts,
         m.pending = k.pending, m.policy = k.policy
  PROVE  m = k
BY DEF Manifest

(* Each field of a manifest can be replaced.                               *)
LEMMA WithReg ==
  ASSUME NEW m \in Manifest, NEW r \in Checkouts, NEW n \in Names \cup {None}
  PROVE  LET k == [m EXCEPT !.reg[r] = n] IN
         /\ k \in Manifest /\ k.reg = [m.reg EXCEPT ![r] = n] /\ k.receipts = m.receipts
         /\ k.pending = m.pending /\ k.policy = m.policy
BY DEF Manifest

LEMMA WithPolicy ==
  ASSUME NEW m \in Manifest, NEW cs \in SUBSET Clients
  PROVE  LET k == [m EXCEPT !.policy = cs] IN
         /\ k \in Manifest /\ k.reg = m.reg /\ k.receipts = m.receipts
         /\ k.pending = m.pending /\ k.policy = cs
BY DEF Manifest

LEMMA WithClaims ==
  ASSUME NEW m \in Manifest, NEW X \in SUBSET Receipt, NEW P \in SUBSET Change
  PROVE  LET k == [m EXCEPT !.pending = P, !.receipts = X] IN
         /\ k \in Manifest /\ k.reg = m.reg /\ k.receipts = X
         /\ k.pending = P /\ k.policy = m.policy
BY DEF Manifest

LEMMA WithPending ==
  ASSUME NEW m \in Manifest, NEW P \in SUBSET Change
  PROVE  LET k == [m EXCEPT !.pending = P] IN
         /\ k \in Manifest /\ k.reg = m.reg /\ k.receipts = m.receipts
         /\ k.pending = P /\ k.policy = m.policy
BY DEF Manifest

(***************************************************************************)
(* Recovery and announcement.                                              *)
(***************************************************************************)

Completed(m, cs) == {ch \in PendingOf(m, cs) : config[ch.receipt.client] = ch.target}

(* What a recovery leaves of a manifest.                                   *)
LEMMA RecoveredFields ==
  ASSUME NEW m \in Manifest, NEW cs
  PROVE  LET k == Recovered(m, cs) IN
         /\ k \in Manifest /\ k.reg = m.reg /\ k.policy = m.policy
         /\ k.pending = (m.pending \ PendingOf(m, cs)) \cup Conflicts(m, cs)
         /\ k.receipts = {x \in m.receipts : \A ch \in Completed(m, cs) : ~SameKey(x, ch.receipt)}
                           \cup {ch.receipt : ch \in {d \in Completed(m, cs) : ~d.remove}}
<1> DEFINE P == (m.pending \ PendingOf(m, cs)) \cup Conflicts(m, cs)
           X == {x \in m.receipts : \A ch \in Completed(m, cs) : ~SameKey(x, ch.receipt)}
                  \cup {ch.receipt : ch \in {d \in Completed(m, cs) : ~d.remove}}
<1>1. P \in SUBSET Change BY ManifestFields DEF PendingOf, Conflicts
<1>2. X \in SUBSET Receipt BY ManifestFields, ChangeFields DEF Completed, PendingOf
<1>3. Recovered(m, cs) = [m EXCEPT !.pending = P, !.receipts = X] BY DEF Recovered, Completed
<1> HIDE DEF P, X
<1>4. Recovered(m, cs) \in Manifest /\ Recovered(m, cs).reg = m.reg /\ Recovered(m, cs).receipts = X
      /\ Recovered(m, cs).pending = P /\ Recovered(m, cs).policy = m.policy
  BY <1>1, <1>2, <1>3 DEF Manifest
<1> QED BY <1>4 DEF P, X

(* Settling one change is a recovery of its client.                        *)
LEMMA SettlingIsRecovery ==
  ASSUME NEW m \in Manifest, Keyed(m), NEW ch \in m.pending
  PROVE  /\ RecoverPending(m, ch, config[ch.receipt.client]) = Recovered(m, {ch.receipt.client})
         /\ PendingOf(m, {ch.receipt.client}) = {ch}
<1> DEFINE c == ch.receipt.client
           o == config[c]
           k == Recovered(m, {c})
           d == [m EXCEPT !.pending = m.pending \ {ch}]
<1>1. PendingOf(m, {c}) = {ch} BY DEF PendingOf, Keyed
<1>2. k \in Manifest /\ k.reg = m.reg /\ k.policy = m.policy
      /\ k.pending = (m.pending \ {ch}) \cup Conflicts(m, {c})
      /\ k.receipts = {x \in m.receipts : \A e \in Completed(m, {c}) : ~SameKey(x, e.receipt)}
                        \cup {e.receipt : e \in {f \in Completed(m, {c}) : ~f.remove}}
  BY <1>1, RecoveredFields
<1>3. m.pending \subseteq Change /\ m.receipts \subseteq Receipt /\ ch.receipt \in Receipt
  BY ManifestFields, ChangeFields
<1>4. d \in Manifest /\ d.reg = m.reg /\ d.receipts = m.receipts /\ d.pending = m.pending \ {ch} /\ d.policy = m.policy
  BY <1>3, WithPending
<1>5. CASE o = ch.target
  <2> DEFINE X == {x \in m.receipts : ~SameKey(x, ch.receipt)} \cup (IF ch.remove THEN {} ELSE {ch.receipt})
             n == [d EXCEPT !.receipts = X]
  <2>1. Completed(m, {c}) = {ch} /\ Conflicts(m, {c}) = {} BY <1>1, <1>5 DEF Completed, Conflicts
  <2>2. k.pending = m.pending \ {ch} BY <1>2, <2>1
  <2>7. k.receipts = X
    <3>1. {e.receipt : e \in {f \in {ch} : ~f.remove}} = IF ch.remove THEN {} ELSE {ch.receipt} OBVIOUS
    <3>2. {x \in m.receipts : \A e \in {ch} : ~SameKey(x, e.receipt)} = {x \in m.receipts : ~SameKey(x, ch.receipt)}
      OBVIOUS
    <3> HIDE DEF k
    <3> QED BY <1>2, <2>1, <3>1, <3>2
  <2>3. RecoverPending(m, ch, o) = [d EXCEPT !.receipts = X] BY <1>4, <1>5 DEF RecoverPending
  <2>4. X \in SUBSET Receipt BY <1>3
  <2> HIDE DEF X, d, k, o, c
  <2>5. n \in Manifest /\ n.reg = d.reg /\ n.receipts = X /\ n.pending = d.pending /\ n.policy = d.policy
    BY <1>4, <2>4 DEF Manifest
  <2>6. n = k BY <2>5, <1>2, <1>4, <2>2, <2>7, SameManifest
  <2> QED BY <1>1, <2>3, <2>6 DEF c, o, k
<1>6. CASE o # ch.target /\ o = ch.before
  <2>1. Completed(m, {c}) = {} /\ Conflicts(m, {c}) = {} BY <1>1, <1>6 DEF Completed, Conflicts
  <2>2. k.pending = m.pending \ {ch} /\ k.receipts = m.receipts BY <1>2, <2>1
  <2>3. RecoverPending(m, ch, o) = d BY <1>6 DEF RecoverPending
  <2> HIDE DEF d, k, o, c
  <2>4. d = k BY <1>2, <1>4, <2>2, SameManifest
  <2> QED BY <1>1, <2>3, <2>4 DEF c, o, k
<1>7. CASE o # ch.target /\ o # ch.before
  <2>1. Completed(m, {c}) = {} /\ Conflicts(m, {c}) = {ch} BY <1>1, <1>7 DEF Completed, Conflicts
  <2>2. k.pending = m.pending /\ k.receipts = m.receipts BY <1>2, <2>1
  <2>3. RecoverPending(m, ch, o) = m BY <1>7 DEF RecoverPending
  <2> HIDE DEF d, k, o, c
  <2>4. m = k BY <1>2, <2>2, SameManifest
  <2> QED BY <1>1, <2>3, <2>4 DEF c, o, k
<1> QED BY <1>5, <1>6, <1>7

(* A plan is as good when the receipts of its key are the same.            *)
LEMMA PlannedFrame ==
  ASSUME NEW m, NEW k, NEW ch, Planned(ch, m),
         \A y \in m.receipts : SameKey(ch.receipt, y) => y \in k.receipts
  PROVE  Planned(ch, k)
BY DEF Planned, SameKey

(* What is said of receipts and changes does not depend on the rest.       *)
LEMMA FaithfulFrame ==
  ASSUME NEW m, NEW k, Faithful(m), k.receipts = m.receipts, k.pending = m.pending
  PROVE  Faithful(k)
<1>1. Keyed(k) BY DEF Faithful, Keyed
<1>2. \A x \in Claims(k) : Formed(x) BY DEF Faithful, Claims
<1>3. \A ch \in k.pending : Planned(ch, k) BY PlannedFrame DEF Faithful
<1> QED BY <1>1, <1>2, <1>3 DEF Faithful

(* A completed removal has left no entry.                                  *)
LEMMA RemovedIsGone ==
  ASSUME NEW m, NEW ch \in Change, Planned(ch, m), ch.remove
  PROVE  ch.target.entries[ch.receipt.name] = None
<1>1. ch.receipt \in Receipt /\ ch.before \in Config BY ChangeFields
<1>2. ch.receipt.name \in Names BY <1>1, ReceiptFields
<1>3. ch.target = [ch.before EXCEPT !.entries[ch.receipt.name] = None] BY DEF Planned
<1> QED BY <1>1, <1>2, <1>3 DEF Config

(* A recovery keeps receipts and changes faithful.                         *)
LEMMA RecoveredFaithful ==
  ASSUME NEW m \in Manifest, Faithful(m), NEW cs
  PROVE  Faithful(Recovered(m, cs))
<1> DEFINE k == Recovered(m, cs)
           C == Completed(m, cs)
<1>1. k.pending = (m.pending \ PendingOf(m, cs)) \cup Conflicts(m, cs)
      /\ k.receipts = {x \in m.receipts : \A ch \in C : ~SameKey(x, ch.receipt)}
                        \cup {ch.receipt : ch \in {d \in C : ~d.remove}}
  BY RecoveredFields
<1>2. k.pending \subseteq m.pending /\ C \subseteq m.pending /\ k.pending \cap C = {}
  <2>1. C \subseteq PendingOf(m, cs) /\ PendingOf(m, cs) \subseteq m.pending /\ Conflicts(m, cs) \subseteq m.pending
    BY DEF Completed, PendingOf, Conflicts
  <2>2. Conflicts(m, cs) \cap C = {} BY DEF Completed, Conflicts
  <2> HIDE DEF k, C
  <2> QED BY <1>1, <2>1, <2>2
<1>3. Keyed(m) BY DEF Faithful
<1> HIDE DEF k, C
<1>4. Keyed(k)
  <2>1. ASSUME NEW a \in k.receipts, NEW b \in k.receipts, a.checkout = b.checkout, a.client = b.client, a.name = b.name
        PROVE  a = b
    <3>1. CASE a \in m.receipts /\ b \in m.receipts BY <2>1, <3>1, <1>3 DEF Keyed
    <3>2. CASE \E d \in C : a = d.receipt /\ \E e \in C : b = e.receipt BY <2>1, <3>2, <1>2, <1>3 DEF Keyed
    <3>3. CASE \E d \in C : a = d.receipt /\ ~SameKey(b, d.receipt) BY <2>1, <3>3 DEF SameKey
    <3>4. CASE \E d \in C : b = d.receipt /\ ~SameKey(a, d.receipt) BY <2>1, <3>4 DEF SameKey
    <3> QED BY <1>1, <3>1, <3>2, <3>3, <3>4
  <2>2. \A a, b \in k.pending : a.receipt.client = b.receipt.client => a = b BY <1>2, <1>3 DEF Keyed
  <2> QED BY <2>1, <2>2 DEF Keyed
<1>5. Claims(k) \subseteq Claims(m) BY <1>1, <1>2 DEF Claims
<1>6. ASSUME NEW ch \in k.pending PROVE Planned(ch, k)
  <2>1. ch \in m.pending /\ ch \notin C /\ Planned(ch, m) BY <1>2 DEF Faithful
  <2>2. ASSUME NEW y \in m.receipts, SameKey(ch.receipt, y) PROVE y \in k.receipts
    <3>1. \A e \in C : ~SameKey(y, e.receipt) BY <1>2, <1>3, <2>1, <2>2 DEF Keyed, SameKey
    <3> QED BY <1>1, <3>1
  <2> QED BY <2>1, <2>2, PlannedFrame
<1>7. \A x \in Claims(k) : Formed(x) BY <1>5 DEF Faithful
<1>8. Faithful(k) BY <1>4, <1>6, <1>7 DEF Faithful
<1> QED BY <1>8 DEF k

(* A recovery that is saved orphans nothing: a change that it drops was    *)
(* either completed, and leaves a receipt or no entry, or not begun, and   *)
(* then what is in the file has the owner that it had.                     *)
LEMMA RecoveryKeeps ==
  ASSUME manifest \in Manifest, users \subseteq Clients \X Names, Data, NEW cs,
         manifest' = Recovered(manifest, cs), users' = users \ Settled(manifest, cs), config' = config
  PROVE  Data'
<1> DEFINE m == manifest
           C == Completed(m, cs)
<1>1. /\ manifest'.pending = (m.pending \ PendingOf(m, cs)) \cup Conflicts(m, cs)
      /\ manifest'.receipts = {x \in m.receipts : \A ch \in C : ~SameKey(x, ch.receipt)}
                        \cup {ch.receipt : ch \in {d \in C : ~d.remove}}
  BY RecoveredFields
<1>2. Faithful(manifest)' BY RecoveredFaithful DEF Data
<1>3. \A ch \in C : ~ch.remove => ch.receipt \in manifest'.receipts /\ <<ch.receipt.client, ch.receipt.name>> \in Settled(m, cs)
  BY <1>1 DEF Completed, Settled
<1>4. \A ch \in C : ch \in m.pending /\ ch \in Change /\ Planned(ch, m) /\ config[ch.receipt.client] = ch.target
  BY ManifestFields DEF Completed, PendingOf, Data, Faithful
<1>5. UsersApart'
  <2> SUFFICES ASSUME NEW u \in users, u \notin Settled(m, cs)
               PROVE  /\ config[u[1]].entries[u[2]] # None
                      /\ \A x \in manifest'.receipts : x.client = u[1] /\ x.name = u[2] => x.entry # config[u[1]].entries[u[2]]
    BY DEF UsersApart
  <2>1. u = <<u[1], u[2]>> OBVIOUS
  <2>2. config[u[1]].entries[u[2]] # None BY DEF Data, UsersApart
  <2>3. ASSUME NEW x \in manifest'.receipts, x.client = u[1], x.name = u[2] PROVE x.entry # config[u[1]].entries[u[2]]
    <3>1. \A ch \in C : ~ch.remove => x # ch.receipt BY <1>3, <2>1, <2>3
    <3>2. x \in manifest.receipts BY <1>1, <3>1
    <3> QED BY <3>2, <2>3 DEF Data, UsersApart
  <2> QED BY <2>2, <2>3
<1>6. OwnedOrAnnounced'
  <2> SUFFICES ASSUME NEW c \in Clients, NEW n \in Names, config[c].entries[n] # None, <<c, n>> \notin users'
               PROVE  \E x \in Claims(manifest') : x.client = c /\ x.name = n
    BY DEF OwnedOrAnnounced, Claims
  <2>1. ASSUME NEW ch \in C, ch.receipt.client = c, ch.receipt.name = n
        PROVE  \E x \in Claims(manifest') : x.client = c /\ x.name = n
    <3>1. ~ch.remove BY <1>4, <2>1, RemovedIsGone
    <3> QED BY <1>3, <2>1, <3>1 DEF Claims
  <2>2. ASSUME NEW x \in m.receipts, x.client = c, x.name = n
        PROVE  \E y \in Claims(manifest') : y.client = c /\ y.name = n
    <3>1. CASE \E ch \in C : SameKey(x, ch.receipt) BY <2>1, <2>2, <3>1 DEF SameKey
    <3>2. CASE \A ch \in C : ~SameKey(x, ch.receipt) BY <1>1, <2>2, <3>2 DEF Claims
    <3> QED BY <3>1, <3>2
  <2>3. ASSUME NEW ch \in m.pending, ch.receipt.client = c, ch.receipt.name = n
        PROVE  \E y \in Claims(manifest') : y.client = c /\ y.name = n
    <3>1. CASE ch \in manifest'.pending BY <2>3, <3>1 DEF Claims
    <3>2. CASE ch \in C BY <3>2, <2>1, <2>3
    <3>3. CASE ch \notin manifest'.pending /\ ch \notin C
      <4>1. config[c] = ch.before /\ ch.before # ch.target
        BY <1>1, <2>3, <3>3 DEF Completed, Conflicts, PendingOf
      <4>2. Planned(ch, m) BY DEF Data, Faithful
      <4>3. \E y \in m.receipts : SameKey(ch.receipt, y) BY <4>1, <4>2, <2>3 DEF Planned, SameKey
      <4> QED BY <4>3, <2>2, <2>3 DEF SameKey
    <3> QED BY <3>1, <3>2, <3>3
  <2>4. CASE <<c, n>> \in users
    <3>1. <<c, n>> \in Settled(m, cs) BY <2>4
    <3>2. \E ch \in C : ch.receipt.client = c /\ ch.receipt.name = n BY <3>1 DEF Settled, Completed, PendingOf
    <3> QED BY <3>2, <2>1
  <2>5. CASE <<c, n>> \notin users
    <3>1. \E x \in Claims(m) : x.client = c /\ x.name = n BY <2>5 DEF Data, OwnedOrAnnounced, Claims
    <3> QED BY <3>1, <2>2, <2>3 DEF Claims
  <2> QED BY <2>4, <2>5
<1>7. PutThere'
  <2>1. manifest'.pending \subseteq manifest.pending /\ users' \subseteq users BY <1>1 DEF Conflicts, PendingOf
  <2> QED BY <2>1 DEF Data, PutThere
<1> QED BY <1>2, <1>5, <1>6, <1>7 DEF Data

(* So do steps that change neither files nor receipts nor changes.         *)
LEMMA DataStays ==
  ASSUME Data, config' = config, users' = users,
         manifest'.receipts = manifest.receipts, manifest'.pending = manifest.pending
  PROVE  Data'
<1>1. Faithful(manifest)' BY FaithfulFrame DEF Data
<1>2. UsersApart' BY DEF Data, UsersApart
<1>3. OwnedOrAnnounced' BY DEF Data, OwnedOrAnnounced
<1>4. PutThere' BY DEF Data, PutThere
<1> QED BY <1>1, <1>2, <1>3, <1>4 DEF Data

(* Announcing a plan for a client that has none adds it.                   *)
LEMMA AnnouncedFields ==
  ASSUME NEW m \in Manifest, NEW ch \in Change, PendingOf(m, {ch.receipt.client}) = {}
  PROVE  LET k == UpsertPending(m, ch) IN
         /\ k \in Manifest /\ k.reg = m.reg /\ k.receipts = m.receipts /\ k.policy = m.policy
         /\ k.pending = m.pending \cup {ch}
<1>1. {x \in m.pending : ~SameKey(x.receipt, ch.receipt)} = m.pending BY DEF PendingOf, SameKey
<1>2. m.pending \cup {ch} \in SUBSET Change BY ManifestFields
<1>3. UpsertPending(m, ch) = [m EXCEPT !.pending = m.pending \cup {ch}] BY <1>1 DEF UpsertPending
<1> QED BY <1>2, <1>3 DEF Manifest

LEMMA AnnouncementKeeps ==
  ASSUME manifest \in Manifest, Data, NEW ch \in Change, PendingOf(manifest, {ch.receipt.client}) = {},
         Formed(ch.receipt), Planned(ch, manifest), config[ch.receipt.client] = ch.before,
         manifest' = UpsertPending(manifest, ch), config' = config, users' = users
  PROVE  Data'
<1>1. manifest'.receipts = manifest.receipts /\ manifest'.pending = manifest.pending \cup {ch} BY AnnouncedFields
<1>2. Keyed(manifest') BY <1>1 DEF Data, Faithful, Keyed, PendingOf
<1>3. \A x \in Claims(manifest') : Formed(x) BY <1>1 DEF Data, Faithful, Claims
<1>4. \A d \in manifest'.pending : Planned(d, manifest') BY <1>1, PlannedFrame DEF Data, Faithful
<1>5. UsersApart' BY <1>1 DEF Data, UsersApart
<1>6. OwnedOrAnnounced' BY <1>1 DEF Data, OwnedOrAnnounced
<1>7. PutThere'
  <2>1. ch.receipt.entry # None BY ChangeFields, ReceiptFields, RegistrationAssumption
  <2> QED BY <1>1, <2>1 DEF Data, PutThere
<1> QED BY <1>2, <1>3, <1>4, <1>5, <1>6, <1>7 DEF Data, Faithful

(***************************************************************************)
(* Writes and edits of the files.                                          *)
(***************************************************************************)

(* What users wrote is kept, but for a save after a rename.                *)
WorkKept == \A c \in Clients : Overtaken(c) \/ KeptIn(c)

(* The target of a change differs in one entry from the file it was        *)
(* planned from.                                                           *)
LEMMA TargetFields ==
  ASSUME NEW m, NEW ch \in Change, Planned(ch, m)
  PROVE  /\ ch.target.other = ch.before.other
         /\ \A k \in Names : k # ch.receipt.name => ch.target.entries[k] = ch.before.entries[k]
         /\ ch.target.entries[ch.receipt.name] = IF ch.remove THEN None ELSE ch.receipt.entry
<1>1. ch.before \in Config /\ ch.receipt.name \in Names BY ChangeFields, ReceiptFields
<1>2. ch.target = [ch.before EXCEPT !.entries[ch.receipt.name] = IF ch.remove THEN None ELSE ch.receipt.entry]
  BY DEF Planned
<1> QED BY <1>1, <1>2 DEF Config

(* An entry of a user that a change is planned for has the binding of the  *)
(* receipt of its key, and other extra fields.                             *)
LEMMA UsersEntryMeets ==
  ASSUME manifest \in Manifest, Data, NEW ch \in manifest.pending, config[ch.receipt.client] = ch.before,
         <<ch.receipt.client, ch.receipt.name>> \in users
  PROVE  LET was == ch.before.entries[ch.receipt.name] IN
         /\ ~ch.remove /\ was # None /\ ch.receipt.entry.extra = was.extra
         /\ \/ ch.target = ch.before
            \/ \E y \in manifest.receipts : SameKey(ch.receipt, y) /\ was.managed = y.managed
<1> DEFINE x == ch.receipt
           was == ch.before.entries[x.name]
<1>1. Planned(ch, manifest) BY DEF Data, Faithful
<1>2. was # None /\ \A y \in manifest.receipts : y.client = x.client /\ y.name = x.name => y.entry # was
  BY DEF Data, UsersApart
<1>3. ~ch.remove BY <1>1, <1>2 DEF Planned
<1> QED BY <1>1, <1>2, <1>3 DEF Planned

(* A write of an announced change keeps what users wrote.                  *)
LEMMA WriteKeeps ==
  ASSUME manifest \in Manifest, config \in [Clients -> Config], users \subseteq Clients \X Names, Data,
         NEW ch \in manifest.pending, config[ch.receipt.client] = ch.before,
         config' = [config EXCEPT ![ch.receipt.client] = ch.target], users' = users, manifest' = manifest
  PROVE  config' \in [Clients -> Config] /\ Data' /\ WorkKept
<1> DEFINE x == ch.receipt
           c == x.client
           n == x.name
           was == ch.before.entries[n]
<1>1. ch \in Change /\ x \in Receipt /\ ch.target \in Config /\ ch.before \in Config /\ c \in Clients /\ n \in Names /\ x.entry \in Entry
  BY ManifestFields, ChangeFields, ReceiptFields
<1>2. Planned(ch, manifest) BY DEF Data, Faithful
<1>3. /\ ch.target.other = ch.before.other
      /\ \A k \in Names : k # n => ch.target.entries[k] = ch.before.entries[k]
      /\ ch.target.entries[n] = IF ch.remove THEN None ELSE x.entry
  BY <1>1, <1>2, TargetFields
<1>4. config' \in [Clients -> Config] /\ config'[c] = ch.target /\ \A d \in Clients : d # c => config'[d] = config[d]
  BY <1>1
<1>5. \A d \in Clients : config'[d].other = config[d].other BY <1>3, <1>4
<1>6. \A d \in Clients, k \in Names : <<d, k>> # <<c, n>> => config'[d].entries[k] = config[d].entries[k]
  BY <1>3, <1>4
<1>7. config[c].entries[n] = was /\ config'[c].entries[n] = IF ch.remove THEN None ELSE x.entry BY <1>3, <1>4
<1>8. \A u \in users : u = <<u[1], u[2]>> /\ u[1] \in Clients /\ u[2] \in Names OBVIOUS
<1>9. \A y \in manifest.receipts : Formed(y) /\ y \in Receipt BY ManifestFields DEF Data, Faithful, Claims
<1>10. Formed(x) BY DEF Data, Faithful, Claims
<1>11. None \notin Entry BY RegistrationAssumption
<1>12. <<c, n>> \in users =>
         /\ ~ch.remove /\ was # None /\ x.entry.extra = was.extra
         /\ \/ ch.target = ch.before
            \/ \E y \in manifest.receipts : SameKey(x, y) /\ was.managed = y.managed
  BY UsersEntryMeets
<1>13. was \in Entry \cup {None} BY <1>1 DEF Config
<1>14. \A y \in manifest.receipts : <<c, n>> \in users /\ y.client = c /\ y.name = n => y.entry # was
  BY <1>7 DEF Data, UsersApart
<1> HIDE DEF c, n, was, x
<1>15. ASSUME <<c, n>> \in users, NEW z \in manifest.receipts, z.client = c, z.name = n
       PROVE  z.entry # x.entry
  <2>1. CASE ch.target = ch.before
    <3>1. was = x.entry BY <2>1, <1>12, <1>15, <1>7, <1>3 DEF was
    <3> QED BY <3>1, <1>14, <1>15
  <2>2. CASE \E y \in manifest.receipts : SameKey(x, y) /\ was.managed = y.managed
    <3>1. PICK y \in manifest.receipts : SameKey(x, y) /\ was.managed = y.managed BY <2>2
    <3> SUFFICES ASSUME z.entry = x.entry PROVE FALSE OBVIOUS
    <3>2. z.checkout = x.checkout BY <1>9, <1>10 DEF Formed
    <3>3. z = y BY <3>1, <3>2, <1>15 DEF SameKey, Data, Faithful, Keyed, c, n
    <3>4. z.entry.managed = was.managed /\ z.entry.extra = was.extra BY <3>1, <3>3, <1>9, <1>12, <1>15 DEF Formed
    <3>5. z.entry \in Entry /\ was \in Entry BY <1>9, <1>12, <1>13, <1>15, ReceiptFields
    <3>6. z.entry = was BY <3>4, <3>5 DEF Entry
    <3> QED BY <3>6, <1>14, <1>15
  <2> QED BY <2>1, <2>2, <1>12, <1>15
<1>16. UsersApart'
  <2> SUFFICES ASSUME NEW u \in users
               PROVE  /\ config'[u[1]].entries[u[2]] # None
                      /\ \A z \in manifest.receipts : z.client = u[1] /\ z.name = u[2] => z.entry # config'[u[1]].entries[u[2]]
    BY DEF UsersApart
  <2>1. CASE u = <<c, n>>
    <3>1. config'[u[1]].entries[u[2]] = x.entry BY <2>1, <1>7, <1>12
    <3>2. x.entry # None BY <1>1, <1>11
    <3> QED BY <2>1, <3>1, <3>2, <1>15
  <2>2. CASE u # <<c, n>> BY <2>2, <1>6, <1>8 DEF Data, UsersApart
  <2> QED BY <2>1, <2>2
<1>17. OwnedOrAnnounced'
  <2> SUFFICES ASSUME NEW d \in Clients, NEW k \in Names, config'[d].entries[k] # None, <<d, k>> \notin users
               PROVE  \E z \in Claims(manifest) : z.client = d /\ z.name = k
    BY DEF OwnedOrAnnounced, Claims
  <2>1. CASE <<d, k>> = <<c, n>> BY <2>1 DEF Claims, c, n, x
  <2>2. CASE <<d, k>> # <<c, n>> BY <2>2, <1>6 DEF Data, OwnedOrAnnounced, Claims
  <2> QED BY <2>1, <2>2
<1>18. WorkKept
  <2>1. ASSUME NEW d \in Clients, NEW k \in Names, <<d, k>> \in users
        PROVE  /\ config'[d].entries[k] # None
               /\ config'[d].entries[k].extra = config[d].entries[k].extra
               /\ \/ config'[d].entries[k].managed = config[d].entries[k].managed
                  \/ \E y \in manifest.receipts : y.client = d /\ y.name = k /\ y.managed = config[d].entries[k].managed
    <3>1. CASE <<d, k>> = <<c, n>>
      <4>0. d = c /\ k = n BY <3>1
      <4>1. config'[d].entries[k] = x.entry /\ config[d].entries[k] = was BY <4>0, <1>7, <1>12, <2>1
      <4>2. x.entry # None /\ x.entry.extra = was.extra BY <1>1, <1>11, <1>12, <4>0, <2>1
      <4>3. CASE ch.target = ch.before
        <5>1. was = x.entry BY <4>0, <4>3, <1>12, <1>7, <1>3, <2>1 DEF was
        <5> QED BY <5>1, <4>1, <4>2
      <4>4. CASE \E y \in manifest.receipts : SameKey(x, y) /\ was.managed = y.managed
        BY <4>0, <4>1, <4>2, <4>4 DEF SameKey, c, n
      <4> QED BY <4>3, <4>4, <1>12, <4>0, <2>1
    <3>2. CASE <<d, k>> # <<c, n>>
      <4>1. config'[d].entries[k] = config[d].entries[k] BY <3>2, <1>6
      <4>2. config[d].entries[k] # None BY <2>1 DEF Data, UsersApart
      <4> QED BY <4>1, <4>2
    <3> QED BY <3>1, <3>2
  <2> QED BY <2>1, <1>5 DEF WorkKept, KeptIn
<1>20. PutThere'
  <2> SUFFICES ASSUME NEW d \in manifest.pending, ~d.remove, d.before.entries[d.receipt.name] = None,
                      <<d.receipt.client, d.receipt.name>> \in users,
                      config'[d.receipt.client].entries[d.receipt.name] = d.receipt.entry
               PROVE  FALSE
    BY DEF PutThere
  <2>1. CASE d = ch BY <2>1, <1>12 DEF was, n, c, x
  <2>2. CASE d # ch
    <3>1. d.receipt.client # c BY <2>2 DEF Data, Faithful, Keyed, c, x
    <3>2. d.receipt.client \in Clients BY ManifestFields, ChangeFields, ReceiptFields
    <3> QED BY <3>1, <3>2, <1>4 DEF Data, PutThere
  <2> QED BY <2>1, <2>2
<1>19. Faithful(manifest)' BY DEF Data
<1> QED BY <1>4, <1>16, <1>17, <1>18, <1>19, <1>20 DEF Data

(* A restore takes back what the change did, and nothing of a user's       *)
(* unless the file has been saved since the rename.                        *)
LEMMA BackupKeeps ==
  ASSUME manifest \in Manifest, config \in [Clients -> Config], users \subseteq Clients \X Names, Data,
         NEW ch \in manifest.pending, config' = [config EXCEPT ![ch.receipt.client] = ch.before],
         users' = {u \in users : u[1] # ch.receipt.client} \cup Theirs(ch.receipt.client, ch.before), manifest' = manifest
  PROVE  /\ config' \in [Clients -> Config] /\ users' \subseteq Clients \X Names /\ Data'
         /\ \A d \in Clients : d # ch.receipt.client \/ config[d] = ch.target => KeptIn(d)
<1> DEFINE x == ch.receipt
           c == x.client
           n == x.name
           was == ch.before.entries[n]
<1>1. ch \in Change /\ x \in Receipt /\ ch.target \in Config /\ ch.before \in Config /\ c \in Clients /\ n \in Names /\ x.entry \in Entry
  BY ManifestFields, ChangeFields, ReceiptFields
<1>2. Planned(ch, manifest) BY DEF Data, Faithful
<1>3. /\ ch.target.other = ch.before.other
      /\ \A k \in Names : k # n => ch.target.entries[k] = ch.before.entries[k]
      /\ ch.target.entries[n] = IF ch.remove THEN None ELSE x.entry
  BY <1>1, <1>2, TargetFields
<1>4. config' \in [Clients -> Config] /\ config'[c] = ch.before /\ \A d \in Clients : d # c => config'[d] = config[d]
  BY <1>1
<1>5. \A d \in Clients, k \in Names :
         <<d, k>> \in users' <=> IF d = c THEN ch.before.entries[k] # None /\ ~Claimed(c, k, ch.before.entries[k])
                                         ELSE <<d, k>> \in users
  BY DEF Theirs
<1>6. users' \subseteq Clients \X Names BY <1>1 DEF Theirs
<1>7. \A u \in users' : u = <<u[1], u[2]>> /\ u[1] \in Clients /\ u[2] \in Names BY <1>6
<1> HIDE DEF c, n, was, x
<1>8. UsersApart'
  <2> SUFFICES ASSUME NEW d \in Clients, NEW k \in Names, <<d, k>> \in users'
               PROVE  /\ config'[d].entries[k] # None
                      /\ \A z \in manifest.receipts : z.client = d /\ z.name = k => z.entry # config'[d].entries[k]
    BY <1>7 DEF UsersApart
  <2>1. CASE d = c BY <2>1, <1>4, <1>5 DEF Claimed
  <2>2. CASE d # c BY <2>2, <1>4, <1>5 DEF Data, UsersApart
  <2> QED BY <2>1, <2>2
<1>9. OwnedOrAnnounced'
  <2> SUFFICES ASSUME NEW d \in Clients, NEW k \in Names, config'[d].entries[k] # None, <<d, k>> \notin users'
               PROVE  \E z \in Claims(manifest) : z.client = d /\ z.name = k
    BY DEF OwnedOrAnnounced, Claims
  <2>1. CASE d = c BY <2>1, <1>4, <1>5 DEF Claimed, Claims
  <2>2. CASE d # c BY <2>2, <1>4, <1>5 DEF Data, OwnedOrAnnounced, Claims
  <2> QED BY <2>1, <2>2
<1>10. PutThere'
  <2> SUFFICES ASSUME NEW d \in manifest.pending, ~d.remove, d.before.entries[d.receipt.name] = None,
                      <<d.receipt.client, d.receipt.name>> \in users',
                      config'[d.receipt.client].entries[d.receipt.name] = d.receipt.entry
               PROVE  FALSE
    BY DEF PutThere
  <2>1. d.receipt.client \in Clients /\ d.receipt.name \in Names BY ManifestFields, ChangeFields, ReceiptFields
  <2>2. CASE d = ch BY <2>1, <2>2, <1>5 DEF c, x
  <2>3. CASE d # ch
    <3>1. d.receipt.client # c BY <2>3 DEF Data, Faithful, Keyed, c, x
    <3> QED BY <2>1, <3>1, <1>4, <1>5 DEF Data, PutThere
  <2> QED BY <2>2, <2>3
<1>11. ASSUME NEW d \in Clients, d # c PROVE KeptIn(d)
  <2>1. config'[d] = config[d] BY <1>4, <1>11
  <2> QED BY <2>1 DEF Data, UsersApart, KeptIn
<1>12. ASSUME config[c] = ch.target PROVE KeptIn(c)
  <2>1. ASSUME NEW k \in Names, <<c, k>> \in users
        PROVE  /\ config'[c].entries[k] # None
               /\ config'[c].entries[k].extra = config[c].entries[k].extra
               /\ \/ config'[c].entries[k].managed = config[c].entries[k].managed
                  \/ \E y \in manifest.receipts : y.client = c /\ y.name = k /\ y.managed = config'[c].entries[k].managed
    <3>1. config[c].entries[k] # None BY <2>1 DEF Data, UsersApart
    <3>2. CASE k = n
      <4>1. ~ch.remove /\ config[c].entries[n] = x.entry BY <3>1, <3>2, <1>3, <1>12
      <4>2. was # None BY <4>1, <2>1, <3>2 DEF Data, PutThere, c, n, x, was
      <4>3. config'[c].entries[n] = was BY <1>4 DEF was
      <4>4. x.entry.extra = was.extra BY <4>1, <4>2, <1>2 DEF Planned, x, n, was
      <4>5. ch.target = ch.before \/ \E y \in manifest.receipts : SameKey(x, y) /\ was.managed = y.managed
        BY <4>1, <4>2, <1>2 DEF Planned, x, n, was
      <4>6. CASE ch.target = ch.before BY <4>6, <4>2, <4>3, <3>2, <1>4, <1>12
      <4>7. CASE \E y \in manifest.receipts : SameKey(x, y) /\ was.managed = y.managed
        BY <4>7, <4>1, <4>2, <4>3, <4>4, <3>2 DEF SameKey, c, n
      <4> QED BY <4>5, <4>6, <4>7
    <3>3. CASE k # n
      <4>1. config'[c].entries[k] = config[c].entries[k] BY <3>3, <1>3, <1>4, <1>12
      <4> QED BY <3>1, <4>1
    <3> QED BY <3>2, <3>3
  <2>2. config'[c].other = config[c].other BY <1>3, <1>4, <1>12
  <2> QED BY <2>1, <2>2 DEF KeptIn
<1>13. Faithful(manifest)' BY DEF Data
<1>14. Data' BY <1>8, <1>9, <1>10, <1>13 DEF Data
<1> QED BY <1>4, <1>6, <1>11, <1>12, <1>14 DEF c, x

(* A step that changes no file keeps what users wrote.                     *)
LEMMA NoWriteKeeps ==
  ASSUME Data, config' = config
  PROVE  WorkKept
BY DEF Data, UsersApart, WorkKept, KeptIn

(* A user's edit of an entry: it is the user's, or what a receipt names.   *)
LEMMA UserEditKeeps ==
  ASSUME config \in [Clients -> Config], users \subseteq Clients \X Names, Data,
         NEW c \in Clients, NEW n \in Names, UserEdits(c, n)
  PROVE  config' \in [Clients -> Config] /\ users' \subseteq Clients \X Names /\ Data'
<1>1. PICK e \in Entry \cup {None} :
         /\ config' = [config EXCEPT ![c] = With(c, n, e)]
         /\ users' = IF e = None \/ Claimed(c, n, e) THEN users \ {<<c, n>>} ELSE users \cup {<<c, n>>}
  BY DEF UserEdits
<1>2. manifest' = manifest BY DEF UserEdits
<1>3. With(c, n, e) \in Config /\ With(c, n, e).entries = [config[c].entries EXCEPT ![n] = e] BY DEF With, Config
<1>4. config[c].entries \in [Names -> Entry \cup {None}] BY DEF Config
<1>5. config' \in [Clients -> Config] /\ users' \subseteq Clients \X Names BY <1>1, <1>3
<1>6. config'[c].entries[n] = e
      /\ \A d \in Clients, k \in Names : <<d, k>> # <<c, n>> => config'[d].entries[k] = config[d].entries[k]
  BY <1>1, <1>3, <1>4
<1>7. \A u \in users : u = <<u[1], u[2]>> /\ u[1] \in Clients /\ u[2] \in Names OBVIOUS
<1>8. UsersApart'
  <2> SUFFICES ASSUME NEW u \in users'
               PROVE  /\ config'[u[1]].entries[u[2]] # None
                      /\ \A z \in manifest.receipts : z.client = u[1] /\ z.name = u[2] => z.entry # config'[u[1]].entries[u[2]]
    BY <1>2 DEF UsersApart
  <2>1. CASE u = <<c, n>>
    <3>1. e # None /\ ~Claimed(c, n, e) BY <1>1, <2>1
    <3> QED BY <2>1, <3>1, <1>6 DEF Claimed
  <2>2. CASE u # <<c, n>>
    <3>1. u \in users BY <1>1, <2>2
    <3> QED BY <2>2, <3>1, <1>6, <1>7 DEF Data, UsersApart
  <2> QED BY <2>1, <2>2
<1>9. OwnedOrAnnounced'
  <2> SUFFICES ASSUME NEW d \in Clients, NEW k \in Names, config'[d].entries[k] # None, <<d, k>> \notin users'
               PROVE  \E z \in Claims(manifest) : z.client = d /\ z.name = k
    BY <1>2 DEF OwnedOrAnnounced, Claims
  <2>1. CASE <<d, k>> = <<c, n>>
    <3>1. d = c /\ k = n BY <2>1
    <3>2. Claimed(c, n, e) BY <1>1, <1>6, <3>1
    <3> QED BY <3>1, <3>2 DEF Claimed, Claims
  <2>2. CASE <<d, k>> # <<c, n>>
    <3>1. <<d, k>> \notin users BY <1>1, <2>2
    <3> QED BY <2>2, <3>1, <1>6 DEF Data, OwnedOrAnnounced, Claims
  <2> QED BY <2>1, <2>2
<1>10. Faithful(manifest)' BY <1>2 DEF Data
<1>11. PutThere'
  <2> SUFFICES ASSUME NEW d \in manifest.pending, ~d.remove, d.before.entries[d.receipt.name] = None,
                      <<d.receipt.client, d.receipt.name>> \in users',
                      config'[d.receipt.client].entries[d.receipt.name] = d.receipt.entry
               PROVE  FALSE
    BY <1>2 DEF PutThere
  <2>1. CASE <<d.receipt.client, d.receipt.name>> = <<c, n>>
    <3>1. d.receipt.client = c /\ d.receipt.name = n BY <2>1
    <3>2. e = d.receipt.entry BY <3>1, <1>6
    <3>3. Claimed(c, n, e) BY <3>1, <3>2 DEF Claimed
    <3> QED BY <1>1, <3>1, <3>3
  <2>2. CASE <<d.receipt.client, d.receipt.name>> # <<c, n>>
    <3>1. <<d.receipt.client, d.receipt.name>> \in users BY <1>1, <2>2
    <3> QED BY <2>2, <3>1, <1>6 DEF Data, PutThere
  <2> QED BY <2>1, <2>2
<1> QED BY <1>5, <1>8, <1>9, <1>10, <1>11 DEF Data

LEMMA UserEditRestKeeps ==
  ASSUME config \in [Clients -> Config], users \subseteq Clients \X Names, Data, NEW c \in Clients, UserEditsRest(c)
  PROVE  config' \in [Clients -> Config] /\ Data'
<1>1. config' = [config EXCEPT ![c].other = 1 - @] /\ manifest' = manifest /\ users' = users BY DEF UserEditsRest
<1>2. config[c].other \in {0, 1} BY DEF Config
<1>3. config' \in [Clients -> Config] BY <1>1, <1>2 DEF Config
<1>4. \A d \in Clients : config'[d].entries = config[d].entries BY <1>1 DEF Config
<1>5. UsersApart'
  <2>1. \A u \in users : u[1] \in Clients OBVIOUS
  <2> QED BY <1>1, <1>4, <2>1 DEF Data, UsersApart
<1>6. OwnedOrAnnounced' BY <1>1, <1>4 DEF Data, OwnedOrAnnounced
<1>7. Faithful(manifest)' BY <1>1 DEF Data
<1>8. PutThere'
  <2> SUFFICES ASSUME NEW d \in manifest.pending, ~d.remove, d.before.entries[d.receipt.name] = None,
                      <<d.receipt.client, d.receipt.name>> \in users,
                      config'[d.receipt.client].entries[d.receipt.name] = d.receipt.entry
               PROVE  FALSE
    BY <1>1 DEF PutThere
  <2>1. d.receipt.client \in Clients OBVIOUS
  <2> QED BY <1>4, <2>1 DEF Data, PutThere
<1> QED BY <1>3, <1>5, <1>6, <1>7, <1>8 DEF Data

(***************************************************************************)
(* Control: the lock, and what the process that holds it knows.            *)
(***************************************************************************)

LEMMA LocalFields ==
  ASSUME NEW l \in Local
  PROVE  /\ l.pc \in Pcs /\ l.req \in Request /\ l.sync \in BOOLEAN /\ l.policies \subseteq Clients /\ l.held \in Manifest
         /\ l.mem \in Manifest /\ l.removed \subseteq Receipt /\ l.names \in [Checkouts -> Names \cup {None}]
         /\ l.stores \subseteq Checkouts /\ l.clients \subseteq Clients /\ l.change \in Change \cup {None}
BY DEF Local

LEMMA RequestFields ==
  ASSUME NEW req \in Request
  PROVE  /\ req.kind \in {"none", "register", "unregister", "disable"} /\ req.stores \subseteq Checkouts
         /\ req.clients \subseteq Clients /\ req.name \in Names \cup {None} /\ req.adopt \in BOOLEAN /\ req.auto \in BOOLEAN
BY DEF Request

LEMMA NoManifestIn == NoManifest \in Manifest
BY DEF NoManifest, Manifest

LEMMA IdleIn == Idle \in Local /\ Idle.pc = "idle" /\ ~Idle.sync /\ ~Idle.req.auto /\ Idle.req = NoRequest
<1>1. NoRequest \in Request BY DEF NoRequest, Request
<1>2. [r \in Checkouts |-> None] \in [Checkouts -> Names \cup {None}] OBVIOUS
<1> DEFINE M == NoManifest
           N == [r \in Checkouts |-> None]
<1> HIDE DEF M, N
<1>3. Idle = [pc |-> "idle", req |-> NoRequest, sync |-> FALSE, policies |-> {}, held |-> M,
              mem |-> M, removed |-> {}, names |-> N, stores |-> {}, clients |-> {}, change |-> None]
  BY DEF Idle, M, N
<1>4. M \in Manifest /\ N \in [Checkouts -> Names \cup {None}] BY <1>2, NoManifestIn DEF M, N
<1>5. Idle \in Local BY <1>1, <1>3, <1>4 DEF Local, Pcs
<1>6. ~NoRequest.auto BY DEF NoRequest
<1> QED BY <1>3, <1>5, <1>6

(* A process outside of the lock knows nothing of the manifest.            *)
LEMMA OutsideKnows ==
  ASSUME NEW l, NEW m, NEW k, Sound(l, m), l.pc \in Outside
  PROVE  Sound(l, k)
<1>1. l.pc = "idle" \/ l.pc = "lock" BY DEF Outside
<1> QED BY <1>1 DEF Sound, InMemory, Pends, Places, Registers, Asks, Running, Placing, Changing

LEMMA IdleSound ==
  ASSUME NEW m
  PROVE  Sound(Idle, m)
BY IdleIn DEF Sound, InMemory, Pends, Places, Registers, Asks, Running, Placing, Changing

(* A step of one process: it must hold the lock to change the manifest,    *)
(* and be given it to go past it.                                          *)
LEMMA Moves ==
  ASSUME Control, NEW p \in Procs, NEW l \in Local, loc' = [loc EXCEPT ![p] = l], manifest' \in Manifest,
         Sound(l, manifest'), manifest' = manifest \/ loc[p].pc \notin Outside,
         lock' \in Procs \cup {None}, l.pc \notin Outside => lock' = p, lock' = lock \/ lock \in {None, p}
  PROVE  Control'
<1>1. loc' \in [Procs -> Local] /\ loc'[p] = l /\ \A q \in Procs : q # p => loc'[q] = loc[q] BY DEF Control
<1>2. None \notin Procs BY RegistrationAssumption
<1>3. Mutex' BY <1>1, <1>2 DEF Control, Mutex
<1>4. ASSUME NEW q \in Procs PROVE Sound(loc'[q], manifest')
  <2>1. CASE q = p BY <2>1, <1>1
  <2>2. CASE q # p /\ loc[q].pc \in Outside BY <2>2, <1>1, OutsideKnows DEF Control
  <2>3. CASE q # p /\ loc[q].pc \notin Outside
    <3>1. manifest' = manifest BY <2>3, <1>2 DEF Control, Mutex
    <3> QED BY <2>3, <3>1, <1>1 DEF Control
  <2> QED BY <2>1, <2>2, <2>3
<1> QED BY <1>1, <1>3, <1>4 DEF Control

(* Steps of users leave the processes alone.                               *)
LEMMA ControlStays ==
  ASSUME Control, UNCHANGED <<loc, lock, manifest>>
  PROVE  Control'
BY DEF Control, Mutex

(* A process ends, or dies.                                                *)
LEMMA Ends ==
  ASSUME Control, NEW p \in Procs, loc' = [loc EXCEPT ![p] = Idle], Unlock(p), manifest' \in Manifest,
         manifest' = manifest \/ loc[p].pc \notin Outside
  PROVE  Control'
<1>1. lock' \in Procs \cup {None} BY DEF Unlock, Control
<1>2. lock' = lock \/ lock \in {None, p} BY DEF Unlock
<1>3. Idle.pc \in Outside /\ Idle \in Local BY IdleIn DEF Outside
<1> QED BY <1>1, <1>2, <1>3, IdleSound, Moves

(* executeUnlocked returns: a sync goes on with clients that are still     *)
(* consented to.                                                           *)
LEMMA Returns ==
  ASSUME Control, NEW p \in Procs, Return(p), manifest' \in Manifest, loc[p].pc \in {"load"} \cup Running,
         loc[p].sync => manifest'.policy = manifest.policy
  PROVE  Control'
<1>1. loc[p] \in Local /\ loc[p].pc \notin Outside BY DEF Control, Running, Placing, Changing, Outside
<1>2. CASE ~loc[p].sync
  <2>1. loc' = [loc EXCEPT ![p] = Idle] /\ Unlock(p) BY <1>2 DEF Return
  <2> QED BY <2>1, <1>1, Ends
<1>3. CASE loc[p].sync
  <2> DEFINE P == loc[p].policies \ {First(loc[p].policies)}
             R == loc[p].req.stores
             H == loc[p].held
             l == [Idle EXCEPT !.pc = "policy", !.sync = TRUE, !.held = H, !.req.stores = R, !.policies = P]
  <2>1. loc' = [loc EXCEPT ![p] = l] /\ lock' = lock BY <1>3 DEF Return
  <2>2. P \subseteq Clients /\ R \subseteq Checkouts /\ H \in Manifest BY <1>1, LocalFields, RequestFields
  <2>3. P \subseteq manifest.policy BY <1>3 DEF Control, Sound, Asks
  <2> HIDE DEF P, R, H
  <2>4. l \in Local /\ l.pc = "policy" /\ l.sync /\ ~l.req.auto /\ l.policies = P
    <3>1. Idle.req \in Request /\ ~Idle.req.auto BY IdleIn, LocalFields
    <3>2. [Idle.req EXCEPT !.stores = R] \in Request /\ ~[Idle.req EXCEPT !.stores = R].auto BY <2>2, <3>1 DEF Request
    <3> DEFINE Q == [Idle.req EXCEPT !.stores = R]
    <3>3. l = [Idle EXCEPT !.pc = "policy", !.sync = TRUE, !.held = H, !.req = Q, !.policies = P] OBVIOUS
    <3> HIDE DEF Q, l
    <3> QED BY <2>2, <3>2, <3>3, IdleIn DEF Local, Pcs, Q
  <2> HIDE DEF l
  <2>5. Sound(l, manifest')
    BY <2>3, <2>4, <1>3 DEF Sound, InMemory, Pends, Places, Registers, Asks, Running, Placing, Changing
  <2>6. lock = p BY <1>1 DEF Control, Mutex
  <2> QED BY <2>1, <2>4, <2>5, <2>6, <1>1, Moves DEF Control
<1> QED BY <1>1, <1>2, <1>3

(***************************************************************************)
(* The steps, one by one.                                                  *)
(***************************************************************************)

(* A step that changes no file and takes entries from users only.          *)
LEMMA FilesStay ==
  ASSUME Files, config' = config, users' \subseteq users
  PROVE  Files'
BY DEF Files

LEMMA InitHolds ==
  ASSUME Init
  PROVE  Inv
<1>1. loc \in [Procs -> Local] /\ \A p \in Procs : loc[p] = Idle BY IdleIn DEF Init
<1>2. \A p \in Procs : Sound(loc[p], manifest) BY <1>1, IdleSound
<1>3. Mutex BY <1>1, IdleIn DEF Mutex, Outside
<1>4. Control BY <1>1, <1>2, <1>3, NoManifestIn DEF Control, Init
<1>5. manifest.receipts = {} /\ manifest.pending = {} BY DEF Init, NoManifest
<1>6. Faithful(manifest) BY <1>5 DEF Faithful, Keyed, Claims
<1>7. UsersApart BY DEF Init, UsersApart
<1>8. OwnedOrAnnounced BY DEF Init, OwnedOrAnnounced, NoConfig
<1>9. Files
  <2>1. NoConfig \in Config BY DEF NoConfig, Config
  <2> QED BY <2>1 DEF Init, Files
<1>10. Counts BY RegistrationAssumption DEF Init, Counts
<1>11. PutThere BY <1>5 DEF PutThere
<1> QED BY <1>4, <1>6, <1>7, <1>8, <1>9, <1>10, <1>11 DEF Inv, Data

LEMMA ExecuteKeeps ==
  ASSUME Inv, NEW p \in Procs, Execute(p)
  PROVE  Inv'
<1>1. PICK req \in Requests : loc' = [loc EXCEPT ![p] = [Idle EXCEPT !.pc = "load", !.req = req]] BY DEF Execute
<1> DEFINE l == [Idle EXCEPT !.pc = "load", !.req = req]
<1>2. req \in Request BY RegistrationAssumption
<1>3. l \in Local /\ l.pc = "load" /\ ~l.sync /\ l.req = req BY <1>2, IdleIn DEF Local, Pcs
<1> HIDE DEF l
<1>4. Sound(l, manifest)
  BY <1>3 DEF Sound, InMemory, Pends, Places, Registers, Asks, Running, Placing, Changing
<1>5. manifest' = manifest /\ lock = None /\ lock' = p /\ config' = config /\ users' = users BY DEF Execute
<1>6. Control' BY <1>1, <1>3, <1>4, <1>5, Moves DEF Inv, Control, l
<1>7. Data' BY <1>5, DataStays DEF Inv
<1>8. Counts' BY RegistrationAssumption DEF Inv, Counts, Execute
<1> QED BY <1>5, <1>6, <1>7, <1>8, FilesStay DEF Inv

LEMMA SyncKeeps ==
  ASSUME Inv, NEW p \in Procs, Sync(p)
  PROVE  Inv'
<1>1. PICK r \in Synced : loc' = [loc EXCEPT ![p] = [Idle EXCEPT !.pc = "lock", !.sync = TRUE, !.req.stores = {r},
                                                             !.policies = manifest.policy]]
  BY DEF Sync
<1> DEFINE P == manifest.policy
           Q == [Idle.req EXCEPT !.stores = {r}]
           l == [Idle EXCEPT !.pc = "lock", !.sync = TRUE, !.req.stores = {r}, !.policies = P]
<1>2. P \subseteq Clients /\ r \in Checkouts BY RegistrationAssumption, ManifestFields DEF Inv, Control
<1>3. Q \in Request /\ ~Q.auto
  <2>1. Idle.req \in Request /\ ~Idle.req.auto BY IdleIn, LocalFields
  <2> QED BY <1>2, <2>1 DEF Request
<1>4. l = [Idle EXCEPT !.pc = "lock", !.sync = TRUE, !.req = Q, !.policies = P] OBVIOUS
<1>5. loc' = [loc EXCEPT ![p] = l] BY <1>1
<1> HIDE DEF P, Q, l
<1>6. l \in Local /\ l.pc = "lock" /\ l.sync /\ ~l.req.auto BY <1>2, <1>3, <1>4, IdleIn DEF Local, Pcs
<1>7. Sound(l, manifest)
  BY <1>6 DEF Sound, InMemory, Pends, Places, Registers, Asks, Running, Placing, Changing
<1>8. manifest' = manifest /\ lock' = lock /\ config' = config /\ users' = users /\ UNCHANGED counters BY DEF Sync
<1>9. Control' BY <1>5, <1>6, <1>7, <1>8, Moves DEF Inv, Control, Outside
<1>10. Data' BY <1>8, DataStays DEF Inv
<1>11. Counts' BY <1>8 DEF Inv, Counts, counters
<1> QED BY <1>8, <1>9, <1>10, <1>11, FilesStay DEF Inv

LEMMA lockManifestKeeps ==
  ASSUME Inv, NEW p \in Procs, lockManifest(p)
  PROVE  Inv'
<1> DEFINE l == [loc[p] EXCEPT !.pc = "policies"]
<1>1. loc[p] \in Local /\ loc[p].pc = "lock" /\ loc[p].sync /\ ~loc[p].req.auto
  BY DEF lockManifest, At, Inv, Control, Sound, Asks
<1>2. loc' = [loc EXCEPT ![p] = l] BY DEF lockManifest
<1>3. l \in Local /\ l.pc = "policies" /\ l.sync /\ l.req = loc[p].req BY <1>1 DEF Local, Pcs
<1> HIDE DEF l
<1>4. Sound(l, manifest)
  BY <1>1, <1>3 DEF Sound, InMemory, Pends, Places, Registers, Asks, Running, Placing, Changing
<1>5. manifest' = manifest /\ lock = None /\ lock' = p /\ config' = config /\ users' = users /\ UNCHANGED counters
  BY DEF lockManifest
<1>6. Control' BY <1>2, <1>3, <1>4, <1>5, Moves DEF Inv, Control
<1>7. Data' BY <1>5, DataStays DEF Inv
<1>8. Counts' BY <1>5 DEF Inv, Counts, counters
<1> QED BY <1>5, <1>6, <1>7, <1>8, FilesStay DEF Inv

LEMMA enabledPoliciesKeeps ==
  ASSUME Inv, NEW p \in Procs, enabledPolicies(p)
  PROVE  Inv'
<1> DEFINE l == [loc[p] EXCEPT !.pc = "policy", !.policies = manifest.policy, !.held = manifest]
<1>1. loc[p] \in Local /\ loc[p].pc = "policies" /\ loc[p].sync /\ ~loc[p].req.auto /\ manifest \in Manifest
  BY DEF enabledPolicies, At, Inv, Control, Sound, Asks
<1>2. loc' = [loc EXCEPT ![p] = l] BY DEF enabledPolicies
<1>3. l \in Local /\ l.pc = "policy" /\ l.sync /\ l.req = loc[p].req /\ l.policies = manifest.policy
  BY <1>1, ManifestFields DEF Local, Pcs
<1> HIDE DEF l
<1>4. Sound(l, manifest)
  BY <1>1, <1>3 DEF Sound, InMemory, Pends, Places, Registers, Asks, Running, Placing, Changing
<1>5. manifest' = manifest /\ lock' = lock /\ config' = config /\ users' = users /\ UNCHANGED counters
  BY DEF enabledPolicies
<1>6. loc[p].pc \notin Outside BY <1>1 DEF Outside
<1>7. lock = p BY <1>6 DEF Inv, Control, Mutex
<1>8. Control' BY <1>2, <1>3, <1>4, <1>5, <1>7, Moves DEF Inv, Control
<1>9. Data' BY <1>5, DataStays DEF Inv
<1>10. Counts' BY <1>5 DEF Inv, Counts, counters
<1> QED BY <1>5, <1>8, <1>9, <1>10, FilesStay DEF Inv

LEMMA PolicyKeeps ==
  ASSUME Inv, NEW p \in Procs, Policy(p)
  PROVE  Inv'
<1> DEFINE c == First(loc[p].policies)
           m == Recovered(manifest, {c})
<1>1. loc[p] \in Local /\ loc[p].pc = "policy" /\ loc[p].sync /\ ~loc[p].req.auto /\ manifest \in Manifest
      /\ loc[p].policies \subseteq manifest.policy /\ loc[p].policies # {}
  BY DEF Policy, At, Inv, Control, Sound, Asks
<1>2. c \in loc[p].policies /\ c \in Clients BY <1>1, FirstIn, LocalFields
<1>3. manifest' = m /\ m \in Manifest /\ m.policy = manifest.policy BY <1>1, RecoveredFields DEF Policy, Save
<1>4. lock' = lock /\ config' = config /\ users' = users \ Settled(manifest, {c}) /\ UNCHANGED counters BY DEF Policy
<1>5. loc[p].pc \notin Outside /\ lock = p BY <1>1 DEF Outside, Inv, Control, Mutex
<1>6. Control'
  <2>1. CASE Conflicts(manifest, {c}) # {}
    <3> DEFINE l == [loc[p] EXCEPT !.policies = @ \ {c}, !.held = m]
    <3>1. loc' = [loc EXCEPT ![p] = l] BY <2>1 DEF Policy
    <3> HIDE DEF m, c
    <3>2. l \in Local /\ l.pc = "policy" /\ l.sync /\ l.req = loc[p].req /\ l.policies = loc[p].policies \ {c}
      BY <1>1, <1>3 DEF Local, Pcs
    <3> HIDE DEF l
    <3>3. Sound(l, m)
      BY <1>1, <1>3, <3>2 DEF Sound, InMemory, Pends, Places, Registers, Asks, Running, Placing, Changing
    <3> QED BY <1>3, <1>4, <1>5, <3>1, <3>2, <3>3, Moves DEF Inv, Control
  <2>2. CASE Conflicts(manifest, {c}) = {}
    <3> DEFINE Q == [loc[p].req EXCEPT !.kind = "register", !.clients = {c}]
               k == [loc[p] EXCEPT !.pc = "load", !.held = m, !.req.kind = "register", !.req.clients = {c}]
               l == [loc[p] EXCEPT !.pc = "load", !.held = m, !.req = Q]
    <3>5. loc' = [loc EXCEPT ![p] = k] BY <2>2 DEF Policy
    <3>6. k = l BY <1>1 DEF Local
    <3>1. loc' = [loc EXCEPT ![p] = l] BY <3>5, <3>6
    <3> HIDE DEF m, c
    <3>2. Q \in Request /\ ~Q.auto /\ Q.kind = "register" /\ Q.clients = {c}
      <4>1. loc[p].req \in Request BY <1>1, LocalFields
      <4> QED BY <1>1, <1>2, <4>1 DEF Request
    <3> HIDE DEF Q
    <3>3. l \in Local /\ l.pc = "load" /\ l.sync /\ l.req = Q /\ l.policies = loc[p].policies
      BY <1>1, <1>3, <3>2 DEF Local, Pcs
    <3> HIDE DEF l
    <3>4. Sound(l, m)
      BY <1>1, <1>2, <1>3, <3>2, <3>3 DEF Sound, InMemory, Pends, Places, Registers, Asks, Running, Placing, Changing
    <3> QED BY <1>3, <1>4, <1>5, <3>1, <3>3, <3>4, Moves DEF Inv, Control
  <2> QED BY <2>1, <2>2
<1>7. Data' BY <1>1, <1>3, <1>4, RecoveryKeeps DEF Inv, Files
<1>8. Counts' BY <1>4 DEF Inv, Counts, counters
<1> QED BY <1>4, <1>6, <1>7, <1>8, FilesStay DEF Inv

LEMMA ReconciledKeeps ==
  ASSUME Inv, NEW p \in Procs, Reconciled(p)
  PROVE  Inv'
<1>1. loc' = [loc EXCEPT ![p] = Idle] /\ Unlock(p) /\ UNCHANGED <<config, manifest, users, counters>> BY DEF Reconciled
<1>2. Control' BY <1>1, Ends DEF Inv, Control
<1>3. Data' BY <1>1, DataStays DEF Inv
<1>4. Counts' BY <1>1 DEF Inv, Counts, counters
<1> QED BY <1>1, <1>2, <1>3, <1>4, FilesStay DEF Inv

LEMMA LoadKeeps ==
  ASSUME Inv, NEW p \in Procs, Load(p)
  PROVE  Inv'
<1> DEFINE cs == loc[p].req.clients
           m == Recovered(manifest, cs)
<1>1. loc[p] \in Local /\ loc[p].pc = "load" /\ manifest \in Manifest /\ Sound(loc[p], manifest)
  BY DEF Load, At, Inv, Control
<1>2. config' = config /\ UNCHANGED counters BY DEF Load
<1>3. Counts' BY <1>2 DEF Inv, Counts, counters
<1>4. CASE Conflicts(manifest, cs) # {}
  <2>1. Return(p) /\ UNCHANGED <<manifest, users>> BY <1>4 DEF Load
  <2>2. Control' BY <1>1, <2>1, Returns DEF Inv
  <2>3. Data' BY <1>2, <2>1, DataStays DEF Inv
  <2> QED BY <1>2, <1>3, <2>1, <2>2, <2>3, FilesStay DEF Inv
<1>5. CASE Conflicts(manifest, cs) = {}
  <2> DEFINE s == IF loc[p].req.kind = "disable" THEN "disable" ELSE "allocate"
             X == {ch.receipt : ch \in {d \in PendingOf(manifest, cs) : d.remove /\ config[d.receipt.client] = d.target}}
             l == [loc[p] EXCEPT !.pc = s, !.mem = m, !.removed = X]
  <2>1. manifest' = m /\ users' = users \ Settled(manifest, cs) /\ lock' = lock BY <1>5 DEF Load, Save
  <2>2. m \in Manifest /\ m.policy = manifest.policy /\ m.pending = manifest.pending \ PendingOf(manifest, cs)
    BY <1>1, <1>5, RecoveredFields
  <2>3. loc' = [loc EXCEPT ![p] = l] BY <1>5 DEF Load
  <2>4. X \subseteq Receipt BY <1>1, ManifestFields, ChangeFields DEF PendingOf
  <2>5. s \in {"disable", "allocate"} /\ (s = "disable" => loc[p].req.kind = "disable") OBVIOUS
  <2> HIDE DEF m, X, s
  <2>6. /\ l \in Local /\ l.pc = s /\ l.mem = m /\ l.req = loc[p].req /\ l.sync = loc[p].sync
        /\ l.policies = loc[p].policies
    BY <1>1, <2>2, <2>4, <2>5 DEF Local, Pcs
  <2> HIDE DEF l
  <2>7. PendingOf(m, cs) = {} BY <2>2 DEF PendingOf
  <2>8. Sound(l, m)
    BY <1>1, <2>2, <2>5, <2>6, <2>7 DEF Sound, InMemory, Pends, Places, Registers, Asks, Running, Placing, Changing
  <2>9. loc[p].pc \notin Outside /\ lock = p BY <1>1 DEF Outside, Inv, Control, Mutex
  <2>10. Control' BY <2>1, <2>2, <2>3, <2>6, <2>8, <2>9, Moves DEF Inv, Control
  <2>11. Data' BY <1>1, <1>2, <2>1, RecoveryKeeps DEF Inv, Files, m
  <2> QED BY <1>2, <1>3, <2>1, <2>10, <2>11, FilesStay DEF Inv
<1> QED BY <1>4, <1>5

LEMMA DisableKeeps ==
  ASSUME Inv, NEW p \in Procs, Disable(p)
  PROVE  Inv'
<1> DEFINE P == manifest.policy \ loc[p].req.clients
           m == [manifest EXCEPT !.policy = P]
<1>1. loc[p].pc = "disable" /\ loc[p].mem = manifest /\ manifest \in Manifest /\ ~loc[p].sync
  BY DEF Disable, At, Inv, Control, Sound, InMemory, Asks, Running
<1>2. P \in SUBSET Clients BY <1>1, ManifestFields
<1>3. manifest' = m BY <1>1 DEF Disable, Save
<1> HIDE DEF P
<1>4. m \in Manifest /\ m.receipts = manifest.receipts /\ m.pending = manifest.pending BY <1>1, <1>2, WithPolicy
<1> HIDE DEF m
<1>5. Return(p) /\ UNCHANGED <<config, users, counters>> BY DEF Disable
<1>6. Control' BY <1>1, <1>3, <1>4, <1>5, Returns DEF Inv, Running
<1>7. Data' BY <1>3, <1>4, <1>5, DataStays DEF Inv
<1>8. Counts' BY <1>5 DEF Inv, Counts, counters
<1> QED BY <1>5, <1>6, <1>7, <1>8, FilesStay DEF Inv

(* A name that is allocated is one, and the one that is registered.        *)
LEMMA AllocatedNames ==
  ASSUME NEW m \in Manifest, NEW req, NEW names, Allocated(names, m, req), NEW r \in req.stores, r \in Checkouts,
         req.name \in Names \cup {None}
  PROVE  names[r] \in Names /\ m.reg[r] \in {None, names[r]}
<1>1. m.reg[r] \in Names \cup {None} BY ManifestFields
<1>2. CASE m.reg[r] # None
  <2>1. names[r] = m.reg[r] BY <1>2 DEF Allocated
  <2> QED BY <1>1, <1>2, <2>1
<1>3. CASE m.reg[r] = None /\ req.name # None
  <2>1. names[r] = req.name BY <1>3 DEF Allocated
  <2> QED BY <1>3, <2>1
<1>4. CASE m.reg[r] = None /\ req.name = None
  <2>1. \E i \in 1..Len(DefaultNames[r]) : names[r] = DefaultNames[r][i] BY <1>4 DEF Allocated
  <2>2. DefaultNames[r] \in Seq(Names) BY RegistrationAssumption
  <2> QED BY <1>4, <2>1, <2>2
<1> QED BY <1>2, <1>3, <1>4

LEMMA AllocateNamesKeeps ==
  ASSUME Inv, NEW p \in Procs, AllocateNames(p)
  PROVE  Inv'
<1>1. loc[p] \in Local /\ loc[p].pc = "allocate" /\ loc[p].mem = manifest /\ manifest \in Manifest
      /\ Sound(loc[p], manifest)
  BY DEF AllocateNames, At, Inv, Control, Sound, InMemory, Running
<1>2. UNCHANGED <<config, manifest, users, counters>> BY DEF AllocateNames
<1>3. Counts' BY <1>2 DEF Inv, Counts, counters
<1>4. Data' BY <1>2, DataStays DEF Inv
<1>5. CASE Return(p)
  <2>1. Control' BY <1>1, <1>2, <1>5, Returns DEF Inv, Running
  <2> QED BY <1>2, <1>3, <1>4, <2>1, FilesStay DEF Inv
<1>6. CASE ~Return(p)
  <2>1. PICK names \in [Checkouts -> Names \cup {None}] :
          /\ Allocated(names, loc[p].mem, loc[p].req)
          /\ loc' = [loc EXCEPT ![p].pc = "store", ![p].names = names, ![p].stores = loc[p].req.stores]
          /\ UNCHANGED lock
    BY <1>6 DEF AllocateNames
  <2> DEFINE S == loc[p].req.stores
             l == [loc[p] EXCEPT !.pc = "store", !.names = names, !.stores = S]
  <2>2. loc' = [loc EXCEPT ![p] = l] BY <2>1
  <2>3. loc[p].req \in Request /\ S \subseteq Checkouts /\ loc[p].req.name \in Names \cup {None}
    BY <1>1, LocalFields, RequestFields
  <2>4. \A r \in S : names[r] \in Names /\ manifest.reg[r] \in {None, names[r]} BY <1>1, <2>1, <2>3, AllocatedNames
  <2>5. loc[p].pc \notin Outside /\ lock = p BY <1>1 DEF Outside, Inv, Control, Mutex
  <2> HIDE DEF S
  <2>7. /\ l \in Local /\ l.pc = "store" /\ l.mem = manifest /\ l.req = loc[p].req /\ l.sync = loc[p].sync
        /\ l.policies = loc[p].policies /\ l.stores = S /\ l.names = names
    BY <1>1, <2>3 DEF Local, Pcs
  <2> HIDE DEF l
  <2>8. Places(l, manifest) BY <2>4, <2>7 DEF Places
  <2>9. Sound(l, manifest)
    BY <1>1, <2>7, <2>8 DEF Sound, InMemory, Pends, Registers, Asks, Running, Placing, Changing
  <2>10. Control' BY <1>2, <2>1, <2>2, <2>5, <2>7, <2>9, Moves DEF Inv, Control
  <2> QED BY <1>2, <1>3, <1>4, <2>10, FilesStay DEF Inv
<1> QED BY <1>5, <1>6

LEMMA preflightOwnershipKeeps ==
  ASSUME Inv, NEW p \in Procs, preflightOwnership(p)
  PROVE  Inv'
<1> DEFINE r == Store(p)
           n == loc[p].names[r]
           cs == loc[p].req.clients
           m == [manifest EXCEPT !.reg[r] = n]
<1>1. loc[p] \in Local /\ loc[p].pc = "store" /\ loc[p].mem = manifest /\ manifest \in Manifest /\ loc[p].stores # {}
      /\ Sound(loc[p], manifest)
  BY DEF preflightOwnership, At, Inv, Control, Sound, InMemory, Running, Placing
<1>2. r \in loc[p].stores /\ r \in Checkouts BY <1>1, FirstIn, LocalFields DEF Store
<1>3. n \in Names /\ \A s \in loc[p].stores : loc[p].names[s] \in Names /\ manifest.reg[s] \in {None, loc[p].names[s]}
  BY <1>1, <1>2 DEF Sound, Places, Placing
<1>4. UNCHANGED <<config, users, counters>> BY DEF preflightOwnership
<1>5. Counts' BY <1>4 DEF Inv, Counts, counters
<1>6. loc[p].pc \notin Outside /\ lock = p BY <1>1 DEF Outside, Inv, Control, Mutex
<1>7. cs \subseteq Clients BY <1>1, LocalFields, RequestFields
<1>8. CASE loc[p].req.kind = "unregister"
  <2> DEFINE l == [loc[p] EXCEPT !.pc = "remove", !.clients = cs]
  <2>1. loc' = [loc EXCEPT ![p] = l] /\ UNCHANGED <<manifest, lock>> BY <1>8 DEF preflightOwnership
  <2>2. /\ l \in Local /\ l.pc = "remove" /\ l.mem = manifest /\ l.req = loc[p].req /\ l.sync = loc[p].sync
        /\ l.policies = loc[p].policies /\ l.stores = loc[p].stores /\ l.names = loc[p].names /\ l.clients = cs
    BY <1>1, <1>7 DEF Local, Pcs
  <2> HIDE DEF l
  <2>3. Sound(l, manifest)
    BY <1>1, <1>3, <1>8, <2>2 DEF Sound, InMemory, Pends, Places, Registers, Asks, Running, Placing, Changing
  <2>4. Control' BY <1>6, <2>1, <2>2, <2>3, Moves DEF Inv, Control
  <2>5. Data' BY <1>4, <2>1, DataStays DEF Inv
  <2> QED BY <1>4, <1>5, <2>4, <2>5, FilesStay DEF Inv
<1>9. CASE /\ loc[p].req.kind # "unregister"
           /\ ~\A c \in cs : AuthorizeEntry(loc[p].mem, r, c, n, Want(p), loc[p].req.adopt)
  <2>1. Return(p) /\ UNCHANGED manifest BY <1>9 DEF preflightOwnership
  <2>2. Control' BY <1>1, <2>1, Returns DEF Inv, Running, Placing
  <2>3. Data' BY <1>4, <2>1, DataStays DEF Inv
  <2> QED BY <1>4, <1>5, <2>2, <2>3, FilesStay DEF Inv
<1>10. CASE /\ loc[p].req.kind # "unregister"
            /\ \A c \in cs : AuthorizeEntry(loc[p].mem, r, c, n, Want(p), loc[p].req.adopt)
  <2> DEFINE l == [loc[p] EXCEPT !.pc = "apply", !.clients = cs, !.mem = m]
  <2>1. loc' = [loc EXCEPT ![p] = l] /\ manifest' = m /\ lock' = lock BY <1>1, <1>10 DEF preflightOwnership, Save
  <2> HIDE DEF n, r
  <2>2. m \in Manifest /\ m.reg = [manifest.reg EXCEPT ![r] = n] /\ m.receipts = manifest.receipts
        /\ m.pending = manifest.pending /\ m.policy = manifest.policy
    BY <1>1, <1>2, <1>3, WithReg
  <2> HIDE DEF m
  <2>3. /\ l \in Local /\ l.pc = "apply" /\ l.mem = m /\ l.req = loc[p].req /\ l.sync = loc[p].sync
        /\ l.policies = loc[p].policies /\ l.stores = loc[p].stores /\ l.names = loc[p].names /\ l.clients = cs
    BY <1>1, <1>7, <2>2 DEF Local, Pcs
  <2> HIDE DEF l
  <2>4. manifest.reg \in [Checkouts -> Names \cup {None}] /\ loc[p].stores \subseteq Checkouts
    BY <1>1, ManifestFields, LocalFields
  <2>5. Places(l, m)
    <3>1. \A s \in l.stores : l.names[s] \in Names /\ m.reg[s] \in {None, l.names[s]}
      BY <1>2, <1>3, <2>2, <2>3, <2>4 DEF n
    <3> QED BY <1>1, <3>1, <2>3 DEF Places
  <2>6. Registers(l, m)
    <3>1. m.reg[r] = l.names[r] BY <1>2, <2>2, <2>3, <2>4 DEF n
    <3> QED BY <3>1, <2>3 DEF Registers, Changing, r, Store
  <2>7. PendingOf(m, cs) = {} /\ PendingOf(m, l.req.clients) = {}
    BY <1>1, <2>2, <2>3 DEF PendingOf, Sound, Pends, Running, Placing, Changing
  <2>8. Sound(l, m)
    BY <1>1, <2>2, <2>3, <2>5, <2>6, <2>7 DEF Sound, InMemory, Pends, Asks, Running, Placing, Changing
  <2>9. Control' BY <1>6, <2>1, <2>2, <2>3, <2>8, Moves DEF Inv, Control
  <2>10. Data' BY <1>4, <2>1, <2>2, DataStays DEF Inv
  <2> QED BY <1>4, <1>5, <2>9, <2>10, FilesStay DEF Inv
<1> QED BY <1>8, <1>9, <1>10

(* A planned change is announced by the process that is about to make it.  *)
LEMMA AnnounceKeeps ==
  ASSUME Inv, NEW p \in Procs, NEW ch \in Change, Announce(p, ch), loc[p].pc = IF ch.remove THEN "remove" ELSE "apply",
         ch.receipt.client \in loc[p].clients, Formed(ch.receipt), Planned(ch, manifest), config[ch.receipt.client] = ch.before,
         UNCHANGED <<config, users, counters>>
  PROVE  Inv'
<1> DEFINE m == UpsertPending(manifest, ch)
           l == [loc[p] EXCEPT !.pc = "write", !.mem = m, !.change = ch]
<1>1. loc[p] \in Local /\ loc[p].pc \in {"apply", "remove"} /\ manifest \in Manifest /\ Sound(loc[p], manifest)
  BY DEF Inv, Control
<1>2. loc[p].mem = manifest BY <1>1 DEF Sound, InMemory, Running, Placing
<1>3. manifest' = m /\ loc' = [loc EXCEPT ![p] = l] /\ lock' = lock BY <1>2 DEF Announce, Save
<1>4. loc[p].clients \subseteq loc[p].req.clients /\ PendingOf(manifest, loc[p].req.clients) = {}
  BY <1>1 DEF Sound, Places, Pends, Placing, Running, Changing
<1>5. PendingOf(manifest, {ch.receipt.client}) = {} BY <1>4 DEF PendingOf
<1>6. m \in Manifest /\ m.reg = manifest.reg /\ m.policy = manifest.policy /\ m.pending = manifest.pending \cup {ch}
  BY <1>1, <1>5, AnnouncedFields
<1> HIDE DEF m
<1>7. /\ l \in Local /\ l.pc = "write" /\ l.mem = m /\ l.req = loc[p].req /\ l.sync = loc[p].sync /\ l.change = ch
      /\ l.policies = loc[p].policies /\ l.stores = loc[p].stores /\ l.names = loc[p].names /\ l.clients = loc[p].clients
  BY <1>1, <1>6 DEF Local, Pcs
<1> HIDE DEF l
<1>8. PendingOf(m, l.req.clients) = {ch} BY <1>4, <1>6, <1>7 DEF PendingOf
<1>9. Places(l, m) BY <1>1, <1>6, <1>7 DEF Sound, Places, Placing, Changing
<1>10. Registers(l, m) BY <1>1, <1>6, <1>7 DEF Sound, Registers, Changing
<1>11. Asks(l, m) BY <1>1, <1>6, <1>7 DEF Sound, Asks, Running, Placing, Changing
<1>12. Sound(l, m) BY <1>7, <1>8, <1>9, <1>10, <1>11 DEF Sound, InMemory, Pends, Running, Placing, Changing
<1>13. loc[p].pc \notin Outside /\ lock = p BY <1>1 DEF Outside, Inv, Control, Mutex
<1>14. Control' BY <1>3, <1>6, <1>7, <1>12, <1>13, Moves DEF Inv, Control
<1>15. Data' BY <1>1, <1>3, <1>5, AnnouncementKeeps DEF Inv, m
<1>16. Counts' BY DEF Inv, Counts, counters
<1> QED BY <1>14, <1>15, <1>16, FilesStay DEF Inv

(* What applyOne plans: an entry that is owned, adopted or new.            *)
LEMMA PlanOfAnnounced ==
  ASSUME manifest \in Manifest, Files, NEW r \in Checkouts, NEW c \in Clients, NEW n \in Names, NEW want \in Managed,
         want.checkout = r, NEW adopt, AuthorizeEntry(manifest, r, c, n, want, adopt)
  PROVE  LET ch == Announced(r, c, n, want) IN
         /\ ch \in Change /\ ~ch.remove /\ ch.receipt.client = c /\ Formed(ch.receipt) /\ Planned(ch, manifest)
         /\ ch.receipt.checkout = r /\ ch.receipt.name = n /\ config[c] = ch.before
<1> DEFINE now == config[c].entries[n]
           e == Merged(now, want)
           w == With(c, n, e)
           x == [checkout |-> r, client |-> c, name |-> n, managed |-> want, entry |-> e]
           ch == [receipt |-> x, before |-> config[c], target |-> w, remove |-> FALSE]
<1>1. config[c] \in Config BY DEF Files
<1>2. now \in Entry \cup {None} BY <1>1 DEF Config
<1>3. e \in Entry /\ e.managed = want /\ (now # None => e.extra = now.extra)
  <2>1. now # None => now.extra \in BOOLEAN BY <1>2 DEF Entry
  <2>2. e = [managed |-> want, extra |-> IF now = None THEN FALSE ELSE now.extra] BY DEF Merged
  <2> HIDE DEF e, now
  <2> QED BY <2>1, <2>2 DEF Entry
<1> HIDE DEF e
<1>4. w \in Config BY <1>1, <1>3 DEF With, Config
<1>5. w = [config[c] EXCEPT !.entries[n] = e] BY DEF With
<1>6. Announced(r, c, n, want) = ch BY DEF Announced, e
<1>7. x \in Receipt BY <1>3 DEF Receipt
<1> HIDE DEF w
<1>8. ch \in Change BY <1>1, <1>4, <1>7 DEF Change
<1>9. Formed(x) BY <1>3 DEF Formed
<1>10. now # None => w = config[c] \/ \E y \in manifest.receipts : SameKey(x, y) /\ now.managed = y.managed
  <2> SUFFICES ASSUME now # None
               PROVE  w = config[c] \/ \E y \in manifest.receipts : SameKey(x, y) /\ now.managed = y.managed
    OBVIOUS
  <2> DEFINE owned == ReceiptsFor(manifest, r, c, n)
  <2>1. CASE owned # {} /\ \A y \in owned : now.managed = y.managed BY <2>1 DEF ReceiptsFor, SameKey
  <2>2. CASE owned = {} /\ now.managed = want
    <3>1. now \in Entry BY <1>2
    <3>2. now = e BY <1>3, <2>2, <3>1 DEF Entry
    <3> HIDE DEF now
    <3>3. config[c].entries[n] = e BY <3>2 DEF now
    <3> QED BY <1>1, <1>5, <3>3 DEF Config
  <2> QED BY <2>1, <2>2 DEF AuthorizeEntry
<1>11. Planned(ch, manifest)
  <2> HIDE DEF x
  <2>1. x.entry = e /\ x.name = n BY DEF x
  <2>2. ch.receipt = x /\ ch.before = config[c] /\ ch.target = w /\ ch.remove = FALSE OBVIOUS
  <2>3. ch.before.entries[ch.receipt.name] = now BY <2>1, <2>2
  <2> HIDE DEF ch, now
  <2> QED BY <1>3, <1>5, <1>10, <2>1, <2>2, <2>3 DEF Planned
<1> QED BY <1>6, <1>8, <1>9, <1>11

LEMMA applyOneKeeps ==
  ASSUME Inv, NEW p \in Procs, applyOne(p)
  PROVE  Inv'
<1> DEFINE r == Store(p)
           c == Client(p)
           n == loc[p].names[r]
           ch == Announced(r, c, n, Want(p))
<1>1. loc[p] \in Local /\ loc[p].pc = "apply" /\ manifest \in Manifest /\ loc[p].clients # {} /\ Sound(loc[p], manifest)
  BY DEF applyOne, At, Inv, Control
<1>2. loc[p].mem = manifest /\ loc[p].stores # {} BY <1>1 DEF Sound, InMemory, Places, Running, Placing
<1>3. r \in loc[p].stores /\ r \in Checkouts /\ c \in loc[p].clients /\ c \in Clients
  BY <1>1, <1>2, FirstIn, LocalFields DEF Store, Client
<1>4. n \in Names BY <1>1, <1>3 DEF Sound, Places, Placing
<1>5. Want(p) \in Managed /\ Want(p).checkout = r BY <1>3, RegistrationAssumption DEF Want, Managed
<1>6. UNCHANGED <<config, users, counters>> BY DEF applyOne
<1>7. CASE AuthorizeEntry(manifest, r, c, n, Want(p), loc[p].req.adopt)
  <2>1. Announce(p, ch) BY <1>2, <1>7 DEF applyOne
  <2>2. /\ ch \in Change /\ ~ch.remove /\ ch.receipt.client = c /\ Formed(ch.receipt) /\ Planned(ch, manifest)
        /\ config[c] = ch.before
    BY <1>1, <1>3, <1>4, <1>5, <1>7, PlanOfAnnounced DEF Inv
  <2> HIDE DEF ch
  <2> QED BY <1>1, <1>3, <1>6, <2>1, <2>2, AnnounceKeeps
<1>8. CASE ~AuthorizeEntry(manifest, r, c, n, Want(p), loc[p].req.adopt)
  <2>1. Return(p) /\ UNCHANGED manifest BY <1>2, <1>8 DEF applyOne
  <2>2. Control' BY <1>1, <2>1, Returns DEF Inv, Running, Placing
  <2>3. Data' BY <1>6, <2>1, DataStays DEF Inv
  <2>4. Counts' BY <1>6 DEF Inv, Counts, counters
  <2> QED BY <1>6, <2>2, <2>3, <2>4, FilesStay DEF Inv
<1> QED BY <1>7, <1>8

(* The removal that unregister plans: exactly the entry of the receipt.    *)
LEMMA PlanOfRemoval ==
  ASSUME manifest \in Manifest, Files, Faithful(manifest), NEW r, NEW c \in Clients, NEW n \in Names,
         NEW x \in ReceiptsFor(manifest, r, c, n), config[c].entries[n] = x.entry
  PROVE  LET ch == [receipt |-> CHOOSE y \in ReceiptsFor(manifest, r, c, n) : TRUE, before |-> config[c],
                    target |-> With(c, n, None), remove |-> TRUE] IN
         /\ ch \in Change /\ ch.remove /\ ch.receipt.client = c /\ Formed(ch.receipt) /\ Planned(ch, manifest)
         /\ ch.receipt \in manifest.receipts /\ config[c] = ch.before
<1> DEFINE z == CHOOSE y \in ReceiptsFor(manifest, r, c, n) : TRUE
           w == With(c, n, None)
           ch == [receipt |-> z, before |-> config[c], target |-> w, remove |-> TRUE]
<1>1. z \in ReceiptsFor(manifest, r, c, n) BY Zenon
<1>2. z = x BY <1>1 DEF ReceiptsFor, Faithful, Keyed
<1> HIDE DEF z
<1>3. x \in manifest.receipts /\ x.client = c /\ x.name = n BY DEF ReceiptsFor
<1>4. x \in Receipt BY <1>3, ManifestFields
<1>5. config[c] \in Config BY DEF Files
<1>6. w \in Config /\ w = [config[c] EXCEPT !.entries[n] = None] BY <1>5 DEF With, Config
<1> HIDE DEF w
<1>7. ch \in Change BY <1>2, <1>4, <1>5, <1>6 DEF Change
<1>8. Formed(x) BY <1>3 DEF Faithful, Claims
<1>9. ch.receipt = x /\ ch.before = config[c] /\ ch.target = w /\ ch.remove = TRUE BY <1>2
<1> HIDE DEF ch
<1>10. Planned(ch, manifest) BY <1>3, <1>6, <1>9 DEF Planned
<1> QED BY <1>3, <1>7, <1>8, <1>9, <1>10 DEF ch, z, w

LEMMA unregisterKeeps ==
  ASSUME Inv, NEW p \in Procs, unregister(p)
  PROVE  Inv'
<1> DEFINE r == Store(p)
           c == Client(p)
           n == loc[p].names[r]
           owned == ReceiptsFor(loc[p].mem, r, c, n)
           ch == [receipt |-> CHOOSE y \in owned : TRUE, before |-> config[c],
                  target |-> With(c, n, None), remove |-> TRUE]
<1>1. loc[p] \in Local /\ loc[p].pc = "remove" /\ manifest \in Manifest /\ loc[p].clients # {} /\ Sound(loc[p], manifest)
  BY DEF unregister, At, Inv, Control
<1>2. loc[p].mem = manifest /\ loc[p].stores # {} BY <1>1 DEF Sound, InMemory, Places, Running, Placing
<1>3. r \in loc[p].stores /\ r \in Checkouts /\ c \in loc[p].clients /\ c \in Clients
  BY <1>1, <1>2, FirstIn, LocalFields DEF Store, Client
<1>4. n \in Names BY <1>1, <1>3 DEF Sound, Places, Placing
<1>5. UNCHANGED <<config, users, counters>> BY DEF unregister
<1>6. Counts' BY <1>5 DEF Inv, Counts, counters
<1>7. loc[p].pc \notin Outside /\ lock = p BY <1>1 DEF Outside, Inv, Control, Mutex
<1> DEFINE done == \E x \in loc[p].removed : x.checkout = r /\ x.client = c /\ x.name = n
<1>8. CASE done
  <2> DEFINE C == loc[p].clients \ {c}
             l == [loc[p] EXCEPT !.clients = C]
  <2>1. loc' = [loc EXCEPT ![p] = l] /\ UNCHANGED <<manifest, lock>> BY <1>8 DEF unregister
  <2>2. C \subseteq loc[p].clients /\ C \subseteq Clients BY <1>1, LocalFields
  <2> HIDE DEF C
  <2>3. /\ l \in Local /\ l.pc = "remove" /\ l.mem = manifest /\ l.req = loc[p].req /\ l.sync = loc[p].sync
        /\ l.policies = loc[p].policies /\ l.stores = loc[p].stores /\ l.names = loc[p].names /\ l.clients = C
    BY <1>1, <1>2, <2>2 DEF Local, Pcs
  <2> HIDE DEF l
  <2>4. Places(l, manifest) BY <1>1, <2>2, <2>3 DEF Sound, Places, Placing
  <2>5. Sound(l, manifest)
    BY <1>1, <2>3, <2>4 DEF Sound, InMemory, Pends, Registers, Asks, Running, Placing, Changing
  <2>6. Control' BY <1>7, <2>1, <2>3, <2>5, Moves DEF Inv, Control
  <2>7. Data' BY <1>5, <2>1, DataStays DEF Inv
  <2> QED BY <1>5, <1>6, <2>6, <2>7, FilesStay DEF Inv
<1>9. CASE ~done /\ \E x \in owned : config[c].entries[n] = x.entry
  <2>1. Announce(p, ch) BY <1>9 DEF unregister
  <2>2. /\ ch \in Change /\ ch.remove /\ ch.receipt.client = c /\ Formed(ch.receipt) /\ Planned(ch, manifest)
        /\ config[c] = ch.before
    BY <1>1, <1>2, <1>3, <1>4, <1>9, PlanOfRemoval DEF Inv, Data
  <2> HIDE DEF ch
  <2> QED BY <1>1, <1>3, <1>5, <2>1, <2>2, AnnounceKeeps
<1>10. CASE ~done /\ ~\E x \in owned : config[c].entries[n] = x.entry
  <2>1. Return(p) /\ UNCHANGED manifest BY <1>10 DEF unregister
  <2>2. Control' BY <1>1, <2>1, Returns DEF Inv, Running, Placing
  <2>3. Data' BY <1>5, <2>1, DataStays DEF Inv
  <2> QED BY <1>5, <1>6, <2>2, <2>3, FilesStay DEF Inv
<1> QED BY <1>8, <1>9, <1>10

(* The change that a process makes is the announced one.                   *)
LEMMA ChangeIsPending ==
  ASSUME Inv, NEW p \in Procs, loc[p].pc \in Changing
  PROVE  /\ loc[p] \in Local /\ manifest \in Manifest /\ loc[p].mem = manifest /\ Sound(loc[p], manifest)
         /\ loc[p].change \in manifest.pending /\ loc[p].change \in Change
         /\ loc[p].change.receipt.client \in loc[p].req.clients
         /\ loc[p].pc \notin Outside /\ lock = p
<1>1. loc[p] \in Local /\ manifest \in Manifest /\ Sound(loc[p], manifest) BY DEF Inv, Control
<1>2. loc[p].mem = manifest /\ loc[p].change \in Change /\ PendingOf(manifest, loc[p].req.clients) = {loc[p].change}
  BY <1>1 DEF Sound, InMemory, Pends, Running, Placing
<1>3. loc[p].change \in manifest.pending /\ loc[p].change.receipt.client \in loc[p].req.clients BY <1>2 DEF PendingOf
<1>4. loc[p].pc \notin Outside BY DEF Changing, Outside
<1> QED BY <1>1, <1>2, <1>3, <1>4 DEF Inv, Control, Mutex

(* A change that goes on to be verified, confirmed, taken back or settled. *)
LEMMA ChangeGoesOn ==
  ASSUME Inv, NEW p \in Procs, loc[p].pc \in Changing, NEW s \in {"verify", "restore", "confirm", "failed"},
         loc' = [loc EXCEPT ![p].pc = s], UNCHANGED <<manifest, lock>>
  PROVE  Control'
<1> DEFINE l == [loc[p] EXCEPT !.pc = s]
<1>1. loc[p] \in Local /\ manifest \in Manifest /\ Sound(loc[p], manifest) /\ loc[p].pc \notin Outside /\ lock = p
  BY ChangeIsPending
<1>2. loc' = [loc EXCEPT ![p] = l] OBVIOUS
<1>3. /\ l \in Local /\ l.pc = s /\ l.mem = loc[p].mem /\ l.req = loc[p].req /\ l.sync = loc[p].sync
      /\ l.change = loc[p].change /\ l.policies = loc[p].policies /\ l.stores = loc[p].stores /\ l.names = loc[p].names
      /\ l.clients = loc[p].clients
  BY <1>1 DEF Local, Pcs
<1> HIDE DEF l
<1>4. s \in Changing /\ s \in Placing /\ s \in Running /\ loc[p].pc \in Placing /\ loc[p].pc \in Running
      /\ s # "store" /\ loc[p].pc # "store" /\ s \notin {"apply", "remove", "disable", "lock", "policies", "policy"}
  BY DEF Changing, Placing, Running
<1>5. Places(l, manifest) /\ Pends(l, manifest) /\ InMemory(l, manifest)
  BY <1>1, <1>3, <1>4 DEF Sound, Places, Pends, InMemory
<1>6. Registers(l, manifest) BY <1>1, <1>3, <1>4 DEF Sound, Registers
<1>7. Asks(l, manifest) BY <1>1, <1>3, <1>4 DEF Sound, Asks
<1>8. Sound(l, manifest) BY <1>5, <1>6, <1>7 DEF Sound
<1> QED BY <1>1, <1>2, <1>3, <1>8, Moves DEF Inv, Control

LEMMA WriteConfigKeeps ==
  ASSUME Inv, NEW p \in Procs, WriteConfig(p)
  PROVE  Inv' /\ WorkKept
<1> DEFINE ch == loc[p].change
<1>1. loc[p].pc \in Changing BY DEF WriteConfig, At, Changing
<1>2. ch \in manifest.pending /\ manifest \in Manifest BY <1>1, ChangeIsPending
<1>3. UNCHANGED <<manifest, lock, users, counters>> BY DEF WriteConfig
<1>4. Counts' BY <1>3 DEF Inv, Counts, counters
<1>5. CASE config[ch.receipt.client] = ch.before
  <2>1. config' = [config EXCEPT ![ch.receipt.client] = ch.target]
        /\ loc' = [loc EXCEPT ![p].pc = IF ch.target = ch.before THEN "confirm" ELSE "verify"]
    BY <1>5 DEF WriteConfig
  <2>2. Control' BY <1>1, <1>3, <2>1, ChangeGoesOn
  <2>3. config' \in [Clients -> Config] /\ Data' /\ WorkKept BY <1>2, <1>3, <1>5, <2>1, WriteKeeps DEF Inv, Files
  <2> QED BY <1>3, <1>4, <2>2, <2>3 DEF Inv, Files
<1>6. CASE config[ch.receipt.client] # ch.before
  <2>1. config' = config /\ loc' = [loc EXCEPT ![p].pc = "failed"] BY <1>6 DEF WriteConfig
  <2>2. Control' BY <1>1, <1>3, <2>1, ChangeGoesOn
  <2>3. Data' BY <1>3, <2>1, DataStays DEF Inv
  <2> QED BY <1>3, <1>4, <2>1, <2>2, <2>3, FilesStay, NoWriteKeeps DEF Inv
<1> QED BY <1>5, <1>6

LEMMA verifyWrittenKeeps ==
  ASSUME Inv, NEW p \in Procs, verifyWritten(p)
  PROVE  Inv'
<1>1. loc[p].pc \in Changing BY DEF verifyWritten, At, Changing
<1>2. PICK s \in {"confirm", "restore"} : loc' = [loc EXCEPT ![p].pc = s] BY DEF verifyWritten
<1>3. UNCHANGED <<config, manifest, lock, users, counters>> BY DEF verifyWritten
<1>4. Control' BY <1>1, <1>2, <1>3, ChangeGoesOn
<1>5. Data' BY <1>3, DataStays DEF Inv
<1>6. Counts' BY <1>3 DEF Inv, Counts, counters
<1> QED BY <1>3, <1>4, <1>5, <1>6, FilesStay DEF Inv

LEMMA restoreKeeps ==
  ASSUME Inv, NEW p \in Procs, restore(p)
  PROVE  Inv' /\ WorkKept
<1> DEFINE ch == loc[p].change
<1>1. loc[p].pc \in Changing /\ loc[p].pc = "restore" BY DEF restore, At, Changing
<1>2. ch \in manifest.pending /\ manifest \in Manifest BY <1>1, ChangeIsPending
<1>3. UNCHANGED <<manifest, lock, counters>> /\ loc' = [loc EXCEPT ![p].pc = "failed"] BY DEF restore
<1>4. config' = [config EXCEPT ![ch.receipt.client] = ch.before]
      /\ users' = {u \in users : u[1] # ch.receipt.client} \cup Theirs(ch.receipt.client, ch.before)
  BY DEF restore
<1>5. Control' BY <1>1, <1>3, ChangeGoesOn
<1>6. /\ config' \in [Clients -> Config] /\ users' \subseteq Clients \X Names /\ Data'
      /\ \A d \in Clients : d # ch.receipt.client \/ config[d] = ch.target => KeptIn(d)
  BY <1>2, <1>3, <1>4, BackupKeeps DEF Inv, Files
<1>7. Counts' BY <1>3 DEF Inv, Counts, counters
<1>8. WorkKept BY <1>1, <1>6 DEF WorkKept, Overtaken, At
<1> QED BY <1>5, <1>6, <1>7, <1>8 DEF Inv, Files

LEMMA WriteFailsKeeps ==
  ASSUME Inv, NEW p \in Procs, WriteFails(p)
  PROVE  Inv'
<1>1. loc[p].pc \in Changing BY DEF WriteFails, Changing
<1>2. UNCHANGED <<config, manifest, lock, users>> BY DEF WriteFails
<1>6. PICK s \in {"restore", "failed"} : loc' = [loc EXCEPT ![p].pc = s] BY DEF WriteFails
<1>3. Control' BY <1>1, <1>2, <1>6, ChangeGoesOn
<1>4. Data' BY <1>2, DataStays DEF Inv
<1>5. Counts' BY RegistrationAssumption DEF Inv, Counts, WriteFails
<1> QED BY <1>2, <1>3, <1>4, <1>5, FilesStay DEF Inv

LEMMA WriteFailedKeeps ==
  ASSUME Inv, NEW p \in Procs, WriteFailed(p)
  PROVE  Inv'
<1> DEFINE ch == loc[p].change
           c == ch.receipt.client
           m == Recovered(manifest, {c})
           k == [manifest EXCEPT !.pending = {ch}]
<1>1. loc[p].pc = "failed" /\ loc[p].pc \in Changing BY DEF WriteFailed, At, Changing
<1>2. ch \in manifest.pending /\ manifest \in Manifest /\ loc[p].mem = manifest BY <1>1, ChangeIsPending
<1>3. RecoverPending(manifest, ch, config[c]) = m /\ PendingOf(manifest, {c}) = {ch}
  BY <1>2, SettlingIsRecovery DEF Inv, Data, Faithful
<1>4. manifest' = m BY <1>2, <1>3 DEF WriteFailed, Save
<1>5. m \in Manifest /\ m.policy = manifest.policy BY <1>2, RecoveredFields
<1>6. UNCHANGED <<config, counters>> /\ Return(p) BY DEF WriteFailed
<1>7. users' = users \ Settled(manifest, {c})
  <2>1. users' = users \ Settled(k, {c}) BY <1>2 DEF WriteFailed
  <2>2. k.pending = {ch} BY <1>2 DEF Manifest
  <2> HIDE DEF k
  <2>3. PendingOf(k, {c}) = {ch} BY <2>2 DEF PendingOf
  <2>4. Settled(k, {c}) = Settled(manifest, {c}) BY <1>3, <2>3 DEF Settled
  <2> QED BY <2>1, <2>4
<1> HIDE DEF m
<1>8. Control' BY <1>1, <1>4, <1>5, <1>6, Returns DEF Inv, Running, Placing
<1>9. Data' BY <1>2, <1>4, <1>6, <1>7, RecoveryKeeps DEF Inv, Files, m
<1>10. Counts' BY <1>6 DEF Inv, Counts, counters
<1> QED BY <1>6, <1>7, <1>8, <1>9, <1>10, FilesStay DEF Inv

LEMMA ConfirmKeeps ==
  ASSUME Inv, NEW p \in Procs, Confirm(p)
  PROVE  Inv'
<1> DEFINE ch == loc[p].change
           c == ch.receipt.client
           m == Recovered(manifest, {c})
<1>1. loc[p].pc = "confirm" /\ loc[p].pc \in Changing BY DEF Confirm, At, Changing
<1>2. ch \in manifest.pending /\ ch \in Change /\ manifest \in Manifest /\ loc[p].mem = manifest
  BY <1>1, ChangeIsPending
<1>3. loc[p] \in Local /\ Sound(loc[p], manifest) /\ loc[p].pc \notin Outside /\ lock = p BY <1>1, ChangeIsPending
<1>4. RecoverPending(manifest, ch, config[c]) = m /\ PendingOf(manifest, {c}) = {ch}
  BY <1>2, SettlingIsRecovery DEF Inv, Data, Faithful
<1>5. UNCHANGED <<config, counters>> BY DEF Confirm
<1>6. Counts' BY <1>5 DEF Inv, Counts, counters
<1>7. CASE config[c] # ch.target
  <2>1. Return(p) /\ UNCHANGED <<manifest, users>> BY <1>7 DEF Confirm
  <2>2. Control' BY <1>1, <1>2, <2>1, Returns DEF Inv, Running, Placing
  <2>3. Data' BY <1>5, <2>1, DataStays DEF Inv
  <2> QED BY <1>5, <1>6, <2>1, <2>2, <2>3, FilesStay DEF Inv
<1>8. CASE config[c] = ch.target
  <2> DEFINE s == IF ch.remove THEN "remove" ELSE "apply"
             C == loc[p].clients \ {c}
             l == [loc[p] EXCEPT !.pc = s, !.mem = m, !.change = None, !.clients = C]
  <2>1. manifest' = m /\ users' = users \ {<<c, ch.receipt.name>>} /\ lock' = lock BY <1>2, <1>4, <1>8 DEF Confirm, Save
  <2>2. loc' = [loc EXCEPT ![p] = l] BY <1>2, <1>4, <1>8 DEF Confirm
  <2>3. m \in Manifest /\ m.reg = manifest.reg /\ m.policy = manifest.policy /\ m.pending = manifest.pending \ {ch}
    <3>1. Conflicts(manifest, {c}) = {} BY <1>4, <1>8 DEF Conflicts
    <3>2. m \in Manifest /\ m.reg = manifest.reg /\ m.policy = manifest.policy
          /\ m.pending = (manifest.pending \ PendingOf(manifest, {c})) \cup Conflicts(manifest, {c})
      BY <1>2, RecoveredFields
    <3> HIDE DEF m
    <3> QED BY <1>4, <3>1, <3>2
  <2>4. C \subseteq loc[p].clients /\ C \subseteq Clients BY <1>3, LocalFields
  <2>5. ch.remove \in BOOLEAN BY <1>2, ChangeFields
  <2> HIDE DEF m, C
  <2>6. /\ l \in Local /\ l.pc = s /\ l.mem = m /\ l.req = loc[p].req /\ l.sync = loc[p].sync
        /\ l.policies = loc[p].policies /\ l.stores = loc[p].stores /\ l.names = loc[p].names /\ l.clients = C
    BY <1>3, <2>3, <2>4 DEF Local, Pcs
  <2> HIDE DEF l
  <2>7. PendingOf(m, l.req.clients) = {}
    <3>1. PendingOf(manifest, loc[p].req.clients) = {ch} BY <1>1, <1>3 DEF Sound, Pends
    <3> QED BY <2>3, <2>6, <3>1 DEF PendingOf
  <2>8. Places(l, m)
    <3>1. /\ loc[p].clients \subseteq loc[p].req.clients /\ loc[p].stores # {}
          /\ \A r \in loc[p].stores : loc[p].names[r] \in Names /\ manifest.reg[r] \in {None, loc[p].names[r]}
      BY <1>1, <1>3 DEF Sound, Places, Placing
    <3> QED BY <2>3, <2>4, <2>6, <3>1 DEF Places
  <2>9. Registers(l, m)
    BY <1>1, <1>3, <2>3, <2>5, <2>6 DEF Sound, Registers, Changing
  <2>10. Asks(l, m)
    BY <1>1, <1>3, <2>3, <2>6 DEF Sound, Asks, Running, Placing, Changing
  <2>11. Sound(l, m)
    BY <2>6, <2>7, <2>8, <2>9, <2>10 DEF Sound, InMemory, Pends, Running, Placing, Changing
  <2>12. Control' BY <1>3, <2>1, <2>2, <2>3, <2>6, <2>11, Moves DEF Inv, Control
  <2>13. Data'
    <3>1. CASE ~ch.remove
      <4>1. Settled(manifest, {c}) = {<<c, ch.receipt.name>>} BY <1>4, <1>8, <3>1 DEF Settled
      <4> QED BY <1>2, <1>5, <2>1, <4>1, RecoveryKeeps DEF Inv, Files, m
    <3>2. CASE ch.remove
      <4>1. Settled(manifest, {c}) = {} BY <1>4, <3>2 DEF Settled
      <4>2. Planned(ch, manifest) BY <1>2 DEF Inv, Data, Faithful
      <4>3. config[c].entries[ch.receipt.name] = None BY <1>2, <1>8, <3>2, <4>2, RemovedIsGone
      <4>4. <<c, ch.receipt.name>> \notin users BY <4>3 DEF Inv, Data, UsersApart
      <4>5. users' = users \ Settled(manifest, {c}) BY <2>1, <4>1, <4>4
      <4> QED BY <1>2, <1>5, <2>1, <4>5, RecoveryKeeps DEF Inv, Files, m
    <3> QED BY <2>5, <3>1, <3>2
  <2> QED BY <1>5, <1>6, <2>1, <2>12, <2>13, FilesStay DEF Inv
<1> QED BY <1>7, <1>8

LEMMA NextStoreKeeps ==
  ASSUME Inv, NEW p \in Procs, NextStore(p)
  PROVE  Inv'
<1> DEFINE r == Store(p)
           gone == At(p, "remove") /\ \A x \in loc[p].mem.receipts : x.checkout # r
           m == IF gone THEN [manifest EXCEPT !.reg[r] = None] ELSE manifest
           S == loc[p].stores \ {r}
           l == [loc[p] EXCEPT !.pc = "store", !.mem = m, !.stores = S]
<1>1. loc[p] \in Local /\ loc[p].pc \in {"apply", "remove"} /\ manifest \in Manifest /\ Sound(loc[p], manifest)
  BY DEF NextStore, Inv, Control
<1>2. loc[p].mem = manifest /\ loc[p].stores # {} BY <1>1 DEF Sound, InMemory, Places, Running, Placing
<1>3. r \in loc[p].stores /\ r \in Checkouts BY <1>1, <1>2, FirstIn, LocalFields DEF Store
<1>4. UNCHANGED <<config, lock, users, counters>> BY DEF NextStore
<1>5. manifest' = m /\ loc' = [loc EXCEPT ![p] = l] BY <1>2 DEF NextStore, Save
<1>6. S \subseteq loc[p].stores /\ r \notin S /\ S \subseteq Checkouts BY <1>1, LocalFields
<1> HIDE DEF r, gone, S
<1>7. /\ m \in Manifest /\ m.receipts = manifest.receipts /\ m.pending = manifest.pending /\ m.policy = manifest.policy
      /\ \A s \in S : m.reg[s] = manifest.reg[s]
  <2>1. CASE gone
    <3>1. m = [manifest EXCEPT !.reg[r] = None] BY <2>1
    <3>2. m \in Manifest /\ m.reg = [manifest.reg EXCEPT ![r] = None] /\ m.receipts = manifest.receipts
          /\ m.pending = manifest.pending /\ m.policy = manifest.policy
      <4> HIDE DEF m
      <4> QED BY <1>1, <1>3, <3>1 DEF Manifest
    <3>3. manifest.reg \in [Checkouts -> Names \cup {None}] BY <1>1, ManifestFields
    <3> QED BY <1>3, <1>6, <3>2, <3>3
  <2>2. CASE ~gone BY <1>1, <2>2
  <2> QED BY <2>1, <2>2
<1> HIDE DEF m
<1>8. /\ l \in Local /\ l.pc = "store" /\ l.mem = m /\ l.req = loc[p].req /\ l.sync = loc[p].sync
      /\ l.policies = loc[p].policies /\ l.stores = S /\ l.names = loc[p].names
  BY <1>1, <1>6, <1>7 DEF Local, Pcs
<1> HIDE DEF l
<1>9. Places(l, m) BY <1>1, <1>6, <1>7, <1>8 DEF Sound, Places, Placing
<1>10. Sound(l, m)
  BY <1>1, <1>7, <1>8, <1>9 DEF Sound, InMemory, Pends, PendingOf, Registers, Asks, Running, Placing, Changing
<1>11. loc[p].pc \notin Outside /\ lock = p BY <1>1 DEF Outside, Inv, Control, Mutex
<1>12. Control' BY <1>4, <1>5, <1>7, <1>8, <1>10, <1>11, Moves DEF Inv, Control
<1>13. Data' BY <1>4, <1>5, <1>7, DataStays DEF Inv
<1>14. Counts' BY <1>4 DEF Inv, Counts, counters
<1> QED BY <1>4, <1>12, <1>13, <1>14, FilesStay DEF Inv

LEMMA ExecutedKeeps ==
  ASSUME Inv, NEW p \in Procs, Executed(p)
  PROVE  Inv'
<1> DEFINE P == manifest.policy \cup (IF loc[p].req.auto THEN loc[p].req.clients ELSE {})
           m == [manifest EXCEPT !.policy = P]
<1>1. loc[p] \in Local /\ loc[p].pc = "store" /\ loc[p].mem = manifest /\ manifest \in Manifest
      /\ Sound(loc[p], manifest)
  BY DEF Executed, At, Inv, Control, Sound, InMemory, Running, Placing
<1>2. P \in SUBSET Clients BY <1>1, ManifestFields, LocalFields, RequestFields
<1>3. loc[p].sync => P = manifest.policy BY <1>1 DEF Sound, Asks
<1>4. manifest' = m BY <1>1 DEF Executed, Save
<1> HIDE DEF P
<1>5. m \in Manifest /\ m.receipts = manifest.receipts /\ m.pending = manifest.pending /\ m.policy = P
  BY <1>1, <1>2, WithPolicy
<1> HIDE DEF m
<1>6. Return(p) /\ UNCHANGED <<config, users, counters>> BY DEF Executed
<1>7. Control' BY <1>1, <1>3, <1>4, <1>5, <1>6, Returns DEF Inv, Running, Placing
<1>8. Data' BY <1>4, <1>5, <1>6, DataStays DEF Inv
<1>9. Counts' BY <1>6 DEF Inv, Counts, counters
<1> QED BY <1>6, <1>7, <1>8, <1>9, FilesStay DEF Inv

LEMMA StepFailsKeeps ==
  ASSUME Inv, NEW p \in Procs, StepFails(p)
  PROVE  Inv'
<1>1. Return(p) /\ UNCHANGED <<config, manifest, users>> BY DEF StepFails
<1>2. loc[p].pc \in {"load"} \cup Running BY LocalFields DEF StepFails, Inv, Control, Pcs, Running, Placing, Changing
<1>3. Control' BY <1>1, <1>2, Returns DEF Inv, Control
<1>4. Data' BY <1>1, DataStays DEF Inv
<1>5. Counts' BY RegistrationAssumption DEF Inv, Counts, StepFails
<1> QED BY <1>1, <1>3, <1>4, <1>5, FilesStay DEF Inv

LEMMA DieKeeps ==
  ASSUME Inv, NEW p \in Procs, Die(p)
  PROVE  Inv'
<1>1. loc' = [loc EXCEPT ![p] = Idle] /\ Unlock(p) /\ UNCHANGED <<config, manifest, users>> BY DEF Die
<1>2. Control' BY <1>1, Ends DEF Inv, Control
<1>3. Data' BY <1>1, DataStays DEF Inv
<1>4. Counts' BY RegistrationAssumption DEF Inv, Counts, Die
<1> QED BY <1>1, <1>2, <1>3, <1>4, FilesStay DEF Inv

LEMMA UsersKeep ==
  ASSUME Inv, NEW c \in Clients, UserEditsRest(c) \/ \E n \in Names : UserEdits(c, n)
  PROVE  Inv' /\ edits' # edits
<1>1. CASE UserEditsRest(c)
  <2>1. UNCHANGED <<manifest, lock, loc>> /\ users' = users BY <1>1 DEF UserEditsRest
  <2>2. Control' BY <2>1, ControlStays DEF Inv
  <2>3. config' \in [Clients -> Config] /\ Data' BY <1>1, UserEditRestKeeps DEF Inv, Files
  <2>4. Counts' /\ edits' # edits BY <1>1, RegistrationAssumption DEF Inv, Counts, UserEditsRest
  <2> QED BY <2>1, <2>2, <2>3, <2>4 DEF Inv, Files
<1>2. CASE \E n \in Names : UserEdits(c, n)
  <2>1. PICK n \in Names : UserEdits(c, n) BY <1>2
  <2>2. UNCHANGED <<manifest, lock, loc>> BY <2>1 DEF UserEdits
  <2>3. Control' BY <2>2, ControlStays DEF Inv
  <2>4. config' \in [Clients -> Config] /\ users' \subseteq Clients \X Names /\ Data'
    BY <2>1, UserEditKeeps DEF Inv, Files
  <2>5. Counts' /\ edits' # edits BY <2>1, RegistrationAssumption DEF Inv, Counts, UserEdits
  <2> QED BY <2>3, <2>4, <2>5 DEF Inv, Files
<1> QED BY <1>1, <1>2

(* Every step keeps the invariant, and what users wrote unless it is       *)
(* theirs.                                                                 *)
LEMMA NextKeeps ==
  ASSUME Inv, Next
  PROVE  Inv' /\ (edits' = edits => WorkKept)
<1>1. ASSUME NEW p \in Procs, WriteConfig(p) \/ restore(p) PROVE Inv' /\ WorkKept BY <1>1, WriteConfigKeeps, restoreKeeps
<1>2. ASSUME NEW c \in Clients, UserEditsRest(c) \/ \E n \in Names : UserEdits(c, n) PROVE Inv' /\ edits' # edits
  BY <1>2, UsersKeep
<1>3. ASSUME NEW p \in Procs,
             Execute(p) \/ Sync(p) \/ lockManifest(p) \/ enabledPolicies(p) \/ Policy(p) \/ Reconciled(p) \/ Load(p)
               \/ Disable(p) \/ AllocateNames(p) \/ preflightOwnership(p) \/ applyOne(p) \/ unregister(p) \/ verifyWritten(p)
               \/ WriteFails(p) \/ WriteFailed(p) \/ Confirm(p) \/ NextStore(p) \/ Executed(p) \/ StepFails(p) \/ Die(p)
      PROVE  Inv' /\ WorkKept
  <2>1. Inv'
    BY <1>3, ExecuteKeeps, SyncKeeps, lockManifestKeeps, enabledPoliciesKeeps, PolicyKeeps, ReconciledKeeps, LoadKeeps,
       DisableKeeps, AllocateNamesKeeps, preflightOwnershipKeeps, applyOneKeeps, unregisterKeeps, verifyWrittenKeeps, WriteFailsKeeps,
       WriteFailedKeeps, ConfirmKeeps, NextStoreKeeps, ExecutedKeeps, StepFailsKeeps, DieKeeps
  <2>2. config' = config
    BY <1>3 DEF Execute, Sync, lockManifest, enabledPolicies, Policy, Reconciled, Load, Disable, AllocateNames,
       preflightOwnership, applyOne, unregister, verifyWritten, WriteFails, WriteFailed, Confirm, NextStore, Executed, StepFails, Die
  <2> QED BY <2>1, <2>2, NoWriteKeeps DEF Inv
<1> QED BY <1>1, <1>2, <1>3 DEF Next, Step

LEMMA StutterKeeps ==
  ASSUME Inv, UNCHANGED vars
  PROVE  Inv' /\ WorkKept
<1>1. Control' BY ControlStays DEF Inv, vars
<1>2. Data' BY DataStays DEF Inv, vars
<1> QED BY <1>1, <1>2, NoWriteKeeps DEF Inv, Files, Counts, vars

(* The inductive invariant.                                                *)
LEMMA Invariant == Spec => []Inv
<1>1. Init => Inv BY InitHolds
<1>2. Inv /\ [Next]_vars => Inv' BY NextKeeps, StutterKeeps
<1> QED BY <1>1, <1>2, PTL DEF Spec

(***************************************************************************)
(* Theorems.                                                               *)
(***************************************************************************)

(* Types, one receipt for a checkout, client and name, and at most one     *)
(* unsettled change for a client (UpsertPending after recoverPending).     *)
THEOREM TypeCorrect == Spec => []TypeOK
<1>1. Inv => TypeOK BY DEF Inv, Control, Data, Files, Counts, Faithful, Keyed, TypeOK
<1> QED BY <1>1, Invariant, PTL

(* No entry that Graphi wrote is ever orphaned, whatever died or failed    *)
(* between the announcement, the write and the confirmation of a change.   *)
THEOREM NothingOrphaned == Spec => []OwnedOrAnnounced
<1>1. Inv => OwnedOrAnnounced BY DEF Inv, Data
<1> QED BY <1>1, Invariant, PTL

(* A sync writes only to clients that are consented to at that moment.     *)
THEOREM ConsentIsCurrent == Spec => []Consented
<1>1. ASSUME Inv, NEW p \in Procs, loc[p].pc \in {"write", "verify", "restore"}, loc[p].sync
      PROVE  loc[p].change.receipt.client \in manifest.policy
  <2>1. loc[p].pc \in Changing BY <1>1 DEF Changing
  <2>2. loc[p].change.receipt.client \in loc[p].req.clients /\ Sound(loc[p], manifest) BY <1>1, <2>1, ChangeIsPending
  <2> QED BY <1>1, <2>1, <2>2 DEF Sound, Asks, Running, Placing
<1>2. Inv => Consented BY <1>1 DEF Consented
<1> QED BY <1>2, Invariant, PTL

(* No process changes what is not Graphi's, also when users edit a file    *)
(* between the steps of a change and the file becomes again the one that   *)
(* was read, and when a backup is put back; lost is only a save that users *)
(* make after the rename of a change whose backup is then put back.        *)
THEOREM UserWorkIsKept == Spec => UserWorkKept
<1>1. Inv /\ [Next]_vars => [edits' = edits => \A c \in Clients : Overtaken(c) \/ KeptIn(c)]_vars
  BY NextKeeps DEF WorkKept
<1> QED BY <1>1, Invariant, PTL DEF Spec, UserWorkKept

(***************************************************************************)
(* Names.                                                                  *)
(***************************************************************************)

LEMMA NamedFrame ==
  ASSUME NEW m, NEW k, Named(m), Claims(k) \subseteq Claims(m), k.reg = m.reg
  PROVE  Named(k)
BY DEF Named

(* A recovery adds no claim.                                               *)
LEMMA RecoveredNamed ==
  ASSUME NEW m \in Manifest, NEW cs, Named(m)
  PROVE  Named(Recovered(m, cs))
<1> DEFINE k == Recovered(m, cs)
<1>1. k.reg = m.reg /\ k.pending = (m.pending \ PendingOf(m, cs)) \cup Conflicts(m, cs)
      /\ k.receipts = {x \in m.receipts : \A ch \in Completed(m, cs) : ~SameKey(x, ch.receipt)}
                        \cup {ch.receipt : ch \in {d \in Completed(m, cs) : ~d.remove}}
  BY RecoveredFields
<1>2. Conflicts(m, cs) \subseteq m.pending /\ Completed(m, cs) \subseteq m.pending BY DEF Conflicts, Completed, PendingOf
<1> HIDE DEF k
<1>3. Claims(k) \subseteq Claims(m) BY <1>1, <1>2 DEF Claims
<1>4. Named(k) BY <1>1, <1>3, NamedFrame
<1> QED BY <1>4 DEF k

LEMMA RecoveriesNamed ==
  ASSUME Inv, NEW p \in Procs, Policy(p) \/ Load(p) \/ WriteFailed(p) \/ Confirm(p), Named(manifest)
  PROVE  Named(manifest')
<1>1. manifest \in Manifest BY DEF Inv, Control
<1>2. manifest' = manifest \/ \E cs : manifest' = Recovered(manifest, cs)
  <2>1. CASE Policy(p) BY <2>1 DEF Policy, Save
  <2>2. CASE Load(p) BY <2>2 DEF Load, Save
  <2>3. ASSUME loc[p].pc \in Changing
        PROVE  /\ loc[p].mem = manifest
               /\ RecoverPending(manifest, loc[p].change, config[loc[p].change.receipt.client])
                    = Recovered(manifest, {loc[p].change.receipt.client})
    BY <2>3, <1>1, ChangeIsPending, SettlingIsRecovery DEF Inv, Data, Faithful
  <2>4. CASE WriteFailed(p) BY <2>3, <2>4 DEF WriteFailed, Save, At, Changing
  <2>5. CASE Confirm(p) BY <2>3, <2>5 DEF Confirm, Save, At, Changing
  <2> QED BY <2>1, <2>2, <2>4, <2>5
<1> QED BY <1>1, <1>2, RecoveredNamed

LEMMA ConsentsNamed ==
  ASSUME Inv, NEW p \in Procs, Disable(p) \/ Executed(p), Named(manifest)
  PROVE  Named(manifest')
<1>1. loc[p].mem = manifest /\ manifest \in Manifest
  BY DEF Disable, Executed, At, Inv, Control, Sound, InMemory, Running, Placing
<1>2. PICK P : manifest' = [manifest EXCEPT !.policy = P] BY <1>1 DEF Disable, Executed, Save
<1>3. manifest'.reg = manifest.reg /\ manifest'.receipts = manifest.receipts /\ manifest'.pending = manifest.pending
  BY <1>1, <1>2 DEF Manifest
<1> QED BY <1>3, NamedFrame DEF Claims

(* A checkout that has a claim keeps its name; one that has no name has no *)
(* claim.                                                                  *)
LEMMA preflightOwnershipNamed ==
  ASSUME Inv, NEW p \in Procs, preflightOwnership(p), Named(manifest)
  PROVE  Named(manifest')
<1> DEFINE r == Store(p)
           n == loc[p].names[r]
           m == [manifest EXCEPT !.reg[r] = n]
<1>1. loc[p] \in Local /\ loc[p].pc = "store" /\ loc[p].mem = manifest /\ manifest \in Manifest /\ loc[p].stores # {}
      /\ Sound(loc[p], manifest)
  BY DEF preflightOwnership, At, Inv, Control, Sound, InMemory, Running, Placing
<1>2. r \in loc[p].stores /\ r \in Checkouts BY <1>1, FirstIn, LocalFields DEF Store
<1>3. n \in Names /\ manifest.reg[r] \in {None, n} BY <1>1, <1>2 DEF Sound, Places, Placing
<1>4. manifest' \in {manifest, m} BY <1>1 DEF preflightOwnership, Save
<1> HIDE DEF r, n
<1>5. m.reg = [manifest.reg EXCEPT ![r] = n] /\ m.receipts = manifest.receipts /\ m.pending = manifest.pending
  BY <1>1, <1>2, <1>3, WithReg
<1> HIDE DEF m
<1>6. ASSUME NEW x \in Claims(m) PROVE m.reg[x.checkout] = x.name
  <2>1. x \in Claims(manifest) BY <1>5 DEF Claims
  <2>2. x \in Receipt BY <1>1, <2>1, ManifestFields, ChangeFields DEF Claims
  <2>3. x.name # None /\ x.checkout \in Checkouts BY <2>2, ReceiptFields, RegistrationAssumption
  <2>4. manifest.reg[x.checkout] = x.name BY <2>1 DEF Named
  <2>5. manifest.reg \in [Checkouts -> Names \cup {None}] BY <1>1, ManifestFields
  <2> QED BY <1>2, <1>3, <1>5, <2>3, <2>4, <2>5
<1> QED BY <1>4, <1>6 DEF Named

(* An announced receipt has the name that its checkout is registered       *)
(* under.                                                                  *)
LEMMA AnnouncementNamed ==
  ASSUME manifest \in Manifest, NEW ch \in Change, PendingOf(manifest, {ch.receipt.client}) = {},
         manifest' = UpsertPending(manifest, ch), manifest.reg[ch.receipt.checkout] = ch.receipt.name, Named(manifest)
  PROVE  Named(manifest')
<1>1. manifest'.reg = manifest.reg /\ manifest'.receipts = manifest.receipts /\ manifest'.pending = manifest.pending \cup {ch}
  BY AnnouncedFields
<1> QED BY <1>1 DEF Named, Claims

LEMMA applyOneNamed ==
  ASSUME Inv, NEW p \in Procs, applyOne(p), Named(manifest)
  PROVE  Named(manifest')
<1> DEFINE r == Store(p)
           c == Client(p)
           n == loc[p].names[r]
           ch == Announced(r, c, n, Want(p))
<1>1. loc[p] \in Local /\ loc[p].pc = "apply" /\ manifest \in Manifest /\ loc[p].clients # {} /\ Sound(loc[p], manifest)
  BY DEF applyOne, At, Inv, Control
<1>2. loc[p].mem = manifest /\ loc[p].stores # {} BY <1>1 DEF Sound, InMemory, Places, Running, Placing
<1>3. r \in loc[p].stores /\ r \in Checkouts /\ c \in loc[p].clients /\ c \in Clients
  BY <1>1, <1>2, FirstIn, LocalFields DEF Store, Client
<1>4. n \in Names BY <1>1, <1>3 DEF Sound, Places, Placing
<1>5. Want(p) \in Managed /\ Want(p).checkout = r BY <1>3, RegistrationAssumption DEF Want, Managed
<1>6. CASE AuthorizeEntry(manifest, r, c, n, Want(p), loc[p].req.adopt)
  <2>1. manifest' = UpsertPending(manifest, ch) BY <1>2, <1>6 DEF applyOne, Announce, Save
  <2>2. ch \in Change /\ ch.receipt.client = c /\ ch.receipt.checkout = r /\ ch.receipt.name = n
    BY <1>1, <1>3, <1>4, <1>5, <1>6, PlanOfAnnounced DEF Inv
  <2>3. PendingOf(manifest, {c}) = {}
    BY <1>1, <1>3 DEF Sound, Pends, Places, PendingOf, Running, Placing, Changing
  <2>4. manifest.reg[r] = n BY <1>1 DEF Sound, Registers, Store
  <2> HIDE DEF ch
  <2> QED BY <1>1, <2>1, <2>2, <2>3, <2>4, AnnouncementNamed
<1>7. CASE ~AuthorizeEntry(manifest, r, c, n, Want(p), loc[p].req.adopt) BY <1>2, <1>7 DEF applyOne
<1> QED BY <1>6, <1>7

LEMMA unregisterNamed ==
  ASSUME Inv, NEW p \in Procs, unregister(p), Named(manifest)
  PROVE  Named(manifest')
<1> DEFINE r == Store(p)
           c == Client(p)
           n == loc[p].names[r]
           owned == ReceiptsFor(loc[p].mem, r, c, n)
           ch == [receipt |-> CHOOSE y \in owned : TRUE, before |-> config[c],
                  target |-> With(c, n, None), remove |-> TRUE]
<1>1. loc[p] \in Local /\ loc[p].pc = "remove" /\ manifest \in Manifest /\ loc[p].clients # {} /\ Sound(loc[p], manifest)
  BY DEF unregister, At, Inv, Control
<1>2. loc[p].mem = manifest /\ loc[p].stores # {} BY <1>1 DEF Sound, InMemory, Places, Running, Placing
<1>3. r \in loc[p].stores /\ r \in Checkouts /\ c \in loc[p].clients /\ c \in Clients
  BY <1>1, <1>2, FirstIn, LocalFields DEF Store, Client
<1>4. n \in Names BY <1>1, <1>3 DEF Sound, Places, Placing
<1>5. CASE Announce(p, ch) /\ \E x \in owned : config[c].entries[n] = x.entry
  <2>1. manifest' = UpsertPending(manifest, ch) BY <1>2, <1>5 DEF Announce, Save
  <2>2. ch \in Change /\ ch.receipt.client = c /\ ch.receipt \in manifest.receipts
    BY <1>1, <1>2, <1>3, <1>4, <1>5, PlanOfRemoval DEF Inv, Data
  <2>3. PendingOf(manifest, {c}) = {}
    BY <1>1, <1>3 DEF Sound, Pends, Places, PendingOf, Running, Placing, Changing
  <2> HIDE DEF ch
  <2>4. manifest.reg[ch.receipt.checkout] = ch.receipt.name BY <2>2 DEF Named, Claims
  <2> QED BY <1>1, <2>1, <2>2, <2>3, <2>4, AnnouncementNamed
<1>6. CASE manifest' = manifest BY <1>6
<1> QED BY <1>5, <1>6 DEF unregister

(* A name is given up when the checkout has no receipt and no change of    *)
(* any client is pending.                                                  *)
LEMMA NextStoreNamed ==
  ASSUME Inv, UnregistersEverywhere, NEW p \in Procs, NextStore(p), Named(manifest)
  PROVE  Named(manifest')
<1> DEFINE r == Store(p)
           m == [manifest EXCEPT !.reg[r] = None]
<1>1. loc[p] \in Local /\ loc[p].pc \in {"apply", "remove"} /\ manifest \in Manifest /\ Sound(loc[p], manifest)
  BY DEF NextStore, Inv, Control
<1>2. loc[p].mem = manifest /\ loc[p].stores # {} BY <1>1 DEF Sound, InMemory, Places, Running, Placing
<1>3. r \in Checkouts BY <1>1, <1>2, FirstIn, LocalFields DEF Store
<1>4. CASE manifest' = m /\ loc[p].pc = "remove" /\ \A x \in manifest.receipts : x.checkout # r
  <2>1. loc[p].req.kind = "unregister" /\ PendingOf(manifest, loc[p].req.clients) = {}
    BY <1>1, <1>4 DEF Sound, Registers, Pends, Running, Placing, Changing
  <2>2. loc[p].req \in Requests BY <1>1, <1>4, <2>1 DEF Sound, Asks, Running, Placing
  <2>3. loc[p].req.clients = Clients BY <2>1, <2>2 DEF UnregistersEverywhere
  <2>4. manifest.pending = {}
    <3>1. \A ch \in manifest.pending : ch.receipt.client \in Clients BY <1>1, ManifestFields, ChangeFields, ReceiptFields
    <3> QED BY <2>1, <2>3, <3>1 DEF PendingOf
  <2> HIDE DEF r
  <2>5. m.reg = [manifest.reg EXCEPT ![r] = None] /\ m.receipts = manifest.receipts /\ m.pending = manifest.pending
    BY <1>1, <1>3, WithReg
  <2> HIDE DEF m
  <2>6. manifest.reg \in [Checkouts -> Names \cup {None}] /\ \A x \in manifest.receipts : x.checkout \in Checkouts
    BY <1>1, ManifestFields, ReceiptFields
  <2>7. \A x \in Claims(m) : x \in manifest.receipts BY <2>4, <2>5 DEF Claims
  <2>8. \A x \in manifest.receipts : m.reg[x.checkout] = x.name BY <1>4, <2>5, <2>6 DEF Named, Claims
  <2> QED BY <1>4, <2>7, <2>8 DEF Named
<1>5. CASE manifest' = manifest BY <1>5
<1> QED BY <1>2, <1>4, <1>5 DEF NextStore, Save, At

LEMMA NextNamed ==
  ASSUME Inv, UnregistersEverywhere, [Next]_vars, Named(manifest)
  PROVE  Named(manifest')
<1>1. CASE manifest' = manifest BY <1>1
<1>2. CASE manifest' # manifest
  <2>1. Next BY <1>2 DEF vars
  <2>2. ~\E c \in Clients : UserEditsRest(c) \/ \E n \in Names : UserEdits(c, n) BY <1>2 DEF UserEditsRest, UserEdits
  <2>3. PICK p \in Procs : Execute(p) \/ Sync(p) \/ Step(p) \/ WriteFails(p) \/ StepFails(p) \/ Die(p)
    BY <2>1, <2>2 DEF Next
  <2>4. ~(Execute(p) \/ Sync(p) \/ lockManifest(p) \/ enabledPolicies(p) \/ Reconciled(p) \/ AllocateNames(p)
          \/ WriteConfig(p) \/ verifyWritten(p) \/ restore(p) \/ WriteFails(p) \/ StepFails(p) \/ Die(p))
    BY <1>2 DEF Execute, Sync, lockManifest, enabledPolicies, Reconciled, AllocateNames, WriteConfig, verifyWritten, restore, WriteFails,
       StepFails, Die
  <2> QED BY <2>3, <2>4, RecoveriesNamed, ConsentsNamed, preflightOwnershipNamed, applyOneNamed, unregisterNamed,
             NextStoreNamed DEF Step
<1> QED BY <1>1, <1>2

(* Where checkouts are unregistered from all clients at once, every        *)
(* receipt has the name that its checkout is registered under.  (From one  *)
(* client alone it is not so: a change that is pending for another client  *)
(* is then confirmed for a checkout that has given up its name.)           *)
THEOREM NamesAreStable == ASSUME UnregistersEverywhere PROVE Spec => []NamesStable
<1>1. Init => Named(manifest) BY DEF Init, NoManifest, Named, Claims
<1>2. Inv /\ Named(manifest) /\ [Next]_vars => Named(manifest)' BY NextNamed
<1>3. Named(manifest) => NamesStable BY DEF Named, Claims, NamesStable
<1> QED BY <1>1, <1>2, <1>3, Invariant, PTL DEF Spec

=============================================================================
