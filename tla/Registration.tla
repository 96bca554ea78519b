---------------------------- MODULE Registration ----------------------------
(***************************************************************************)
(* Registration of checkouts as named servers in the configuration files   *)
(* of MCP clients.  A manifest says which entries Graphi owns.  It cannot   *)
(* be replaced together with a configuration, so each change is announced  *)
(* there as pending, written if the file is still the one that was read,   *)
(* and confirmed; what a dead process left is settled by comparing the     *)
(* file with the two states that the announcement names.  Processes of     *)
(* setup and sync share the manifest's lock, users edit the files at any   *)
(* moment, and any process may die or fail.                                *)
(*                                                                         *)
(* The digest of a configuration is the configuration itself.  The last    *)
(* comparison and the rename of a writer are one step: the documentation   *)
(* promises nothing of an editor that saves between the two.  Reading the  *)
(* file back and putting the backup back are steps of their own, between   *)
(* which users save.                                                       *)
(***************************************************************************)
EXTENDS Integers, Sequences, FiniteSets

CONSTANTS
  Procs,       \* processes that run setup or sync
  Clients,     \* configuration files
  Checkouts,
  Names,       \* server names
  None,
  Binaries, Bin, \* paths of graphi binaries, and the one that each process runs from
  Written,     \* what users may bind an entry to
  Rank,        \* the order of clients by path and of checkouts by identity
  DefaultNames,\* the default names of a checkout, the preferred first
  Requests,    \* what setup is asked for
  Synced,      \* the checkouts that sync is run in
  MaxSetups, MaxEdits, MaxFaults

Managed == [checkout : Checkouts, bin : Binaries]
Manual  == [checkout |-> None, bin |-> None]  \* the fields of an entry that binds no checkout
Entry   == [managed : Managed \cup {Manual}, extra : BOOLEAN]
Config  == [entries : [Names -> Entry \cup {None}], other : {0, 1}]
Receipt == [checkout : Checkouts, client : Clients, name : Names, managed : Managed, entry : Entry]
Change  == [receipt : Receipt, before : Config, target : Config, remove : BOOLEAN]
Manifest == [reg : [Checkouts -> Names \cup {None}], receipts : SUBSET Receipt, pending : SUBSET Change,
             policy : SUBSET Clients]
Request == [kind : {"none", "register", "unregister", "disable"}, stores : SUBSET Checkouts,
            clients : SUBSET Clients, name : Names \cup {None}, adopt : BOOLEAN, auto : BOOLEAN]
Pcs     == {"idle", "lock", "policies", "policy", "load", "disable", "allocate", "store", "apply", "remove",
            "write", "verify", "restore", "confirm", "failed"}
Local   == [pc : Pcs, req : Request, sync : BOOLEAN, policies : SUBSET Clients, held : Manifest, mem : Manifest,
            removed : SUBSET Receipt, names : [Checkouts -> Names \cup {None}], stores : SUBSET Checkouts,
            clients : SUBSET Clients, change : Change \cup {None}]

ASSUME RegistrationAssumption ==
  /\ None \notin Procs \cup Clients \cup Checkouts \cup Names \cup Entry
  /\ Rank \in [Clients \cup Checkouts -> Nat]
  /\ Bin \in [Procs -> Binaries] /\ Written \subseteq Managed \cup {Manual}
  /\ DefaultNames \in [Checkouts -> Seq(Names)]
  /\ Requests \subseteq {req \in Request : req.kind # "none"} /\ Synced \subseteq Checkouts
  /\ {MaxSetups, MaxEdits, MaxFaults} \subseteq Nat

VARIABLES
  config,    \* the configuration file of each client
  manifest,  \* mcp-registrations.json
  lock,      \* the process that holds the manifest's lock
  loc,       \* the memory of each process
  users,     \* the entries that a user has written or edited since Graphi's last receipt for them
  setups, edits, faults, \* how often setup ran, a user edited and something failed
  edited     \* the files that users have edited

vars == <<config, manifest, lock, loc, users, setups, edits, faults, edited>>
counters == <<setups, edits, faults, edited>>

NoManifest == [reg |-> [r \in Checkouts |-> None], receipts |-> {}, pending |-> {}, policy |-> {}]
NoRequest  == [kind |-> "none", stores |-> {}, clients |-> {}, name |-> None, adopt |-> FALSE, auto |-> FALSE]
Idle == [pc |-> "idle", req |-> NoRequest, sync |-> FALSE, policies |-> {}, held |-> NoManifest,
         mem |-> NoManifest, removed |-> {}, names |-> [r \in Checkouts |-> None],
         stores |-> {}, clients |-> {}, change |-> None]
NoConfig == [entries |-> [n \in Names |-> None], other |-> 0]

(* Every variable has its type, and a manifest has one receipt for a       *)
(* checkout, client and name and at most one unsettled change for a        *)
(* client.                                                                 *)
TypeOK ==
  /\ config \in [Clients -> Config] /\ lock \in Procs \cup {None}
  /\ manifest \in Manifest /\ loc \in [Procs -> Local]
  /\ \A a, b \in manifest.receipts :
        a.checkout = b.checkout /\ a.client = b.client /\ a.name = b.name => a = b
  /\ \A a, b \in manifest.pending : a.receipt.client = b.receipt.client => a = b
  /\ users \subseteq Clients \X Names
  /\ setups \in 0..MaxSetups /\ edits \in 0..MaxEdits /\ edited \subseteq Clients /\ faults \in 0..MaxFaults

Init ==
  /\ config = [c \in Clients |-> NoConfig]
  /\ manifest = NoManifest
  /\ lock = None
  /\ loc = [p \in Procs |-> Idle]
  /\ users = {} /\ setups = 0 /\ edits = 0 /\ edited = {} /\ faults = 0

First(S) == CHOOSE x \in S : \A y \in S : Rank[x] <= Rank[y]

(***************************************************************************)
(* The manifest.                                                           *)
(***************************************************************************)

SameKey(a, b) == a.checkout = b.checkout /\ a.client = b.client /\ a.name = b.name

(* findReceipt, receiptIndex *)
ReceiptsFor(m, r, c, n) == {x \in m.receipts : x.checkout = r /\ x.client = c /\ x.name = n}

UpsertPending(m, ch) ==
  [m EXCEPT !.pending = {x \in @ : ~SameKey(x.receipt, ch.receipt)} \cup {ch}]

(* Mutant of RecoverPending: a receipt does not replace the older one.     *)
RecoverPendingAppending(m, ch, observed) ==
  LET dropped == [m EXCEPT !.pending = @ \ {ch}] IN
  CASE observed = ch.target /\ ch.remove -> [dropped EXCEPT !.receipts = {x \in @ : ~SameKey(x, ch.receipt)}]
    [] observed = ch.target /\ ~ch.remove -> [dropped EXCEPT !.receipts = @ \cup {ch.receipt}]
    [] observed # ch.target /\ observed = ch.before -> dropped
    [] OTHER -> m

(* The target confirms the change, the state before it drops it, and any   *)
(* third state leaves it pending.                                          *)
RecoverPending(m, ch, observed) ==
  LET dropped == [m EXCEPT !.pending = @ \ {ch}] IN
  CASE observed = ch.target ->
         [dropped EXCEPT !.receipts = {x \in @ : ~SameKey(x, ch.receipt)} \cup (IF ch.remove THEN {} ELSE {ch.receipt})]
    [] observed # ch.target /\ observed = ch.before -> dropped
    [] OTHER -> m

PendingOf(m, cs) == {ch \in m.pending : ch.receipt.client \in cs}

(* Mutant of Conflicts: what has not been written is never retried.        *)
ConflictsUnlessDone(m, cs) == {ch \in PendingOf(m, cs) : config[ch.receipt.client] # ch.target}

(* Pending changes whose file is in a third state.                         *)
Conflicts(m, cs) == {ch \in PendingOf(m, cs) : config[ch.receipt.client] \notin {ch.before, ch.target}}

(* Every pending change of the clients, against their files.  A client has *)
(* one at most, so that the order and an early return do not matter.       *)
Recovered(m, cs) ==
  LET completed == {ch \in PendingOf(m, cs) : config[ch.receipt.client] = ch.target} IN
  [m EXCEPT !.pending = (@ \ PendingOf(m, cs)) \cup Conflicts(m, cs),
            !.receipts = {x \in @ : \A ch \in completed : ~SameKey(x, ch.receipt)}
                         \cup {ch.receipt : ch \in {d \in completed : ~d.remove}}]

(***************************************************************************)
(* Names and ownership.                                                    *)
(***************************************************************************)

(* The names that the clients' files already hold; an adopted name is not  *)
(* reserved against its adopter.                                           *)
reservedNames(req) ==
  {n \in Names : \E c \in req.clients : config[c].entries[n] # None}
    \ (IF req.adopt THEN {req.name} ELSE {})

(* A registered checkout keeps its name; another gets the explicit one or  *)
(* the first default that no registration, entry or earlier checkout uses. *)
Allocated(names, m, req) ==
  /\ \A r \in Checkouts \ req.stores : names[r] = None
  /\ \A r \in req.stores :
       LET used == {m.reg[s] : s \in Checkouts} \cup reservedNames(req)
                     \cup {names[s] : s \in {t \in req.stores : Rank[t] < Rank[r]}}
           free == {i \in 1..Len(DefaultNames[r]) : DefaultNames[r][i] \notin used}
       IN  CASE m.reg[r] # None -> names[r] = m.reg[r] /\ req.name \in {None, m.reg[r]}
             [] m.reg[r] = None /\ req.name # None -> names[r] = req.name /\ req.name \notin used
             [] OTHER -> \E i \in free : names[r] = DefaultNames[r][i] /\ \A j \in free : i <= j

(* An owned entry must be there with the fields that Graphi wrote; one     *)
(* without a receipt is changed only if it is adopted and already binds    *)
(* the checkout.                                                           *)
AuthorizeEntry(m, r, c, n, want, adopt) ==
  LET owned == ReceiptsFor(m, r, c, n)
      now   == config[c].entries[n]
  IN  \/ owned # {} /\ now # None /\ \A x \in owned : now.managed = x.managed
      \/ owned = {} /\ (now # None => adopt /\ now.managed = want)

(* Mutant of Merged: the entry is replaced.                                *)
MergedFresh(now, want) == [managed |-> want, extra |-> FALSE]

(* mergeServerEntry keeps the fields that are not Graphi's.                *)
Merged(now, want) == [managed |-> want, extra |-> IF now = None THEN FALSE ELSE now.extra]

With(c, n, e) == [config[c] EXCEPT !.entries[n] = e]

(* NewClientReceipt and the digests of PlanEntryState.                     *)
Announced(r, c, n, want) ==
  LET e == Merged(config[c].entries[n], want)
  IN  [receipt |-> [checkout |-> r, client |-> c, name |-> n, managed |-> want, entry |-> e],
       before |-> config[c], target |-> With(c, n, e), remove |-> FALSE]

(***************************************************************************)
(* Steps of a process.                                                     *)
(***************************************************************************)

At(p, s) == loc[p].pc = s
Store(p)  == First(loc[p].stores)
Client(p) == First(loc[p].clients)
Want(p)   == [checkout |-> Store(p), bin |-> Bin[p]]

Unlock(p) == lock' = IF lock = p THEN None ELSE lock

(* SaveManifest replaces the file by what the process has in memory.       *)
Save(m) == manifest' = m

(* executeUnlocked returns: setup is over, Reconcile goes on with the next *)
(* consented client.                                                       *)
Return(p) ==
  IF loc[p].sync
  THEN /\ loc' = [loc EXCEPT ![p] = [Idle EXCEPT !.pc = "policy", !.sync = TRUE, !.held = loc[p].held,
                                                  !.req.stores = loc[p].req.stores,
                                                  !.policies = loc[p].policies \ {First(loc[p].policies)}]]
       /\ UNCHANGED lock
  ELSE loc' = [loc EXCEPT ![p] = Idle] /\ Unlock(p)

(* Entries whose ownership a recovery has confirmed.                       *)
Settled(m, cs) == {<<ch.receipt.client, ch.receipt.name>> :
                     ch \in {d \in PendingOf(m, cs) : ~d.remove /\ config[d.receipt.client] = d.target}}

(* graphi setup --per-repo does nothing before it has the lock.            *)
Execute(p) ==
  /\ At(p, "idle") /\ setups < MaxSetups /\ setups' = setups + 1
  /\ lock = None /\ lock' = p
  /\ \E req \in Requests : loc' = [loc EXCEPT ![p] = [Idle EXCEPT !.pc = "load", !.req = req]]
  /\ UNCHANGED <<config, manifest, users, edits, faults, edited>>

(* Reconcile after a sync; without a policy it takes no lock.              *)
Sync(p) ==
  /\ At(p, "idle") /\ manifest.policy # {}
  /\ \E r \in Synced :
       loc' = [loc EXCEPT ![p] = [Idle EXCEPT !.pc = "lock", !.sync = TRUE, !.req.stores = {r},
                                              !.policies = manifest.policy]]
  /\ UNCHANGED <<config, manifest, lock, users, counters>>

(* lockManifest; the kernel frees the lock of a dead process.              *)
lockManifest(p) ==
  /\ At(p, "lock") /\ lock = None
  /\ lock' = p
  /\ loc' = [loc EXCEPT ![p].pc = "policies"]
  /\ UNCHANGED <<config, manifest, users, counters>>

(* Mutant of enabledPolicies: what was read before the lock is used.       *)
enabledPoliciesStale(p) ==
  /\ At(p, "policies")
  /\ loc' = [loc EXCEPT ![p].pc = "policy", ![p].held = manifest]
  /\ UNCHANGED <<config, manifest, lock, users, counters>>

(* The policies are read again under the lock.                             *)
enabledPolicies(p) ==
  /\ At(p, "policies")
  /\ loc' = [loc EXCEPT ![p].pc = "policy", ![p].policies = manifest.policy, ![p].held = manifest]
  /\ UNCHANGED <<config, manifest, lock, users, counters>>

(* Mutant of Policy: the manifest that was loaded first is saved.          *)
PolicyUnreloaded(p) ==
  /\ At(p, "policy") /\ loc[p].policies # {}
  /\ LET c == First(loc[p].policies)
         m == loc[p].held
         r == Recovered(m, {c})
     IN  /\ (IF r = m THEN UNCHANGED manifest ELSE Save(r))
         /\ users' = users \ Settled(m, {c})
         /\ IF Conflicts(m, {c}) # {}
            THEN loc' = [loc EXCEPT ![p].policies = @ \ {c}, ![p].held = r]
            ELSE loc' = [loc EXCEPT ![p].pc = "load", ![p].held = r, ![p].req.kind = "register", ![p].req.clients = {c}]
  /\ UNCHANGED <<config, lock, counters>>

(* One consented client: reload the manifest, settle what is pending for   *)
(* it, and register unless that is a conflict.                             *)
Policy(p) ==
  /\ At(p, "policy") /\ loc[p].policies # {}
  /\ LET c == First(loc[p].policies)
         r == Recovered(manifest, {c})
     IN  /\ Save(r)
         /\ users' = users \ Settled(manifest, {c})
         /\ IF Conflicts(manifest, {c}) # {}
            THEN loc' = [loc EXCEPT ![p].policies = @ \ {c}, ![p].held = r]
            ELSE loc' = [loc EXCEPT ![p].pc = "load", ![p].held = r, ![p].req.kind = "register", ![p].req.clients = {c}]
  /\ UNCHANGED <<config, lock, counters>>

Reconciled(p) ==
  /\ At(p, "policy") /\ loc[p].policies = {}
  /\ loc' = [loc EXCEPT ![p] = Idle] /\ Unlock(p)
  /\ UNCHANGED <<config, manifest, users, counters>>

(* executeUnlocked loads the manifest and settles what is pending for the  *)
(* requested clients; a conflict ends the request.                         *)
Load(p) ==
  /\ At(p, "load")
  /\ IF Conflicts(manifest, loc[p].req.clients) # {}
     THEN Return(p) /\ UNCHANGED <<manifest, users>>
     ELSE LET r == Recovered(manifest, loc[p].req.clients) IN
          /\ Save(r)
          /\ users' = users \ Settled(manifest, loc[p].req.clients)
          /\ loc' = [loc EXCEPT ![p].pc = IF loc[p].req.kind = "disable" THEN "disable" ELSE "allocate", ![p].mem = r,
                       ![p].removed = {ch.receipt : ch \in {d \in PendingOf(manifest, loc[p].req.clients) :
                                                              d.remove /\ config[d.receipt.client] = d.target}}]
          /\ UNCHANGED lock
  /\ UNCHANGED <<config, counters>>

Disable(p) ==
  /\ At(p, "disable")
  /\ Save([loc[p].mem EXCEPT !.policy = @ \ loc[p].req.clients])
  /\ Return(p)
  /\ UNCHANGED <<config, users, counters>>

(* The names of the stores, or a refusal.                                  *)
AllocateNames(p) ==
  /\ At(p, "allocate")
  /\ \/ \E names \in [Checkouts -> Names \cup {None}] :
          /\ Allocated(names, loc[p].mem, loc[p].req)
          /\ loc' = [loc EXCEPT ![p].pc = "store", ![p].names = names, ![p].stores = loc[p].req.stores]
          /\ UNCHANGED lock
     \/ /\ ~\E names \in [Checkouts -> Names \cup {None}] : Allocated(names, loc[p].mem, loc[p].req)
        /\ Return(p)
  /\ UNCHANGED <<config, manifest, users, counters>>

(* Mutant of preflightOwnership: unregistering gives up the name first.    *)
preflightOwnershipForgetting(p) ==
  /\ At(p, "store") /\ loc[p].stores # {}
  /\ LET r == Store(p)
         m == [loc[p].mem EXCEPT !.reg[r] = loc[p].names[r]]
     IN  IF loc[p].req.kind = "unregister"
         THEN /\ loc' = [loc EXCEPT ![p].pc = "remove", ![p].clients = loc[p].req.clients, ![p].mem.reg[r] = None]
              /\ Save([loc[p].mem EXCEPT !.reg[r] = None]) /\ UNCHANGED lock
         ELSE IF \A c \in loc[p].req.clients :
                   AuthorizeEntry(loc[p].mem, r, c, loc[p].names[r], Want(p), loc[p].req.adopt)
         THEN /\ Save(m)
              /\ loc' = [loc EXCEPT ![p].pc = "apply", ![p].clients = loc[p].req.clients, ![p].mem = m]
              /\ UNCHANGED lock
         ELSE Return(p) /\ UNCHANGED manifest
  /\ UNCHANGED <<config, users, counters>>

(* The next store: all its clients must authorise the entry before its     *)
(* name is recorded.                                                       *)
preflightOwnership(p) ==
  /\ At(p, "store") /\ loc[p].stores # {}
  /\ LET r == Store(p)
         m == [loc[p].mem EXCEPT !.reg[r] = loc[p].names[r]]
     IN  IF loc[p].req.kind = "unregister"
         THEN /\ loc' = [loc EXCEPT ![p].pc = "remove", ![p].clients = loc[p].req.clients]
              /\ UNCHANGED <<manifest, lock>>
         ELSE IF \A c \in loc[p].req.clients :
                   AuthorizeEntry(loc[p].mem, r, c, loc[p].names[r], Want(p), loc[p].req.adopt)
         THEN /\ Save(m)
              /\ loc' = [loc EXCEPT ![p].pc = "apply", ![p].clients = loc[p].req.clients, ![p].mem = m]
              /\ UNCHANGED lock
         ELSE Return(p) /\ UNCHANGED manifest
  /\ UNCHANGED <<config, users, counters>>

Announce(p, ch) ==
  LET m == UpsertPending(loc[p].mem, ch) IN
  /\ Save(m)
  /\ loc' = [loc EXCEPT ![p].pc = "write", ![p].mem = m, ![p].change = ch]
  /\ UNCHANGED lock

(* applyOne plans and authorises again, and announces the change.          *)
applyOne(p) ==
  /\ At(p, "apply") /\ loc[p].clients # {}
  /\ LET r == Store(p)
         c == Client(p)
         n == loc[p].names[r]
     IN  IF AuthorizeEntry(loc[p].mem, r, c, n, Want(p), loc[p].req.adopt)
         THEN Announce(p, Announced(r, c, n, Want(p)))
         ELSE Return(p) /\ UNCHANGED manifest
  /\ UNCHANGED <<config, users, counters>>

(* unregister: an entry whose removal recovery has just confirmed is done; *)
(* any other must have its receipt and be exactly the entry it names.      *)
unregister(p) ==
  /\ At(p, "remove") /\ loc[p].clients # {}
  /\ LET r == Store(p)
         c == Client(p)
         n == loc[p].names[r]
         owned == ReceiptsFor(loc[p].mem, r, c, n)
     IN  IF \E x \in loc[p].removed : x.checkout = r /\ x.client = c /\ x.name = n
         THEN loc' = [loc EXCEPT ![p].clients = @ \ {c}] /\ UNCHANGED <<manifest, lock>>
         ELSE IF \E x \in owned : config[c].entries[n] = x.entry
         THEN Announce(p, [receipt |-> CHOOSE x \in owned : TRUE, before |-> config[c],
                           target |-> With(c, n, None), remove |-> TRUE])
         ELSE Return(p) /\ UNCHANGED manifest
  /\ UNCHANGED <<config, users, counters>>

(* ApplyEntryObserved, RemoveEntryObserved: under the file's lock, if it   *)
(* is still the one that was read; a file that already has the entry is    *)
(* not written.                                                            *)
WriteConfig(p) ==
  /\ At(p, "write")
  /\ LET ch == loc[p].change
         c  == ch.receipt.client
     IN  IF config[c] = ch.before
         THEN /\ config' = [config EXCEPT ![c] = ch.target]
              /\ loc' = [loc EXCEPT ![p].pc = IF ch.target = ch.before THEN "confirm" ELSE "verify"]
         ELSE loc' = [loc EXCEPT ![p].pc = "failed"] /\ UNCHANGED config
  /\ UNCHANGED <<manifest, lock, users, counters>>

(* The file is read back after the rename.                                 *)
verifyWritten(p) ==
  /\ At(p, "verify")
  /\ LET ch == loc[p].change IN
     loc' = [loc EXCEPT ![p].pc = IF config[ch.receipt.client] = ch.target THEN "confirm" ELSE "restore"]
  /\ UNCHANGED <<config, manifest, lock, users, counters>>

(* Ownership is known by content only.                                     *)
Claimed(c, n, e) ==
  \E x \in manifest.receipts \cup {ch.receipt : ch \in manifest.pending} : x.client = c /\ x.name = n /\ x.entry = e

(* The entries of a file that are not Graphi's.                            *)
Theirs(c, file) == {u \in {c} \X Names : file.entries[u[2]] # None /\ ~Claimed(c, u[2], file.entries[u[2]])}

(* The whole backup is put back over whatever the file now holds; without  *)
(* a backup there was no file, and it is removed.                          *)
restore(p) ==
  /\ At(p, "restore")
  /\ LET ch == loc[p].change
         c  == ch.receipt.client
     IN  /\ config' = [config EXCEPT ![c] = ch.before]
         /\ users' = {u \in users : u[1] # c} \cup Theirs(c, ch.before)
  /\ loc' = [loc EXCEPT ![p].pc = "failed"]
  /\ UNCHANGED <<manifest, lock, counters>>

(* The backup, the write or the restore fails and leaves the file alone;   *)
(* the restore follows a read-back that fails.                             *)
WriteFails(p) ==
  /\ loc[p].pc \in {"write", "verify", "restore"} /\ faults < MaxFaults /\ faults' = faults + 1
  /\ loc' = [loc EXCEPT ![p].pc = IF At(p, "verify") THEN "restore" ELSE "failed"]
  /\ UNCHANGED <<config, manifest, lock, users, setups, edits, edited>>

(* A failed write is settled by what the file holds.                       *)
WriteFailed(p) ==
  /\ At(p, "failed")
  /\ LET ch == loc[p].change IN
     /\ Save(RecoverPending(loc[p].mem, ch, config[ch.receipt.client]))
     /\ users' = users \ Settled([loc[p].mem EXCEPT !.pending = {ch}], {ch.receipt.client})
  /\ Return(p)
  /\ UNCHANGED <<config, counters>>

(* A write is confirmed only by the target; otherwise the change stays     *)
(* announced.                                                              *)
Confirm(p) ==
  /\ At(p, "confirm")
  /\ LET ch == loc[p].change
         c  == ch.receipt.client
         m  == RecoverPending(loc[p].mem, ch, config[c])
     IN  IF config[c] = ch.target
         THEN /\ Save(m)
              /\ loc' = [loc EXCEPT ![p].pc = IF ch.remove THEN "remove" ELSE "apply", ![p].mem = m,
                                    ![p].change = None, ![p].clients = @ \ {c}]
              /\ users' = users \ {<<c, ch.receipt.name>>}
              /\ UNCHANGED lock
         ELSE Return(p) /\ UNCHANGED <<manifest, users>>
  /\ UNCHANGED <<config, counters>>

(* After its last client a checkout without receipts gives up its name.    *)
NextStore(p) ==
  /\ loc[p].pc \in {"apply", "remove"} /\ loc[p].clients = {}
  /\ LET r == Store(p)
         gone == At(p, "remove") /\ \A x \in loc[p].mem.receipts : x.checkout # r
         m == IF gone THEN [loc[p].mem EXCEPT !.reg[r] = None] ELSE loc[p].mem
     IN  /\ Save(m)
         /\ loc' = [loc EXCEPT ![p].pc = "store", ![p].mem = m, ![p].stores = @ \ {r}]
  /\ UNCHANGED <<config, lock, users, counters>>

(* Consent is recorded once every store is registered.                     *)
Executed(p) ==
  /\ At(p, "store") /\ loc[p].stores = {}
  /\ Save([loc[p].mem EXCEPT !.policy = @ \cup (IF loc[p].req.auto THEN loc[p].req.clients ELSE {})])
  /\ Return(p)
  /\ UNCHANGED <<config, users, counters>>

(***************************************************************************)
(* Failures, deaths and users.                                             *)
(***************************************************************************)

(* A read, a check of a store, a lock or a save fails, and so the request. *)
StepFails(p) ==
  /\ loc[p].pc \notin {"idle", "lock", "policies", "policy", "write", "verify", "restore"} /\ faults < MaxFaults /\ faults' = faults + 1
  /\ Return(p)
  /\ UNCHANGED <<config, manifest, users, setups, edits, edited>>

Die(p) ==
  /\ ~At(p, "idle") /\ faults < MaxFaults /\ faults' = faults + 1
  /\ loc' = [loc EXCEPT ![p] = Idle] /\ Unlock(p)
  /\ UNCHANGED <<config, manifest, users, setups, edits, edited>>

(* A user writes, edits or deletes an entry; one that is exactly what the  *)
(* manifest names is Graphi's again.                                       *)
UserEdits(c, n) ==
  /\ edits < MaxEdits /\ edits' = edits + 1 /\ edited' = edited \cup {c}
  /\ LET now == config[c].entries[n] IN
     \E e \in Entry \cup {None} :
       /\ e # now /\ (now = None => e.managed \in Written /\ ~e.extra)
       /\ now # None => e = None \/ e = [now EXCEPT !.managed = Manual] \/ e = [now EXCEPT !.extra = TRUE]
       /\ config' = [config EXCEPT ![c] = With(c, n, e)]
       /\ users' = IF e = None \/ Claimed(c, n, e) THEN users \ {<<c, n>>} ELSE users \cup {<<c, n>>}
  /\ UNCHANGED <<manifest, lock, loc, setups, faults>>

(* A user changes something else in the file.                              *)
UserEditsRest(c) ==
  /\ edits < MaxEdits /\ edits' = edits + 1 /\ edited' = edited \cup {c}
  /\ config' = [config EXCEPT ![c].other = 1 - @]
  /\ UNCHANGED <<manifest, lock, loc, users, setups, faults>>

Step(p) ==
  \/ lockManifest(p) \/ enabledPolicies(p) \/ Policy(p) \/ Reconciled(p) \/ Load(p) \/ Disable(p)
  \/ AllocateNames(p) \/ preflightOwnership(p) \/ applyOne(p) \/ unregister(p) \/ WriteConfig(p)
  \/ verifyWritten(p) \/ restore(p) \/ WriteFailed(p) \/ Confirm(p) \/ NextStore(p) \/ Executed(p)

Next ==
  \/ \E p \in Procs : Execute(p) \/ Sync(p) \/ Step(p) \/ WriteFails(p) \/ StepFails(p) \/ Die(p)
  \/ \E c \in Clients : UserEditsRest(c) \/ \E n \in Names : UserEdits(c, n)

(* A process that runs goes on, and syncs keep being run.                  *)
Fairness == \A p \in Procs : WF_vars(Step(p)) /\ WF_vars(Sync(p))

Spec == Init /\ [][Next]_vars /\ Fairness

(***************************************************************************)
(* Properties.                                                             *)
(***************************************************************************)

(* A writer is about to put its backup back over a save that was made      *)
(* after its rename.                                                       *)
Overtaken(c) ==
  \E p \in Procs : At(p, "restore") /\ loc[p].change.receipt.client = c /\ config[c] # loc[p].change.target

(* A step keeps the rest of a file, and every entry that a user has        *)
(* written or edited since Graphi last confirmed it: it is not removed,    *)
(* keeps its extra fields, and changes its binding only from the one of a  *)
(* receipt, or back to it.                                                 *)
KeptIn(c) ==
  /\ config'[c].other = config[c].other
  /\ \A n \in {k \in Names : <<c, k>> \in users} :
       LET was == config[c].entries[n]
           is  == config'[c].entries[n]
       IN  /\ is # None /\ is.extra = was.extra
           /\ \/ is.managed = was.managed
              \/ \E x \in manifest.receipts : x.client = c /\ x.name = n /\ x.managed \in {was.managed, is.managed}

(* No process changes what is not Graphi's, also one that puts its backup  *)
(* back (AuthorizeEntry, mergeServerEntry, requireObservedDigest,          *)
(* restore).  The one exception is a save between the rename of a writer   *)
(* and the restore of its backup, which is lost.                           *)
UserWorkKept == [][edits' = edits => \A c \in Clients : Overtaken(c) \/ KeptIn(c)]_vars

(* An entry that Graphi wrote and no user touched has a receipt or an      *)
(* announced change, whatever died or failed: none is orphaned (the        *)
(* pending protocol of applyOne and unregister).                           *)
OwnedOrAnnounced ==
  \A c \in Clients, n \in Names :
    config[c].entries[n] # None /\ <<c, n>> \notin users =>
      \E x \in manifest.receipts \cup {ch.receipt : ch \in manifest.pending} : x.client = c /\ x.name = n

(* A checkout is unregistered from all clients at once (--client all).     *)
UnregistersEverywhere == \A req \in Requests : req.kind = "unregister" => req.clients = Clients

(* What is registered keeps its name: a receipt names the server by the    *)
(* name that its checkout is registered under, which setup needs to find   *)
(* it again (AllocateNames, removeRegistration).                           *)
NamesStable == \A x \in manifest.receipts : manifest.reg[x.checkout] = x.name

(* A sync writes only to clients that are consented to at that moment, also *)
(* when the consent is withdrawn while it waits for the lock (Reconcile).  *)
Consented ==
  \A p \in Procs : loc[p].pc \in {"write", "verify", "restore"} /\ loc[p].sync => loc[p].change.receipt.client \in manifest.policy

(* In a consented client's file that no user edits, every synced checkout  *)
(* ends up registered for good, whatever processes died or failed and      *)
(* whatever users did to the other files (Reconcile, RecoverPending).      *)
AutoRegisters ==
  <>[](\A c \in manifest.policy, r \in Synced :
         c \notin edited =>
           \E x \in manifest.receipts :
              /\ x.checkout = r /\ x.client = c
              /\ \/ config[c].entries[x.name] = x.entry
                 \/ \E ch \in manifest.pending : SameKey(ch.receipt, x) /\ config[c] = ch.target)
=============================================================================
