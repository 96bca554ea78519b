---------------------------- MODULE AtomicEdits -----------------------------
(***************************************************************************)
(* What an edit, a refactoring or an undo promises: all of its files       *)
(* change in one step and the index with them, or nothing changes.  Only a *)
(* process that dies, or a rollback that fails, leaves a mixture of old    *)
(* and new files, and each file is one or the other.                       *)
(***************************************************************************)
EXTENDS Integers

CONSTANTS
  Files, Contents,
  Layer(_),  \* what a full pass puts into the index for a content
  Ids        \* identities of requests

None == [id |-> 0, touched |-> {}, new |-> <<>>, disturbed |-> {}, state |-> "none"]

VARIABLES
  files,    \* the tree
  index,    \* the index of each file
  request,  \* the request that is carried out
  log,      \* the change records
  whole     \* has no request been torn since the last full pass?

avars == <<files, index, request, log, whole>>

Exact(t) == [f \in Files |-> Layer(t[f])]

Init ==
  /\ files \in [Files -> Contents] /\ index = Exact(files)
  /\ request = None /\ log = {} /\ whole = TRUE

UserWrites(f) ==
  /\ f \notin request.touched \/ request.state = "accepted"
  /\ \E c \in Contents : files' = [files EXCEPT ![f] = c]
  /\ request' = IF request.state = "pending" THEN [request EXCEPT !.disturbed = @ \cup {f}] ELSE request
  /\ UNCHANGED <<index, log, whole>>

FullPass ==
  /\ request = None
  /\ index' = Exact(files) /\ whole' = TRUE
  /\ UNCHANGED <<files, request, log>>

Ask ==
  /\ request = None
  /\ \E i \in Ids \ log, t \in SUBSET Files :
       \E n \in [t -> Contents] : 
         request' = [id |-> i, touched |-> t, new |-> n, disturbed |-> {}, state |-> "pending"]
  /\ UNCHANGED <<files, index, log, whole>>

(* The request is done, with a record or with one to come, or to be lost.  *)
(* The index is exact, but for files that users wrote meanwhile.           *)
Accept ==
  /\ request.state = "pending"
  /\ files' = [f \in Files |-> IF f \in request.touched THEN request.new[f] ELSE files[f]]
  /\ index' \in [Files -> SUBSET Contents]
  /\ \A f \in Files \ request.disturbed : index'[f] = Layer(files'[f])
  /\ \/ request' = [request EXCEPT !.state = "accepted", !.disturbed = {}] /\ UNCHANGED log
     \/ request' = None /\ log' \in {log, log \cup {request.id}}
  /\ UNCHANGED whole

Reject ==
  /\ request.state = "pending"
  /\ request' = None
  /\ UNCHANGED <<files, index, log, whole>>

Record ==
  /\ request.state = "accepted"
  /\ request' = None /\ log' \in {log, log \cup {request.id}}
  /\ UNCHANGED <<files, index, whole>>

Tear ==
  /\ request # None
  /\ request' = None /\ whole' = FALSE
  /\ \A f \in Files : files'[f] = files[f] \/ (f \in request.touched /\ files'[f] = request.new[f])
  /\ UNCHANGED log

Next == (\E f \in Files : UserWrites(f)) \/ FullPass \/ Ask \/ Accept \/ Reject \/ Record \/ Tear

Spec == Init /\ [][Next]_avars
=============================================================================
