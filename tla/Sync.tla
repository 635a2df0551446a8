-------------------------------- MODULE Sync --------------------------------
(***************************************************************************)
(* SyncService: devices push the operations they queued while offline and  *)
(* pull those of other devices.  A push handles its operations one by one, *)
(* and each await is a step: a device that got no answer pushes again, also *)
(* while its first request is still being handled, a request can die between *)
(* any two steps, and a statement can fail.                                 *)
(*                                                                         *)
(* Devices are ACTIVE: no service gives them another status.  No service    *)
(* gives an operation the status CONFLICT or PENDING either.                *)
(***************************************************************************)
EXTENDS Integers, Sequences, FiniteSetsExt

CONSTANTS
  Device,
  Key,             \* idempotency keys
  Entity,
  EntityOf,        \* the entity that the operation of a key creates
  Origin,          \* the device that queued it
  Supported,       \* the keys with a CREATE of a known type and a valid payload
  Queue,           \* the operations each device has queued, in order
  Push,            \* requests that may be under way at the same time
  Sender,          \* the device each of them comes from
  Limit,           \* the size of a page of pullOperations
  MaxFaults        \* bound: how many requests may die and statements fail

ASSUME SyncAssumption ==
  /\ EntityOf \in [Key -> Entity]
  /\ Origin \in [Key -> Device]
  /\ Supported \subseteq Key
  /\ Queue \in [Device -> Seq(Key)]
  /\ Sender \in [Push -> Device]
  /\ Limit \in Nat \ {0}
  /\ MaxFaults \in Nat
  /\ IsFiniteSet(Key)

VARIABLES
  status,         \* of the SyncOperation of each key, "NONE" when there is none
  sequence,       \* its autoincremented number, 0 when there is none
  lastNumber,     \* the last number that the database gave
  created,        \* how often the rows and effects of an entity were committed
  stage,          \* how far each push has come with its first operation
  todo,           \* the operations it has still to handle, that one included
  found,          \* whether its findUnique found a SyncOperation
  number,         \* the number that its insert has taken, 0 outside the insert
  answer,         \* the operations its results report as SYNCED
  acked,          \* the operations that a device has seen reported as SYNCED
  cursor,         \* the cursor each device pulls from
  pulled,         \* the operations it has received
  late,           \* history: those not SYNCED when its cursor passed their number
  faults

serverVars == <<status, sequence, lastNumber, created>>
pushVars   == <<stage, todo, found, number, answer>>
pullVars   == <<cursor, pulled, late>>
vars == <<serverVars, pushVars, acked, pullVars, faults>>

Status == {"NONE", "SYNCING", "SYNCED", "FAILED"}
Stage  == {"idle", "find", "mark", "insert", "apply", "create", "succeed", "fail"}

Init ==
  /\ status   = [k \in Key |-> "NONE"]
  /\ sequence = [k \in Key |-> 0]
  /\ lastNumber = 0
  /\ created  = [e \in Entity |-> 0]
  /\ stage    = [p \in Push |-> "idle"]
  /\ todo     = [p \in Push |-> <<>>]
  /\ found    = [p \in Push |-> FALSE]
  /\ number   = [p \in Push |-> 0]
  /\ answer   = [p \in Push |-> {}]
  /\ acked    = {}
  /\ cursor   = [d \in Device |-> 0]
  /\ pulled   = [d \in Device |-> {}]
  /\ late     = [d \in Device |-> {}]
  /\ faults = 0

-----------------------------------------------------------------------------
(* A device, which is not in the repository: it pushes its queue until all  *)
(* of it is reported as SYNCED.                                             *)

Pending(d) == \E i \in DOMAIN Queue[d] : Queue[d][i] \notin acked

StartPush(p) ==
  /\ stage[p] = "idle"
  /\ Pending(Sender[p])
  /\ stage'  = [stage EXCEPT ![p] = "find"]
  /\ todo'   = [todo EXCEPT ![p] = Queue[Sender[p]]]
  /\ answer' = [answer EXCEPT ![p] = {}]
  /\ UNCHANGED <<serverVars, found, number, acked, pullVars, faults>>

-----------------------------------------------------------------------------
(* pushOperations. *)

Current(p) == Head(todo[p])
At(p, s)   == stage[p] = s /\ todo[p] # <<>>

Proceed(p, s) ==
  /\ stage' = [stage EXCEPT ![p] = s]
  /\ UNCHANGED <<todo, answer>>

\* `results.push` and the next operation.
NextOperation(p, reported) ==
  /\ stage'  = [stage EXCEPT ![p] = "find"]
  /\ todo'   = [todo EXCEPT ![p] = Tail(@)]
  /\ answer' = [answer EXCEPT ![p] = @ \cup reported]

\* The request ends without an answer.
Vanish(p) ==
  /\ stage'  = [stage EXCEPT ![p] = "idle"]
  /\ todo'   = [todo EXCEPT ![p] = <<>>]
  /\ answer' = [answer EXCEPT ![p] = {}]

\* Mutant: an operation that is SYNCING is left to the request that began it.
FindOperationInProgress(p) ==
  /\ At(p, "find")
  /\ IF status[Current(p)] \in {"SYNCED", "SYNCING"}
     THEN /\ NextOperation(p, IF status[Current(p)] = "SYNCED" THEN {Current(p)} ELSE {})
          /\ UNCHANGED found
     ELSE /\ found' = [found EXCEPT ![p] = status[Current(p)] # "NONE"]
          /\ Proceed(p, "mark")
  /\ UNCHANGED <<serverVars, number, acked, pullVars, faults>>

\* An operation that is SYNCED already is reported as a duplicate.
FindOperation(p) ==
  /\ At(p, "find")
  /\ IF status[Current(p)] = "SYNCED"
     THEN NextOperation(p, {Current(p)}) /\ UNCHANGED found
     ELSE /\ found' = [found EXCEPT ![p] = status[Current(p)] # "NONE"]
          /\ Proceed(p, "mark")
  /\ UNCHANGED <<serverVars, number, acked, pullVars, faults>>

\* The SyncOperation is updated, whatever its status is by now, or an insert takes
\* the next number.
MarkSyncing(p) ==
  /\ At(p, "mark")
  /\ \/ /\ found[p]
        /\ status' = [status EXCEPT ![Current(p)] = "SYNCING"]
        /\ Proceed(p, "apply")
        /\ UNCHANGED <<lastNumber, number>>
     \/ /\ ~found[p]
        /\ lastNumber' = lastNumber + 1
        /\ number' = [number EXCEPT ![p] = lastNumber + 1]
        /\ Proceed(p, "insert")
        /\ UNCHANGED status
  /\ UNCHANGED <<sequence, created, found, acked, pullVars, faults>>

\* The insert is committed, and others see the row.  One that comes second breaks
\* the unique key, outside the try block.
InsertOperation(p) ==
  /\ At(p, "insert")
  /\ LET k == Current(p)
     IN  \/ /\ status[k] = "NONE"
            /\ status'   = [status EXCEPT ![k] = "SYNCING"]
            /\ sequence' = [sequence EXCEPT ![k] = number[p]]
            /\ Proceed(p, "apply")
         \/ /\ status[k] # "NONE"
            /\ Vanish(p)
            /\ UNCHANGED <<status, sequence>>
  /\ number' = [number EXCEPT ![p] = 0]
  /\ UNCHANGED <<lastNumber, created, found, acked, pullVars, faults>>

\* The update, lookup or create of the try block fails: the catch block is next.
Fault(p) ==
  /\ faults < MaxFaults
  /\ faults' = faults + 1
  /\ Proceed(p, "fail")

\* parsePayload and applyOperation, up to the look for the entity, which can fail.
ApplyOperation(p) ==
  /\ At(p, "apply")
  /\ LET k == Current(p)
     IN  \/ k \notin Supported /\ Proceed(p, "fail") /\ UNCHANGED faults
         \/ /\ k \in Supported
            /\ Proceed(p, IF created[EntityOf[k]] > 0 THEN "succeed" ELSE "create")
            /\ UNCHANGED faults
         \/ k \in Supported /\ Fault(p)
  /\ UNCHANGED <<serverVars, found, number, acked, pullVars>>

\* Mutant: a refusal of the service is logged and forgotten.
CreateEntitySwallowing(p) ==
  /\ At(p, "create")
  /\ LET e == EntityOf[Current(p)]
     IN  \/ UNCHANGED created
         \/ created[e] = 0 /\ created' = [created EXCEPT ![e] = 1]
  /\ Proceed(p, "succeed")
  /\ UNCHANGED <<status, sequence, lastNumber, found, number, acked, pullVars, faults>>

\* Mutant: the service does not take the id of the DTO over, and its row gets one
\* of its own.
CreateEntityAnew(p) ==
  /\ At(p, "create")
  /\ \/ Proceed(p, "fail") /\ UNCHANGED created
     \/ /\ created' = [created EXCEPT ![EntityOf[Current(p)]] = @ + 1]
        /\ \E s \in {"succeed", "fail"} : Proceed(p, s)
  /\ UNCHANGED <<status, sequence, lastNumber, found, number, acked, pullVars, faults>>

\* createProduct, createCustomer, createSale or createPurchase with the entity's
\* id.  It can refuse or fail; another request may have taken the id, which is
\* the primary key, since the look for it; and it can commit with its answer lost.
CreateEntity(p) ==
  /\ At(p, "create")
  /\ LET e == EntityOf[Current(p)]
     IN  \/ Proceed(p, "fail") /\ UNCHANGED created
         \/ /\ created[e] = 0
            /\ created' = [created EXCEPT ![e] = @ + 1]
            /\ \E s \in {"succeed", "fail"} : Proceed(p, s)
  /\ UNCHANGED <<status, sequence, lastNumber, found, number, acked, pullVars, faults>>

\* The update of the try block.  It can fail, or commit with its answer lost.
MarkSynced(p) ==
  /\ At(p, "succeed")
  /\ LET synced == [status EXCEPT ![Current(p)] = "SYNCED"]
     IN  \/ status' = synced /\ NextOperation(p, {Current(p)}) /\ UNCHANGED faults
         \/ status' \in {status, synced} /\ Fault(p)
  /\ UNCHANGED <<sequence, lastNumber, created, found, number, acked, pullVars>>

\* Mutant: the catch block leaves the operation to a review.
MarkConflict(p) ==
  /\ At(p, "fail")
  /\ status' = [status EXCEPT ![Current(p)] = "CONFLICT"]
  /\ NextOperation(p, {})
  /\ UNCHANGED <<sequence, lastNumber, created, found, number, acked, pullVars, faults>>

\* The catch block: also when another request has made the operation SYNCED.
MarkFailed(p) ==
  /\ At(p, "fail")
  /\ status' = [status EXCEPT ![Current(p)] = "FAILED"]
  /\ NextOperation(p, {})
  /\ UNCHANGED <<sequence, lastNumber, created, found, number, acked, pullVars, faults>>

\* The answer reaches the device.
Respond(p) ==
  /\ stage[p] = "find"
  /\ todo[p] = <<>>
  /\ acked' = acked \cup answer[p]
  /\ Vanish(p)
  /\ UNCHANGED <<serverVars, found, number, pullVars, faults>>

\* The process or a connection dies, or the answer is lost.
Interrupt(p) ==
  /\ stage[p] # "idle"
  /\ faults < MaxFaults
  /\ faults' = faults + 1
  /\ Vanish(p)
  /\ number' = [number EXCEPT ![p] = 0]
  /\ UNCHANGED <<serverVars, found, acked, pullVars>>

Handle(p) ==
  \/ FindOperation(p) \/ MarkSyncing(p) \/ InsertOperation(p) \/ ApplyOperation(p)
  \/ CreateEntity(p) \/ MarkSynced(p) \/ MarkFailed(p) \/ Respond(p)

-----------------------------------------------------------------------------
(* pullOperations. *)

Visible(d) ==
  {k \in Key : Origin[k] # d /\ status[k] = "SYNCED" /\ sequence[k] > cursor[d]}

\* Mutant: the newest operations come first.
PageNewest(d) ==
  {k \in Visible(d) : Cardinality({j \in Visible(d) : sequence[j] > sequence[k]}) < Limit}

\* `orderBy: { sequence: 'asc' }, take: normalizedLimit`
Page(d) ==
  {k \in Visible(d) : Cardinality({j \in Visible(d) : sequence[j] < sequence[k]}) < Limit}

\* The operations whose number is given and not above n, visible or not.
NumberedUpTo(n) ==
  {k \in Key : sequence[k] \in 1..n}
    \cup {Current(p) : p \in {q \in Push : At(q, "insert") /\ number[q] <= n}}

Pull(d) ==
  /\ Page(d) # {}
  /\ LET nextCursor == Max({sequence[k] : k \in Page(d)})
     IN  /\ cursor' = [cursor EXCEPT ![d] = nextCursor]
         /\ late' = [late EXCEPT ![d] = @ \cup
              {k \in NumberedUpTo(nextCursor) : status[k] # "SYNCED"}]
  /\ pulled' = [pulled EXCEPT ![d] = @ \cup Page(d)]
  /\ UNCHANGED <<serverVars, pushVars, acked, faults>>

-----------------------------------------------------------------------------
\* Every operation is acknowledged: the devices rest.
AtRest ==
  /\ \A p \in Push : stage[p] = "idle" /\ ~Pending(Sender[p])
  /\ \A d \in Device : Page(d) = {}
  /\ UNCHANGED vars

Next ==
  \/ \E p \in Push : StartPush(p) \/ Handle(p) \/ Interrupt(p)
  \/ \E d \in Device : Pull(d)
  \/ AtRest

Spec == Init /\ [][Next]_vars

\* A device retries what is pending, and the event loop runs every continuation
\* whose statement has answered.
FairSpec == Spec /\ \A p \in Push : WF_vars(StartPush(p)) /\ WF_vars(Handle(p))

-----------------------------------------------------------------------------
TypeOK ==
  /\ status   \in [Key -> Status]
  /\ sequence \in [Key -> Nat]
  /\ lastNumber \in Nat
  /\ created  \in [Entity -> Nat]
  /\ stage    \in [Push -> Stage]
  /\ todo     \in [Push -> Seq(Key)]
  /\ found    \in [Push -> BOOLEAN]
  /\ number   \in [Push -> Nat]
  /\ answer   \in [Push -> SUBSET Key]
  /\ acked    \subseteq Key
  /\ cursor   \in [Device -> Nat]
  /\ pulled   \in [Device -> SUBSET Key]
  /\ late     \in [Device -> SUBSET Key]
  /\ faults \in 0..MaxFaults

\* However often and however concurrently an operation is pushed, retried and
\* interrupted, the rows and effects of its entity are committed at most once, and
\* a device that saw it reported as SYNCED can rely on them.
Delivered == INSTANCE Delivery
DeliversExactlyOnce == Delivered!Spec

\* An operation that other devices can pull has been applied.
SyncedIsApplied == \A k \in Key : status[k] = "SYNCED" => created[EntityOf[k]] > 0

\* A device has received every SYNCED operation of the others that its cursor has
\* passed, except those that were still being handled, or had failed, when it did.
MissedOnlyWhenLate ==
  \A d \in Device, k \in Key :
    Origin[k] # d /\ status[k] = "SYNCED" /\ sequence[k] <= cursor[d] =>
      k \in pulled[d] \cup late[d]

\* The same without exception.
NothingMissed ==
  \A d \in Device, k \in Key :
    Origin[k] # d /\ status[k] = "SYNCED" /\ sequence[k] <= cursor[d] => k \in pulled[d]

\* An operation whose entity exists is in the end reported to its device, also
\* when the request that created it died or another one marked it FAILED.
Acknowledged == \A k \in Key : (k \in Supported /\ created[EntityOf[k]] > 0) ~> k \in acked
=============================================================================
