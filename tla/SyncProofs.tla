----------------------------- MODULE SyncProofs -----------------------------
(* Sync implements Delivery; and what the cursors of pullOperations pass   *)
(* over.  For any number of devices, pushes, operations and keys.           *)
EXTENDS Sync, SequenceTheorems, FiniteSetTheorems, TLAPS

\* What a push is about to report as SYNCED, what it has reported, what a device
\* has seen reported, and what other devices can pull has all been applied.
Applied(k) == created[EntityOf[k]] > 0

SyncInv ==
  /\ status   \in [Key -> Status]
  /\ created  \in [Entity -> {0, 1}]
  /\ stage    \in [Push -> Stage]
  /\ todo     \in [Push -> Seq(Key)]
  /\ answer   \in [Push -> SUBSET Key]
  /\ acked    \subseteq Key
  /\ SyncedIsApplied
  /\ \A k \in acked : Applied(k)
  /\ \A p \in Push : \A k \in answer[p] : Applied(k)
  /\ \A p \in Push : stage[p] = "succeed" => todo[p] # <<>> /\ Applied(Head(todo[p]))

\* created[e] is 0 or 1.
LEMMA OnceAtMost ==
  ASSUME SyncInv, NEW k \in Key
  PROVE  EntityOf[k] \in Entity /\ created[EntityOf[k]] \in {0, 1}
BY SyncAssumption DEF SyncInv

\* The first operation of a push is an operation, and so are those after it.
LEMMA CurrentIsKey ==
  ASSUME SyncInv, NEW p \in Push, todo[p] # <<>>
  PROVE  Head(todo[p]) \in Key /\ Tail(todo[p]) \in Seq(Key)
<1>1. todo[p] \in Seq(Key)
  BY DEF SyncInv
<1> QED BY <1>1

\* Every step keeps the invariant.
LEMMA SyncInvariant == Spec => []SyncInv
<1>1. Init => SyncInv
  BY SyncAssumption DEF Init, SyncInv, Status, Stage, SyncedIsApplied
<1>2. SyncInv /\ [Next]_vars => SyncInv'
  <2> SUFFICES ASSUME SyncInv, [Next]_vars PROVE SyncInv'
    OBVIOUS
  <2> USE DEF SyncInv, SyncedIsApplied, Applied, Stage, Status
  <2>1. ASSUME NEW p \in Push, StartPush(p) PROVE SyncInv'
    <3>1. Queue[Sender[p]] \in Seq(Key)
      BY SyncAssumption
    <3> QED BY <2>1, <3>1 DEF StartPush, serverVars
  <2>2. ASSUME NEW p \in Push, FindOperation(p) PROVE SyncInv'
    <3> DEFINE k == Head(todo[p])
    <3>1. k \in Key /\ Tail(todo[p]) \in Seq(Key) /\ stage[p] = "find"
      BY <2>2, CurrentIsKey DEF FindOperation, At
    <3>2. UNCHANGED <<serverVars, acked>>
      BY <2>2 DEF FindOperation
    <3>3. CASE status[k] = "SYNCED"
      <4>1. Applied(k)
        BY <3>1, <3>3
      <4>2. NextOperation(p, {k})
        BY <2>2, <3>3 DEF FindOperation, Current
      <4> QED BY <3>1, <3>2, <4>1, <4>2 DEF NextOperation, serverVars
    <3>4. CASE status[k] # "SYNCED"
      <4>1. Proceed(p, "mark")
        BY <2>2, <3>4 DEF FindOperation, Current
      <4> QED BY <3>2, <4>1 DEF Proceed, serverVars
    <3> QED BY <3>3, <3>4
  <2>3. ASSUME NEW p \in Push, MarkSyncing(p) \/ InsertOperation(p) PROVE SyncInv'
    <3> DEFINE k == Head(todo[p])
    <3>1. k \in Key /\ UNCHANGED <<created, acked>>
      BY <2>3, CurrentIsKey DEF MarkSyncing, InsertOperation, At
    <3>2. CASE status' = [status EXCEPT ![k] = "SYNCING"] /\ Proceed(p, "apply")
      BY <3>1, <3>2 DEF Proceed
    <3>3. CASE UNCHANGED status /\ Vanish(p)
      BY <3>1, <3>3 DEF Vanish
    <3>4. CASE UNCHANGED status /\ Proceed(p, "insert")
      BY <3>1, <3>4 DEF Proceed
    <3> QED BY <2>3, <3>2, <3>3, <3>4 DEF MarkSyncing, InsertOperation, Current
  <2>4. ASSUME NEW p \in Push, ApplyOperation(p) PROVE SyncInv'
    BY <2>4, CurrentIsKey DEF ApplyOperation, At, Current, Proceed, Fault, serverVars
  <2>5. ASSUME NEW p \in Push, CreateEntity(p) PROVE SyncInv'
    <3>1. EntityOf[Current(p)] \in Entity /\ UNCHANGED <<status, acked>>
      BY <2>5, CurrentIsKey, SyncAssumption DEF CreateEntity, At, Current
    <3>2. CASE UNCHANGED created /\ Proceed(p, "fail")
      BY <3>1, <3>2 DEF Proceed
    <3>3. CASE /\ created[EntityOf[Current(p)]] = 0
               /\ created' = [created EXCEPT ![EntityOf[Current(p)]] = @ + 1]
               /\ \E s \in {"succeed", "fail"} : Proceed(p, s)
      <4>1. /\ created' \in [Entity -> {0, 1}]
            /\ \A e \in Entity : created[e] > 0 => created'[e] > 0
            /\ created'[EntityOf[Current(p)]] > 0
        BY <3>1, <3>3
      <4>2. \A k \in Key : created[EntityOf[k]] > 0 => created'[EntityOf[k]] > 0
        BY <4>1, SyncAssumption
      <4>3. \A q \in Push : stage'[q] = "succeed" =>
              todo'[q] # <<>> /\ created'[EntityOf[Head(todo'[q])]] > 0
        <5>3. \A q \in Push : stage'[q] = "succeed" => todo'[q] # <<>>
          BY <2>5, <3>3 DEF Proceed, CreateEntity, At, SyncInv
        <5> SUFFICES ASSUME NEW q \in Push, stage'[q] = "succeed"
                     PROVE  created'[EntityOf[Head(todo[q])]] > 0
          BY <3>3, <5>3 DEF Proceed
        <5>1. CASE q = p
          BY <4>1, <5>1 DEF Current
        <5>2. CASE q # p
          <6>1. stage[q] = "succeed" /\ todo[q] # <<>>
            BY <3>3, <5>2 DEF Proceed, SyncInv
          <6>2. EntityOf[Head(todo[q])] \in Entity
            BY <6>1, CurrentIsKey, SyncAssumption
          <6> QED BY <4>1, <6>1, <6>2
        <5> QED BY <5>1, <5>2
      <4>4. stage' \in [Push -> Stage] /\ UNCHANGED <<todo, answer>>
        BY <3>3 DEF Proceed
      <4> QED BY <3>1, <4>1, <4>2, <4>3, <4>4
    <3> QED BY <2>5, <3>2, <3>3 DEF CreateEntity
  <2>6. ASSUME NEW p \in Push, MarkSynced(p) PROVE SyncInv'
    <3>1. Current(p) \in Key /\ Tail(todo[p]) \in Seq(Key) /\ created[EntityOf[Current(p)]] > 0
      BY <2>6, CurrentIsKey DEF MarkSynced, At, Current
    <3>2. /\ UNCHANGED <<created, acked>>
          /\ status' \in {status, [status EXCEPT ![Current(p)] = "SYNCED"]}
          /\ NextOperation(p, {Current(p)}) \/ Proceed(p, "fail")
      BY <2>6 DEF MarkSynced, Fault
    <3>3. CASE NextOperation(p, {Current(p)})
      BY <3>1, <3>2, <3>3 DEF NextOperation
    <3>4. CASE Proceed(p, "fail")
      BY <3>1, <3>2, <3>4 DEF Proceed
    <3> QED BY <3>2, <3>3, <3>4
  <2>7. ASSUME NEW p \in Push, MarkFailed(p) PROVE SyncInv'
    BY <2>7, CurrentIsKey DEF MarkFailed, At, Current, NextOperation
  <2>8. ASSUME NEW p \in Push, Respond(p) PROVE SyncInv'
    BY <2>8 DEF Respond, Vanish, serverVars
  <2>9. ASSUME NEW p \in Push, Interrupt(p) PROVE SyncInv'
    BY <2>9 DEF Interrupt, Vanish, serverVars
  <2>10. ASSUME NEW d \in Device, Pull(d) PROVE SyncInv'
    BY <2>10 DEF Pull, serverVars, pushVars
  <2>11. ASSUME UNCHANGED vars PROVE SyncInv'
    BY <2>11 DEF vars, serverVars, pushVars
  <2> QED BY <2>1, <2>2, <2>3, <2>4, <2>5, <2>6, <2>7, <2>8, <2>9, <2>10, <2>11
          DEF Next, Handle, AtRest
<1> QED BY <1>1, <1>2, PTL DEF Spec

\* An operation that can be pulled has been applied.
THEOREM PullableIsApplied == Spec => []SyncedIsApplied
<1>1. SyncInv => SyncedIsApplied
  BY DEF SyncInv
<1> QED BY <1>1, SyncInvariant, PTL

\* Each step of Sync is a step of Delivery, or leaves its variables alone.
LEMMA StepRefines ==
  ASSUME SyncInv, [Next]_vars
  PROVE  [Delivered!Next]_<<created, acked>>
<1>1. ASSUME NEW p \in Push, StartPush(p) PROVE UNCHANGED <<created, acked>>
  BY <1>1 DEF StartPush, serverVars
<1>2. ASSUME NEW p \in Push, CreateEntity(p)
      PROVE  [Delivered!Next]_<<created, acked>>
  <2>1. EntityOf[Current(p)] \in Entity
    BY <1>2, CurrentIsKey, SyncAssumption DEF CreateEntity, At, Current
  <2>2. CASE UNCHANGED created
    BY <1>2, <2>2 DEF CreateEntity
  <2>3. CASE /\ created[EntityOf[Current(p)]] = 0
             /\ created' = [created EXCEPT ![EntityOf[Current(p)]] = @ + 1]
    <3>1. created' = [created EXCEPT ![EntityOf[Current(p)]] = 1]
      BY <2>1, <2>3 DEF SyncInv
    <3>2. Delivered!Apply(EntityOf[Current(p)])
      BY <1>2, <2>3, <3>1 DEF CreateEntity, Delivered!Apply
    <3> QED BY <2>1, <3>2 DEF Delivered!Next
  <2> QED BY <1>2, <2>2, <2>3 DEF CreateEntity
<1>3. ASSUME NEW p \in Push, Respond(p)
      PROVE  [Delivered!Next]_<<created, acked>>
  <2>1. answer[p] \in SUBSET Key
    BY DEF SyncInv
  <2>2. \A k \in answer[p] : created[EntityOf[k]] = 1
    BY <2>1, OnceAtMost DEF SyncInv, Applied
  <2>3. Delivered!Acknowledge(answer[p])
    BY <1>3, <2>2 DEF Respond, serverVars, Delivered!Acknowledge
  <2> QED BY <2>1, <2>3 DEF Delivered!Next
<1>4. ASSUME NEW p \in Push,
             \/ FindOperation(p) \/ MarkSyncing(p) \/ InsertOperation(p) \/ ApplyOperation(p)
             \/ MarkSynced(p) \/ MarkFailed(p) \/ Interrupt(p)
      PROVE  UNCHANGED <<created, acked>>
  BY <1>4 DEF FindOperation, MarkSyncing, InsertOperation, ApplyOperation, MarkSynced,
     MarkFailed, Interrupt, serverVars
<1>5. ASSUME NEW d \in Device, Pull(d) PROVE UNCHANGED <<created, acked>>
  BY <1>5 DEF Pull, serverVars
<1>6. ASSUME UNCHANGED vars PROVE UNCHANGED <<created, acked>>
  BY <1>6 DEF vars, serverVars
<1> QED BY <1>1, <1>2, <1>3, <1>4, <1>5, <1>6 DEF Next, Handle, AtRest

\* However pushes are repeated, overlap, fail and are interrupted, whichever
\* statements fail, and whatever is pulled meanwhile: the effects of an operation are
\* committed at most once, and it is acknowledged only when they are.
THEOREM ImplementsDelivery == Spec => DeliversExactlyOnce
<1>1. Init => Delivered!Init
  BY DEF Init, Delivered!Init
<1>2. SyncInv /\ [Next]_vars => [Delivered!Next]_<<created, acked>>
  BY StepRefines
<1> QED BY <1>1, <1>2, SyncInvariant, PTL DEF Spec, DeliversExactlyOnce, Delivered!Spec

-----------------------------------------------------------------------------
(* What the cursors of pullOperations pass over. *)

\* A push works on an operation whose SyncOperation it has found or created.
Exists(p) ==
  /\ todo[p] # <<>>
  /\ \/ stage[p] \in {"apply", "create", "succeed", "fail"}
     \/ stage[p] = "mark" /\ found[p]

\* The numbers that are given do not exceed the last one.
NumbersGiven ==
  /\ \A k \in Key : sequence[k] <= lastNumber
  /\ \A d \in Device : cursor[d] <= lastNumber
  /\ \A p \in Push : At(p, "insert") => 0 < number[p] /\ number[p] <= lastNumber

\* What a cursor has passed was pulled, or was not SYNCED then, or its number was
\* taken and its row not yet there.
PassedInv ==
  /\ \A d \in Device, k \in Key :
       Origin[k] # d /\ 0 < sequence[k] /\ sequence[k] <= cursor[d] => k \in pulled[d] \cup late[d]
  /\ \A d \in Device, p \in Push :
       At(p, "insert") /\ status[Current(p)] = "NONE" /\ number[p] <= cursor[d] =>
         Current(p) \in late[d]

PullInv ==
  /\ sequence \in [Key -> Nat]
  /\ lastNumber \in Nat
  /\ found  \in [Push -> BOOLEAN]
  /\ number \in [Push -> Nat]
  /\ cursor \in [Device -> Nat]
  /\ pulled \in [Device -> SUBSET Key]
  /\ late   \in [Device -> SUBSET Key]
  /\ faults \in 0..MaxFaults
  /\ \A k \in Key : status[k] # "NONE" => sequence[k] > 0
  /\ \A p \in Push : Exists(p) => status[Head(todo[p])] # "NONE"
  /\ NumbersGiven
  /\ PassedInv

\* A finite set of numbers that is not empty has a greatest one.
LEMMA FiniteHasMax ==
  ASSUME NEW S \in SUBSET Nat, IsFiniteSet(S), S # {}
  PROVE  Max(S) \in S /\ \A x \in S : x <= Max(S)
<1> DEFINE R == StrictSubsetOrdering(S)
           HasMax(T) == \E x \in T : \A y \in T : y <= x
           Bad == {T \in SUBSET S : T # {} /\ ~HasMax(T)}
<1>1. IsWellFoundedOn(R, SUBSET S)
  BY FS_StrictSubsetOrderingWellFounded, FS_FiniteSubsetsOfFinite
<1>2. Bad = {}
  <2> SUFFICES ASSUME Bad # {} PROVE FALSE
    OBVIOUS
  <2>1. Bad \subseteq SUBSET S
    OBVIOUS
  <2> HIDE DEF Bad, R
  <2>2. PICK T \in Bad : \A U \in Bad : ~ (<<U, T>> \in R)
    BY <1>1, <2>1, WFMin
  <2>3. T \in SUBSET S /\ T # {} /\ ~HasMax(T)
    BY <2>2 DEF Bad
  <2>4. PICK x \in T : TRUE
    BY <2>3
  <2> DEFINE U == T \ {x}
  <2>5. U \notin Bad
    BY <2>2, <2>3, <2>4 DEF R, StrictSubsetOrdering
  <2>6. U = {} \/ HasMax(U)
    BY <2>3, <2>5 DEF Bad
  <2>7. CASE U = {}
    BY <2>3, <2>4, <2>7
  <2>8. CASE HasMax(U)
    <3>1. PICK m \in U : \A y \in U : y <= m
      BY <2>8
    <3>2. x \in Nat /\ m \in Nat /\ T = U \cup {x}
      BY <2>3, <2>4, <3>1
    <3>3. CASE m <= x
      <4>1. \A y \in T : y <= x
        BY <2>3, <3>1, <3>2, <3>3
      <4> QED BY <2>3, <2>4, <4>1
    <3>4. CASE ~(m <= x)
      <4>1. \A y \in T : y <= m
        BY <2>3, <3>1, <3>2, <3>4
      <4> QED BY <2>3, <3>1, <4>1
    <3> QED BY <3>3, <3>4
  <2> QED BY <2>6, <2>7, <2>8
<1>3. HasMax(S)
  BY <1>2
<1>4. \E x \in S : \A y \in S : x >= y
  BY <1>3
<1> QED BY <1>4 DEF Max

\* The greatest number of some operations is the number of one of them.
LEMMA GreatestSequence ==
  ASSUME sequence \in [Key -> Nat], NEW S \in SUBSET Key, S # {}
  PROVE  /\ \E k \in S : Max({sequence[j] : j \in S}) = sequence[k]
         /\ \A k \in S : sequence[k] <= Max({sequence[j] : j \in S})
<1> DEFINE f == [k \in S |-> sequence[k]]
           T == {sequence[j] : j \in S}
<1>1. IsFiniteSet(S)
  BY SyncAssumption, FS_Subset
<1>2. f \in Surjection(S, T)
  BY DEF Surjection
<1>3. IsFiniteSet(T)
  BY <1>1, <1>2, FS_Surjection
<1>4. T \in SUBSET Nat /\ T # {}
  OBVIOUS
<1> HIDE DEF T
<1>5. Max(T) \in T /\ \A x \in T : x <= Max(T)
  BY <1>3, <1>4, FiniteHasMax
<1> QED BY <1>5 DEF T

\* A page leaves out nothing that comes before one of its operations.
LEMMA PageIsPrefix ==
  ASSUME PullInv, NEW d \in Device, NEW m \in Page(d), NEW k \in Visible(d),
         sequence[k] <= sequence[m]
  PROVE  k \in Page(d)
<1> DEFINE Before(j) == {i \in Visible(d) : sequence[i] < sequence[j]}
<1>1. Visible(d) \subseteq Key
  BY DEF Visible
<1>2. m \in Key /\ k \in Key /\ Cardinality(Before(m)) < Limit
  BY <1>1 DEF Page
<1>3. Before(k) \in SUBSET Before(m)
  BY <1>1, <1>2 DEF PullInv
<1>4. IsFiniteSet(Before(m))
  BY <1>1, SyncAssumption, FS_Subset
<1>5. /\ Cardinality(Before(k)) <= Cardinality(Before(m))
      /\ Cardinality(Before(k)) \in Nat /\ Cardinality(Before(m)) \in Nat
  BY <1>3, <1>4, FS_Subset, FS_CardinalityType
<1>6. Cardinality(Before(k)) < Limit
  BY <1>2, <1>5, SyncAssumption
<1> QED BY <1>6 DEF Page

\* Another push that is at its insert stays there, with its number.
InsertsKept ==
  \A q \in Push : At(q, "insert")' =>
    At(q, "insert") /\ Current(q) \in Key /\ Current(q)' = Current(q) /\ number'[q] = number[q]

\* A step of a push that leaves the numbers and the cursors alone, and takes no
\* insert up.
LEMMA SameNumbers ==
  ASSUME PullInv, UNCHANGED <<sequence, lastNumber, pullVars>>,
         found' \in [Push -> BOOLEAN], number' \in [Push -> Nat], faults' \in 0..MaxFaults,
         \A k \in Key : status'[k] # "NONE" <=> status[k] # "NONE",
         \A p \in Push : Exists(p)' => status'[Head(todo'[p])] # "NONE",
         InsertsKept
  PROVE  PullInv'
<1>1. NumbersGiven'
  BY DEF PullInv, NumbersGiven, pullVars, InsertsKept
<1>2. PassedInv'
  <2>1. \A d \in Device, p \in Push :
          At(p, "insert")' /\ status'[Current(p)'] = "NONE" /\ number'[p] <= cursor'[d] =>
            Current(p)' \in late'[d]
    BY DEF PullInv, PassedInv, pullVars, InsertsKept
  <2>2. \A d \in Device, k \in Key :
          Origin[k] # d /\ 0 < sequence'[k] /\ sequence'[k] <= cursor'[d] =>
            k \in pulled'[d] \cup late'[d]
    BY DEF PullInv, PassedInv, pullVars
  <2> QED BY <2>1, <2>2 DEF PassedInv
<1> QED BY <1>1, <1>2 DEF PullInv, pullVars

\* A push that moves on to another stage than its insert.
LEMMA InsertStays ==
  ASSUME SyncInv, NEW p \in Push, NEW s, s # "insert",
         stage' = [stage EXCEPT ![p] = s],
         \A q \in Push : q # p => todo'[q] = todo[q] /\ number'[q] = number[q]
  PROVE  InsertsKept
<1> SUFFICES ASSUME NEW q \in Push, At(q, "insert")'
             PROVE  /\ At(q, "insert") /\ Current(q) \in Key
                    /\ Current(q)' = Current(q) /\ number'[q] = number[q]
  BY DEF InsertsKept
<1>1. q # p
  BY DEF At, SyncInv
<1>2. At(q, "insert")
  BY <1>1 DEF At, SyncInv
<1>3. Current(q) \in Key
  BY <1>2, CurrentIsKey DEF At, Current
<1> QED BY <1>1, <1>2, <1>3 DEF Current

\* A number that is taken lies beyond every cursor.
LEMMA TakeKeeps ==
  ASSUME SyncInv, PullInv, NEW p \in Push, At(p, "mark"), lastNumber' = lastNumber + 1,
         number' = [number EXCEPT ![p] = lastNumber + 1], Proceed(p, "insert"),
         UNCHANGED <<status, sequence, found, pullVars, faults>>
  PROVE  PullInv'
<1>1. lastNumber' \in Nat /\ number' \in [Push -> Nat]
  BY DEF PullInv
<1>2. \A q \in Push : Exists(q)' => status'[Head(todo'[q])] # "NONE"
  BY DEF PullInv, SyncInv, Exists, Proceed
<1>3. ASSUME NEW q \in Push, At(q, "insert")', q # p
      PROVE  At(q, "insert") /\ Current(q)' = Current(q) /\ number'[q] = number[q]
  BY <1>3 DEF At, Proceed, Current, SyncInv, PullInv
<1>4. NumbersGiven'
  <2>1. \A q \in Push : At(q, "insert")' => 0 < number'[q] /\ number'[q] <= lastNumber'
    <3> TAKE q \in Push
    <3>1. CASE q = p
      BY <3>1 DEF PullInv
    <3>2. CASE q # p
      BY <1>3, <3>2 DEF PullInv, NumbersGiven
    <3> QED BY <3>1, <3>2
  <2>2. \A k \in Key : sequence'[k] <= lastNumber'
    BY DEF PullInv, NumbersGiven
  <2>3. \A d \in Device : cursor'[d] <= lastNumber'
    BY DEF PullInv, NumbersGiven, pullVars
  <2> QED BY <2>1, <2>2, <2>3 DEF NumbersGiven
<1>5. PassedInv'
  <2>1. ASSUME NEW d \in Device, NEW q \in Push, At(q, "insert")',
               status'[Current(q)'] = "NONE", number'[q] <= cursor'[d]
        PROVE  Current(q)' \in late'[d]
    <3>1. q # p
      BY <2>1 DEF PullInv, NumbersGiven, pullVars
    <3> QED BY <1>3, <2>1, <3>1 DEF PullInv, PassedInv, pullVars
  <2>2. \A d \in Device, k \in Key :
          Origin[k] # d /\ 0 < sequence'[k] /\ sequence'[k] <= cursor'[d] =>
            k \in pulled'[d] \cup late'[d]
    BY DEF PullInv, PassedInv, pullVars
  <2> QED BY <2>1, <2>2 DEF PassedInv
<1> QED BY <1>1, <1>2, <1>4, <1>5 DEF PullInv, pullVars

\* A row that becomes visible below a cursor was recorded when the cursor passed.
LEMMA InsertKeeps ==
  ASSUME SyncInv, PullInv, NEW p \in Push, At(p, "insert"), status[Current(p)] = "NONE",
         status' = [status EXCEPT ![Current(p)] = "SYNCING"],
         sequence' = [sequence EXCEPT ![Current(p)] = number[p]],
         Proceed(p, "apply"), number' = [number EXCEPT ![p] = 0],
         UNCHANGED <<lastNumber, found, pullVars, faults>>
  PROVE  PullInv'
<1>1. PICK k \in Key : k = Current(p)
  BY CurrentIsKey DEF At, Current
<1>2. /\ sequence' = [sequence EXCEPT ![k] = number[p]]
      /\ status' = [status EXCEPT ![k] = "SYNCING"]
      /\ 0 < number[p] /\ number[p] <= lastNumber /\ number[p] \in Nat
  BY <1>1 DEF PullInv, NumbersGiven
<1>3. sequence' \in [Key -> Nat] /\ number' \in [Push -> Nat]
  BY <1>2 DEF PullInv
<1>4. \A j \in Key : status'[j] # "NONE" => sequence'[j] > 0
  BY <1>2, <1>3 DEF PullInv, SyncInv
<1>5. \A q \in Push : Exists(q)' => status'[Head(todo'[q])] # "NONE"
  BY <1>1 DEF PullInv, SyncInv, Exists, Proceed, Current
<1>6. InsertsKept
  <2>1. \A q \in Push : q # p => todo'[q] = todo[q] /\ number'[q] = number[q]
    BY DEF Proceed, PullInv
  <2>2. stage' = [stage EXCEPT ![p] = "apply"]
    BY DEF Proceed
  <2> QED BY <2>1, <2>2, InsertStays
<1>7. NumbersGiven'
  BY <1>2, <1>6 DEF PullInv, NumbersGiven, pullVars, InsertsKept
<1>8. PassedInv'
  <2>1. ASSUME NEW d \in Device, NEW j \in Key, Origin[j] # d, 0 < sequence'[j],
               sequence'[j] <= cursor'[d]
        PROVE  j \in pulled'[d] \cup late'[d]
    <3>1. CASE j = k
      BY <1>1, <1>2, <2>1, <3>1 DEF PullInv, PassedInv, pullVars
    <3>2. CASE j # k
      BY <1>2, <2>1, <3>2 DEF PullInv, PassedInv, pullVars
    <3> QED BY <3>1, <3>2
  <2>2. ASSUME NEW d \in Device, NEW q \in Push, At(q, "insert")',
               status'[Current(q)'] = "NONE", number'[q] <= cursor'[d]
        PROVE  Current(q)' \in late'[d]
    <3>1. status[Current(q)] = "NONE"
      BY <1>2, <1>6, <2>2 DEF SyncInv, InsertsKept
    <3> QED BY <1>6, <2>2, <3>1 DEF PullInv, PassedInv, pullVars, InsertsKept
  <2> QED BY <2>1, <2>2 DEF PassedInv
<1> QED BY <1>3, <1>4, <1>5, <1>7, <1>8 DEF PullInv, pullVars

\* A page takes what its cursor passes, but for what is not SYNCED.
LEMMA PullKeeps ==
  ASSUME SyncInv, PullInv, NEW d \in Device, Pull(d)
  PROVE  PullInv'
<1> DEFINE n == Max({sequence[k] : k \in Page(d)})
<1>1. Page(d) \subseteq Visible(d) /\ Visible(d) \subseteq Key /\ Page(d) # {}
  BY DEF Page, Visible, Pull
<1>2. PICK m \in Page(d) : n = sequence[m]
  BY <1>1, GreatestSequence DEF PullInv
<1>4. /\ cursor' = [cursor EXCEPT ![d] = n]
      /\ late' = [late EXCEPT ![d] = @ \cup {k \in NumberedUpTo(n) : status[k] # "SYNCED"}]
      /\ pulled' = [pulled EXCEPT ![d] = @ \cup Page(d)]
      /\ UNCHANGED <<status, sequence, lastNumber, stage, todo, found, number, faults>>
  BY DEF Pull, n, serverVars, pushVars
<1> HIDE DEF n
<1>3. m \in Key /\ n \in Nat /\ n <= lastNumber
  BY <1>1, <1>2 DEF PullInv, NumbersGiven
<1>5. NumberedUpTo(n) \subseteq Key
  BY CurrentIsKey DEF NumberedUpTo, At, Current
<1>6. /\ cursor' \in [Device -> Nat] /\ late' \in [Device -> SUBSET Key]
      /\ pulled' \in [Device -> SUBSET Key]
  BY <1>1, <1>3, <1>4, <1>5 DEF PullInv
<1>7. ASSUME NEW e \in Device, NEW k \in Key, Origin[k] # e, 0 < sequence[k],
             sequence[k] <= cursor'[e]
      PROVE  k \in pulled'[e] \cup late'[e]
  <2>1. CASE e # d
    BY <1>4, <1>7, <2>1 DEF PullInv, PassedInv
  <2>2. CASE e = d /\ status[k] # "SYNCED"
    <3>1. k \in NumberedUpTo(n)
      BY <1>3, <1>4, <1>7, <2>2 DEF PullInv, NumberedUpTo
    <3> QED BY <1>4, <2>2, <3>1 DEF PullInv
  <2>3. CASE e = d /\ status[k] = "SYNCED" /\ sequence[k] <= cursor[d]
    BY <1>4, <1>7, <2>3 DEF PullInv, PassedInv
  <2>4. CASE e = d /\ status[k] = "SYNCED" /\ ~(sequence[k] <= cursor[d])
    <3>1. k \in Visible(d)
      BY <1>7, <2>4 DEF Visible, PullInv
    <3>2. sequence[k] <= sequence[m]
      BY <1>2, <1>4, <1>7, <2>4 DEF PullInv
    <3>3. k \in Page(d)
      BY <3>1, <3>2, PageIsPrefix
    <3> QED BY <1>4, <2>4, <3>3 DEF PullInv
  <2> QED BY <2>1, <2>2, <2>3, <2>4
<1>8. ASSUME NEW e \in Device, NEW p \in Push, At(p, "insert"), status[Current(p)] = "NONE",
             number[p] <= cursor'[e]
      PROVE  Current(p) \in late'[e]
  <2>1. CASE e # d
    BY <1>4, <1>8, <2>1 DEF PullInv, PassedInv
  <2>2. CASE e = d
    <3>1. Current(p) \in NumberedUpTo(n)
      BY <1>3, <1>4, <1>8, <2>2 DEF PullInv, NumberedUpTo
    <3> QED BY <1>4, <1>8, <2>2, <3>1 DEF PullInv
  <2> QED BY <2>1, <2>2
<1>9. PassedInv'
  BY <1>4, <1>7, <1>8 DEF PassedInv, At, Current
<1>10. NumbersGiven'
  BY <1>3, <1>4 DEF PullInv, NumbersGiven, At
<1>11. \A p \in Push : Exists(p)' => status'[Head(todo'[p])] # "NONE"
  BY <1>4 DEF PullInv, Exists
<1> QED BY <1>4, <1>6, <1>9, <1>10, <1>11 DEF PullInv

\* Every step keeps the invariant.
LEMMA PullInvariant == Spec => [](SyncInv /\ PullInv)
<1>1. Init => PullInv
  BY SyncAssumption DEF Init, PullInv, Exists, NumbersGiven, PassedInv, At
<1>2. SyncInv /\ PullInv /\ [Next]_vars => PullInv'
  <2> SUFFICES ASSUME SyncInv, PullInv, [Next]_vars PROVE PullInv'
    OBVIOUS
  <2>1. ASSUME NEW p \in Push, StartPush(p) PROVE PullInv'
    <3>1. /\ UNCHANGED <<status, sequence, lastNumber, found, number, pullVars, faults>>
          /\ stage' = [stage EXCEPT ![p] = "find"]
          /\ todo' = [todo EXCEPT ![p] = Queue[Sender[p]]]
      BY <2>1 DEF StartPush, serverVars
    <3>2. \A q \in Push : Exists(q)' => status'[Head(todo'[q])] # "NONE"
      BY <3>1 DEF PullInv, SyncInv, Exists
    <3>3. \A q \in Push : q # p => todo'[q] = todo[q] /\ number'[q] = number[q]
      BY <3>1 DEF SyncInv
    <3>4. InsertsKept
      BY <3>1, <3>3, InsertStays
    <3> QED BY <3>1, <3>2, <3>4, SameNumbers DEF PullInv
  <2>2. ASSUME NEW p \in Push, FindOperation(p) PROVE PullInv'
    <3>1. /\ found' \in [Push -> BOOLEAN]
          /\ UNCHANGED <<status, sequence, lastNumber, number, pullVars, faults>>
      BY <2>2 DEF FindOperation, PullInv, serverVars
    <3>2. ASSUME NEW q \in Push, Exists(q)' PROVE status'[Head(todo'[q])] # "NONE"
      <4>1. CASE NextOperation(p, {Current(p)}) /\ UNCHANGED found
        BY <3>1, <3>2, <4>1 DEF NextOperation, Exists, PullInv, SyncInv
      <4>2. CASE Proceed(p, "mark") /\ found' = [found EXCEPT ![p] = status[Current(p)] # "NONE"]
        BY <3>1, <3>2, <4>2 DEF Proceed, Exists, PullInv, SyncInv, Current
      <4> QED BY <2>2, <4>1, <4>2 DEF FindOperation
    <3>3. /\ \E s \in {"find", "mark"} : stage' = [stage EXCEPT ![p] = s]
          /\ \A q \in Push : q # p => todo'[q] = todo[q] /\ number'[q] = number[q]
      BY <2>2, <3>1 DEF FindOperation, NextOperation, Proceed, SyncInv
    <3>4. InsertsKept
      BY <3>3, InsertStays
    <3> QED BY <3>1, <3>2, <3>4, SameNumbers DEF PullInv
  <2>3. ASSUME NEW p \in Push, MarkSyncing(p) PROVE PullInv'
    <3>1. Current(p) \in Key /\ UNCHANGED <<sequence, found, pullVars, faults>> /\ At(p, "mark")
      BY <2>3, CurrentIsKey DEF MarkSyncing, At, Current
    <3>2. CASE /\ found[p] /\ status' = [status EXCEPT ![Current(p)] = "SYNCING"]
               /\ Proceed(p, "apply") /\ UNCHANGED <<lastNumber, number>>
      <4>1. status[Current(p)] # "NONE"
        BY <3>1, <3>2 DEF At, PullInv, Exists, Current
      <4>2. \A q \in Push : Exists(q)' => status'[Head(todo'[q])] # "NONE"
        BY <3>1, <3>2 DEF Proceed, Exists, PullInv, SyncInv, Current
      <4>3. \A k \in Key : status'[k] # "NONE" <=> status[k] # "NONE"
        BY <3>1, <3>2, <4>1 DEF SyncInv
      <4>4. /\ stage' = [stage EXCEPT ![p] = "apply"]
            /\ \A q \in Push : q # p => todo'[q] = todo[q] /\ number'[q] = number[q]
        BY <3>2 DEF Proceed
      <4>5. InsertsKept
        BY <4>4, InsertStays
      <4> QED BY <3>1, <3>2, <4>2, <4>3, <4>5, SameNumbers DEF PullInv
    <3>3. CASE /\ lastNumber' = lastNumber + 1
               /\ number' = [number EXCEPT ![p] = lastNumber + 1]
               /\ Proceed(p, "insert") /\ UNCHANGED status
      BY <3>1, <3>3, TakeKeeps
    <3> QED BY <2>3, <3>2, <3>3 DEF MarkSyncing
  <2>4. ASSUME NEW p \in Push, InsertOperation(p) PROVE PullInv'
    <3>1. /\ UNCHANGED <<lastNumber, found, pullVars, faults>> /\ At(p, "insert")
          /\ number' = [number EXCEPT ![p] = 0]
      BY <2>4 DEF InsertOperation
    <3>2. CASE /\ status[Current(p)] = "NONE"
               /\ status' = [status EXCEPT ![Current(p)] = "SYNCING"]
               /\ sequence' = [sequence EXCEPT ![Current(p)] = number[p]]
               /\ Proceed(p, "apply")
      BY <3>1, <3>2, InsertKeeps
    <3>3. CASE UNCHANGED <<status, sequence>> /\ Vanish(p)
      <4>1. \A q \in Push : Exists(q)' => status'[Head(todo'[q])] # "NONE"
        BY <3>1, <3>3 DEF Vanish, Exists, PullInv, SyncInv
      <4>2. /\ stage' = [stage EXCEPT ![p] = "idle"] /\ number' \in [Push -> Nat]
            /\ \A q \in Push : q # p => todo'[q] = todo[q] /\ number'[q] = number[q]
        BY <3>1, <3>3 DEF Vanish, PullInv, SyncInv
      <4>3. InsertsKept
        BY <4>2, InsertStays
      <4> QED BY <3>1, <3>3, <4>1, <4>2, <4>3, SameNumbers DEF PullInv
    <3> QED BY <2>4, <3>2, <3>3 DEF InsertOperation
  <2>5. ASSUME NEW p \in Push, ApplyOperation(p) \/ CreateEntity(p) PROVE PullInv'
    <3>1. /\ UNCHANGED <<status, sequence, lastNumber, found, number, pullVars>>
          /\ \E s \in {"create", "succeed", "fail"} : Proceed(p, s)
          /\ faults' = faults \/ (faults < MaxFaults /\ faults' = faults + 1)
      BY <2>5 DEF ApplyOperation, CreateEntity, Fault, serverVars
    <3>2. Exists(p) /\ faults' \in 0..MaxFaults
      BY <2>5, <3>1, SyncAssumption DEF ApplyOperation, CreateEntity, At, Exists, PullInv
    <3>3. \A q \in Push : Exists(q)' => status'[Head(todo'[q])] # "NONE"
      BY <3>1, <3>2 DEF Proceed, Exists, PullInv, SyncInv
    <3>4. /\ \E s \in {"create", "succeed", "fail"} : stage' = [stage EXCEPT ![p] = s]
          /\ \A q \in Push : q # p => todo'[q] = todo[q] /\ number'[q] = number[q]
      BY <3>1 DEF Proceed
    <3>5. InsertsKept
      BY <3>4, InsertStays
    <3> QED BY <3>1, <3>2, <3>3, <3>5, SameNumbers DEF PullInv
  <2>6. ASSUME NEW p \in Push, MarkSynced(p) \/ MarkFailed(p) PROVE PullInv'
    <3>1. /\ UNCHANGED <<sequence, lastNumber, found, number, pullVars>>
          /\ status' = status \/ \E s \in {"SYNCED", "FAILED"} : status' = [status EXCEPT ![Current(p)] = s]
          /\ faults' = faults \/ (faults < MaxFaults /\ faults' = faults + 1)
      BY <2>6 DEF MarkSynced, MarkFailed, Fault
    <3>7. (\E reported : NextOperation(p, reported)) \/ Proceed(p, "fail")
      BY <2>6 DEF MarkSynced, MarkFailed, Fault
    <3>2. Exists(p) /\ Current(p) \in Key /\ faults' \in 0..MaxFaults
      BY <2>6, <3>1, CurrentIsKey, SyncAssumption
         DEF MarkSynced, MarkFailed, At, Exists, Current, PullInv
    <3>8. \A k \in Key : status[k] # "NONE" => status'[k] # "NONE"
      BY <3>1, <3>2 DEF SyncInv
    <3>3. \A q \in Push : Exists(q)' => status'[Head(todo'[q])] # "NONE"
      <4>3. \A q \in Push : Exists(q) => status'[Head(todo[q])] # "NONE"
        BY <3>8, CurrentIsKey DEF PullInv, Exists
      <4>1. CASE \E reported : NextOperation(p, reported)
        BY <3>1, <4>1, <4>3 DEF NextOperation, Exists, SyncInv
      <4>2. CASE Proceed(p, "fail")
        BY <3>1, <3>2, <4>2, <4>3 DEF Proceed, Exists, SyncInv
      <4> QED BY <3>7, <4>1, <4>2
    <3>4. \A k \in Key : status'[k] # "NONE" <=> status[k] # "NONE"
      BY <3>1, <3>2 DEF PullInv, SyncInv, Current
    <3>5. /\ \E s \in {"find", "fail"} : stage' = [stage EXCEPT ![p] = s]
          /\ \A q \in Push : q # p => todo'[q] = todo[q] /\ number'[q] = number[q]
      BY <3>1, <3>7 DEF NextOperation, Proceed, SyncInv
    <3>6. InsertsKept
      BY <3>5, InsertStays
    <3> QED BY <3>1, <3>2, <3>3, <3>4, <3>6, SameNumbers DEF PullInv
  <2>7. ASSUME NEW p \in Push, Respond(p) \/ Interrupt(p) PROVE PullInv'
    <3>1. /\ UNCHANGED <<status, sequence, lastNumber, found, pullVars>> /\ Vanish(p)
          /\ number' = number \/ number' = [number EXCEPT ![p] = 0]
      BY <2>7 DEF Respond, Interrupt, serverVars
    <3>2. faults' \in 0..MaxFaults
      BY <2>7, SyncAssumption DEF Respond, Interrupt, PullInv
    <3>3. \A q \in Push : Exists(q)' => status'[Head(todo'[q])] # "NONE"
      BY <3>1 DEF Vanish, Exists, PullInv, SyncInv
    <3>4. /\ stage' = [stage EXCEPT ![p] = "idle"] /\ number' \in [Push -> Nat]
          /\ \A q \in Push : q # p => todo'[q] = todo[q] /\ number'[q] = number[q]
      BY <3>1 DEF Vanish, PullInv, SyncInv
    <3>5. InsertsKept
      BY <3>4, InsertStays
    <3> QED BY <3>1, <3>2, <3>3, <3>4, <3>5, SameNumbers DEF PullInv
  <2>8. ASSUME UNCHANGED vars PROVE PullInv'
    BY <2>8 DEF vars, serverVars, pushVars, pullVars, PullInv, Exists, NumbersGiven, PassedInv, At, Current
  <2> QED BY <2>1, <2>2, <2>3, <2>4, <2>5, <2>6, <2>7, <2>8, PullKeeps DEF Next, Handle, AtRest
<1> QED BY <1>1, <1>2, SyncInvariant, PTL DEF Spec

\* In every reachable state, for any devices, queues and pushes, every variable
\* has its type.
THEOREM SyncTypeCorrectness == Spec => []TypeOK
<1>1. SyncInv /\ PullInv => TypeOK
  BY DEF SyncInv, PullInv, TypeOK
<1> QED BY <1>1, PullInvariant, PTL

\* However pulls and pushes interleave, and whatever the size of a page, a cursor
\* passes over an operation only while it is being handled or has failed.
THEOREM PullsMissNothingElse == Spec => []MissedOnlyWhenLate
<1>1. SyncInv /\ PullInv => MissedOnlyWhenLate
  BY DEF SyncInv, PullInv, PassedInv, MissedOnlyWhenLate
<1> QED BY <1>1, PullInvariant, PTL
=============================================================================
