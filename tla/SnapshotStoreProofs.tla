------------------------- MODULE SnapshotStoreProofs -------------------------
(***************************************************************************)
(* What SnapshotStore guarantees for any number of instances, mutations,   *)
(* resets and attempts.                                                    *)
(***************************************************************************)
EXTENDS SnapshotStore, SequenceTheorems, TLAPS

(***************************************************************************)
(* The inductive invariant.  The rules of the compare-and-set rest on two  *)
(* facts: nobody holds a version the row has not reached, and a version    *)
(* stands for one snapshot.                                                *)
(***************************************************************************)
\* The mutation that writes is the head of its instance's queue.
WriterAtHead == \A o \in Ops : pc[o] = "writing" => AtHead(o)

\* No attempt holds a version the row has not reached.
VersionReached == \A o \in Ops : pc[o] = "writing" => expected[o] <= row.version

\* A mutation that writes was accepted by the snapshot it copied.
CopyAccepted == \A o \in Ops : pc[o] = "writing" => Accepts(o, copy[o])

StoreInv ==
    /\ StoreTypeOK
    /\ WriterAtHead
    /\ VersionReached
    /\ CopyIsCurrent
    /\ CopyAccepted
    /\ ExclusionHolds
    /\ AcknowledgedOnce

\* A compare-and-set moves the row to the next version.
LEMMA CompareAndSetStep ==
    ASSUME NEW version, NEW log, compareAndSet(version, log)
    PROVE  /\ row.version = version
           /\ row'.version = version + 1
           /\ row'.log = log
BY DEF compareAndSet

\* A queue that is not empty stays a queue when its head leaves it.
LEMMA SettleQueue ==
    ASSUME StoreTypeOK, NEW o \in Ops, AtHead(o)
    PROVE  Tail(writeQueue[InstanceOf[o]]) \in Seq(Ops)
<1>1. InstanceOf[o] \in Instances
  BY StoreAssumption
<1>2. writeQueue[InstanceOf[o]] \in Seq(Ops)
  BY <1>1 DEF StoreTypeOK
<1> QED BY <1>2, HeadTailProperties DEF AtHead

\* The initial row, queues and calls satisfy the inductive invariant.
LEMMA StoreInitInv == StoreInit => StoreInv
<1> SUFFICES ASSUME StoreInit PROVE StoreInv
  OBVIOUS
<1> USE StoreAssumption DEF StoreInit
<1>1. StoreTypeOK
  BY DEF StoreTypeOK, InFlight, Answers
<1>2. WriterAtHead /\ VersionReached /\ CopyIsCurrent /\ CopyAccepted
  BY DEF WriterAtHead, VersionReached, CopyIsCurrent, CopyAccepted
<1>3. ExclusionHolds /\ AcknowledgedOnce
  BY DEF ExclusionHolds, AcknowledgedOnce, Atomic!Applied
<1> QED BY <1>1, <1>2, <1>3 DEF StoreInv

\* Writing the accepted copy of a row that has not moved keeps the row's own
\* invariants: the rules hold along the snapshot and nothing is applied twice.
LEMMA AppendKeepsLog ==
    ASSUME StoreInv, NEW o \in Ops, pc[o] = "writing",
           NEW answer \in {"ok", "error"},
           compareAndSet(expected[o], Append(copy[o], o)),
           pc' = [pc EXCEPT ![o] = answer],
           UNCHANGED resetPc
    PROVE  /\ row' \in [version : Nat, log : Seq(Ops)]
           /\ row'.version = row.version + 1
           /\ row'.log = Append(row.log, o)
           /\ ExclusionHolds'
           /\ AcknowledgedOnce'
<1> USE StoreAssumption
<1>1. row.log \in Seq(Ops) /\ row.version \in Nat /\ pc \in [Ops -> {"new"} \cup InFlight \cup Answers]
  BY DEF StoreInv, StoreTypeOK
<1>2. row.version = expected[o] /\ copy[o] = row.log
  BY DEF StoreInv, CopyIsCurrent, compareAndSet
<1>3. row' = [version |-> row.version + 1, log |-> Append(row.log, o)]
  BY <1>2 DEF compareAndSet
<1>4. /\ Append(row.log, o) \in Seq(Ops)
      /\ Len(row.log) \in Nat
      /\ Len(Append(row.log, o)) = Len(row.log) + 1
      /\ \A i \in 1..Len(row.log) : Append(row.log, o)[i] = row.log[i]
      /\ Append(row.log, o)[Len(row.log) + 1] = o
  BY <1>1, AppendProperties, LenProperties
<1>5. \A i \in 1..Len(row.log) : row.log[i] \in Ops
  BY <1>1, ElementOfSeq
<1>6. \A j \in 1..Len(row.log) : row.log[j] \notin Excludes[o]
  BY <1>2 DEF StoreInv, CopyAccepted, Accepts, Atomic!Accepts, Atomic!Applied
<1>7. ExclusionHolds'
  BY <1>3, <1>4, <1>6 DEF StoreInv, ExclusionHolds
<1>8. \A i \in 1..Len(row.log) : row.log[i] # o
  BY DEF StoreInv, AcknowledgedOnce
<1>9. AcknowledgedOnce'
  <2>1. \A i, j \in 1..Len(row'.log) : row'.log[i] = row'.log[j] => i = j
    BY <1>3, <1>4, <1>8 DEF StoreInv, AcknowledgedOnce
  <2>2. \A i \in 1..Len(row'.log) : pc'[row'.log[i]] \in {"ok", "error"}
    BY <1>1, <1>3, <1>4, <1>5, <1>8 DEF StoreInv, AcknowledgedOnce
  <2>3. ASSUME \A r \in Resets : resetPc'[r] # "done", NEW p \in Ops, pc'[p] = "ok"
        PROVE  \E i \in 1..Len(row'.log) : row'.log[i] = p
    <3>1. CASE p = o
      BY <3>1, <1>3, <1>4
    <3>2. CASE p # o
      <4>1. pc[p] = "ok"
        BY <2>3, <3>2, <1>1
      <4>2. \E i \in 1..Len(row.log) : row.log[i] = p
        BY <2>3, <4>1 DEF StoreInv, AcknowledgedOnce, Atomic!Applied
      <4> QED BY <4>2, <1>3, <1>4
    <3> QED BY <3>1, <3>2
  <2> QED BY <2>1, <2>2, <2>3 DEF AcknowledgedOnce, Atomic!Applied
<1> QED BY <1>1, <1>3, <1>4, <1>7, <1>9

\* A step that leaves the row, and the calls answered so far, as they are keeps
\* the row's invariants.
LEMMA SameRowKeepsLog ==
    ASSUME StoreInv, UNCHANGED <<row, resetPc>>,
           \A p \in Ops : pc[p] \in {"ok", "error"} => pc'[p] = pc[p],
           \A p \in Ops : pc'[p] = "ok" => pc[p] = "ok"
    PROVE  ExclusionHolds' /\ AcknowledgedOnce'
<1>1. row.log \in Seq(Ops)
  BY DEF StoreInv, StoreTypeOK
<1>2. \A i \in 1..Len(row.log) : row.log[i] \in Ops
  BY <1>1, ElementOfSeq
<1>3. ExclusionHolds'
  BY DEF StoreInv, ExclusionHolds
<1>4. AcknowledgedOnce'
  BY <1>2 DEF StoreInv, AcknowledgedOnce, Atomic!Applied
<1> QED BY <1>3, <1>4

\* Every step of the store preserves the inductive invariant.
LEMMA StoreStepInv == StoreInv /\ [StoreNext]_storeVars => StoreInv'
<1> SUFFICES ASSUME StoreInv, [StoreNext]_storeVars PROVE StoreInv'
  OBVIOUS
<1> USE StoreAssumption DEF Answers, InFlight
<1>0. StoreTypeOK /\ WriterAtHead /\ VersionReached /\ CopyIsCurrent /\ CopyAccepted
  BY DEF StoreInv
<1>1. ASSUME NEW o \in Ops, mutate(o) PROVE StoreInv'
  <2>1. writeQueue[InstanceOf[o]] \in Seq(Ops)
    BY <1>0 DEF StoreTypeOK
  <2>2. Append(writeQueue[InstanceOf[o]], o) \in Seq(Ops)
    BY <2>1, AppendProperties
  <2>3. StoreTypeOK'
    BY <1>0, <1>1, <2>2 DEF StoreTypeOK, mutate
  <2>4. WriterAtHead'
    <3> SUFFICES ASSUME NEW p \in Ops, pc'[p] = "writing" PROVE AtHead(p)'
      BY DEF WriterAtHead
    <3>1. AtHead(p)
      BY <1>0, <1>1 DEF StoreTypeOK, WriterAtHead, mutate
    <3>2. CASE InstanceOf[p] = InstanceOf[o]
      <4>1. writeQueue'[InstanceOf[p]] = Append(writeQueue[InstanceOf[o]], o)
        BY <1>0, <1>1, <3>2 DEF StoreTypeOK, mutate
      <4>2. /\ Append(writeQueue[InstanceOf[o]], o) # <<>>
            /\ Head(Append(writeQueue[InstanceOf[o]], o)) = Head(writeQueue[InstanceOf[o]])
        BY <2>1, <3>1, <3>2, AppendProperties, HeadTailAppend DEF AtHead
      <4> QED BY <3>1, <3>2, <4>1, <4>2 DEF AtHead
    <3>3. CASE InstanceOf[p] # InstanceOf[o]
      BY <1>0, <1>1, <3>1, <3>3 DEF StoreTypeOK, mutate, AtHead
    <3> QED BY <3>2, <3>3
  <2>5. VersionReached' /\ CopyIsCurrent' /\ CopyAccepted'
    BY <1>0, <1>1 DEF StoreTypeOK, mutate, VersionReached, CopyIsCurrent, CopyAccepted, Accepts, Atomic!Accepts
  <2>6. ExclusionHolds' /\ AcknowledgedOnce'
    BY <1>0, <1>1, SameRowKeepsLog DEF StoreTypeOK, mutate
  <2> QED BY <2>3, <2>4, <2>5, <2>6 DEF StoreInv
<1>2. ASSUME NEW o \in Ops, ReadAccepted(o) PROVE StoreInv'
  <2>1. StoreTypeOK'
    BY <1>0, <1>2 DEF StoreTypeOK, ReadAccepted
  <2>2. WriterAtHead'
    BY <1>0, <1>2 DEF StoreTypeOK, ReadAccepted, WriterAtHead, AtHead
  <2>3. VersionReached' /\ CopyIsCurrent' /\ CopyAccepted'
    <3>1. \A p \in Ops : p # o /\ pc'[p] = "writing" =>
                            /\ pc[p] = "writing" /\ expected'[p] = expected[p]
                            /\ copy'[p] = copy[p]
      BY <1>0, <1>2 DEF StoreTypeOK, ReadAccepted
    <3>2. expected'[o] = row.version /\ copy'[o] = row.log /\ Accepts(o, row.log)
      BY <1>0, <1>2 DEF StoreTypeOK, ReadAccepted
    <3>3. UNCHANGED row /\ row.version \in Nat
      BY <1>0, <1>2 DEF StoreTypeOK, ReadAccepted
    <3>4. VersionReached' /\ CopyIsCurrent'
      BY <1>0, <3>1, <3>2, <3>3 DEF VersionReached, CopyIsCurrent
    <3>5. CopyAccepted'
      BY <1>0, <3>1, <3>2 DEF CopyAccepted, Accepts, Atomic!Accepts
    <3> QED BY <3>4, <3>5
  <2>4. ExclusionHolds' /\ AcknowledgedOnce'
    BY <1>0, <1>2, SameRowKeepsLog DEF StoreTypeOK, ReadAccepted
  <2> QED BY <2>1, <2>2, <2>3, <2>4 DEF StoreInv
<1>3. ASSUME NEW o \in Ops, AtHead(o), NEW answer \in Answers, Settle(o, answer),
             UNCHANGED <<attempt, expected, copy, resetPc, resetExpected>>,
             \/ UNCHANGED row /\ answer # "ok" /\ pc[o] \in InFlight
             \/ /\ pc[o] = "writing" /\ answer \in {"ok", "error"}
                /\ compareAndSet(expected[o], Append(copy[o], o))
      PROVE  StoreInv'
  \* How a mutation settles: with its row written, or with the row as it was.
  <2>1. Tail(writeQueue[InstanceOf[o]]) \in Seq(Ops)
    BY <1>0, <1>3, SettleQueue
  <2>2. /\ row' \in [version : Nat, log : Seq(Ops)]
        /\ row' = row \/ row'.version = row.version + 1
        /\ ExclusionHolds' /\ AcknowledgedOnce'
    <3>1. CASE UNCHANGED row /\ answer # "ok" /\ pc[o] \in InFlight
      BY <1>0, <1>3, <3>1, SameRowKeepsLog DEF StoreTypeOK, Settle
    <3>2. CASE pc[o] = "writing" /\ answer \in {"ok", "error"}
               /\ compareAndSet(expected[o], Append(copy[o], o))
      BY <1>3, <3>2, AppendKeepsLog DEF Settle
    <3> QED BY <1>3, <3>1, <3>2
  <2>3. StoreTypeOK'
    BY <1>0, <1>3, <2>1, <2>2 DEF StoreTypeOK, Settle
  <2>4. \A p \in Ops : pc'[p] = "writing" => p # o /\ pc[p] = "writing"
    BY <1>0, <1>3 DEF StoreTypeOK, Settle
  <2>5. WriterAtHead'
    <3> SUFFICES ASSUME NEW p \in Ops, pc'[p] = "writing" PROVE AtHead(p)'
      BY DEF WriterAtHead
    <3>1. AtHead(p) /\ p # o
      BY <1>0, <2>4 DEF WriterAtHead
    <3>2. InstanceOf[p] # InstanceOf[o]
      BY <1>3, <3>1 DEF AtHead
    <3> QED BY <1>0, <1>3, <3>1, <3>2 DEF StoreTypeOK, Settle, AtHead
  <2>6. VersionReached' /\ CopyIsCurrent' /\ CopyAccepted'
    BY <1>0, <1>3, <2>2, <2>4 DEF StoreTypeOK, VersionReached, CopyIsCurrent, CopyAccepted, Accepts, Atomic!Accepts
  <2> QED BY <2>2, <2>3, <2>5, <2>6 DEF StoreInv
<1>4. ASSUME NEW o \in Ops, WriteLost(o), attempt[o] + 1 < MaxAttempts PROVE StoreInv'
  <2>1. /\ UNCHANGED <<row, writeQueue, expected, copy, resetPc, resetExpected>>
        /\ attempt' = [attempt EXCEPT ![o] = @ + 1]
        /\ pc[o] = "writing"
        /\ pc' = [pc EXCEPT ![o] = "queued"]
    BY <1>0, <1>4 DEF WriteLost, StoreTypeOK
  <2>2. StoreTypeOK'
    BY <1>0, <1>4, <2>1 DEF StoreTypeOK
  <2>3. WriterAtHead' /\ VersionReached' /\ CopyIsCurrent' /\ CopyAccepted'
    BY <1>0, <2>1 DEF StoreTypeOK, WriterAtHead, AtHead, VersionReached, CopyIsCurrent, CopyAccepted, Accepts, Atomic!Accepts
  <2>4. ExclusionHolds' /\ AcknowledgedOnce'
    BY <1>0, <2>1, SameRowKeepsLog DEF StoreTypeOK
  <2> QED BY <2>2, <2>3, <2>4 DEF StoreInv
<1>5. ASSUME NEW o \in Ops, AttemptStep(o) \/ DatabaseError(o) PROVE StoreInv'
  <2>1. CASE ReadAccepted(o)
    BY <2>1, <1>2
  <2>2. CASE ReadRejected(o)
    BY <2>2, <1>3 DEF ReadRejected
  <2>3. CASE WriteWon(o)
    BY <2>3, <1>0, <1>3 DEF WriteWon, WriterAtHead
  <2>4. CASE WriteLost(o)
    <3>1. CASE attempt[o] + 1 < MaxAttempts
      BY <2>4, <3>1, <1>4
    <3>2. CASE ~(attempt[o] + 1 < MaxAttempts)
      BY <2>4, <3>2, <1>0, <1>3 DEF WriteLost, WriterAtHead
    <3> QED BY <3>1, <3>2
  <2>5. CASE DatabaseError(o)
    BY <2>5, <1>3 DEF DatabaseError
  <2> QED BY <1>5, <2>1, <2>2, <2>3, <2>4, <2>5 DEF AttemptStep
<1>6. ASSUME NEW i \in Instances, Crash(i) PROVE StoreInv'
  <2>1. StoreTypeOK'
    BY <1>0, <1>6 DEF StoreTypeOK, Crash
  <2>2. WriterAtHead'
    BY <1>0, <1>6 DEF StoreTypeOK, Crash, WriterAtHead, AtHead
  <2>3. VersionReached' /\ CopyIsCurrent' /\ CopyAccepted'
    BY <1>0, <1>6 DEF StoreTypeOK, Crash, VersionReached, CopyIsCurrent, CopyAccepted, Accepts, Atomic!Accepts
  <2>4. ExclusionHolds' /\ AcknowledgedOnce'
    BY <1>0, <1>6, SameRowKeepsLog DEF StoreTypeOK, Crash
  <2> QED BY <2>1, <2>2, <2>3, <2>4 DEF StoreInv
<1>7. ASSUME NEW r \in Resets, ResetRead(r) PROVE StoreInv'
  <2>1. StoreTypeOK'
    BY <1>0, <1>7 DEF StoreTypeOK, ResetRead
  <2>2. WriterAtHead' /\ VersionReached' /\ CopyIsCurrent' /\ CopyAccepted'
    BY <1>0, <1>7 DEF StoreTypeOK, ResetRead, WriterAtHead, AtHead, VersionReached, CopyIsCurrent, CopyAccepted, Accepts, Atomic!Accepts
  <2>3. ExclusionHolds' /\ AcknowledgedOnce'
    <3>1. \A s \in Resets : resetPc'[s] # "done" => resetPc[s] # "done"
      BY <1>0, <1>7 DEF StoreTypeOK, ResetRead
    <3> QED BY <1>7, <3>1 DEF StoreInv, ResetRead, ExclusionHolds, AcknowledgedOnce, Atomic!Applied
  <2> QED BY <2>1, <2>2, <2>3 DEF StoreInv
<1>8. ASSUME NEW r \in Resets, ResetWrite(r) PROVE StoreInv'
  <2>1. resetPc'[r] = "done" /\ UNCHANGED <<writeQueue, pc, attempt, expected, copy, resetExpected>>
    BY <1>0, <1>8 DEF StoreTypeOK, ResetWrite
  <2>2. \/ UNCHANGED row
        \/ row' = [version |-> row.version + 1, log |-> <<>>]
    BY <1>8 DEF ResetWrite, compareAndSet
  <2>3. StoreTypeOK'
    <3>1. row' \in [version : Nat, log : Seq(Ops)]
      <4>1. row \in [version : Nat, log : Seq(Ops)] /\ row.version + 1 \in Nat
        BY <1>0 DEF StoreTypeOK
      <4>2. <<>> \in Seq(Ops)
        BY EmptySeq
      <4>3. [version |-> row.version + 1, log |-> <<>>] \in [version : Nat, log : Seq(Ops)]
        BY <4>1, <4>2
      <4> QED BY <2>2, <4>1, <4>3
    <3>2. resetPc' \in [Resets -> {"new", "writing", "done"}]
      BY <1>0, <1>8 DEF StoreTypeOK, ResetWrite
    <3> QED BY <1>0, <2>1, <3>1, <3>2 DEF StoreTypeOK
  <2>4. WriterAtHead' /\ VersionReached' /\ CopyIsCurrent' /\ CopyAccepted'
    BY <1>0, <2>1, <2>2 DEF StoreTypeOK, WriterAtHead, AtHead, VersionReached, CopyIsCurrent, CopyAccepted, Accepts, Atomic!Accepts
  <2>5. ExclusionHolds' /\ AcknowledgedOnce'
    BY <2>1, <2>2 DEF StoreInv, ExclusionHolds, AcknowledgedOnce, Atomic!Applied
  <2> QED BY <2>3, <2>4, <2>5 DEF StoreInv
<1>9. CASE UNCHANGED storeVars
  BY <1>9 DEF StoreInv, storeVars, StoreTypeOK, WriterAtHead, AtHead, VersionReached, CopyIsCurrent, CopyAccepted, Accepts, Atomic!Accepts, Atomic!Applied, ExclusionHolds, AcknowledgedOnce
<1> QED BY <1>1, <1>5, <1>6, <1>7, <1>8, <1>9 DEF StoreNext

\* Every variable of the store keeps its type: no queue, version, attempt count
\* or reset leaves its range, however many attempts, crashes and resets there are.
THEOREM StoreTyped == StoreSpec => []StoreTypeOK
<1>1. StoreInv => StoreTypeOK
  BY DEF StoreInv
<1> QED BY <1>1, StoreInitInv, StoreStepInv, PTL DEF StoreSpec

\* A mutation about to write a row that still has the version it read holds that
\* row's very snapshot: the compare-and-set of attemptMutation can never
\* overwrite a write it did not see.
THEOREM StoreSafety == StoreSpec => []CopyIsCurrent
<1>1. StoreInv => CopyIsCurrent
  BY DEF StoreInv
<1> QED BY <1>1, StoreInitInv, StoreStepInv, PTL DEF StoreSpec

\* Whatever the instances and the interleaving, every mutation in the snapshot
\* was applied to a snapshot its own rule accepts: two stageBooking calls on two
\* instances cannot both stand.
THEOREM StoreExclusion == StoreSpec => []ExclusionHolds
<1>1. StoreInv => ExclusionHolds
  BY DEF StoreInv
<1> QED BY <1>1, StoreInitInv, StoreStepInv, PTL DEF StoreSpec

\* Unless a reset erased them, the snapshot holds every acknowledged mutation,
\* each exactly once, and nothing that was refused.
THEOREM StoreAcknowledged == StoreSpec => []AcknowledgedOnce
<1>1. StoreInv => AcknowledgedOnce
  BY DEF StoreInv
<1> QED BY <1>1, StoreInitInv, StoreStepInv, PTL DEF StoreSpec

(***************************************************************************)
(* The store implements AtomicStore: a mutation takes effect when its      *)
(* write wins, is refused when its read is, and its retries are stutters.  *)
(***************************************************************************)
\* An answer moves exactly that call from pending to the answer.
LEMMA SettleStatus ==
    ASSUME StoreTypeOK, NEW o \in Ops, pc[o] \in InFlight,
           NEW answer \in Answers, pc' = [pc EXCEPT ![o] = answer]
    PROVE  /\ callStatus[o] = "pending"
           /\ callStatus' = [callStatus EXCEPT ![o] = answer]
           /\ callStatus' = [p \in Ops |-> IF p \in {o} THEN answer ELSE callStatus[p]]
<1>1. callStatus[o] = "pending"
  BY DEF callStatus
<1>2. \A p \in Ops : callStatus'[p] = IF p = o THEN answer ELSE callStatus[p]
  BY DEF callStatus, StoreTypeOK, InFlight, Answers
<1>3. callStatus' = [p \in Ops |-> IF p = o THEN answer ELSE callStatus[p]]
  BY <1>2 DEF callStatus
<1>4. callStatus = [p \in Ops |-> callStatus[p]]
  BY DEF callStatus
<1> QED BY <1>1, <1>3, <1>4

\* A move between the in-flight positions of a call is invisible to its caller.
LEMMA InFlightStatus ==
    ASSUME StoreTypeOK, NEW o \in Ops, pc[o] \in InFlight,
           NEW there \in InFlight, pc' = [pc EXCEPT ![o] = there]
    PROVE  callStatus' = callStatus
<1>1. \A p \in Ops : callStatus'[p] = callStatus[p]
  BY DEF callStatus, StoreTypeOK, InFlight
<1> QED BY <1>1 DEF callStatus

\* Every step of the store is a step of the atomic store or changes nothing its
\* callers can see.
LEMMA StoreStepAtomic ==
    StoreInv /\ [StoreNext]_storeVars => [Atomic!AtomicNext]_(Atomic!atomicVars)
<1> SUFFICES ASSUME StoreInv, [StoreNext]_storeVars
             PROVE  [Atomic!AtomicNext]_(Atomic!atomicVars)
  OBVIOUS
<1>0. StoreTypeOK /\ WriterAtHead /\ CopyIsCurrent /\ CopyAccepted
  BY DEF StoreInv
<1>1. ASSUME NEW o \in Ops, mutate(o) PROVE Atomic!Call(o)
  <2>1. callStatus[o] = "new" /\ row' = row
    BY <1>1 DEF mutate, callStatus, InFlight
  <2>2. \A p \in Ops : callStatus'[p] = IF p = o THEN "pending" ELSE callStatus[p]
    BY <1>0, <1>1 DEF mutate, callStatus, StoreTypeOK, InFlight
  <2>3. callStatus' = [callStatus EXCEPT ![o] = "pending"]
    BY <2>2 DEF callStatus
  <2> QED BY <2>1, <2>3 DEF Atomic!Call
<1>2. ASSUME NEW o \in Ops, pc[o] = "writing", NEW answer \in {"ok", "error"},
             Settle(o, answer), compareAndSet(expected[o], Append(copy[o], o))
      PROVE  Atomic!Apply(o)
  <2>1. row'.log = Append(row.log, o)
    BY <1>0, <1>2 DEF CopyIsCurrent, compareAndSet
  <2>2. Atomic!Accepts(o, row.log)
    BY <1>0, <1>2 DEF CopyIsCurrent, CopyAccepted, compareAndSet, Accepts
  <2>3. callStatus[o] = "pending" /\ callStatus' = [callStatus EXCEPT ![o] = answer]
    BY <1>0, <1>2, SettleStatus DEF Settle, InFlight, Answers
  <2> QED BY <2>1, <2>2, <2>3 DEF Atomic!Apply
<1>3. ASSUME NEW o \in Ops, pc[o] \in InFlight, NEW answer \in {"conflict", "error"},
             Settle(o, answer), UNCHANGED row
      PROVE  Atomic!GiveUp({o}, answer)
  <2>1. callStatus[o] = "pending"
        /\ callStatus' = [p \in Ops |-> IF p \in {o} THEN answer ELSE callStatus[p]]
    BY <1>0, <1>3, SettleStatus DEF Settle, Answers
  <2> QED BY <1>3, <2>1 DEF Atomic!GiveUp
<1>4. ASSUME NEW o \in Ops, AttemptStep(o)
      PROVE  Atomic!AtomicNext \/ UNCHANGED Atomic!atomicVars
  <2>1. CASE ReadAccepted(o)
    <3>1. callStatus' = callStatus
      BY <1>0, <2>1, InFlightStatus DEF ReadAccepted, InFlight
    <3> QED BY <2>1, <3>1 DEF ReadAccepted, Atomic!atomicVars
  <2>2. CASE ReadRejected(o)
    <3>1. callStatus[o] = "pending" /\ callStatus' = [callStatus EXCEPT ![o] = "rejected"]
      BY <1>0, <2>2, SettleStatus DEF ReadRejected, Settle, InFlight, Answers
    <3>2. Atomic!Refuse(o)
      BY <2>2, <3>1 DEF ReadRejected, Atomic!Refuse, Accepts
    <3> QED BY <3>2 DEF Atomic!AtomicNext
  <2>3. CASE WriteWon(o)
    <3>1. Atomic!Apply(o)
      BY <2>3, <1>2 DEF WriteWon
    <3> QED BY <3>1 DEF Atomic!AtomicNext
  <2>4. CASE WriteLost(o)
    <3>1. CASE pc' = [pc EXCEPT ![o] = "queued"]
      <4>1. callStatus' = callStatus
        BY <1>0, <2>4, <3>1, InFlightStatus DEF WriteLost, InFlight
      <4> QED BY <2>4, <4>1 DEF WriteLost, Atomic!atomicVars
    <3>2. CASE Settle(o, "conflict")
      <4>1. Atomic!GiveUp({o}, "conflict")
        BY <2>4, <3>2, <1>3 DEF WriteLost, InFlight
      <4> QED BY <4>1 DEF Atomic!AtomicNext
    <3> QED BY <2>4, <3>1, <3>2 DEF WriteLost
  <2> QED BY <1>4, <2>1, <2>2, <2>3, <2>4 DEF AttemptStep
<1>5. ASSUME NEW o \in Ops, DatabaseError(o) PROVE Atomic!AtomicNext
  <2>1. CASE UNCHANGED row
    <3>1. Atomic!GiveUp({o}, "error")
      BY <1>5, <2>1, <1>3 DEF DatabaseError
    <3> QED BY <3>1 DEF Atomic!AtomicNext
  <2>2. CASE pc[o] = "writing" /\ compareAndSet(expected[o], Append(copy[o], o))
    <3>1. Atomic!Apply(o)
      BY <1>5, <2>2, <1>2 DEF DatabaseError
    <3> QED BY <3>1 DEF Atomic!AtomicNext
  <2> QED BY <1>5, <2>1, <2>2 DEF DatabaseError
<1>6. ASSUME NEW i \in Instances, Crash(i) PROVE Atomic!AtomicNext
  <2> DEFINE lost == {o \in Ops : InstanceOf[o] = i /\ pc[o] \in InFlight}
  <2>1. \A o \in lost : callStatus[o] = "pending"
    BY DEF callStatus
  <2>2. \A o \in Ops : callStatus'[o] = IF o \in lost THEN "error" ELSE callStatus[o]
    BY <1>6 DEF Crash, callStatus, InFlight
  <2>3. callStatus' = [o \in Ops |-> IF o \in lost THEN "error" ELSE callStatus[o]]
    BY <2>2 DEF callStatus
  <2>4. Atomic!GiveUp(lost, "error")
    BY <1>6, <2>1, <2>3 DEF Crash, Atomic!GiveUp
  <2> QED BY <2>4 DEF Atomic!AtomicNext
<1>7. ASSUME NEW r \in Resets, ResetRead(r) \/ ResetWrite(r)
      PROVE  Atomic!Reseed \/ UNCHANGED Atomic!atomicVars
  <2>1. callStatus' = callStatus
    BY <1>7 DEF ResetRead, ResetWrite, callStatus
  <2>2. row' = row \/ row'.log = <<>>
    BY <1>7 DEF ResetRead, ResetWrite, compareAndSet
  <2> QED BY <2>1, <2>2 DEF Atomic!Reseed, Atomic!atomicVars
<1>8. CASE UNCHANGED storeVars
  BY <1>8 DEF storeVars, callStatus, Atomic!atomicVars
<1> QED BY <1>1, <1>4, <1>5, <1>6, <1>7, <1>8 DEF StoreNext, Atomic!AtomicNext

\* The store implements the atomic store: every mutation takes effect at most
\* once, at one instant between its call and its answer, on a snapshot its rule
\* accepts, for any number of instances, lost races, crashes and resets.
THEOREM StoreImplementsAtomic == StoreSpec => ImplementsAtomic
<1>1. StoreInit => Atomic!AtomicInit
  BY DEF StoreInit, Atomic!AtomicInit, callStatus, InFlight
<1> QED BY <1>1, StoreInitInv, StoreStepInv, StoreStepAtomic, PTL
        DEF StoreSpec, ImplementsAtomic, Atomic!AtomicSpec

\* A snapshot is only ever extended by one mutation or replaced by the seed, and
\* a reset replaces only a snapshot whose version it read.
THEOREM StoreErasesOnlySeen == StoreSpec => OnlySeenIsErased
<1>1. ASSUME StoreInv, [StoreNext]_storeVars
      PROVE  [\/ UNCHANGED row
              \/ \E o \in Ops : row'.log = Append(row.log, o)
              \/ \E r \in Resets : /\ resetPc[r] = "writing" /\ resetPc'[r] = "done"
                                   /\ resetExpected[r] = row.version
                                   /\ row'.log = <<>>]_storeVars
  <2>0. StoreTypeOK /\ CopyIsCurrent
    BY <1>1 DEF StoreInv
  <2>1. ASSUME NEW o \in Ops, mutate(o) \/ AttemptStep(o) \/ DatabaseError(o)
        PROVE  UNCHANGED row \/ row'.log = Append(row.log, o)
    BY <2>0, <2>1 DEF mutate, AttemptStep, ReadAccepted, ReadRejected, WriteWon, WriteLost, DatabaseError, compareAndSet, CopyIsCurrent
  <2>2. ASSUME NEW i \in Instances, Crash(i) PROVE UNCHANGED row
    BY <2>2 DEF Crash
  <2>3. ASSUME NEW r \in Resets, ResetRead(r) \/ ResetWrite(r)
        PROVE  \/ UNCHANGED row
               \/ /\ resetPc[r] = "writing" /\ resetPc'[r] = "done"
                  /\ resetExpected[r] = row.version
                  /\ row'.log = <<>>
    BY <2>0, <2>3 DEF ResetRead, ResetWrite, compareAndSet, StoreTypeOK
  <2> QED BY <1>1, <2>1, <2>2, <2>3 DEF StoreNext, storeVars
<1> QED BY <1>1, StoreInitInv, StoreStepInv, PTL DEF StoreSpec, OnlySeenIsErased

(***************************************************************************)
(* The queue takes the contention a process has with itself away: while a  *)
(* mutation is between its read and its write it is the head of its        *)
(* instance's queue, so whatever is written then is another instance's.    *)
(***************************************************************************)
\* A mutation that is written and settles: the row grows by that mutation, which
\* was the head of its queue, or the row stays as it was.
LEMMA SettleKeepsOthersAhead ==
    ASSUME StoreInv, NoSelfContention, NEW o \in Ops, AtHead(o),
           NEW answer \in Answers, Settle(o, answer), UNCHANGED resetPc, UNCHANGED copy,
           UNCHANGED row \/ (pc[o] = "writing" /\ compareAndSet(expected[o], Append(copy[o], o)))
    PROVE  NoSelfContention'
<1> SUFFICES ASSUME \A r \in Resets : resetPc[r] # "done",
                    NEW p \in Ops, pc'[p] = "writing",
                    NEW i \in (Len(copy[p]) + 1)..Len(row'.log)
             PROVE  InstanceOf[row'.log[i]] # InstanceOf[p]
  BY DEF NoSelfContention
<1>0. StoreTypeOK /\ WriterAtHead /\ CopyIsCurrent
  BY DEF StoreInv
<1>1. p # o /\ pc[p] = "writing"
  BY <1>0 DEF StoreTypeOK, Settle, Answers
<1>2. \A j \in (Len(copy[p]) + 1)..Len(row.log) : InstanceOf[row.log[j]] # InstanceOf[p]
  BY <1>1 DEF NoSelfContention
<1>3. CASE UNCHANGED row
  BY <1>2, <1>3
<1>4. CASE pc[o] = "writing" /\ compareAndSet(expected[o], Append(copy[o], o))
  <2>1. row'.log = Append(row.log, o)
    BY <1>0, <1>4 DEF compareAndSet, CopyIsCurrent
  <2>2. row.log \in Seq(Ops) /\ copy[p] \in Seq(Ops)
    BY <1>0 DEF StoreTypeOK
  <2>3. InstanceOf[o] # InstanceOf[p]
    BY <1>0, <1>1 DEF WriterAtHead, AtHead
  <2>4. CASE i = Len(row.log) + 1
    BY <2>1, <2>2, <2>3, <2>4
  <2>5. CASE i # Len(row.log) + 1
    <3>1. /\ Len(row'.log) = Len(row.log) + 1
          /\ \A j \in 1..Len(row.log) : row'.log[j] = row.log[j]
      BY <2>1, <2>2
    <3>2. i \in (Len(copy[p]) + 1)..Len(row.log) /\ i \in 1..Len(row.log)
      BY <2>2, <2>5, <3>1, LenProperties
    <3> QED BY <1>2, <3>1, <3>2
  <2> QED BY <2>4, <2>5
<1> QED BY <1>3, <1>4

LEMMA StepKeepsOthersAhead ==
    StoreInv /\ NoSelfContention /\ [StoreNext]_storeVars => NoSelfContention'
<1> SUFFICES ASSUME StoreInv, NoSelfContention, [StoreNext]_storeVars
             PROVE  NoSelfContention'
  OBVIOUS
<1>0. StoreTypeOK /\ WriterAtHead
  BY DEF StoreInv
<1>1. ASSUME NEW o \in Ops, mutate(o) PROVE NoSelfContention'
  BY <1>0, <1>1 DEF mutate, NoSelfContention, StoreTypeOK
<1>2. ASSUME NEW o \in Ops, AttemptStep(o) PROVE NoSelfContention'
  <2>1. CASE ReadAccepted(o)
    <3> SUFFICES ASSUME \A r \in Resets : resetPc[r] # "done",
                        NEW p \in Ops, pc'[p] = "writing",
                        NEW i \in (Len(copy'[p]) + 1)..Len(row.log)
                 PROVE  InstanceOf[row.log[i]] # InstanceOf[p]
      BY <2>1 DEF ReadAccepted, NoSelfContention
    <3>1. CASE p = o
      <4>1. copy'[p] = row.log /\ Len(row.log) \in Nat
        BY <1>0, <2>1, <3>1 DEF ReadAccepted, StoreTypeOK
      <4> QED BY <4>1
    <3>2. CASE p # o
      BY <1>0, <2>1, <3>2 DEF ReadAccepted, StoreTypeOK, NoSelfContention
    <3> QED BY <3>1, <3>2
  <2>2. CASE ReadRejected(o)
    BY <2>2, SettleKeepsOthersAhead DEF ReadRejected, Answers
  <2>3. CASE WriteWon(o)
    BY <1>0, <2>3, SettleKeepsOthersAhead DEF WriteWon, WriterAtHead, Answers
  <2>4. CASE WriteLost(o)
    <3>1. CASE pc' = [pc EXCEPT ![o] = "queued"]
      BY <1>0, <2>4, <3>1 DEF WriteLost, NoSelfContention, StoreTypeOK
    <3>2. CASE Settle(o, "conflict")
      BY <1>0, <2>4, <3>2, SettleKeepsOthersAhead DEF WriteLost, WriterAtHead, Answers
    <3> QED BY <2>4, <3>1, <3>2 DEF WriteLost
  <2> QED BY <1>2, <2>1, <2>2, <2>3, <2>4 DEF AttemptStep
<1>3. ASSUME NEW o \in Ops, DatabaseError(o) PROVE NoSelfContention'
  BY <1>3, SettleKeepsOthersAhead DEF DatabaseError, Answers
<1>4. ASSUME NEW i \in Instances, Crash(i) PROVE NoSelfContention'
  BY <1>0, <1>4 DEF Crash, NoSelfContention, StoreTypeOK
<1>5. ASSUME NEW r \in Resets, ResetRead(r) PROVE NoSelfContention'
  <2>1. \A s \in Resets : resetPc'[s] # "done" => resetPc[s] # "done"
    BY <1>0, <1>5 DEF StoreTypeOK, ResetRead
  <2> QED BY <1>5, <2>1 DEF ResetRead, NoSelfContention
<1>6. ASSUME NEW r \in Resets, ResetWrite(r) PROVE NoSelfContention'
  BY <1>0, <1>6 DEF ResetWrite, NoSelfContention, StoreTypeOK
<1>7. CASE UNCHANGED storeVars
  BY <1>7 DEF storeVars, NoSelfContention
<1> QED BY <1>1, <1>2, <1>3, <1>4, <1>5, <1>6, <1>7 DEF StoreNext

\* As long as no reset went around the queue, a mutation that loses its race
\* loses it to another instance, never to one queued behind it on its own.
THEOREM StoreQueueAvoidsItself == StoreSpec => []NoSelfContention
<1>1. StoreInit => NoSelfContention
  BY DEF StoreInit, NoSelfContention
<1> QED BY <1>1, StoreInitInv, StoreStepInv, StepKeepsOthersAhead, PTL DEF StoreSpec

=============================================================================
