---------------------------- MODULE SnapshotStore ----------------------------
(***************************************************************************)
(* BaseSnapshotStore (lib/store/base.ts) over a shared versioned row: the  *)
(* volta_state row of Supabase, or the process-wide snapshot of the memory *)
(* store.  Each server instance chains its mutations on one promise (its   *)
(* write queue); the mutation at the head reads the row, runs its function *)
(* on a copy, and writes the copy back only if the row still has the       *)
(* version it read, retrying a lost race a bounded number of times.        *)
(* reset() goes around the queue.                                          *)
(*                                                                         *)
(* The snapshot is abstracted to the sequence of mutations applied since   *)
(* the seed, which is what tells a lost update, a duplicated update and a  *)
(* rule checked against stale state apart.                                 *)
(***************************************************************************)
EXTENDS Naturals, Sequences, FiniteSets

CONSTANTS Ops,          \* the calls to store mutations, each with its identity
          Excludes,     \* Excludes[o]: the mutations after which o is refused
          Instances,    \* server processes, each with its own write queue
          InstanceOf,   \* the instance each mutation is called on
          MaxAttempts,  \* attempts of a mutation (6 in the code)
          Resets        \* calls to reset()

ASSUME StoreAssumption ==
    /\ MaxAttempts \in Nat \ {0}
    /\ InstanceOf \in [Ops -> Instances]
    /\ Excludes \in [Ops -> SUBSET Ops]

VARIABLES row,          \* the shared row: its version and the snapshot
          writeQueue,   \* per instance, the mutations chained on its promise
          pc,           \* per mutation: where it is, or how it was answered
          attempt,      \* per mutation: lost races so far
          expected,     \* per mutation: expectedVersion, the version it read
          copy,         \* per mutation: the snapshot it read
          resetPc,      \* per reset: "new", "writing", "done"
          resetExpected \* per reset: the version it read

storeVars == <<row, writeQueue, pc, attempt, expected, copy, resetPc, resetExpected>>

Answers  == {"ok", "rejected", "conflict", "error"}
InFlight == {"queued", "writing"}

\* The calls an abstract observer sees as pending or answered.
callStatus == [o \in Ops |-> IF pc[o] \in InFlight THEN "pending" ELSE pc[o]]

\* The store every caller is promised; its state is the snapshot of the row.
Atomic == INSTANCE AtomicStore WITH state <- row.log, status <- callStatus

\* The function the mutation runs on its copy returns instead of throwing.
Accepts(o, log) == Atomic!Accepts(o, log)

StoreTypeOK ==
    /\ row \in [version : Nat, log : Seq(Ops)]
    /\ writeQueue \in [Instances -> Seq(Ops)]
    /\ pc \in [Ops -> {"new"} \cup InFlight \cup Answers]
    /\ attempt \in [Ops -> 0..(MaxAttempts - 1)]
    /\ expected \in [Ops -> Nat]
    /\ copy \in [Ops -> Seq(Ops)]
    /\ resetPc \in [Resets -> {"new", "writing", "done"}]
    /\ resetExpected \in [Resets -> Nat]

\* createSeedSnapshot: the row the first read inserts.
StoreInit ==
    /\ row = [version |-> 1, log |-> <<>>]
    /\ writeQueue = [i \in Instances |-> <<>>]
    /\ pc = [o \in Ops |-> "new"]
    /\ attempt = [o \in Ops |-> 0]
    /\ expected = [o \in Ops |-> 0]
    /\ copy = [o \in Ops |-> <<>>]
    /\ resetPc = [r \in Resets |-> "new"]
    /\ resetExpected = [r \in Resets |-> 0]

(***************************************************************************)
(* The write queue.                                                        *)
(***************************************************************************)
\* Mutant of AtHead: the chain is dropped and every called mutation runs at once.
AtHeadUnchained(o) ==
    \E k \in 1..Len(writeQueue[InstanceOf[o]]) : writeQueue[InstanceOf[o]][k] = o

\* Only the mutation whose predecessors have all settled runs.
AtHead(o) ==
    LET q == writeQueue[InstanceOf[o]]
    IN  q # <<>> /\ Head(q) = o

\* Mutant of Settle: the chain keeps the rejection of a mutation that failed.
SettleBreaksChain(o, answer) ==
    /\ pc' = [pc EXCEPT ![o] = answer]
    /\ writeQueue' = [writeQueue EXCEPT ![InstanceOf[o]] =
                         IF answer = "ok" THEN Tail(@) ELSE @]

\* The promise of o settles and the next mutation of the chain may run, however
\* o settled: a rejection is swallowed by the chain, not by the caller.
Settle(o, answer) ==
    /\ pc' = [pc EXCEPT ![o] = answer]
    /\ writeQueue' = [writeQueue EXCEPT ![InstanceOf[o]] = Tail(@)]

\* Mutant of compareAndSet: the version is not moved.
compareAndSetSameVersion(version, log) ==
    /\ row.version = version
    /\ row' = [version |-> version, log |-> log]

\* writeSnapshot finds the version it expects and stores the snapshot.
compareAndSet(version, log) ==
    /\ row.version = version
    /\ row' = [version |-> version + 1, log |-> log]

(***************************************************************************)
(* Mutations.                                                              *)
(***************************************************************************)
mutate(o) ==
    /\ pc[o] = "new"
    /\ pc' = [pc EXCEPT ![o] = "queued"]
    /\ writeQueue' = [writeQueue EXCEPT ![InstanceOf[o]] = Append(@, o)]
    /\ UNCHANGED <<row, attempt, expected, copy, resetPc, resetExpected>>

\* Mutant of ReadAccepted: a retry does not check the rule on what it re-read.
ReadAcceptedOnce(o) ==
    /\ AtHead(o)
    /\ pc[o] = "queued"
    /\ attempt[o] = 0 => Accepts(o, row.log)
    /\ pc' = [pc EXCEPT ![o] = "writing"]
    /\ expected' = [expected EXCEPT ![o] = row.version]
    /\ copy' = [copy EXCEPT ![o] = row.log]
    /\ UNCHANGED <<row, writeQueue, attempt, resetPc, resetExpected>>

\* An attempt reads the row and its function accepts the copy.
ReadAccepted(o) ==
    /\ AtHead(o)
    /\ pc[o] = "queued"
    /\ Accepts(o, row.log)
    /\ pc' = [pc EXCEPT ![o] = "writing"]
    /\ expected' = [expected EXCEPT ![o] = row.version]
    /\ copy' = [copy EXCEPT ![o] = row.log]
    /\ UNCHANGED <<row, writeQueue, attempt, resetPc, resetExpected>>

\* An attempt reads the row and its function throws: the rejection reaches the
\* caller and nothing is written.
ReadRejected(o) ==
    /\ AtHead(o)
    /\ pc[o] = "queued"
    /\ ~Accepts(o, row.log)
    /\ Settle(o, "rejected")
    /\ UNCHANGED <<row, attempt, expected, copy, resetPc, resetExpected>>

WriteWon(o) ==
    /\ pc[o] = "writing"
    /\ compareAndSet(expected[o], Append(copy[o], o))
    /\ Settle(o, "ok")
    /\ UNCHANGED <<attempt, expected, copy, resetPc, resetExpected>>

\* Mutant of WriteLost: the last attempt is counted one too late.
WriteLostOffByOne(o) ==
    /\ pc[o] = "writing"
    /\ row.version # expected[o]
    /\ \/ /\ attempt[o] < MaxAttempts
          /\ attempt' = [attempt EXCEPT ![o] = @ + 1]
          /\ pc' = [pc EXCEPT ![o] = "queued"]
          /\ UNCHANGED writeQueue
       \/ /\ attempt[o] = MaxAttempts
          /\ Settle(o, "conflict")
          /\ UNCHANGED attempt
    /\ UNCHANGED <<row, expected, copy, resetPc, resetExpected>>

\* Mutant of WriteLost: the retry takes the new version but not the new snapshot.
WriteLostKeepsCopy(o) ==
    /\ pc[o] = "writing"
    /\ row.version # expected[o]
    /\ expected' = [expected EXCEPT ![o] = row.version]
    /\ UNCHANGED <<row, writeQueue, pc, attempt, copy, resetPc, resetExpected>>

\* Mutant of WriteLost: the false of writeSnapshot is ignored.
WriteLostIgnored(o) ==
    /\ pc[o] = "writing"
    /\ row.version # expected[o]
    /\ Settle(o, "ok")
    /\ UNCHANGED <<row, attempt, expected, copy, resetPc, resetExpected>>

\* The row moved since it was read: back off and read again, or give up.
WriteLost(o) ==
    /\ pc[o] = "writing"
    /\ row.version # expected[o]
    /\ \/ /\ attempt[o] + 1 < MaxAttempts
          /\ attempt' = [attempt EXCEPT ![o] = @ + 1]
          /\ pc' = [pc EXCEPT ![o] = "queued"]
          /\ UNCHANGED writeQueue
       \/ /\ attempt[o] + 1 = MaxAttempts
          /\ Settle(o, "conflict")
          /\ UNCHANGED attempt
    /\ UNCHANGED <<row, expected, copy, resetPc, resetExpected>>

\* The database client reports an error on the read, or on the write; the write
\* may have reached the row all the same.
DatabaseError(o) ==
    /\ AtHead(o)
    /\ pc[o] \in InFlight
    /\ Settle(o, "error")
    /\ \/ UNCHANGED row
       \/ pc[o] = "writing" /\ compareAndSet(expected[o], Append(copy[o], o))
    /\ UNCHANGED <<attempt, expected, copy, resetPc, resetExpected>>

\* The instance dies with whatever its queue held.
Crash(i) ==
    /\ writeQueue[i] # <<>>
    /\ pc' = [o \in Ops |-> IF InstanceOf[o] = i /\ pc[o] \in InFlight
                            THEN "error" ELSE pc[o]]
    /\ writeQueue' = [writeQueue EXCEPT ![i] = <<>>]
    /\ UNCHANGED <<row, attempt, expected, copy, resetPc, resetExpected>>

(***************************************************************************)
(* reset().                                                                *)
(***************************************************************************)
\* Reads the version to write over; a failed read counts as version 0.
ResetRead(r) ==
    /\ resetPc[r] = "new"
    /\ resetPc' = [resetPc EXCEPT ![r] = "writing"]
    /\ \E version \in {row.version, 0} :
          resetExpected' = [resetExpected EXCEPT ![r] = version]
    /\ UNCHANGED <<row, writeQueue, pc, attempt, expected, copy>>

\* Mutant of ResetWrite: the seed replaces whatever the row holds.
ResetWriteBlind(r) ==
    /\ resetPc[r] = "writing"
    /\ resetPc' = [resetPc EXCEPT ![r] = "done"]
    /\ row' = [version |-> row.version + 1, log |-> <<>>]
    /\ UNCHANGED <<writeQueue, pc, attempt, expected, copy, resetExpected>>

\* Writes the seed over that version.  Whether the row still had it is ignored.
ResetWrite(r) ==
    /\ resetPc[r] = "writing"
    /\ resetPc' = [resetPc EXCEPT ![r] = "done"]
    /\ \/ compareAndSet(resetExpected[r], <<>>)
       \/ row.version # resetExpected[r] /\ UNCHANGED row
    /\ UNCHANGED <<writeQueue, pc, attempt, expected, copy, resetExpected>>

AttemptStep(o) ==
    \/ ReadAccepted(o)
    \/ ReadRejected(o)
    \/ WriteWon(o)
    \/ WriteLost(o)

StoreNext ==
    \/ \E o \in Ops : mutate(o) \/ AttemptStep(o) \/ DatabaseError(o)
    \/ \E i \in Instances : Crash(i)
    \/ \E r \in Resets : ResetRead(r) \/ ResetWrite(r)

StoreSpec == StoreInit /\ [][StoreNext]_storeVars

\* The event loop runs a ready continuation: a mutation at the head of its
\* queue goes on to its next read or write.
StoreFairness == \A o \in Ops : WF_storeVars(AttemptStep(o))

FairStoreSpec == StoreSpec /\ StoreFairness

(***************************************************************************)
(* Properties.                                                             *)
(***************************************************************************)
\* A mutation about to write a row that still has the version it read holds
\* that row's very snapshot: equal versions mean equal snapshots, so the
\* compare-and-set of writeSnapshot can never overwrite a write it did not see.
CopyIsCurrent ==
    \A o \in Ops :
        (pc[o] = "writing" /\ expected[o] = row.version) => copy[o] = row.log

\* Every mutation in the snapshot was applied to a snapshot its own rule accepts:
\* two stageBooking calls, each refused when a commitment stands, are never both
\* applied, even when two instances checked their rules at the same time.
ExclusionHolds ==
    \A i \in 1..Len(row.log) : \A j \in 1..(i - 1) :
        row.log[j] \notin Excludes[row.log[i]]

\* Unless a reset erased them, the snapshot holds every mutation that was
\* acknowledged, each exactly once, and nothing that was refused.
AcknowledgedOnce ==
    /\ \A i, j \in 1..Len(row.log) : row.log[i] = row.log[j] => i = j
    /\ \A i \in 1..Len(row.log) : pc[row.log[i]] \in {"ok", "error"}
    /\ (\A r \in Resets : resetPc[r] # "done") =>
          {o \in Ops : pc[o] = "ok"} \subseteq Atomic!Applied(row.log)

\* A snapshot is only ever extended by one mutation or replaced by the seed;
\* a reset replaces only a snapshot whose version it read, so it never erases a
\* mutation that landed after it looked.
OnlySeenIsErased ==
    [][\/ UNCHANGED row
       \/ \E o \in Ops : row'.log = Append(row.log, o)
       \/ \E r \in Resets : /\ resetPc[r] = "writing" /\ resetPc'[r] = "done"
                            /\ resetExpected[r] = row.version
                            /\ row'.log = <<>>]_storeVars

\* The store implements the atomic store it promises.
ImplementsAtomic == Atomic!AtomicSpec

\* Every mutation that was called is eventually answered: the retries are
\* bounded, and a mutation that fails does not hold up the ones behind it.
EveryMutationAnswered ==
    \A o \in Ops : pc[o] = "queued" ~> pc[o] \in Answers

\* The queue removes the contention a process creates against itself: what gets
\* ahead of a mutation that read the row and is about to write it comes from
\* other instances (or from a reset, which goes around the queue), so a lost
\* race is never lost against one's own instance.
NoSelfContention ==
    (\A r \in Resets : resetPc[r] # "done") =>
        \A o \in Ops : pc[o] = "writing" =>
            \A i \in (Len(copy[o]) + 1)..Len(row.log) :
                InstanceOf[row.log[i]] # InstanceOf[o]

=============================================================================
