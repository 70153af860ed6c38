----------------------------- MODULE AtomicStore -----------------------------
(***************************************************************************)
(* What a VoltaStore promises its callers, whatever number of server       *)
(* instances share the snapshot: every mutation takes effect at one        *)
(* instant between its call and its answer, against the state of that      *)
(* instant, at most once.  A mutation whose own rule forbids it is         *)
(* rejected without effect; one the store could not place, or whose answer *)
(* was lost, is answered by an error, and only in the second case may it   *)
(* have had its effect.  A reset returns the operation to its seed.        *)
(*                                                                         *)
(* The operation's state is abstracted to the sequence of mutations that   *)
(* were applied since the seed.                                            *)
(***************************************************************************)
EXTENDS Naturals, Sequences

CONSTANTS Ops,        \* the calls to store mutations, each with its identity
          Excludes    \* Excludes[o]: the mutations after which o is refused

VARIABLES state,      \* the mutations applied since the seed
          status      \* where each call stands for its caller

atomicVars == <<state, status>>

Applied(log) == {log[i] : i \in 1..Len(log)}

\* The rule the mutation's own function checks ("An active commitment already
\* exists", "Commitment not found", ...) accepts the state.
Accepts(o, log) == Excludes[o] \cap Applied(log) = {}

AtomicInit ==
    /\ state = <<>>
    /\ status = [o \in Ops |-> "new"]

Call(o) ==
    /\ status[o] = "new"
    /\ status' = [status EXCEPT ![o] = "pending"]
    /\ UNCHANGED state

\* The mutation takes effect; the caller is told so, unless the answer is lost.
Apply(o) ==
    /\ status[o] = "pending"
    /\ Accepts(o, state)
    /\ state' = Append(state, o)
    /\ \E answer \in {"ok", "error"} : status' = [status EXCEPT ![o] = answer]

Refuse(o) ==
    /\ status[o] = "pending"
    /\ ~Accepts(o, state)
    /\ status' = [status EXCEPT ![o] = "rejected"]
    /\ UNCHANGED state

\* The store gives up on a set of calls (one lost race too many, a database
\* error, the death of an instance) and none of them has an effect.
GiveUp(calls, answer) ==
    /\ \A o \in calls : status[o] = "pending"
    /\ status' = [o \in Ops |-> IF o \in calls THEN answer ELSE status[o]]
    /\ UNCHANGED state

Reseed ==
    /\ state' = <<>>
    /\ UNCHANGED status

AtomicNext ==
    \/ \E o \in Ops : Call(o) \/ Apply(o) \/ Refuse(o)
    \/ \E calls \in SUBSET Ops, answer \in {"conflict", "error"} :
          GiveUp(calls, answer)
    \/ Reseed

AtomicSpec == AtomicInit /\ [][AtomicNext]_atomicVars

=============================================================================
