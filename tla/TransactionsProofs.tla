------------------------- MODULE TransactionsProofs -------------------------
(***************************************************************************)
(* Theorems about Transactions for any clients, keys and queue bound.      *)
(***************************************************************************)
EXTENDS Transactions, FiniteSetTheorems, TLAPS

(* A command of a kind that only `Commands` has is of that kind's shape. *)
LEMMA CommandTypes ==
    ASSUME NEW cmd \in Commands \cup {NoCommand}
    PROVE  /\ cmd.op \in {"set", "zadd"} => cmd.key \in Keys
           /\ cmd.op = "watch" => cmd.keys \in SUBSET Keys
           /\ cmd.op = "exec" => cmd.commands \in Seq(Queueable)
  BY WriteOpsAssumption
     DEF Commands, Queueable, KeyCommands, UnwatchCommand, DiscardCommand, NoCommand

(* What a client task dispatches is a command. *)
LEMMA DispatchedTypes ==
    /\ \A cmd \in Queueable : cmd \in Commands
    /\ Watches \subseteq Commands
    /\ \A q \in Seq(Queueable) : ExecuteTx(q) \in Commands
    /\ DiscardCommand \in Commands
  BY DEF Commands, Watches, WatchCommand, ExecuteTx

(* The keys a queue writes are keys. *)
LEMMA WritesType ==
    ASSUME NEW q \in Seq(Queueable)
    PROVE  Writes(q) \subseteq Keys
<1>1. \A i \in 1..Len(q) : q[i] \in Queueable
  OBVIOUS
<1>2. \A i \in 1..Len(q) : q[i].op \in {"set", "zadd"} => q[i].key \in Keys
  BY <1>1, CommandTypes, DispatchedTypes
<1> QED BY <1>2 DEF Writes

-----------------------------------------------------------------------------
(* Type correctness, one lemma for the client tasks and one for the store. *)

(* The client tasks keep the types. *)
LEMMA ClientStepType ==
    ASSUME TypeOK, NEW c \in Clients,
           \/ RunNormal(c) \/ RunMulti(c) \/ RunQueued(c)
           \/ RunExec(c) \/ RunDiscard(c) \/ Leave(c)
    PROVE  TypeOK'
<1> USE DEF TypeOK, StoreUnchanged, history, Dispatch
<1>1. CASE RunNormal(c)
  BY <1>1, DispatchedTypes DEF RunNormal, clients
<1>2. CASE RunMulti(c)
  <2>1. << >> \in Seq(Queueable)
    OBVIOUS
  <2> QED BY <1>2, <2>1 DEF RunMulti
<1>3. CASE RunQueued(c)
  <2>1. PICK cmd \in Queueable : queue' = [queue EXCEPT ![c] = Append(@, cmd)]
    BY <1>3 DEF RunQueued
  <2>2. queue' \in [Clients -> Seq(Queueable)]
    BY <2>1
  <2> QED BY <1>3, <2>2 DEF RunQueued
<1>4. ASSUME NEW cmd \in Commands, LeaveTransaction(c, cmd)
      PROVE  TypeOK'
  <2>1. << >> \in Seq(Queueable)
    OBVIOUS
  <2> QED BY <1>4, <2>1 DEF LeaveTransaction
<1>5. CASE RunExec(c)
  BY <1>4, <1>5, DispatchedTypes DEF RunExec
<1>6. CASE RunDiscard(c)
  BY <1>4, <1>6, DispatchedTypes DEF RunDiscard
<1>7. CASE Leave(c)
  <2>1. << >> \in Seq(Queueable)
    OBVIOUS
  <2> QED BY <1>7, <2>1 DEF Leave
<1> QED BY <1>1, <1>2, <1>3, <1>5, <1>6, <1>7

(* A write keeps the types of what it changes. *)
LEMMA WriteType ==
    ASSUME TypeOK, NEW c \in Ids, NEW k \in Keys, NEW mark \in SUBSET Keys,
           Write(c, k, mark)
    PROVE  /\ watched_keys' \in [Keys -> SUBSET Ids]
           /\ conflicts' \in [Clients -> SUBSET (Keys \X Ids)]
           /\ unsettled' \in [Clients -> SUBSET (Keys \X Ids)]
  BY DEF TypeOK, Write, Marked, ChangeBy

(* The end of a client's watch keeps the types of the history. *)
LEMMA SettleType ==
    ASSUME TypeOK, NEW c \in Clients, Settle(c)
    PROVE  /\ watching' \in [Clients -> SUBSET Keys]
           /\ unsettled' \in [Clients -> SUBSET (Keys \X Ids)]
  BY DEF TypeOK, Settle

(* So does the cleanup of watched_keys. *)
LEMMA CleanedUpType ==
    ASSUME TypeOK, NEW c
    PROVE  CleanedUp(c) \in [Keys -> SUBSET Ids]
  BY DEF TypeOK, CleanedUp

(* An answered client has no command under way. *)
LEMMA AnsweredType ==
    ASSUME TypeOK, NEW c, Answered(c)
    PROVE  pending' \in [Clients -> Commands \cup {NoCommand}]
  BY DEF TypeOK, Answered

(* The store keeps the types. *)
LEMMA StoreStepType ==
    ASSUME TypeOK, NEW c \in Clients,
           \/ ExecWatch(c) \/ ExecWrite(c) \/ ExecUnwatch(c)
           \/ AbortTx(c) \/ CommitTx(c)
    PROVE  TypeOK'
<1>1. pending' \in [Clients -> Commands \cup {NoCommand}]
  BY AnsweredType DEF ExecWatch, ExecWrite, ExecUnwatch, AbortTx, CommitTx
<1>2. CASE ExecWatch(c)
  <2>1. pending[c].keys \in SUBSET Keys
    BY <1>2, CommandTypes DEF ExecWatch, Receives, TypeOK
  <2> QED BY <1>1, <1>2, <2>1 DEF ExecWatch, TypeOK, clients, Ids
<1>3. CASE ExecWrite(c)
  <2>1. pending[c].key \in Keys
    BY <1>3, CommandTypes DEF ExecWrite, TypeOK
  <2> QED BY <1>1, <1>3, <2>1, WriteType DEF ExecWrite, TypeOK, clients, Ids
<1>4. CASE ExecUnwatch(c)
  BY <1>1, <1>4, CleanedUpType, SettleType DEF ExecUnwatch, TypeOK, clients
<1>5. CASE AbortTx(c)
  BY <1>1, <1>5, CleanedUpType, SettleType DEF AbortTx, TypeOK, clients
<1>6. CASE CommitTx(c)
  <2>1. Writes(pending[c].commands) \subseteq Keys
    BY <1>6, CommandTypes, WritesType DEF CommitTx, Receives, TypeOK
  <2>2. conflicts' \in [Clients -> SUBSET (Keys \X Ids)]
    BY <1>6, <2>1 DEF CommitTx, TypeOK, Ids
  <2> QED BY <1>1, <1>6, <2>2, CleanedUpType, SettleType DEF CommitTx, TypeOK, clients
<1> QED BY <1>2, <1>3, <1>4, <1>5, <1>6

(* The initial state is type-correct. *)
LEMMA InitType == Init => TypeOK
<1>1. << >> \in Seq(Queueable)
  OBVIOUS
<1> QED BY <1>1 DEF Init, TypeOK

(* Every step keeps the types. *)
LEMMA NextType ==
    ASSUME TypeOK, [Next]_vars
    PROVE  TypeOK'
<1>1. CASE ExecReplicated
  BY <1>1, WriteType DEF ExecReplicated, TypeOK, clients, Ids
<1>2. CASE UNCHANGED vars
  BY <1>2 DEF vars, clients, history, TypeOK
<1> QED BY <1>1, <1>2, ClientStepType, StoreStepType DEF Next

(* The modes, the queues, the commands under way and watched_keys keep their
   types; above all, no queue ever holds a WATCH.                           *)
THEOREM TypeCorrect == Spec => []TypeOK
  BY InitType, NextType, PTL DEF Spec

-----------------------------------------------------------------------------
(* What watched_keys records.                                              *)

UnsettledWatched ==
    \A c \in Clients : \A u \in unsettled[c] : u[1] \in watching[c]

LockInv == TypeOK /\ WatchesRecorded /\ UnsettledRecorded /\ UnsettledWatched

(* A write only adds to the entries, and enters its writer where somebody watches. *)
LEMMA WriteRecords ==
    ASSUME LockInv, NEW c \in Ids, NEW k \in Keys, NEW mark \in SUBSET Keys,
           Write(c, k, mark), watching' = watching
    PROVE  WatchesRecorded' /\ UnsettledRecorded' /\ UnsettledWatched'
<1> USE DEF LockInv, TypeOK
<1>1. \A j \in Keys : /\ watched_keys[j] \subseteq watched_keys'[j]
                      /\ j \in mark /\ watched_keys[j] # {} => c \in watched_keys'[j]
  BY DEF Write, Marked
<1>2. WatchesRecorded'
  BY <1>1 DEF WatchesRecorded
<1>3. ASSUME NEW d \in Clients, NEW u \in unsettled'[d]
      PROVE  u[2] \in watched_keys'[u[1]] \ {d}
  <2>1. CASE u \in unsettled[d]
    <3>1. u[1] \in Keys /\ u[2] \in watched_keys[u[1]] \ {d}
      BY <2>1 DEF UnsettledRecorded
    <3> QED BY <1>1, <3>1
  <2>2. CASE u \notin unsettled[d]
    <3>1. d # c /\ (\E j \in mark \cap watching[d] : u = <<j, c>>)
      BY <1>3, <2>2 DEF Write
    <3>2. PICK j \in mark \cap watching[d] : u = <<j, c>>
      BY <3>1
    <3>3. d \in watched_keys[j] /\ j \in Keys
      BY <3>2 DEF WatchesRecorded
    <3> QED BY <1>1, <3>1, <3>2, <3>3
  <2> QED BY <2>1, <2>2
<1>4. UnsettledWatched'
  BY DEF Write, UnsettledWatched
<1> QED BY <1>2, <1>3, <1>4 DEF UnsettledRecorded

(* A cleanup takes one client away, with its own watches and the record of its writes. *)
LEMMA SettleRecords ==
    ASSUME LockInv, NEW c \in Clients, Settle(c), watched_keys' = CleanedUp(c)
    PROVE  WatchesRecorded' /\ UnsettledRecorded' /\ UnsettledWatched'
<1> USE DEF LockInv, TypeOK
<1>1. \A j \in Keys : watched_keys'[j] = watched_keys[j] \ {c}
  BY DEF CleanedUp
<1>2. ASSUME NEW d \in Clients, NEW k \in watching'[d]
      PROVE  d \in watched_keys'[k]
  <2>1. d # c /\ k \in watching[d]
    BY <1>2 DEF Settle
  <2> QED BY <1>1, <2>1 DEF WatchesRecorded
<1>3. ASSUME NEW d \in Clients, NEW u \in unsettled'[d]
      PROVE  u[2] \in watched_keys'[u[1]] \ {d}
  <2>1. d # c /\ u \in unsettled[d] /\ u[2] # c
    BY <1>3 DEF Settle
  <2>2. u[1] \in Keys /\ u[2] \in watched_keys[u[1]] \ {d}
    BY <2>1 DEF UnsettledRecorded
  <2> QED BY <1>1, <2>1, <2>2
<1>4. UnsettledWatched'
  BY DEF Settle, UnsettledWatched
<1> QED BY <1>2, <1>3, <1>4 DEF WatchesRecorded, UnsettledRecorded

(* Every step keeps the invariant. *)
LEMMA NextRecords ==
    ASSUME LockInv, [Next]_vars
    PROVE  LockInv'
<1>1. TypeOK'
  BY NextType DEF LockInv
<1>2. CASE UNCHANGED <<watched_keys, watching, unsettled>>
  BY <1>1, <1>2 DEF LockInv, WatchesRecorded, UnsettledRecorded, UnsettledWatched
<1>3. CASE ExecReplicated
  BY <1>1, <1>3, WriteRecords DEF ExecReplicated, LockInv, Ids
<1>4. ASSUME NEW c \in Clients,
             \/ RunNormal(c) \/ RunMulti(c) \/ RunQueued(c)
             \/ RunExec(c) \/ RunDiscard(c) \/ Leave(c)
      PROVE  UNCHANGED <<watched_keys, watching, unsettled>>
  BY <1>4 DEF RunNormal, RunMulti, RunQueued, RunExec, RunDiscard, LeaveTransaction,
              Leave, StoreUnchanged, history
<1>5. ASSUME NEW c \in Clients, ExecWatch(c)
      PROVE  LockInv'
  <2>1. pending[c].keys \in SUBSET Keys
    BY <1>5, CommandTypes DEF ExecWatch, Receives, LockInv, TypeOK
  <2> DEFINE ks == pending[c].keys
  <2>2. /\ watched_keys' = [k \in Keys |-> IF k \in ks THEN watched_keys[k] \cup {c}
                                          ELSE watched_keys[k]]
        /\ watching' = [watching EXCEPT ![c] = @ \cup ks]
        /\ unsettled' = unsettled
    BY <1>5 DEF ExecWatch
  <2>3. WatchesRecorded'
    BY <2>1, <2>2 DEF LockInv, TypeOK, WatchesRecorded
  <2>4. UnsettledRecorded'
    <3>1. ASSUME NEW d \in Clients, NEW u \in unsettled[d]
          PROVE  u[2] \in watched_keys'[u[1]] \ {d}
      <4>1. u[1] \in Keys /\ u[2] \in watched_keys[u[1]] \ {d}
        BY DEF LockInv, TypeOK, UnsettledRecorded
      <4> QED BY <2>1, <2>2, <4>1 DEF LockInv, TypeOK
    <3> QED BY <2>2, <3>1 DEF UnsettledRecorded
  <2>5. UnsettledWatched'
    BY <2>2 DEF LockInv, TypeOK, UnsettledWatched
  <2> QED BY <1>1, <2>3, <2>4, <2>5 DEF LockInv
<1>6. ASSUME NEW c \in Clients, ExecWrite(c)
      PROVE  LockInv'
  <2>1. pending[c].key \in Keys
    BY <1>6, CommandTypes DEF ExecWrite, LockInv, TypeOK
  <2> QED BY <1>1, <1>6, <2>1, WriteRecords DEF ExecWrite, LockInv, Ids
<1>7. ASSUME NEW c \in Clients, ExecUnwatch(c) \/ AbortTx(c) \/ CommitTx(c)
      PROVE  LockInv'
  BY <1>1, <1>7, SettleRecords DEF ExecUnwatch, AbortTx, CommitTx, LockInv
<1> QED BY <1>2, <1>3, <1>4, <1>5, <1>6, <1>7 DEF Next, vars, history

(* The inductive invariant holds throughout. *)
LEMMA LockInvariant == Spec => []LockInv
<1>1. Init => LockInv
  BY InitType DEF Init, LockInv, WatchesRecorded, UnsettledRecorded, UnsettledWatched
<1> QED BY <1>1, NextRecords, PTL DEF Spec

(* No cleanup of one client ever takes another's watch away. *)
THEOREM WatchesAreRecorded == Spec => []WatchesRecorded
<1>1. LockInv => WatchesRecorded
  BY DEF LockInv
<1> QED BY <1>1, LockInvariant, PTL

(* A conflicting write stays recorded until its writer cleans up. *)
THEOREM ConflictsAreRecorded == Spec => []UnsettledRecorded
<1>1. LockInv => UnsettledRecorded
  BY DEF LockInv
<1> QED BY <1>1, LockInvariant, PTL

(* Two members make a set of more than one. *)
LEMMA TwoElements ==
    ASSUME NEW W, IsFiniteSet(W), NEW x \in W, NEW y \in W, x # y
    PROVE  Cardinality(W) > 1
<1>1. /\ IsFiniteSet({x}) /\ Cardinality({x}) = 1
  BY FS_Singleton
<1>2. /\ IsFiniteSet({x} \cup {y}) /\ Cardinality({x} \cup {y}) = 2
  BY <1>1, FS_AddElement
<1>3. Cardinality({x} \cup {y}) <= Cardinality(W)
  <2>1. {x} \cup {y} \subseteq W
    OBVIOUS
  <2> QED BY <2>1, FS_Subset
<1>4. Cardinality(W) \in Nat
  BY FS_CardinalityType
<1> QED BY <1>2, <1>3, <1>4

(* The lock misses no conflict whose writer has not cleaned up: the one thing
   the optimistic lock does guarantee.                                      *)
THEOREM UnsettledConflictsAbort == Spec => UnsettledConflictAborts
<1>1. ASSUME LockInv, NEW c \in Clients, CommitTx(c)
      PROVE  unsettled[c] = {}
  <2>1. SUFFICES ASSUME NEW u \in unsettled[c]
                 PROVE  LockFailed(c)
    BY <1>1 DEF CommitTx, LockInv, TypeOK
  <2>2. u[1] \in Keys /\ u[2] \in watched_keys[u[1]] \ {c} /\ u[1] \in watching[c]
    BY <1>1 DEF LockInv, TypeOK, UnsettledRecorded, UnsettledWatched
  <2>3. c \in watched_keys[u[1]]
    BY <1>1, <2>2 DEF LockInv, WatchesRecorded
  <2>4. IsFiniteSet(watched_keys[u[1]])
    <3>1. IsFiniteSet(Ids)
      BY ClientsAssumption, FS_AddElement DEF Ids
    <3>2. watched_keys[u[1]] \subseteq Ids
      BY <1>1, <2>2 DEF LockInv, TypeOK
    <3> QED BY <3>1, <3>2, FS_Subset
  <2>5. Cardinality(watched_keys[u[1]]) > 1
    BY <2>2, <2>3, <2>4, TwoElements
  <2> QED BY <2>2, <2>3, <2>5 DEF LockFailed
<1>2. LockInv => [\A c \in Clients : CommitTx(c) => unsettled[c] = {}]_vars
  BY <1>1
<1> QED BY <1>2, LockInvariant, PTL DEF UnsettledConflictAborts

=============================================================================
