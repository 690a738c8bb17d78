---------------------------- MODULE Transactions ----------------------------
(***************************************************************************)
(* WATCH, UNWATCH, MULTI, EXEC and DISCARD: the part the client task plays  *)
(* (ClientRunMode::run: command queueing) and the part the store plays      *)
(* (try_execute: watched_keys and the optimistic lock).                     *)
(*                                                                         *)
(* Values are left out: of a write the model keeps who wrote which key, and *)
(* whom that concerns (the history).  The writing commands are of two kinds: *)
(* those modified_keys names (SET, INCR, LPUSH, RPUSH, XADD), here "set",   *)
(* and those it does not (LPOP, BLPOP, ZADD, ZREM, GEOADD), here "zadd".    *)
(* A command travels to the store through `pending`: each client has at     *)
(* most one under way, and those of different clients arrive in any order.  *)
(* Commands that only read concern neither part and are left out.           *)
(***************************************************************************)
EXTENDS Integers, Sequences, FiniteSets

CONSTANTS
    Clients,     \* client ids; an id is never used for two connections
    Keys,
    MasterLink,  \* id 0, under which a replica runs what its master sends
    WriteOps,    \* the kinds of writing commands the clients send
    MaxQueue     \* bound: commands queued in one transaction

ASSUME ClientsAssumption == IsFiniteSet(Clients)
ASSUME MasterLinkAssumption == MasterLink \notin Clients
ASSUME WriteOpsAssumption == WriteOps \subseteq {"set", "zadd"}
ASSUME MaxQueueAssumption == MaxQueue \in Nat

VARIABLES
    mode,           \* ClientRunMode of each client task, or "ended"
    queue,          \* the commands queued since MULTI
    pending,        \* the command on its way to the store, or NoCommand
    watched_keys,   \* store.watched_keys: the clients entered under a key
    \* history, read by no action
    watching,       \* the keys a client asked to watch and still watches
    conflicts,      \* <<key, writer>>: another's write to a key while watched
    unsettled       \* those whose writer has not cleaned up since

clients == <<mode, queue>>
history == <<watching, conflicts, unsettled>>
vars    == <<clients, pending, watched_keys, history>>

Ids == Clients \cup {MasterLink}

WatchCommand(ks)   == [op |-> "watch", keys |-> ks]
SetCommand(k)      == [op |-> "set", key |-> k]
ZaddCommand(k)     == [op |-> "zadd", key |-> k]
UnwatchCommand     == [op |-> "unwatch"]
DiscardCommand     == [op |-> "discard"]
ExecuteTx(q)       == [op |-> "exec", commands |-> q]
NoCommand          == [op |-> "none"]

(* what a client task passes to the store at once, or queues in MULTI *)
Watches     == {WatchCommand(ks) : ks \in SUBSET Keys \ {{}}}
KeyCommands == [op : WriteOps, key : Keys]
Queueable   == KeyCommands \cup {UnwatchCommand}
Commands    == Queueable \cup {DiscardCommand}
               \cup [op : {"watch"}, keys : SUBSET Keys]
               \cup [op : {"exec"}, commands : Seq(Queueable)]

Init ==
    /\ mode = [c \in Clients |-> "Normal"]
    /\ queue = [c \in Clients |-> << >>]
    /\ pending = [c \in Clients |-> NoCommand]
    /\ watched_keys = [k \in Keys |-> {}]
    /\ watching = [c \in Clients |-> {}]
    /\ conflicts = [c \in Clients |-> {}]
    /\ unsettled = [c \in Clients |-> {}]

-----------------------------------------------------------------------------
(* The client task (ClientRunMode::run).  It takes the next command of its *)
(* peer only when the last one was answered.                               *)

Free(c, m) == pending[c] = NoCommand /\ mode[c] = m

Dispatch(c, cmd) == pending' = [pending EXCEPT ![c] = cmd]

StoreUnchanged == UNCHANGED <<watched_keys, history>>

(* A command outside a transaction goes to the store. *)
RunNormal(c) ==
    /\ Free(c, "Normal")
    /\ \E cmd \in Queueable \cup Watches : Dispatch(c, cmd)
    /\ UNCHANGED clients
    /\ StoreUnchanged

(* EXEC and DISCARD outside a transaction are refused with an error and
   change nothing: they are no steps of the model.                          *)
RunMulti(c) ==
    /\ Free(c, "Normal")
    /\ mode' = [mode EXCEPT ![c] = "Transaction"]
    /\ queue' = [queue EXCEPT ![c] = << >>]
    /\ UNCHANGED pending
    /\ StoreUnchanged

(* mutant: WATCH is queued like any other command *)
QueuesWatch(c) ==
    /\ Free(c, "Transaction")
    /\ Len(queue[c]) < MaxQueue
    /\ \E cmd \in Queueable \cup Watches :
          queue' = [queue EXCEPT ![c] = Append(@, cmd)]
    /\ UNCHANGED <<mode, pending>>
    /\ StoreUnchanged
(* Inside a transaction every other command is queued and answered QUEUED;
   WATCH is refused with an error and leaves the queue as it was.           *)
RunQueued(c) ==
    /\ Free(c, "Transaction")
    /\ Len(queue[c]) < MaxQueue
    /\ \E cmd \in Queueable : queue' = [queue EXCEPT ![c] = Append(@, cmd)]
    /\ UNCHANGED <<mode, pending>>
    /\ StoreUnchanged

LeaveTransaction(c, cmd) ==
    /\ Free(c, "Transaction")
    /\ mode' = [mode EXCEPT ![c] = "Normal"]
    /\ queue' = [queue EXCEPT ![c] = << >>]
    /\ Dispatch(c, cmd)
    /\ StoreUnchanged

RunExec(c)    == LeaveTransaction(c, ExecuteTx(queue[c]))
RunDiscard(c) == LeaveTransaction(c, DiscardCommand)

(* The peer goes.  UnregisterClient removes the client's push channel and
   acknowledgement; nothing takes its id out of watched_keys.               *)
Leave(c) ==
    /\ pending[c] = NoCommand
    /\ mode[c] # "ended"
    /\ mode' = [mode EXCEPT ![c] = "ended"]
    /\ queue' = [queue EXCEPT ![c] = << >>]
    /\ UNCHANGED pending
    /\ StoreUnchanged

-----------------------------------------------------------------------------
(* The store (try_execute).                                                *)

(* mutant: a writing command marks nobody *)
MarkNobody(c, ks) == watched_keys
(* mutant: the mark replaces the watchers *)
MarkReplaces(c, ks) ==
    [k \in Keys |-> IF k \in ks /\ watched_keys[k] # {} THEN {c} ELSE watched_keys[k]]
(* The writer enters itself under every key of modified_keys that somebody
   watches: an entry with two clients is how a conflict shows.              *)
Marked(c, ks) ==
    [k \in Keys |->
        IF k \in ks /\ watched_keys[k] # {} THEN watched_keys[k] \cup {c}
        ELSE watched_keys[k]]

(* UNWATCH, DISCARD and both ends of EXEC take the client out of every entry
   and drop the entries that become empty.                                  *)
CleanedUp(c) == [k \in Keys |-> watched_keys[k] \ {c}]

(* mutant: the lock fails only when two others are entered *)
LockNeedsTwo(c) ==
    \E k \in Keys : c \in watched_keys[k] /\ Cardinality(watched_keys[k]) > 2
LockFailed(c) ==
    \E k \in Keys : c \in watched_keys[k] /\ Cardinality(watched_keys[k]) > 1

(* history of a change of the keys ks by c, marked or not *)
ChangeBy(c, ks) ==
    conflicts' = [d \in Clients |->
        IF d = c THEN conflicts[d] ELSE conflicts[d] \cup {<<k, c>> : k \in ks \cap watching[d]}]

(* history of c's end of watch, its own writes settled with it *)
Settle(c) ==
    /\ watching' = [watching EXCEPT ![c] = {}]
    /\ unsettled' = [d \in Clients |->
                        IF d = c THEN {} ELSE {u \in unsettled[d] : u[2] # c}]

Answered(c) == pending' = [pending EXCEPT ![c] = NoCommand]

Receives(c, op) == pending[c].op = op

(* A command of `mark` keys (modified_keys) writes k for the id c. *)
Write(c, k, mark) ==
    /\ watched_keys' = Marked(c, mark)
    /\ ChangeBy(c, {k})
    /\ unsettled' = [d \in Clients |->
          IF d = c THEN unsettled[d]
          ELSE unsettled[d] \cup {<<j, c>> : j \in mark \cap watching[d]}]

ExecWatch(c) ==
    /\ Receives(c, "watch")
    /\ LET ks == pending[c].keys IN
          /\ watched_keys' = [k \in Keys |-> IF k \in ks THEN watched_keys[k] \cup {c}
                                            ELSE watched_keys[k]]
          /\ watching' = [watching EXCEPT ![c] = @ \cup ks]
    /\ Answered(c)
    /\ UNCHANGED <<clients, conflicts, unsettled>>

ExecWrite(c) ==
    /\ pending[c].op \in {"set", "zadd"}
    /\ LET k == pending[c].key IN
          Write(c, k, IF pending[c].op = "set" THEN {k} ELSE {})
    /\ Answered(c)
    /\ UNCHANGED <<clients, watching>>

(* On a replica: Envelope::Replicate.  Only SET is ever sent. *)
ExecReplicated ==
    /\ \E k \in Keys : Write(MasterLink, k, {k})
    /\ UNCHANGED <<clients, pending, watching>>

ExecUnwatch(c) ==
    /\ pending[c].op \in {"unwatch", "discard"}
    /\ watched_keys' = CleanedUp(c)
    /\ conflicts' = [conflicts EXCEPT ![c] = {}]
    /\ Settle(c)
    /\ Answered(c)
    /\ UNCHANGED clients

(* InternalExecuteTx whose optimistic lock fails: the null array. *)
AbortTx(c) ==
    /\ Receives(c, "exec")
    /\ LockFailed(c)
    /\ watched_keys' = CleanedUp(c)
    /\ conflicts' = [conflicts EXCEPT ![c] = {}]
    /\ Settle(c)
    /\ Answered(c)
    /\ UNCHANGED clients

Writes(q) == {q[i].key : i \in {j \in 1..Len(q) : q[j].op \in {"set", "zadd"}}}

(* InternalExecuteTx otherwise: the queued commands run one after the other,
   then the client is cleaned up.  The marks the queued writes leave are marks
   of this client, so the cleanup takes them all away again: only the removal
   of the client remains.                                                   *)
CommitTx(c) ==
    /\ Receives(c, "exec")
    /\ ~LockFailed(c)
    /\ LET ks == Writes(pending[c].commands) IN
          conflicts' = [d \in Clients |->
             IF d = c THEN {}
             ELSE conflicts[d] \cup {<<k, c>> : k \in ks \cap watching[d]}]
    /\ watched_keys' = CleanedUp(c)
    /\ Settle(c)
    /\ Answered(c)
    /\ UNCHANGED clients

-----------------------------------------------------------------------------
Next ==
    \/ ExecReplicated
    \/ \E c \in Clients :
        \/ RunNormal(c) \/ RunMulti(c) \/ RunQueued(c) \/ RunExec(c) \/ RunDiscard(c)
        \/ Leave(c)
        \/ ExecWatch(c) \/ ExecWrite(c) \/ ExecUnwatch(c)
        \/ AbortTx(c) \/ CommitTx(c)

Spec == Init /\ [][Next]_vars

-----------------------------------------------------------------------------
(* Properties                                                              *)

TypeOK ==
    /\ mode \in [Clients -> {"Normal", "Transaction", "ended"}]
    /\ queue \in [Clients -> Seq(Queueable)]
    /\ pending \in [Clients -> Commands \cup {NoCommand}]
    /\ watched_keys \in [Keys -> SUBSET Ids]
    /\ watching \in [Clients -> SUBSET Keys]
    /\ conflicts \in [Clients -> SUBSET (Keys \X Ids)]
    /\ unsettled \in [Clients -> SUBSET (Keys \X Ids)]

(* Every watch stands in watched_keys until its client ends it: no other
   client's cleanup takes it away.                                          *)
WatchesRecorded ==
    \A c \in Clients : \A k \in watching[c] : c \in watched_keys[k]

(* A write by a command of modified_keys stands there, next to the watch it
   conflicts with, until its writer cleans up.                              *)
UnsettledRecorded ==
    \A c \in Clients : \A u \in unsettled[c] : u[2] \in watched_keys[u[1]] \ {c}

(* A transaction commits only if no other client that has not cleaned up
   since wrote - by a command modified_keys names - to a key it watches.    *)
UnsettledConflictAborts ==
    [][\A c \in Clients : CommitTx(c) => unsettled[c] = {}]_vars

(* The lock as its comment and the README announce it: a transaction commits
   only if no other client changed a key it watches since it began to.      *)
ConflictAborts ==
    [][\A c \in Clients : CommitTx(c) => conflicts[c] = {}]_vars

(* And it aborts only if one did. *)
AbortMeansConflict ==
    [][\A c \in Clients : AbortTx(c) => conflicts[c] # {}]_vars
=============================================================================
