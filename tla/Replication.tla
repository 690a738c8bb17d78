----------------------------- MODULE Replication -----------------------------
(***************************************************************************)
(* A master and its replicas: the writes of the clients, the stream of     *)
(* commands to each replica, the acknowledgements that come back, and WAIT. *)
(*                                                                         *)
(* On the master: the store task with its inbox, and per replica connection *)
(* a client task (handle_client) that forwards the store's pushes to the    *)
(* socket and the replica's acknowledgements to the store.  On the replica: *)
(* run_replica_server, which hands each command to the replica's own store  *)
(* and counts bytes.                                                        *)
(*                                                                         *)
(* The writes of the model are SETs: the only command that is replicated, *)
(* and only outside a transaction.  A write is the number of it in the      *)
(* order the master executes them.                                          *)
(* Offsets are in bytes, as in the code; all SETs have the same length.    *)
(* The store's inbox and the push channels (capacity 1024) never fill here. *)
(***************************************************************************)
EXTENDS Integers, Sequences, FiniteSets

CONSTANTS
    Clients,        \* clients of the master that write and WAIT
    Replicas,       \* connections of replicas; a reconnection is another one
    WaitFor,        \* the replica counts WAIT is asked for
    SetLen,         \* bytes of an encoded SET
    GetAckLen,      \* bytes of an encoded REPLCONF GETACK *
    MaxSets,        \* bound: SETs the clients send altogether
    MaxWaits,       \* bound: WAITs the clients send altogether
    Mortal          \* bound: the replicas that may die

ASSUME ClientsAssumption == IsFiniteSet(Clients) /\ IsFiniteSet(Replicas)
ASSUME WaitForAssumption == WaitFor \subseteq Nat
ASSUME LengthsAssumption == SetLen \in Nat \ {0} /\ GetAckLen \in Nat \ {0}
ASSUME BoundsAssumption == MaxSets \in Nat /\ MaxWaits \in Nat
ASSUME MortalAssumption == Mortal \subseteq Replicas

VARIABLES
    \* the master's store
    inbox,        \* the mpsc channel to the store
    writes,       \* how many SETs the store executed: its contents
    replicas,     \* store.clients with is_replica set
    replica_acks, \* store.replica_acks, or NotAcked
    master_ack,   \* store.master_ack: bytes of replicated writes
    pending,      \* store.pending_write_commands_for_wait
    waiters,      \* store.wait_waiters
    waiter_id,    \* store.waiter_id
    timers,       \* ids of the sleeping WAIT timeout tasks
    \* the clients of the master
    task,         \* a client task awaits a reply or not
    oneshot,      \* its reply channel
    sent,         \* how many SETs and WAITs were sent
    \* per replica: the connection, then the replica itself
    link,         \* "down", "joining", "up", "broken" (not noticed) or "closed"
    stream,       \* pushed or on the wire, not yet read by the replica
    ackwire,      \* acknowledgements on their way back
    joined,       \* how many writes the snapshot held that the replica was sent
    received,     \* the writes the replica passed to its own store
    ack_bytes     \* the replica's offset

store   == <<writes, replicas, replica_acks, master_ack, pending, waiters, waiter_id>>
peers   == <<task, oneshot, sent>>
wires   == <<link, stream, ackwire, joined>>
replica == <<received, ack_bytes>>
vars    == <<inbox, store, timers, peers, wires, replica>>

NotAcked == -1
NoReply  == [ready |-> FALSE, count |-> 0]
Reply(n) == [ready |-> TRUE, count |-> n]

SetCommand(c)        == [type |-> "set", client |-> c]
WaitCommand(c, n)    == [type |-> "wait", client |-> c, numreplicas |-> n]
Ack(r, n)            == [type |-> "ack", replica |-> r, bytes |-> n]
AddReplica(r)        == [type |-> "AddReplica", replica |-> r]
Unregister(r)        == [type |-> "UnregisterClient", replica |-> r]
WaitTimeout(id)      == [type |-> "WaitCommandTimeout", waiter_id |-> id]

(* messages on a stream *)
SetMsg(n) == [op |-> "set", write |-> n]
GetAck    == [op |-> "getack", write |-> 0]

Init ==
    /\ inbox = << >>
    /\ writes = 0
    /\ replicas = {}
    /\ replica_acks = [r \in Replicas |-> NotAcked]
    /\ master_ack = 0 /\ pending = FALSE
    /\ waiters = {} /\ waiter_id = 0 /\ timers = {}
    /\ task = [c \in Clients |-> "reading"]
    /\ oneshot = [c \in Clients |-> NoReply]
    /\ sent = [set |-> 0, wait |-> 0]
    /\ link = [r \in Replicas |-> "down"]
    /\ stream = [r \in Replicas |-> << >>]
    /\ ackwire = [r \in Replicas |-> << >>]
    /\ joined = [r \in Replicas |-> 0]
    /\ received = [r \in Replicas |-> << >>]
    /\ ack_bytes = [r \in Replicas |-> 0]

-----------------------------------------------------------------------------
(* The clients of the master.                                              *)

Send(c) ==
    /\ task[c] = "reading"
    /\ \/ /\ sent.set < MaxSets
          /\ inbox' = Append(inbox, SetCommand(c))
          /\ sent' = [sent EXCEPT !.set = @ + 1]
       \/ /\ sent.wait < MaxWaits
          /\ \E n \in WaitFor : inbox' = Append(inbox, WaitCommand(c, n))
          /\ sent' = [sent EXCEPT !.wait = @ + 1]
    /\ task' = [task EXCEPT ![c] = "awaiting"]
    /\ UNCHANGED <<store, timers, oneshot, wires, replica>>

WriteReply(c) ==
    /\ oneshot[c].ready
    /\ task' = [task EXCEPT ![c] = "reading"]
    /\ oneshot' = [oneshot EXCEPT ![c] = NoReply]
    /\ UNCHANGED <<inbox, store, timers, sent, wires, replica>>

TimerFires(id) ==
    /\ id \in timers
    /\ timers' = timers \ {id}
    /\ inbox' = Append(inbox, WaitTimeout(id))
    /\ UNCHANGED <<store, peers, wires, replica>>

-----------------------------------------------------------------------------
(* The connection of a replica (handle_client on the master).              *)

(* PING, REPLCONF and PSYNC: the client task asks the store for a snapshot
   and awaits it, so that nothing pushed meanwhile is written before it.    *)
Join(r) ==
    /\ link[r] = "down"
    /\ link' = [link EXCEPT ![r] = "joining"]
    /\ inbox' = Append(inbox, AddReplica(r))
    /\ UNCHANGED <<store, timers, peers, stream, ackwire, joined, replica>>

(* mutant: an older acknowledgement is forwarded after a newer one *)
ForwardLast(r) ==
    /\ link[r] \in {"up", "broken"}
    /\ ackwire[r] # << >>
    /\ inbox' = Append(inbox, Ack(r, ackwire[r][Len(ackwire[r])]))
    /\ ackwire' = [ackwire EXCEPT ![r] = SubSeq(@, 1, Len(@) - 1)]
    /\ UNCHANGED <<store, timers, peers, link, stream, joined, replica>>
ForwardAck(r) ==
    /\ link[r] \in {"up", "broken"}
    /\ ackwire[r] # << >>
    /\ inbox' = Append(inbox, Ack(r, Head(ackwire[r])))
    /\ ackwire' = [ackwire EXCEPT ![r] = Tail(@)]
    /\ UNCHANGED <<store, timers, peers, link, stream, joined, replica>>

ReplicaDies(r) ==
    /\ r \in Mortal
    /\ link[r] = "up"
    /\ link' = [link EXCEPT ![r] = "broken"]
    /\ UNCHANGED <<inbox, store, timers, peers, stream, ackwire, joined, replica>>

(* The client task reads the end of the stream, or it first writes a push to
   the broken connection: then it panics, and never unregisters.            *)
NoticeEnd(r) ==
    /\ link[r] = "broken"
    /\ ackwire[r] = << >>
    /\ link' = [link EXCEPT ![r] = "closed"]
    /\ inbox' = Append(inbox, Unregister(r))
    /\ UNCHANGED <<store, timers, peers, stream, ackwire, joined, replica>>

PanicOnWrite(r) ==
    /\ link[r] = "broken"
    /\ stream[r] # << >>
    /\ link' = [link EXCEPT ![r] = "closed"]
    /\ UNCHANGED <<inbox, store, timers, peers, stream, ackwire, joined, replica>>

-----------------------------------------------------------------------------
(* The replica (run_replica_server).  Its own store executes what it is     *)
(* passed in order, later: an acknowledgement does not wait for it.         *)

ReceiveSet(r) ==
    /\ link[r] = "up"
    /\ stream[r] # << >>
    /\ Head(stream[r]).op = "set"
    /\ received' = [received EXCEPT ![r] = Append(@, Head(stream[r]).write)]
    /\ ack_bytes' = [ack_bytes EXCEPT ![r] = @ + SetLen]
    /\ stream' = [stream EXCEPT ![r] = Tail(@)]
    /\ UNCHANGED <<inbox, store, timers, peers, link, ackwire, joined>>

(* The answer is the offset before the GETACK; the GETACK counts afterwards. *)
ReceiveGetAck(r) ==
    /\ link[r] = "up"
    /\ stream[r] # << >>
    /\ Head(stream[r]).op = "getack"
    /\ ackwire' = [ackwire EXCEPT ![r] = Append(@, ack_bytes[r])]
    /\ ack_bytes' = [ack_bytes EXCEPT ![r] = @ + GetAckLen]
    /\ stream' = [stream EXCEPT ![r] = Tail(@)]
    /\ UNCHANGED <<inbox, store, timers, peers, link, joined, received>>

-----------------------------------------------------------------------------
(* The master's store task.                                                *)

Receive(type) ==
    /\ inbox # << >>
    /\ Head(inbox).type = type
    /\ inbox' = Tail(inbox)

Answer(c, n) == oneshot' = [oneshot EXCEPT ![c] = Reply(n)]

(* count_acked, for acknowledgements `acks` and a target offset *)
CountAcked(acks, target) ==
    IF target = 0 THEN Cardinality(replicas)
    ELSE Cardinality({r \in Replicas : acks[r] >= target})

(* mutant: a push skips the replicas that have not acknowledged anything *)
PushToAcked(msg) ==
    [r \in Replicas |->
        IF r \in replicas /\ link[r] # "closed" /\ replica_acks[r] # NotAcked
        THEN Append(stream[r], msg) ELSE stream[r]]
(* A push to a client task that has ended fails, and the error is ignored. *)
PushToReplicas(msg) ==
    [r \in Replicas |->
        IF r \in replicas /\ link[r] # "closed" THEN Append(stream[r], msg)
        ELSE stream[r]]

ExecSet ==
    /\ Receive("set")
    /\ writes' = writes + 1
    /\ pending' = TRUE
    /\ master_ack' = master_ack + SetLen
    /\ Answer(Head(inbox).client, 0)
    /\ stream' = PushToReplicas(SetMsg(writes + 1))
    /\ UNCHANGED <<replicas, replica_acks, waiters, waiter_id, timers, task, sent,
                   link, ackwire, joined, replica>>

AnswerWait ==
    /\ Receive("wait")
    /\ CountAcked(replica_acks, master_ack) >= Head(inbox).numreplicas
    /\ Answer(Head(inbox).client, CountAcked(replica_acks, master_ack))
    /\ UNCHANGED <<store, timers, task, sent, wires, replica>>

(* mutant: the flag is cleared and nobody is asked *)
AskNobody == stream' = stream /\ pending' = FALSE
(* The replicas are asked once per batch of writes. *)
AskForAcks ==
    /\ stream' = IF pending THEN PushToReplicas(GetAck) ELSE stream
    /\ pending' = FALSE

BlockWait ==
    /\ Receive("wait")
    /\ LET m == Head(inbox) IN
          /\ CountAcked(replica_acks, master_ack) < m.numreplicas
          /\ waiters' = waiters \cup {[id |-> waiter_id + 1, client |-> m.client,
                                       numreplicas |-> m.numreplicas,
                                       target |-> master_ack]}
    /\ AskForAcks
    /\ waiter_id' = waiter_id + 1
    /\ timers' = timers \cup {waiter_id + 1}
    /\ UNCHANGED <<writes, replicas, replica_acks, master_ack, peers,
                   link, ackwire, joined, replica>>

(* mutant: a WAIT is completed only by more replicas than it asked for *)
DoneByMore(acks) == {w \in waiters : CountAcked(acks, w.target) > w.numreplicas}
Done(acks) == {w \in waiters : CountAcked(acks, w.target) >= w.numreplicas}

(* REPLCONF ACK: completes every WAIT whose threshold is now met. *)
ExecAck ==
    /\ Receive("ack")
    /\ LET acks == [replica_acks EXCEPT ![Head(inbox).replica] = Head(inbox).bytes]
           done == Done(acks)
       IN  /\ replica_acks' = acks
           /\ waiters' = waiters \ done
           /\ oneshot' = [c \in Clients |->
                 IF \E w \in done : w.client = c
                 THEN Reply(CountAcked(acks, (CHOOSE w \in done : w.client = c).target))
                 ELSE oneshot[c]]
    /\ UNCHANGED <<writes, replicas, master_ack, pending, waiter_id, timers,
                   task, sent, wires, replica>>

(* mutant: a WAIT that times out is told by how much it fell short *)
AnswerShortfall(w) ==
    Answer(w.client, CountAcked(replica_acks, w.target) - w.numreplicas)
(* mutant: a WAIT that times out is forgotten without an answer *)
ForgetWait(w) == UNCHANGED oneshot
AnswerTimeout(w) == Answer(w.client, CountAcked(replica_acks, w.target))

ExecWaitTimeout ==
    /\ Receive("WaitCommandTimeout")
    /\ LET due == {w \in waiters : w.id = Head(inbox).waiter_id} IN
          /\ waiters' = waiters \ due
          /\ \/ \E w \in due : AnswerTimeout(w)
             \/ due = {} /\ UNCHANGED oneshot
    /\ UNCHANGED <<writes, replicas, replica_acks, master_ack, pending, waiter_id,
                   timers, task, sent, wires, replica>>

(* to_rdb: all strings, and so every write so far *)
Snapshot == writes

(* The client becomes a replica and the snapshot is taken in one step; the
   client task then writes the snapshot ahead of whatever is pushed.  The
   replica reads it and throws it away.                                     *)
ExecAddReplica ==
    /\ Receive("AddReplica")
    /\ LET r == Head(inbox).replica IN
          /\ replicas' = replicas \cup {r}
          /\ link' = [link EXCEPT ![r] = "up"]
          /\ joined' = [joined EXCEPT ![r] = Snapshot]
    /\ UNCHANGED <<writes, replica_acks, master_ack, pending, waiters, waiter_id,
                   timers, peers, stream, ackwire, replica>>

ForgetAck(r) == [replica_acks EXCEPT ![r] = NotAcked]

ExecUnregister ==
    /\ Receive("UnregisterClient")
    /\ replicas' = replicas \ {Head(inbox).replica}
    /\ replica_acks' = ForgetAck(Head(inbox).replica)
    /\ UNCHANGED <<writes, master_ack, pending, waiters, waiter_id,
                   timers, peers, wires, replica>>

-----------------------------------------------------------------------------
StoreStep ==
    \/ ExecSet \/ AnswerWait \/ BlockWait
    \/ ExecAck \/ ExecWaitTimeout \/ ExecAddReplica \/ ExecUnregister

Next ==
    \/ \E c \in Clients : Send(c) \/ WriteReply(c)
    \/ \E id \in timers : TimerFires(id)
    \/ \E r \in Replicas :
          \/ Join(r) \/ ForwardAck(r) \/ ReplicaDies(r) \/ NoticeEnd(r) \/ PanicOnWrite(r)
          \/ ReceiveSet(r) \/ ReceiveGetAck(r)
    \/ StoreStep

(* The store takes its next envelope, a reply that is there is written, a
   sleeping timeout task wakes.  Nothing is assumed of the replicas.        *)
Fairness ==
    /\ WF_vars(StoreStep)
    /\ \A c \in Clients : WF_vars(WriteReply(c))
    /\ \A id \in 1..MaxWaits : WF_vars(TimerFires(id))

Spec == Init /\ [][Next]_vars
FairSpec == Spec /\ Fairness

-----------------------------------------------------------------------------
(* Properties                                                              *)

Envelopes == [type : {"set"}, client : Clients]
             \cup [type : {"wait"}, client : Clients, numreplicas : Nat]
             \cup [type : {"ack"}, replica : Replicas, bytes : Nat]
             \cup [type : {"AddReplica", "UnregisterClient"}, replica : Replicas]
             \cup [type : {"WaitCommandTimeout"}, waiter_id : Nat]

Messages == [op : {"set", "getack"}, write : Nat]

TypeOK ==
    /\ inbox \in Seq(Envelopes)
    /\ writes \in Nat
    /\ replicas \subseteq Replicas
    /\ replica_acks \in [Replicas -> Nat \cup {NotAcked}]
    /\ master_ack \in Nat
    /\ pending \in BOOLEAN
    /\ waiters \subseteq [id : Nat, client : Clients, numreplicas : Nat, target : Nat]
    /\ waiter_id \in Nat
    /\ timers \subseteq Nat
    /\ task \in [Clients -> {"reading", "awaiting"}]
    /\ oneshot \in [Clients -> [ready : BOOLEAN, count : Nat]]
    /\ sent \in [set : Nat, wait : Nat]
    /\ link \in [Replicas -> {"down", "joining", "up", "broken", "closed"}]
    /\ stream \in [Replicas -> Seq(Messages)]
    /\ ackwire \in [Replicas -> Seq(Nat)]
    /\ joined \in [Replicas -> Nat]
    /\ received \in [Replicas -> Seq(Nat)]
    /\ ack_bytes \in [Replicas -> Nat]

(* What a replica received and what is still on its way are together exactly
   the writes since its snapshot, each once and in order: a write and a PSYNC
   that meet in the inbox are on one side of the snapshot or on the other,
   never lost between the two and never in both.                            *)
Sets(s) == {i \in 1..Len(s) : s[i].op = "set"}

HasExactly(s, from, to) ==
    /\ {s[i].write : i \in Sets(s)} = from..to
    /\ \A i, j \in Sets(s) : i < j => s[i].write < s[j].write

NextDue(r) == joined[r] + Len(received[r]) + 1

StreamComplete ==
    \A r \in Replicas :
        link[r] \in {"up", "broken"} =>
            /\ \A i \in 1..Len(received[r]) : received[r][i] = joined[r] + i
            /\ NextDue(r) <= writes + 1
            /\ HasExactly(stream[r], NextDue(r), writes)

(* A WAIT that blocks was preceded or is accompanied by a GETACK behind the
   last write: while the flag is clear, no write is on its way to a replica
   without a GETACK after it, so that each one's acknowledgement will come.  *)
GetAckCoversWrites ==
    ~pending =>
        \A r \in Replicas :
            link[r] \in {"up", "broken"} /\ stream[r] # << >> =>
                stream[r][Len(stream[r])].op = "getack"

(* The acknowledgements of a replica are never applied out of order. *)
AcksNeverGoBack ==
    [][\A r \in replicas : r \in replicas' => replica_acks'[r] >= replica_acks[r]]_vars

(* No WAIT stays blocked that could be answered: as soon as enough replicas
   acknowledged its target it is gone.  (A target of 0 means that there were
   no writes; a replica that joins does not resolve such a WAIT.)            *)
NoStrandedWait ==
    \A w \in waiters :
        w.target > 0 => CountAcked(replica_acks, w.target) < w.numreplicas

(* Every command is answered, also a WAIT whose replicas are dead, dumb or
   not there at all.                                                         *)
EveryCommandAnswered ==
    \A c \in Clients : (task[c] = "awaiting") ~> (task[c] = "reading")

(* WAIT as its comments describe it: what it answers is the number of replicas
   that are caught up with the writes before it.  A replica counts here as
   caught up already when it received them, those of the snapshot included.     *)
CaughtUp(r, target) == joined[r] + Len(received[r]) >= target \div SetLen

Answered(c) == ~oneshot[c].ready /\ oneshot'[c].ready

WaitCountsCaughtUp ==
    [][\A c \in Clients :
          /\ AnswerWait /\ Answered(c) =>
                oneshot'[c].count <=
                    Cardinality({r \in replicas : CaughtUp(r, master_ack)})
          /\ \A w \in waiters :
                w.client = c /\ Answered(c) =>
                    oneshot'[c].count <=
                        Cardinality({r \in replicas : CaughtUp(r, w.target)})]_vars

(* Replication as the README describes it: a replica that has read all that it
   was sent has the master's contents.                                       *)
Contents(r) == {received[r][i] : i \in 1..Len(received[r])}

ReplicaHasContents ==
    \A r \in Replicas :
        /\ link[r] = "up"
        /\ stream[r] = << >>
        => Contents(r) = 1..writes
=============================================================================
