-------------------------- MODULE ReplicationProofs --------------------------
(***************************************************************************)
(* Theorems about Replication for any clients, replicas, lengths and        *)
(* bounds.                                                                 *)
(***************************************************************************)
EXTENDS Replication, FiniteSetTheorems, TLAPS

(* A sequence with one element more. *)
LEMMA Appended ==
    ASSUME NEW S, NEW s \in Seq(S), NEW e \in S
    PROVE  /\ Append(s, e) \in Seq(S) /\ Len(Append(s, e)) = Len(s) + 1 /\ Len(s) \in Nat
           /\ \A i \in 1..Len(s) : Append(s, e)[i] = s[i]
           /\ Append(s, e)[Len(s) + 1] = e
  OBVIOUS

(* A sequence without its first element. *)
LEMMA Taken ==
    ASSUME NEW S, NEW s \in Seq(S), s # << >>
    PROVE  /\ Head(s) \in S /\ Head(s) = s[1] /\ Len(s) \in Nat /\ Len(s) > 0
           /\ Tail(s) \in Seq(S) /\ Len(Tail(s)) = Len(s) - 1
           /\ \A i \in 1..(Len(s) - 1) : Tail(s)[i] = s[i + 1]
  OBVIOUS

(* An envelope of a type has the fields of that type. *)
LEMMA EnvelopeTypes ==
    ASSUME NEW m \in Envelopes
    PROVE  /\ m.type = "set" => m.client \in Clients
           /\ m.type = "wait" => m.client \in Clients /\ m.numreplicas \in Nat
           /\ m.type = "ack" => m.replica \in Replicas /\ m.bytes \in Nat
           /\ m.type \in {"AddReplica", "UnregisterClient"} => m.replica \in Replicas
           /\ m.type = "WaitCommandTimeout" => m.waiter_id \in Nat
  BY DEF Envelopes

(* What is in the inbox are envelopes. *)
LEMMA InInbox ==
    ASSUME TypeOK, NEW i \in 1..Len(inbox)
    PROVE  inbox[i] \in Envelopes
<1>1. inbox \in Seq(Envelopes)
  BY DEF TypeOK
<1> QED BY <1>1

(* What the tasks send are envelopes. *)
LEMMA SentTypes ==
    /\ \A c \in Clients : SetCommand(c) \in Envelopes
    /\ \A c \in Clients, n \in WaitFor : WaitCommand(c, n) \in Envelopes
    /\ \A r \in Replicas, n \in Nat : Ack(r, n) \in Envelopes
    /\ \A r \in Replicas : AddReplica(r) \in Envelopes /\ Unregister(r) \in Envelopes
    /\ \A id \in Nat : WaitTimeout(id) \in Envelopes
  BY WaitForAssumption
     DEF SetCommand, WaitCommand, Ack, AddReplica, Unregister, WaitTimeout, Envelopes

(* The store takes an envelope, and a sequence of envelopes is left. *)
LEMMA ReceiveType ==
    ASSUME TypeOK, NEW type, Receive(type)
    PROVE  /\ Head(inbox) \in Envelopes /\ Head(inbox).type = type
           /\ inbox' \in Seq(Envelopes)
  BY DEF TypeOK, Receive

(* Counting acknowledgements gives a number. *)
LEMMA CountType ==
    ASSUME TypeOK, NEW acks, NEW target
    PROVE  CountAcked(acks, target) \in Nat
<1>1. IsFiniteSet(replicas) /\ IsFiniteSet({r \in Replicas : acks[r] >= target})
  BY ClientsAssumption, FS_Subset DEF TypeOK
<1> QED BY <1>1, FS_CardinalityType DEF CountAcked

(* A push leaves streams of messages. *)
LEMMA PushType ==
    ASSUME TypeOK, NEW msg \in Messages
    PROVE  PushToReplicas(msg) \in [Replicas -> Seq(Messages)]
<1>1. \A r \in Replicas : Append(stream[r], msg) \in Seq(Messages)
  BY DEF TypeOK
<1> QED BY <1>1 DEF PushToReplicas, TypeOK

(* A reply on a client's channel. *)
LEMMA AnswerType ==
    ASSUME TypeOK, NEW c, NEW n \in Nat, Answer(c, n)
    PROVE  oneshot' \in [Clients -> [ready : BOOLEAN, count : Nat]]
  BY DEF TypeOK, Answer, Reply

-----------------------------------------------------------------------------
(* Type correctness.                                                       *)

(* The clients and the timeout tasks keep the types. *)
LEMMA ClientStepType ==
    ASSUME TypeOK,
           \/ \E c \in Clients : Send(c) \/ WriteReply(c)
           \/ \E id \in timers : TimerFires(id)
    PROVE  TypeOK'
<1>1. ASSUME NEW c \in Clients, Send(c)
      PROVE  TypeOK'
  <2>1. PICK m \in Envelopes : inbox' = Append(inbox, m)
    BY <1>1, SentTypes DEF Send
  <2>2. inbox' \in Seq(Envelopes)
    BY <2>1 DEF TypeOK
  <2>3. sent' \in [set : Nat, wait : Nat]
    <3>1. sent' = [sent EXCEPT !.set = @ + 1] \/ sent' = [sent EXCEPT !.wait = @ + 1]
      BY <1>1 DEF Send
    <3>2. sent \in [set : Nat, wait : Nat]
      BY DEF TypeOK
    <3> QED BY <3>1, <3>2
  <2> QED BY <1>1, <2>2, <2>3 DEF Send, TypeOK, store, wires, replica
<1>2. ASSUME NEW c \in Clients, WriteReply(c)
      PROVE  TypeOK'
  BY <1>2 DEF WriteReply, TypeOK, store, wires, replica, NoReply
<1>3. ASSUME NEW id \in timers, TimerFires(id)
      PROVE  TypeOK'
  <2>1. WaitTimeout(id) \in Envelopes
    BY SentTypes DEF TypeOK
  <2>2. inbox' \in Seq(Envelopes)
    BY <1>3, <2>1 DEF TimerFires, TypeOK
  <2> QED BY <1>3, <2>2 DEF TimerFires, TypeOK, store, peers, wires, replica
<1> QED BY <1>1, <1>2, <1>3

(* The connections and the replicas keep the types. *)
LEMMA ReplicaStepType ==
    ASSUME TypeOK, NEW r \in Replicas,
           \/ Join(r) \/ ForwardAck(r) \/ ReplicaDies(r) \/ NoticeEnd(r) \/ PanicOnWrite(r)
           \/ ReceiveSet(r) \/ ReceiveGetAck(r)
    PROVE  TypeOK'
<1>1. CASE Join(r)
  <2>1. inbox' \in Seq(Envelopes)
    BY <1>1, SentTypes DEF Join, TypeOK
  <2> QED BY <1>1, <2>1 DEF Join, TypeOK, store, peers, replica
<1>2. CASE ForwardAck(r)
  <2>1. Head(ackwire[r]) \in Nat /\ Tail(ackwire[r]) \in Seq(Nat)
    BY <1>2 DEF ForwardAck, TypeOK
  <2>2. inbox' \in Seq(Envelopes)
    BY <1>2, <2>1, SentTypes DEF ForwardAck, TypeOK
  <2> QED BY <1>2, <2>1, <2>2 DEF ForwardAck, TypeOK, store, peers, replica
<1>3. CASE ReplicaDies(r) \/ PanicOnWrite(r)
  BY <1>3 DEF ReplicaDies, PanicOnWrite, TypeOK, store, peers, replica
<1>4. CASE NoticeEnd(r)
  <2>1. inbox' \in Seq(Envelopes)
    BY <1>4, SentTypes DEF NoticeEnd, TypeOK
  <2> QED BY <1>4, <2>1 DEF NoticeEnd, TypeOK, store, peers, replica
<1>5. CASE ReceiveSet(r)
  <2>1. Head(stream[r]).write \in Nat /\ Tail(stream[r]) \in Seq(Messages)
    <3>1. stream[r] \in Seq(Messages) /\ stream[r] # << >>
      BY <1>5 DEF ReceiveSet, TypeOK
    <3>2. Head(stream[r]) \in Messages /\ Tail(stream[r]) \in Seq(Messages)
      BY <3>1, Taken, Zenon
    <3> QED BY <3>2 DEF Messages
  <2>2. Append(received[r], Head(stream[r]).write) \in Seq(Nat)
    <3> DEFINE n == Head(stream[r]).write
    <3>1. n \in Nat /\ received[r] \in Seq(Nat)
      BY <2>1 DEF TypeOK
    <3> HIDE DEF n
    <3>2. Append(received[r], n) \in Seq(Nat)
      BY <3>1
    <3> QED BY <3>2 DEF n
  <2>3. received' \in [Replicas -> Seq(Nat)] /\ stream' \in [Replicas -> Seq(Messages)]
    BY <1>5, <2>1, <2>2 DEF ReceiveSet, TypeOK
  <2>4. ack_bytes' \in [Replicas -> Nat]
    BY <1>5, LengthsAssumption DEF ReceiveSet, TypeOK
  <2> QED BY <1>5, <2>3, <2>4 DEF ReceiveSet, TypeOK, store, peers
<1>6. CASE ReceiveGetAck(r)
  <2>1. Tail(stream[r]) \in Seq(Messages) /\ Append(ackwire[r], ack_bytes[r]) \in Seq(Nat)
    BY <1>6 DEF ReceiveGetAck, TypeOK
  <2>2. ackwire' \in [Replicas -> Seq(Nat)] /\ stream' \in [Replicas -> Seq(Messages)]
    BY <1>6, <2>1 DEF ReceiveGetAck, TypeOK
  <2>3. ack_bytes' \in [Replicas -> Nat]
    BY <1>6, LengthsAssumption DEF ReceiveGetAck, TypeOK
  <2> QED BY <1>6, <2>2, <2>3 DEF ReceiveGetAck, TypeOK, store, peers
<1> QED BY <1>1, <1>2, <1>3, <1>4, <1>5, <1>6

(* The store keeps the types. *)
LEMMA StoreStepType ==
    ASSUME TypeOK, StoreStep
    PROVE  TypeOK'
<1>1. CASE ExecSet
  <2>1. inbox' \in Seq(Envelopes)
    BY <1>1, ReceiveType DEF ExecSet
  <2>2. oneshot' \in [Clients -> [ready : BOOLEAN, count : Nat]]
    BY <1>1, AnswerType DEF ExecSet
  <2>3. SetMsg(writes + 1) \in Messages
    BY DEF SetMsg, Messages, TypeOK
  <2>4. stream' \in [Replicas -> Seq(Messages)]
    BY <1>1, <2>3, PushType DEF ExecSet
  <2> QED BY <1>1, <2>1, <2>2, <2>4, LengthsAssumption DEF ExecSet, TypeOK, replica
<1>2. CASE AnswerWait
  <2>1. inbox' \in Seq(Envelopes)
    BY <1>2, ReceiveType DEF AnswerWait
  <2>2. oneshot' \in [Clients -> [ready : BOOLEAN, count : Nat]]
    BY <1>2, AnswerType, CountType DEF AnswerWait
  <2> QED BY <1>2, <2>1, <2>2 DEF AnswerWait, TypeOK, store, wires, replica
<1>3. CASE BlockWait
  <2>1. inbox' \in Seq(Envelopes) /\ Head(inbox).client \in Clients /\ Head(inbox).numreplicas \in Nat
    BY <1>3, ReceiveType, EnvelopeTypes DEF BlockWait
  <2>2. waiters' \subseteq [id : Nat, client : Clients, numreplicas : Nat, target : Nat]
    BY <1>3, <2>1 DEF BlockWait, TypeOK
  <2>3. GetAck \in Messages
    BY DEF GetAck, Messages
  <2>4. stream' \in [Replicas -> Seq(Messages)] /\ pending' = FALSE
    BY <1>3, <2>3, PushType DEF BlockWait, AskForAcks, TypeOK
  <2> QED BY <1>3, <2>1, <2>2, <2>4 DEF BlockWait, TypeOK, peers, replica
<1>4. CASE ExecAck
  <2> DEFINE acks == [replica_acks EXCEPT ![Head(inbox).replica] = Head(inbox).bytes]
  <2>1. inbox' \in Seq(Envelopes) /\ Head(inbox).replica \in Replicas /\ Head(inbox).bytes \in Nat
    BY <1>4, ReceiveType, EnvelopeTypes DEF ExecAck
  <2>2. \A t : Reply(CountAcked(acks, t)) \in [ready : BOOLEAN, count : Nat]
    BY CountType DEF Reply
  <2>3. oneshot' \in [Clients -> [ready : BOOLEAN, count : Nat]]
    BY <1>4, <2>2 DEF ExecAck, TypeOK
  <2>4. replica_acks' \in [Replicas -> Nat \cup {NotAcked}]
    BY <1>4, <2>1 DEF ExecAck, TypeOK
  <2> QED BY <1>4, <2>1, <2>3, <2>4 DEF ExecAck, TypeOK, wires, replica
<1>5. CASE ExecWaitTimeout
  <2>1. inbox' \in Seq(Envelopes)
    BY <1>5, ReceiveType DEF ExecWaitTimeout
  <2>2. oneshot' \in [Clients -> [ready : BOOLEAN, count : Nat]]
    BY <1>5, AnswerType, CountType DEF ExecWaitTimeout, AnswerTimeout, TypeOK
  <2> QED BY <1>5, <2>1, <2>2 DEF ExecWaitTimeout, TypeOK, wires, replica
<1>6. CASE ExecAddReplica
  <2>1. inbox' \in Seq(Envelopes) /\ Head(inbox).replica \in Replicas
    BY <1>6, ReceiveType, EnvelopeTypes DEF ExecAddReplica
  <2> QED BY <1>6, <2>1 DEF ExecAddReplica, Snapshot, TypeOK, peers, replica
<1>7. CASE ExecUnregister
  <2>1. inbox' \in Seq(Envelopes)
    BY <1>7, ReceiveType DEF ExecUnregister
  <2> QED BY <1>7, <2>1 DEF ExecUnregister, ForgetAck, TypeOK, peers, wires, replica
<1> QED BY <1>1, <1>2, <1>3, <1>4, <1>5, <1>6, <1>7 DEF StoreStep

(* The initial state is type-correct. *)
LEMMA InitType == Init => TypeOK
<1> SUFFICES ASSUME Init PROVE TypeOK
  OBVIOUS
<1>1. << >> \in Seq(Envelopes) /\ << >> \in Seq(Messages) /\ << >> \in Seq(Nat)
  OBVIOUS
<1>2. /\ inbox \in Seq(Envelopes)
      /\ stream \in [Replicas -> Seq(Messages)]
      /\ ackwire \in [Replicas -> Seq(Nat)]
      /\ received \in [Replicas -> Seq(Nat)]
  BY <1>1 DEF Init
<1>3. /\ task \in [Clients -> {"reading", "awaiting"}]
      /\ oneshot \in [Clients -> [ready : BOOLEAN, count : Nat]]
      /\ sent \in [set : Nat, wait : Nat]
  BY DEF Init, NoReply
<1>4. /\ replica_acks \in [Replicas -> Nat \cup {NotAcked}]
      /\ link \in [Replicas -> {"down", "joining", "up", "broken", "closed"}]
      /\ joined \in [Replicas -> Nat] /\ ack_bytes \in [Replicas -> Nat]
  BY DEF Init
<1> QED BY <1>2, <1>3, <1>4 DEF Init, TypeOK

(* Every step keeps the types. *)
LEMMA NextType ==
    ASSUME TypeOK, [Next]_vars
    PROVE  TypeOK'
<1>1. CASE Next
  BY <1>1, ClientStepType, ReplicaStepType, StoreStepType DEF Next
<1>2. CASE UNCHANGED vars
  BY <1>2 DEF vars, store, peers, wires, replica, TypeOK
<1> QED BY <1>1, <1>2

(* Every variable keeps its type. *)
THEOREM TypeCorrect == Spec => []TypeOK
  BY InitType, NextType, PTL DEF Spec

-----------------------------------------------------------------------------
(* The order of SETs on a stream.                                          *)

(* What is pushed behind the SETs that are there. *)
LEMMA PushedSet ==
    ASSUME NEW s \in Seq(Messages), NEW from \in Nat, NEW to \in Nat, from <= to + 1,
           HasExactly(s, from, to)
    PROVE  HasExactly(Append(s, SetMsg(to + 1)), from, to + 1)
<1> DEFINE m == SetMsg(to + 1)
           t == Append(s, m)
<1>1. m \in Messages /\ m.op = "set" /\ m.write = to + 1
  BY DEF SetMsg, Messages
<1> HIDE DEF m
<1>2. /\ t \in Seq(Messages) /\ Len(t) = Len(s) + 1 /\ Len(s) \in Nat
      /\ \A i \in 1..Len(s) : t[i] = s[i]
      /\ t[Len(s) + 1] = m
  BY <1>1, Appended, Zenon
<1> HIDE DEF t
<1>3. Sets(t) = Sets(s) \cup {Len(s) + 1}
  BY <1>1, <1>2 DEF Sets
<1>4. \A i \in Sets(s) : t[i] = s[i] /\ i \in 1..Len(s) /\ s[i].write \in from..to
  BY <1>2 DEF HasExactly, Sets
<1>5. {t[i].write : i \in Sets(t)} = from..(to + 1)
  <2>1. {t[i].write : i \in Sets(t)} = {s[i].write : i \in Sets(s)} \cup {m.write}
    BY <1>2, <1>3, <1>4
  <2>2. {s[i].write : i \in Sets(s)} = from..to
    BY DEF HasExactly
  <2>3. from..(to + 1) = (from..to) \cup {to + 1}
    OBVIOUS
  <2>4. m.write = to + 1
    BY <1>1
  <2> QED BY <2>1, <2>2, <2>3, <2>4, Zenon
<1>6. ASSUME NEW i \in Sets(t), NEW j \in Sets(t), i < j
      PROVE  t[i].write < t[j].write
  <2>1. i \in Sets(s)
    BY <1>2, <1>3, <1>4, <1>6 DEF Sets
  <2>2. CASE j \in Sets(s)
    BY <1>4, <1>6, <2>1, <2>2 DEF HasExactly
  <2>3. CASE j = Len(s) + 1
    <3>1. t[i].write \in from..to
      BY <1>4, <2>1
    <3>2. t[j].write = to + 1
      BY <1>1, <1>2, <2>3
    <3> QED BY <3>1, <3>2
  <2> QED BY <1>3, <2>2, <2>3
<1> QED BY <1>5, <1>6 DEF HasExactly, t, m

LEMMA PushedGetAck ==
    ASSUME NEW s \in Seq(Messages), NEW from, NEW to, HasExactly(s, from, to)
    PROVE  HasExactly(Append(s, GetAck), from, to)
<1> DEFINE t == Append(s, GetAck)
<1>1. GetAck \in Messages /\ GetAck.op = "getack"
  BY DEF GetAck, Messages
<1>2. /\ t \in Seq(Messages) /\ Len(t) = Len(s) + 1 /\ Len(s) \in Nat
      /\ \A i \in 1..Len(s) : t[i] = s[i]
      /\ t[Len(s) + 1] = GetAck
  BY <1>1, Appended, Zenon
<1> HIDE DEF t
<1>3. Sets(t) = Sets(s) /\ \A i \in Sets(s) : t[i] = s[i]
  BY <1>1, <1>2 DEF Sets
<1>4. HasExactly(t, from, to)
  BY <1>3 DEF HasExactly
<1> QED BY <1>4 DEF t

(* A SET that is taken off a stream is the one that is due. *)
LEMMA TakenSet ==
    ASSUME NEW s \in Seq(Messages), s # << >>, Head(s).op = "set",
           NEW from \in Nat, NEW to \in Nat, HasExactly(s, from, to)
    PROVE  Head(s).write = from /\ from <= to /\ HasExactly(Tail(s), from + 1, to)
<1> DEFINE t == Tail(s)
<1>1. /\ Head(s) = s[1] /\ Len(s) \in Nat /\ Len(s) > 0
      /\ t \in Seq(Messages) /\ Len(t) = Len(s) - 1
      /\ \A i \in 1..(Len(s) - 1) : t[i] = s[i + 1]
  BY Taken, Zenon
<1> HIDE DEF t
<1>2. 1 \in Sets(s) /\ Sets(s) \subseteq 1..Len(s)
  BY <1>1 DEF Sets
<1>3. \A i \in Sets(s) : s[i].write \in from..to
  BY DEF HasExactly
<1>4. s[1].write = from /\ from <= to
  <2>1. from <= to /\ from \in from..to
    BY <1>2, <1>3
  <2>2. PICK i \in Sets(s) : s[i].write = from
    BY <2>1 DEF HasExactly
  <2>3. ~(1 < i)
    BY <1>2, <1>3, <2>2 DEF HasExactly
  <2>4. i = 1
    BY <1>1, <1>2, <2>3
  <2> QED BY <2>1, <2>2, <2>4
<1>5. \A i \in Sets(t) : i \in 1..(Len(s) - 1) /\ i + 1 \in Sets(s) /\ t[i] = s[i + 1]
  BY <1>1 DEF Sets
<1>6. \A i \in Sets(s) : i # 1 => i - 1 \in Sets(t) /\ t[i - 1] = s[i]
  <2> SUFFICES ASSUME NEW i \in Sets(s), i # 1
               PROVE  i - 1 \in Sets(t) /\ t[i - 1] = s[i]
    OBVIOUS
  <2>1. i \in 1..Len(s) /\ i - 1 \in 1..(Len(s) - 1) /\ (i - 1) + 1 = i
    BY <1>1, <1>2
  <2>2. t[i - 1] = s[i]
    BY <1>1, <2>1
  <2> QED BY <1>1, <2>1, <2>2 DEF Sets
<1>7. {t[i].write : i \in Sets(t)} = (from + 1)..to
  <2>1. ASSUME NEW i \in Sets(t)
        PROVE  t[i].write \in (from + 1)..to
    <3>1. i + 1 \in Sets(s) /\ t[i] = s[i + 1] /\ 1 < i + 1
      BY <1>5
    <3>2. s[1].write < s[i + 1].write
      BY <1>2, <3>1 DEF HasExactly
    <3>3. s[i + 1].write \in from..to
      BY <1>3, <3>1
    <3> QED BY <1>4, <3>1, <3>2, <3>3
  <2>2. ASSUME NEW n \in (from + 1)..to
        PROVE  \E i \in Sets(t) : t[i].write = n
    <3>1. PICK i \in Sets(s) : s[i].write = n
      <4>1. n \in from..to
        BY <2>2
      <4> QED BY <4>1 DEF HasExactly
    <3>2. i # 1
      BY <1>4, <3>1
    <3> QED BY <1>6, <3>1, <3>2
  <2> QED BY <2>1, <2>2
<1>8. ASSUME NEW i \in Sets(t), NEW j \in Sets(t), i < j
      PROVE  t[i].write < t[j].write
  <2>1. i + 1 \in Sets(s) /\ j + 1 \in Sets(s) /\ i + 1 < j + 1
    BY <1>5, <1>8
  <2>2. s[i + 1].write < s[j + 1].write
    BY <2>1 DEF HasExactly
  <2> QED BY <1>5, <2>2
<1>9. HasExactly(t, from + 1, to)
  BY <1>7, <1>8 DEF HasExactly
<1> QED BY <1>1, <1>4, <1>9 DEF t

LEMMA TakenGetAck ==
    ASSUME NEW s \in Seq(Messages), s # << >>, Head(s).op # "set",
           NEW from, NEW to, HasExactly(s, from, to)
    PROVE  HasExactly(Tail(s), from, to)
<1> DEFINE t == Tail(s)
<1>1. /\ Head(s) = s[1] /\ Len(s) \in Nat /\ Len(s) > 0
      /\ t \in Seq(Messages) /\ Len(t) = Len(s) - 1
      /\ \A i \in 1..(Len(s) - 1) : t[i] = s[i + 1]
  BY Taken, Zenon
<1> HIDE DEF t
<1>2. 1 \notin Sets(s) /\ Sets(s) \subseteq 1..Len(s)
  BY <1>1 DEF Sets
<1>3. \A i \in Sets(t) : i \in 1..(Len(s) - 1) /\ i + 1 \in Sets(s) /\ t[i] = s[i + 1]
  BY <1>1 DEF Sets
<1>4. ASSUME NEW i \in Sets(s)
      PROVE  i - 1 \in Sets(t) /\ t[i - 1] = s[i]
  <2>1. i \in 1..Len(s) /\ i - 1 \in 1..(Len(s) - 1) /\ (i - 1) + 1 = i
    BY <1>1, <1>2
  <2>2. t[i - 1] = s[i]
    BY <1>1, <2>1
  <2> QED BY <1>1, <2>1, <2>2 DEF Sets
<1>5. {t[i].write : i \in Sets(t)} = {s[i].write : i \in Sets(s)}
  <2>1. \A i \in Sets(t) : \E j \in Sets(s) : s[j].write = t[i].write
    BY <1>3
  <2>2. \A i \in Sets(s) : \E j \in Sets(t) : t[j].write = s[i].write
    BY <1>4
  <2> QED BY <2>1, <2>2
<1>6. ASSUME NEW i \in Sets(t), NEW j \in Sets(t), i < j
      PROVE  t[i].write < t[j].write
  BY <1>3, <1>6 DEF HasExactly
<1>7. HasExactly(t, from, to)
  BY <1>5, <1>6 DEF HasExactly
<1> QED BY <1>7 DEF t

(* An empty stream has what is between n and n + 1. *)
LEMMA NothingDue ==
    ASSUME NEW n \in Nat
    PROVE  HasExactly(<< >>, n + 1, n)
  BY DEF HasExactly, Sets

-----------------------------------------------------------------------------
(* The invariant: who is a replica, and what is on the way to and from it.  *)

(* A registration under way, from PSYNC to the end of the connection. *)
Announced ==
    \A i \in 1..Len(inbox) :
        /\ inbox[i].type = "AddReplica" => link[inbox[i].replica] = "joining"
        /\ inbox[i].type = "UnregisterClient" => link[inbox[i].replica] = "closed"

AnnouncedOnce ==
    \A i, j \in 1..Len(inbox) :
        /\ inbox[i].type = "AddReplica" /\ inbox[j].type = "AddReplica"
        /\ inbox[i].replica = inbox[j].replica
        => i = j

NotYetJoined ==
    \A r \in Replicas : link[r] \in {"down", "joining"} =>
        r \notin replicas /\ stream[r] = << >> /\ received[r] = << >>

Connected == \A r \in Replicas : link[r] \in {"up", "broken"} => r \in replicas

LinkInv == TypeOK /\ Announced /\ AnnouncedOnce /\ NotYetJoined /\ Connected

Announcements == {"AddReplica", "UnregisterClient"}
Links == {"down", "joining", "up", "broken", "closed"}

(* An envelope joins the inbox behind the others. *)
LEMMA Sent ==
    ASSUME TypeOK, NEW m \in Envelopes, inbox' = Append(inbox, m)
    PROVE  /\ Len(inbox) \in Nat /\ Len(inbox') = Len(inbox) + 1
           /\ \A i \in 1..Len(inbox') :
                 \/ i \in 1..Len(inbox) /\ inbox'[i] = inbox[i]
                 \/ i = Len(inbox) + 1 /\ inbox'[i] = m
<1>1. inbox \in Seq(Envelopes)
  BY DEF TypeOK
<1>2. /\ Len(inbox') = Len(inbox) + 1 /\ Len(inbox) \in Nat
      /\ \A i \in 1..Len(inbox) : inbox'[i] = inbox[i]
      /\ inbox'[Len(inbox) + 1] = m
  BY <1>1, SMT
<1> QED BY <1>2

(* An envelope that announces nothing joins the inbox. *)
LEMMA OthersSent ==
    ASSUME LinkInv, TypeOK', NEW m \in Envelopes, m.type \notin Announcements,
           inbox' = Append(inbox, m), UNCHANGED <<link, replicas, stream, received>>
    PROVE  LinkInv'
<1>1. TypeOK
  BY DEF LinkInv
<1>2. \A i \in 1..Len(inbox') : inbox'[i].type \in Announcements =>
          i \in 1..Len(inbox) /\ inbox'[i] = inbox[i]
  BY <1>1, Sent
<1>3. Announced' /\ AnnouncedOnce'
  BY <1>2 DEF LinkInv, Announced, AnnouncedOnce, Announcements
<1>4. NotYetJoined' /\ Connected'
  BY DEF LinkInv, NotYetJoined, Connected
<1> QED BY <1>3, <1>4 DEF LinkInv

(* What is left of the inbox after an envelope has been taken. *)
LEMMA Left ==
    ASSUME TypeOK, NEW type, Receive(type)
    PROVE  /\ Head(inbox) = inbox[1] /\ 1 \in 1..Len(inbox)
           /\ \A i \in 1..Len(inbox') : i + 1 \in 1..Len(inbox) /\ inbox'[i] = inbox[i + 1]
           /\ Len(inbox') \in Nat
<1>1. /\ inbox \in Seq(Envelopes) /\ inbox # << >> /\ inbox' = Tail(inbox)
  BY DEF TypeOK, Receive
<1>2. /\ Head(inbox) = inbox[1] /\ Len(inbox) \in Nat /\ Len(inbox) > 0
      /\ Len(inbox') = Len(inbox) - 1
      /\ \A i \in 1..(Len(inbox) - 1) : inbox'[i] = inbox[i + 1]
  BY <1>1, Taken, Zenon
<1> QED BY <1>2

(* An envelope that announces nothing is handled, with pushes to replicas only. *)
LEMMA OthersReceived ==
    ASSUME LinkInv, TypeOK', NEW type, Receive(type), UNCHANGED <<link, replicas, received>>,
           \A r \in Replicas : r \notin replicas => stream'[r] = stream[r]
    PROVE  LinkInv'
<1>1. \A i \in 1..Len(inbox') : i \in Nat /\ i + 1 \in 1..Len(inbox) /\ inbox'[i] = inbox[i + 1]
  BY Left DEF LinkInv
<1>2. Announced'
  BY <1>1 DEF LinkInv, Announced
<1>3. AnnouncedOnce'
  <2> SUFFICES ASSUME NEW i \in 1..Len(inbox'), NEW j \in 1..Len(inbox'),
                      inbox'[i].type = "AddReplica", inbox'[j].type = "AddReplica",
                      inbox'[i].replica = inbox'[j].replica
               PROVE  i = j
    BY DEF AnnouncedOnce
  <2>1. /\ i + 1 \in 1..Len(inbox) /\ inbox'[i] = inbox[i + 1]
        /\ j + 1 \in 1..Len(inbox) /\ inbox'[j] = inbox[j + 1]
    BY <1>1
  <2>2. i + 1 = j + 1
    BY <2>1 DEF LinkInv, AnnouncedOnce
  <2> QED BY <1>1, <2>2
<1>4. NotYetJoined' /\ Connected'
  BY DEF LinkInv, NotYetJoined, Connected
<1> QED BY <1>2, <1>3, <1>4 DEF LinkInv

(* A replica that asks to join is announced, once. *)
LEMMA JoinLinks ==
    ASSUME LinkInv, TypeOK', NEW r \in Replicas, Join(r)
    PROVE  LinkInv'
<1> DEFINE m == AddReplica(r)
<1>1. m \in Envelopes /\ m.type = "AddReplica" /\ m.replica = r
  BY SentTypes DEF AddReplica
<1>2. inbox' = Append(inbox, m)
  BY DEF Join
<1> HIDE DEF m
<1>3. TypeOK
  BY DEF LinkInv
<1>4. /\ link[r] = "down" /\ link \in [Replicas -> Links] /\ link' = [link EXCEPT ![r] = "joining"]
      /\ UNCHANGED <<replicas, stream, received>>
  BY DEF Join, LinkInv, TypeOK, store, replica, Links
<1>5. \A i \in 1..Len(inbox) : inbox[i].type \in Announcements => inbox[i].replica # r
  BY <1>4 DEF LinkInv, Announced, Announcements
<1>6. \A i \in 1..Len(inbox') :
         \/ i \in 1..Len(inbox) /\ inbox'[i] = inbox[i]
         \/ i = Len(inbox) + 1 /\ inbox'[i] = m
  BY <1>1, <1>2, <1>3, Sent
<1>7. Announced'
  <2>1. ASSUME NEW i \in 1..Len(inbox), inbox[i].type \in Announcements
        PROVE  link'[inbox[i].replica] = link[inbox[i].replica]
    <3>1. inbox[i] \in Envelopes
      BY InInbox DEF LinkInv
    <3>2. inbox[i].replica \in Replicas
      BY <2>1, <3>1, EnvelopeTypes DEF Announcements
    <3>3. inbox[i].replica # r
      BY <1>5, <2>1
    <3> QED BY <1>4, <3>2, <3>3
  <2>2. link'[r] = "joining"
    BY <1>4
  <2> QED BY <1>1, <1>6, <2>1, <2>2 DEF LinkInv, Announced, Announcements
<1>8. AnnouncedOnce'
  BY <1>1, <1>5, <1>6 DEF LinkInv, AnnouncedOnce, Announcements
<1>9. NotYetJoined' /\ Connected'
  BY <1>4 DEF LinkInv, NotYetJoined, Connected
<1> QED BY <1>7, <1>8, <1>9 DEF LinkInv

(* A connection that breaks or ends is that of no replica that has yet to join. *)
LEMMA EndOfLink ==
    ASSUME LinkInv, TypeOK', NEW r \in Replicas, link[r] \in {"up", "broken"},
           NEW l \in {"broken", "closed"}, link' = [link EXCEPT ![r] = l],
           UNCHANGED <<inbox, replicas, stream, received>>
    PROVE  LinkInv'
<1>1. link \in [Replicas -> Links]
  BY DEF LinkInv, TypeOK, Links
<1>2. \A i \in 1..Len(inbox) : inbox[i] \in Envelopes
  BY InInbox DEF LinkInv
<1>3. ASSUME NEW i \in 1..Len(inbox), inbox[i].type \in Announcements
      PROVE  link'[inbox[i].replica] = link[inbox[i].replica]
  <2>1. inbox[i].replica \in Replicas /\ inbox[i].replica # r
    BY <1>2, <1>3, EnvelopeTypes DEF LinkInv, Announced, Announcements
  <2> QED BY <1>1, <2>1
<1>4. Announced' /\ AnnouncedOnce'
  BY <1>3 DEF LinkInv, Announced, AnnouncedOnce, Announcements
<1>5. NotYetJoined' /\ Connected'
  BY <1>1 DEF LinkInv, NotYetJoined, Connected
<1> QED BY <1>4, <1>5 DEF LinkInv

(* The end that the client task notices is announced. *)
LEMMA NoticedEnd ==
    ASSUME LinkInv, TypeOK', NEW r \in Replicas, NoticeEnd(r)
    PROVE  LinkInv'
<1> DEFINE m == Unregister(r)
<1>1. m \in Envelopes /\ m.type = "UnregisterClient" /\ m.replica = r
  BY SentTypes DEF Unregister
<1>2. inbox' = Append(inbox, m)
  BY DEF NoticeEnd
<1> HIDE DEF m
<1>3. TypeOK
  BY DEF LinkInv
<1>4. /\ link[r] = "broken" /\ link \in [Replicas -> Links] /\ link' = [link EXCEPT ![r] = "closed"]
      /\ UNCHANGED <<replicas, stream, received>>
  BY DEF NoticeEnd, LinkInv, TypeOK, store, replica, Links
<1>5. \A i \in 1..Len(inbox) : inbox[i].type \in Announcements => inbox[i].replica # r
  BY <1>4 DEF LinkInv, Announced, Announcements
<1>6. \A i \in 1..Len(inbox') :
         \/ i \in 1..Len(inbox) /\ inbox'[i] = inbox[i]
         \/ i = Len(inbox) + 1 /\ inbox'[i] = m
  BY <1>1, <1>2, <1>3, Sent
<1>7. Announced'
  <2>1. ASSUME NEW i \in 1..Len(inbox), inbox[i].type \in Announcements
        PROVE  link'[inbox[i].replica] = link[inbox[i].replica]
    <3>1. inbox[i] \in Envelopes
      BY InInbox DEF LinkInv
    <3>2. inbox[i].replica \in Replicas
      BY <2>1, <3>1, EnvelopeTypes DEF Announcements
    <3>3. inbox[i].replica # r
      BY <1>5, <2>1
    <3> QED BY <1>4, <3>2, <3>3
  <2>2. link'[r] = "closed"
    BY <1>4
  <2> QED BY <1>1, <1>6, <2>1, <2>2 DEF LinkInv, Announced, Announcements
<1>8. AnnouncedOnce'
  BY <1>1, <1>6 DEF LinkInv, AnnouncedOnce
<1>9. NotYetJoined' /\ Connected'
  BY <1>4 DEF LinkInv, NotYetJoined, Connected
<1> QED BY <1>7, <1>8, <1>9 DEF LinkInv

(* The store takes the announcement of a replica: it was the only one. *)
LEMMA AddedReplica ==
    ASSUME LinkInv, TypeOK', ExecAddReplica
    PROVE  LinkInv'
<1> DEFINE r == Head(inbox).replica
<1>1. Receive("AddReplica") /\ Head(inbox) \in Envelopes /\ Head(inbox).type = "AddReplica"
  BY ReceiveType DEF ExecAddReplica, LinkInv
<1>2. r \in Replicas
  BY <1>1, EnvelopeTypes
<1>3. /\ link' = [link EXCEPT ![r] = "up"] /\ link \in [Replicas -> Links]
      /\ replicas' = replicas \cup {r}
      /\ UNCHANGED <<stream, received>>
  BY DEF ExecAddReplica, LinkInv, TypeOK, replica, Links
<1>4. /\ inbox[1].type = "AddReplica" /\ inbox[1].replica = r /\ 1 \in 1..Len(inbox)
      /\ \A i \in 1..Len(inbox') : i \in Nat /\ i \geq 1 /\ i + 1 \in 1..Len(inbox)
                                   /\ inbox'[i] = inbox[i + 1]
  BY <1>1, Left DEF LinkInv
<1>5. \A i \in 1..Len(inbox) : inbox[i] \in Envelopes
  BY InInbox DEF LinkInv
<1> HIDE DEF r
<1>6. link[r] = "joining"
  BY <1>4 DEF LinkInv, Announced
<1>7. ASSUME NEW i \in 1..Len(inbox'), inbox'[i].type \in Announcements
      PROVE  link'[inbox'[i].replica] = link[inbox'[i].replica]
  <2>1. i + 1 # 1 /\ i + 1 \in 1..Len(inbox) /\ inbox'[i] = inbox[i + 1]
    BY <1>4
  <2>2. inbox[i + 1].replica # r
    <3>1. CASE inbox[i + 1].type = "AddReplica"
      BY <1>4, <2>1, <3>1 DEF LinkInv, AnnouncedOnce
    <3>2. CASE inbox[i + 1].type = "UnregisterClient"
      BY <1>6, <2>1, <3>2 DEF LinkInv, Announced
    <3> QED BY <1>7, <2>1, <3>1, <3>2 DEF Announcements
  <2>3. inbox[i + 1].replica \in Replicas
    BY <1>5, <1>7, <2>1, EnvelopeTypes DEF Announcements
  <2> QED BY <1>3, <2>1, <2>2, <2>3
<1>8. Announced'
  BY <1>4, <1>7 DEF LinkInv, Announced, Announcements
<1>9. AnnouncedOnce'
  <2> SUFFICES ASSUME NEW i \in 1..Len(inbox'), NEW j \in 1..Len(inbox'),
                      inbox'[i].type = "AddReplica", inbox'[j].type = "AddReplica",
                      inbox'[i].replica = inbox'[j].replica
               PROVE  i = j
    BY DEF AnnouncedOnce
  <2>1. /\ i + 1 \in 1..Len(inbox) /\ inbox'[i] = inbox[i + 1]
        /\ j + 1 \in 1..Len(inbox) /\ inbox'[j] = inbox[j + 1]
    BY <1>4
  <2>2. i + 1 = j + 1
    BY <2>1 DEF LinkInv, AnnouncedOnce
  <2> QED BY <1>4, <2>2
<1>10. NotYetJoined' /\ Connected'
  BY <1>2, <1>3 DEF LinkInv, NotYetJoined, Connected
<1> QED BY <1>8, <1>9, <1>10 DEF LinkInv

(* The store forgets a client whose connection is closed. *)
LEMMA Unregistered ==
    ASSUME LinkInv, TypeOK', ExecUnregister
    PROVE  LinkInv'
<1> DEFINE r == Head(inbox).replica
<1>1. Receive("UnregisterClient") /\ Head(inbox) \in Envelopes
      /\ Head(inbox).type = "UnregisterClient"
  BY ReceiveType DEF ExecUnregister, LinkInv
<1>2. /\ replicas' = replicas \ {r}
      /\ UNCHANGED <<link, stream, received>>
  BY DEF ExecUnregister, wires, replica
<1>3. /\ inbox[1].type = "UnregisterClient" /\ inbox[1].replica = r /\ 1 \in 1..Len(inbox)
      /\ \A i \in 1..Len(inbox') : i \in Nat /\ i + 1 \in 1..Len(inbox)
                                   /\ inbox'[i] = inbox[i + 1]
  BY <1>1, Left DEF LinkInv
<1> HIDE DEF r
<1>4. link[r] = "closed"
  BY <1>3 DEF LinkInv, Announced
<1>5. Announced'
  BY <1>2, <1>3 DEF LinkInv, Announced
<1>6. AnnouncedOnce'
  <2> SUFFICES ASSUME NEW i \in 1..Len(inbox'), NEW j \in 1..Len(inbox'),
                      inbox'[i].type = "AddReplica", inbox'[j].type = "AddReplica",
                      inbox'[i].replica = inbox'[j].replica
               PROVE  i = j
    BY DEF AnnouncedOnce
  <2>1. /\ i + 1 \in 1..Len(inbox) /\ inbox'[i] = inbox[i + 1]
        /\ j + 1 \in 1..Len(inbox) /\ inbox'[j] = inbox[j + 1]
    BY <1>3
  <2>2. i + 1 = j + 1
    BY <2>1 DEF LinkInv, AnnouncedOnce
  <2> QED BY <1>3, <2>2
<1>7. NotYetJoined' /\ Connected'
  BY <1>2, <1>4 DEF LinkInv, NotYetJoined, Connected
<1> QED BY <1>5, <1>6, <1>7 DEF LinkInv

(* What a joined replica takes off its stream. *)
LEMMA TakenOff ==
    ASSUME LinkInv, TypeOK', UNCHANGED <<inbox, link, replicas>>,
           \A r \in Replicas : link[r] # "up" => stream'[r] = stream[r] /\ received'[r] = received[r]
    PROVE  LinkInv'
<1>1. Announced' /\ AnnouncedOnce'
  BY DEF LinkInv, Announced, AnnouncedOnce
<1>2. NotYetJoined' /\ Connected'
  BY DEF LinkInv, NotYetJoined, Connected
<1> QED BY <1>1, <1>2 DEF LinkInv

(* The clients and the timeout tasks announce nothing. *)
LEMMA ClientStepLinks ==
    ASSUME LinkInv, TypeOK',
           \/ \E c \in Clients : Send(c) \/ WriteReply(c)
           \/ \E id \in timers : TimerFires(id)
    PROVE  LinkInv'
<1>1. ASSUME NEW c \in Clients, Send(c)
      PROVE  LinkInv'
  <2>1. PICK m \in Envelopes : m.type \notin Announcements /\ inbox' = Append(inbox, m)
    <3>1. CASE inbox' = Append(inbox, SetCommand(c))
      BY <3>1, SentTypes DEF SetCommand, Announcements
    <3>2. ASSUME NEW n \in WaitFor, inbox' = Append(inbox, WaitCommand(c, n))
          PROVE  \E m \in Envelopes : m.type \notin Announcements /\ inbox' = Append(inbox, m)
      <4>1. WaitCommand(c, n) \in Envelopes /\ WaitCommand(c, n).type \notin Announcements
        BY SentTypes DEF WaitCommand, Announcements
      <4> QED BY <3>2, <4>1
    <3> QED BY <1>1, <3>1, <3>2 DEF Send
  <2> QED BY <1>1, <2>1, OthersSent DEF Send, store, wires, replica
<1>2. ASSUME NEW c \in Clients, WriteReply(c)
      PROVE  LinkInv'
  BY <1>2, TakenOff DEF WriteReply, store, wires, replica
<1>3. ASSUME NEW id \in timers, TimerFires(id)
      PROVE  LinkInv'
  <2>1. WaitTimeout(id) \in Envelopes /\ WaitTimeout(id).type \notin Announcements
    BY SentTypes DEF LinkInv, TypeOK, WaitTimeout, Announcements
  <2> QED BY <1>3, <2>1, OthersSent DEF TimerFires, store, wires, replica
<1> QED BY <1>1, <1>2, <1>3

(* The connections and the replicas announce what becomes of them. *)
LEMMA ReplicaStepLinks ==
    ASSUME LinkInv, TypeOK', NEW r \in Replicas,
           \/ Join(r) \/ ForwardAck(r) \/ ReplicaDies(r) \/ NoticeEnd(r) \/ PanicOnWrite(r)
           \/ ReceiveSet(r) \/ ReceiveGetAck(r)
    PROVE  LinkInv'
<1>1. CASE ForwardAck(r)
  <2> DEFINE m == Ack(r, Head(ackwire[r]))
  <2>1. Head(ackwire[r]) \in Nat
    <3>1. ackwire[r] \in Seq(Nat) /\ ackwire[r] # << >>
      BY <1>1 DEF ForwardAck, LinkInv, TypeOK
    <3> QED BY <3>1
  <2>2. m \in Envelopes /\ m.type \notin Announcements
    BY <2>1, SentTypes DEF Ack, Announcements
  <2>3. inbox' = Append(inbox, m) /\ UNCHANGED <<link, replicas, stream, received>>
    BY <1>1 DEF ForwardAck, store, replica
  <2> HIDE DEF m
  <2> QED BY <2>2, <2>3, OthersSent
<1>2. CASE ReplicaDies(r)
  BY <1>2, EndOfLink DEF ReplicaDies, store, replica
<1>3. CASE PanicOnWrite(r)
  BY <1>3, EndOfLink DEF PanicOnWrite, store, replica
<1>4. CASE ReceiveSet(r)
  <2>1. \A q \in Replicas : q # r => stream'[q] = stream[q] /\ received'[q] = received[q]
    BY <1>4 DEF ReceiveSet, LinkInv, TypeOK
  <2> QED BY <1>4, <2>1, TakenOff DEF ReceiveSet, store
<1>5. CASE ReceiveGetAck(r)
  <2>1. \A q \in Replicas : q # r => stream'[q] = stream[q] /\ received'[q] = received[q]
    BY <1>5 DEF ReceiveGetAck, LinkInv, TypeOK
  <2> QED BY <1>5, <2>1, TakenOff DEF ReceiveGetAck, store
<1> QED BY <1>1, <1>2, <1>3, <1>4, <1>5, JoinLinks, NoticedEnd

(* A push leaves alone who is no replica. *)
LEMMA PushedToReplicas ==
    ASSUME NEW msg, NEW r \in Replicas, r \notin replicas
    PROVE  PushToReplicas(msg)[r] = stream[r]
  BY DEF PushToReplicas

LEMMA StoreStepLinks ==
    ASSUME LinkInv, TypeOK', StoreStep
    PROVE  LinkInv'
<1>1. CASE ExecSet
  BY <1>1, OthersReceived, PushedToReplicas DEF ExecSet, replica
<1>2. CASE AnswerWait \/ ExecAck \/ ExecWaitTimeout
  BY <1>2, OthersReceived DEF AnswerWait, ExecAck, ExecWaitTimeout, store, wires, replica
<1>3. CASE BlockWait
  BY <1>3, OthersReceived, PushedToReplicas DEF BlockWait, AskForAcks, replica
<1> QED BY <1>1, <1>2, <1>3, AddedReplica, Unregistered DEF StoreStep

LEMMA LinkInit == Init => LinkInv
  BY InitType DEF Init, LinkInv, Announced, AnnouncedOnce, NotYetJoined, Connected

LEMMA LinkStep ==
    ASSUME LinkInv, [Next]_vars
    PROVE  LinkInv'
<1>1. TypeOK'
  BY NextType DEF LinkInv
<1>2. CASE Next
  BY <1>1, <1>2, ClientStepLinks, ReplicaStepLinks, StoreStepLinks DEF Next
<1>3. CASE UNCHANGED vars
  BY <1>1, <1>3, TakenOff DEF vars, store, wires, replica
<1> QED BY <1>2, <1>3

-----------------------------------------------------------------------------
(* The stream of a replica.                                                *)

Complete(r) ==
    /\ \A i \in 1..Len(received[r]) : received[r][i] = joined[r] + i
    /\ NextDue(r) <= writes + 1
    /\ HasExactly(stream[r], NextDue(r), writes)

(* What the properties of streams say of a replica with nothing under way. *)
LEMMA CompleteKept ==
    ASSUME NEW r, Complete(r), UNCHANGED writes,
           stream'[r] = stream[r], received'[r] = received[r], joined'[r] = joined[r]
    PROVE  Complete(r)'
  BY DEF Complete, NextDue

LEMMA NextDueType ==
    ASSUME TypeOK, NEW r \in Replicas
    PROVE  /\ stream[r] \in Seq(Messages) /\ received[r] \in Seq(Nat) /\ joined[r] \in Nat
           /\ Len(received[r]) \in Nat /\ NextDue(r) \in Nat /\ writes \in Nat
<1>1. stream[r] \in Seq(Messages) /\ received[r] \in Seq(Nat) /\ joined[r] \in Nat /\ writes \in Nat
  BY DEF TypeOK
<1>2. Len(received[r]) \in Nat
  BY <1>1
<1> QED BY <1>1, <1>2 DEF NextDue

(* A SET is pushed to every replica, as the next of the writes. *)
LEMMA SetCompletes ==
    ASSUME LinkInv, ExecSet, NEW r \in Replicas, link[r] \in {"up", "broken"}, Complete(r)
    PROVE  Complete(r)'
<1>1. /\ stream[r] \in Seq(Messages) /\ NextDue(r) \in Nat /\ writes \in Nat
  BY NextDueType DEF LinkInv
<1>2. r \in replicas
  BY DEF LinkInv, Connected
<1>3. /\ stream'[r] = Append(stream[r], SetMsg(writes + 1)) /\ writes' = writes + 1
      /\ received' = received /\ joined' = joined
  BY <1>2 DEF ExecSet, PushToReplicas, replica
<1>4. NextDue(r)' = NextDue(r)
  BY <1>3 DEF NextDue
<1>5. HasExactly(stream[r], NextDue(r), writes) /\ NextDue(r) <= writes + 1
  BY DEF Complete
<1>6. HasExactly(Append(stream[r], SetMsg(writes + 1)), NextDue(r), writes + 1)
  BY <1>1, <1>5, PushedSet
<1>7. NextDue(r) <= writes' + 1
  BY <1>1, <1>3, <1>5
<1>8. HasExactly(stream'[r], NextDue(r)', writes')
  BY <1>3, <1>4, <1>6
<1> QED BY <1>3, <1>4, <1>7, <1>8 DEF Complete, HasExactly, Sets

(* A GETACK is no write. *)
LEMMA GetAckCompletes ==
    ASSUME LinkInv, BlockWait, NEW r \in Replicas, link[r] \in {"up", "broken"}, Complete(r)
    PROVE  Complete(r)'
<1>1. stream[r] \in Seq(Messages)
  BY NextDueType DEF LinkInv
<1>2. /\ stream'[r] = stream[r] \/ stream'[r] = Append(stream[r], GetAck)
      /\ writes' = writes /\ received' = received /\ joined' = joined
  BY DEF BlockWait, AskForAcks, PushToReplicas, replica
<1>3. NextDue(r)' = NextDue(r)
  BY <1>2 DEF NextDue
<1>4. HasExactly(stream[r], NextDue(r), writes)
  BY DEF Complete
<1>5. HasExactly(Append(stream[r], GetAck), NextDue(r), writes)
  BY <1>1, <1>4, PushedGetAck
<1>6. HasExactly(stream'[r], NextDue(r)', writes')
  BY <1>2, <1>3, <1>4, <1>5
<1> QED BY <1>2, <1>3, <1>6 DEF Complete, HasExactly, Sets

(* What a replica receives is the SET that is due. *)
LEMMA ReceivedCompletes ==
    ASSUME LinkInv, NEW r \in Replicas, ReceiveSet(r), Complete(r)
    PROVE  Complete(r)'
<1> DEFINE n == Head(stream[r]).write
<1>1. /\ stream[r] \in Seq(Messages) /\ received[r] \in Seq(Nat) /\ joined[r] \in Nat
      /\ Len(received[r]) \in Nat /\ NextDue(r) \in Nat /\ writes \in Nat
  BY NextDueType DEF LinkInv
<1>2. /\ stream[r] # << >> /\ Head(stream[r]).op = "set" /\ stream'[r] = Tail(stream[r])
      /\ received'[r] = Append(received[r], n) /\ joined' = joined /\ writes' = writes
  BY DEF ReceiveSet, LinkInv, TypeOK, store
<1>3. HasExactly(stream[r], NextDue(r), writes)
  BY DEF Complete
<1>4. n = NextDue(r) /\ NextDue(r) <= writes /\ HasExactly(Tail(stream[r]), NextDue(r) + 1, writes)
  BY <1>1, <1>2, <1>3, TakenSet
<1> HIDE DEF n
<1>5. /\ Len(received'[r]) = Len(received[r]) + 1
      /\ \A i \in 1..Len(received[r]) : received'[r][i] = received[r][i]
      /\ received'[r][Len(received[r]) + 1] = n
  BY <1>1, <1>2, <1>4
<1>6. NextDue(r)' = NextDue(r) + 1
  BY <1>1, <1>2, <1>5 DEF NextDue
<1>7. \A i \in 1..Len(received'[r]) : received'[r][i] = joined'[r] + i
  <2> SUFFICES ASSUME NEW i \in 1..Len(received'[r])
               PROVE  received'[r][i] = joined[r] + i
    BY <1>2
  <2>1. CASE i \in 1..Len(received[r])
    BY <1>5, <2>1 DEF Complete
  <2>2. CASE i = Len(received[r]) + 1
    BY <1>1, <1>4, <1>5, <2>2 DEF NextDue
  <2> QED BY <1>1, <1>5, <2>1, <2>2
<1>8. HasExactly(stream'[r], NextDue(r)', writes') /\ NextDue(r)' <= writes' + 1
  BY <1>1, <1>2, <1>4, <1>6
<1> QED BY <1>7, <1>8 DEF Complete, HasExactly, Sets

LEMMA AskedCompletes ==
    ASSUME LinkInv, NEW r \in Replicas, ReceiveGetAck(r), Complete(r)
    PROVE  Complete(r)'
<1>1. stream[r] \in Seq(Messages)
  BY NextDueType DEF LinkInv
<1>2. /\ stream[r] # << >> /\ Head(stream[r]).op # "set" /\ stream'[r] = Tail(stream[r])
      /\ received' = received /\ joined' = joined /\ writes' = writes
  BY DEF ReceiveGetAck, LinkInv, TypeOK, store
<1>3. NextDue(r)' = NextDue(r)
  BY <1>2 DEF NextDue
<1>4. HasExactly(stream[r], NextDue(r), writes)
  BY DEF Complete
<1>5. HasExactly(stream'[r], NextDue(r)', writes')
  BY <1>1, <1>2, <1>3, <1>4, TakenGetAck
<1> QED BY <1>2, <1>3, <1>5 DEF Complete, HasExactly, Sets

(* A replica that joins has its snapshot, and nothing is due yet. *)
LEMMA JoinedCompletes ==
    ASSUME LinkInv, ExecAddReplica, NEW r \in Replicas, Head(inbox).replica = r
    PROVE  Complete(r)'
<1>1. Receive("AddReplica") /\ Head(inbox) \in Envelopes /\ Head(inbox).type = "AddReplica"
  BY ReceiveType DEF ExecAddReplica, LinkInv
<1>2. link[r] = "joining"
  BY <1>1, Left DEF LinkInv, Announced
<1>3. stream[r] = << >> /\ received[r] = << >>
  BY <1>2 DEF LinkInv, NotYetJoined
<1>4. /\ stream' = stream /\ received' = received /\ writes' = writes
      /\ joined' = [joined EXCEPT ![r] = writes] /\ joined \in [Replicas -> Nat]
      /\ writes \in Nat
  BY DEF ExecAddReplica, Snapshot, LinkInv, TypeOK, replica
<1>5. stream'[r] = << >> /\ received'[r] = << >> /\ joined'[r] = writes
  BY <1>3, <1>4
<1>6. Len(received'[r]) = 0
  BY <1>5
<1>7. NextDue(r)' = writes + 1
  BY <1>4, <1>5, <1>6 DEF NextDue
<1>8. HasExactly(stream'[r], writes + 1, writes)
  BY <1>4, <1>5, NothingDue
<1> QED BY <1>4, <1>6, <1>7, <1>8 DEF Complete, HasExactly, Sets

(* Every step keeps the streams complete: of the replica it concerns by the
   lemma on that action, of every other one because nothing of it changes.    *)
LEMMA CompleteStep ==
    ASSUME LinkInv, StreamComplete, [Next]_vars
    PROVE  StreamComplete'
<1> SUFFICES ASSUME NEW r \in Replicas, link'[r] \in {"up", "broken"}
             PROVE  Complete(r)'
  BY DEF StreamComplete, Complete
<1>1. link[r] \in {"up", "broken"} => Complete(r)
  BY DEF StreamComplete, Complete
<1> DEFINE Same == /\ link[r] \in {"up", "broken"} /\ writes' = writes
                   /\ stream'[r] = stream[r] /\ received'[r] = received[r]
                   /\ joined'[r] = joined[r]
<1>2. Same => Complete(r)'
  BY <1>1, CompleteKept
<1> HIDE DEF Same
<1>3. ASSUME NEW c \in Clients, Send(c) \/ WriteReply(c)
      PROVE  Complete(r)'
  BY <1>2, <1>3 DEF Send, WriteReply, store, wires, replica, Same
<1>4. ASSUME NEW id \in timers, TimerFires(id)
      PROVE  Complete(r)'
  BY <1>2, <1>4 DEF TimerFires, store, wires, replica, Same
<1>5. ASSUME NEW q \in Replicas,
             Join(q) \/ ForwardAck(q) \/ ReplicaDies(q) \/ NoticeEnd(q) \/ PanicOnWrite(q)
      PROVE  Complete(r)'
  <2>1. link[r] \in {"up", "broken"}
    BY <1>5 DEF Join, ForwardAck, ReplicaDies, NoticeEnd, PanicOnWrite, LinkInv, TypeOK
  <2> QED BY <1>2, <1>5, <2>1
          DEF Join, ForwardAck, ReplicaDies, NoticeEnd, PanicOnWrite, store, replica, Same
<1>6. ASSUME NEW q \in Replicas, ReceiveSet(q)
      PROVE  Complete(r)'
  <2>1. CASE q = r
    BY <1>1, <1>6, <2>1, ReceivedCompletes DEF ReceiveSet
  <2>2. CASE q # r
    BY <1>2, <1>6, <2>2 DEF ReceiveSet, LinkInv, TypeOK, store, Same
  <2> QED BY <2>1, <2>2
<1>7. ASSUME NEW q \in Replicas, ReceiveGetAck(q)
      PROVE  Complete(r)'
  <2>1. CASE q = r
    BY <1>1, <1>7, <2>1, AskedCompletes DEF ReceiveGetAck
  <2>2. CASE q # r
    BY <1>2, <1>7, <2>2 DEF ReceiveGetAck, LinkInv, TypeOK, store, Same
  <2> QED BY <2>1, <2>2
<1>8. CASE ExecSet
  BY <1>1, <1>8, SetCompletes DEF ExecSet
<1>9. CASE BlockWait
  BY <1>1, <1>9, GetAckCompletes DEF BlockWait
<1>10. CASE AnswerWait \/ ExecAck \/ ExecWaitTimeout \/ ExecUnregister
  BY <1>2, <1>10
     DEF AnswerWait, ExecAck, ExecWaitTimeout, ExecUnregister, store, wires, replica, Same
<1>11. CASE ExecAddReplica
  <2>1. CASE Head(inbox).replica = r
    BY <1>11, <2>1, JoinedCompletes
  <2>2. CASE Head(inbox).replica # r
    BY <1>2, <1>11, <2>2 DEF ExecAddReplica, LinkInv, TypeOK, replica, Same
  <2> QED BY <2>1, <2>2
<1>12. CASE UNCHANGED vars
  BY <1>2, <1>12 DEF vars, store, wires, replica, Same
<1> QED BY <1>3, <1>4, <1>5, <1>6, <1>7, <1>8, <1>9, <1>10, <1>11, <1>12 DEF Next, StoreStep

(* The links agree with what the store and its inbox know of them. *)
THEOREM LinksHold == Spec => []LinkInv
  BY LinkInit, LinkStep, PTL DEF Spec

(* A write and a PSYNC that meet in the inbox: whatever the interleaving, what
   a replica received and what is still on its way are exactly the writes since
   its snapshot, each once and in order.                                     *)
THEOREM StreamsAreComplete == Spec => []StreamComplete
<1>1. Init => StreamComplete
  BY DEF Init, StreamComplete
<1>2. LinkInv /\ StreamComplete /\ [Next]_vars => StreamComplete'
  BY CompleteStep
<1> QED BY <1>1, <1>2, LinksHold, PTL DEF Spec

-----------------------------------------------------------------------------
(* The GETACK behind the writes.                                           *)

(* What the property of the GETACKs says of one replica. *)
Covered(r) == stream[r] # << >> => stream[r][Len(stream[r])].op = "getack"

(* A replica that takes a message off its stream leaves the last one there. *)
LEMMA TakenCovered ==
    ASSUME TypeOK, NEW r \in Replicas, Covered(r), stream[r] # << >>,
           stream'[r] = Tail(stream[r])
    PROVE  Covered(r)'
<1> DEFINE s == stream[r]
           t == stream'[r]
<1>1. s \in Seq(Messages) /\ s # << >> /\ t = Tail(s) /\ s[Len(s)].op = "getack"
  BY DEF TypeOK, Covered
<1> HIDE DEF s, t
<1>2. /\ Len(s) \in Nat /\ Len(t) = Len(s) - 1 /\ t \in Seq(Messages)
      /\ \A i \in 1..(Len(s) - 1) : t[i] = s[i + 1]
  BY <1>1, Taken, Zenon
<1>3. t # << >> => t[Len(t)] = s[Len(s)]
  <2> SUFFICES ASSUME t # << >> PROVE t[Len(t)] = s[Len(s)]
    OBVIOUS
  <2>1. Len(t) \in Nat /\ Len(t) # 0
    BY <1>2
  <2>2. Len(t) \in 1..(Len(s) - 1) /\ Len(t) + 1 = Len(s)
    BY <1>2, <2>1
  <2> QED BY <1>2, <2>2
<1>4. t # << >> => t[Len(t)].op = "getack"
  BY <1>1, <1>3
<1> QED BY <1>4 DEF Covered, t

(* A WAIT that clears the flag has just asked every replica that is connected. *)
LEMMA AskedCovered ==
    ASSUME LinkInv, BlockWait, NEW r \in Replicas, link[r] \in {"up", "broken"},
           ~pending => Covered(r)
    PROVE  Covered(r)'
<1>1. stream[r] \in Seq(Messages) /\ GetAck \in Messages /\ GetAck.op = "getack"
  BY DEF LinkInv, TypeOK, GetAck, Messages
<1>2. CASE pending
  <2>1. stream'[r] = Append(stream[r], GetAck)
    BY <1>2 DEF BlockWait, AskForAcks, PushToReplicas, LinkInv, Connected
  <2>2. /\ Len(Append(stream[r], GetAck)) = Len(stream[r]) + 1
        /\ Append(stream[r], GetAck)[Len(stream[r]) + 1] = GetAck
    BY <1>1, SMT
  <2> QED BY <1>1, <2>1, <2>2 DEF Covered
<1>3. CASE ~pending
  BY <1>3 DEF BlockWait, AskForAcks, Covered
<1> QED BY <1>2, <1>3

(* Every step keeps a GETACK behind the writes, or sets the flag. *)
LEMMA CoverStep ==
    ASSUME LinkInv, GetAckCoversWrites, [Next]_vars
    PROVE  GetAckCoversWrites'
<1> SUFFICES ASSUME NEW r \in Replicas, ~pending', link'[r] \in {"up", "broken"}
             PROVE  Covered(r)'
  BY DEF GetAckCoversWrites, Covered
<1>1. ~pending /\ link[r] \in {"up", "broken"} => Covered(r)
  BY DEF GetAckCoversWrites, Covered
<1>2. ~pending /\ link[r] \in {"up", "broken"} /\ stream'[r] = stream[r] => Covered(r)'
  BY <1>1 DEF Covered
<1>3. ASSUME NEW c \in Clients, Send(c) \/ WriteReply(c)
      PROVE  Covered(r)'
  BY <1>2, <1>3 DEF Send, WriteReply, store, wires
<1>4. ASSUME NEW id \in timers, TimerFires(id)
      PROVE  Covered(r)'
  BY <1>2, <1>4 DEF TimerFires, store, wires
<1>5. ASSUME NEW q \in Replicas,
             Join(q) \/ ForwardAck(q) \/ ReplicaDies(q) \/ NoticeEnd(q) \/ PanicOnWrite(q)
      PROVE  Covered(r)'
  <2>1. link[r] \in {"up", "broken"}
    BY <1>5 DEF Join, ForwardAck, ReplicaDies, NoticeEnd, PanicOnWrite, LinkInv, TypeOK
  <2> QED BY <1>2, <1>5, <2>1
          DEF Join, ForwardAck, ReplicaDies, NoticeEnd, PanicOnWrite, store
<1>6. ASSUME NEW q \in Replicas, ReceiveSet(q) \/ ReceiveGetAck(q)
      PROVE  Covered(r)'
  <2>1. /\ ~pending /\ link[r] \in {"up", "broken"} /\ stream[q] # << >>
        /\ stream \in [Replicas -> Seq(Messages)]
        /\ stream' = [stream EXCEPT ![q] = Tail(stream[q])]
    BY <1>6 DEF ReceiveSet, ReceiveGetAck, store, LinkInv, TypeOK
  <2>2. CASE q = r
    <3>1. stream'[r] = Tail(stream[r]) /\ TypeOK
      BY <2>1, <2>2 DEF LinkInv
    <3> QED BY <1>1, <2>1, <2>2, <3>1, TakenCovered
  <2>3. CASE q # r
    BY <1>2, <2>1, <2>3
  <2> QED BY <2>2, <2>3
<1>7. CASE ExecSet
  BY <1>7 DEF ExecSet
<1>8. CASE BlockWait
  BY <1>1, <1>8, AskedCovered DEF BlockWait
<1>9. CASE AnswerWait \/ ExecAck \/ ExecWaitTimeout \/ ExecUnregister
  BY <1>2, <1>9 DEF AnswerWait, ExecAck, ExecWaitTimeout, ExecUnregister, store, wires
<1>10. CASE ExecAddReplica
  <2>1. CASE Head(inbox).replica = r
    <3>1. Receive("AddReplica") /\ Head(inbox).type = "AddReplica"
      BY <1>10 DEF ExecAddReplica, Receive
    <3>2. link[r] = "joining"
      BY <2>1, <3>1, Left DEF LinkInv, Announced
    <3>3. stream'[r] = << >>
      BY <1>10, <3>2 DEF ExecAddReplica, LinkInv, NotYetJoined
    <3> QED BY <3>3 DEF Covered
  <2>2. CASE Head(inbox).replica # r
    BY <1>2, <1>10, <2>2 DEF ExecAddReplica, LinkInv, TypeOK
  <2> QED BY <2>1, <2>2
<1>11. CASE UNCHANGED vars
  BY <1>2, <1>11 DEF vars, store, wires
<1> QED BY <1>3, <1>4, <1>5, <1>6, <1>7, <1>8, <1>9, <1>10, <1>11 DEF Next, StoreStep

(* While the flag of the pending writes is clear, no connected replica has a
   write on its stream without a GETACK after it: a WAIT that blocks without
   asking anybody is not left without an acknowledgement to count.            *)
THEOREM WritesAreCovered == Spec => []GetAckCoversWrites
<1>1. Init => GetAckCoversWrites
  BY DEF Init, GetAckCoversWrites
<1>2. LinkInv /\ GetAckCoversWrites /\ [Next]_vars => GetAckCoversWrites'
  BY CoverStep
<1> QED BY <1>1, <1>2, LinksHold, PTL DEF Spec

-----------------------------------------------------------------------------
(* WAIT and the acknowledgements.                                           *)

(* The replicas that acknowledged a target that is not zero: who is a replica
   now does not matter, as an acknowledgement is forgotten when one leaves.   *)
Acked(acks, target) == {r \in Replicas : acks[r] >= target}

LEMMA AckedCounts ==
    ASSUME NEW acks, NEW target
    PROVE  Cardinality(Acked(acks, target)) \in Nat
<1>1. IsFiniteSet(Acked(acks, target))
  BY ClientsAssumption, FS_Subset DEF Acked
<1> QED BY <1>1, FS_CardinalityType

(* Fewer acknowledgements count less. *)
LEMMA FewerAcked ==
    ASSUME NEW acks, NEW others, NEW target, Acked(others, target) \subseteq Acked(acks, target)
    PROVE  Cardinality(Acked(others, target)) <= Cardinality(Acked(acks, target))
<1>1. IsFiniteSet(Acked(acks, target))
  BY ClientsAssumption, FS_Subset DEF Acked
<1> QED BY <1>1, FS_Subset

(* A blocked WAIT for writes that has too few acknowledgements. *)
Waiting(w, acks) == w.target > 0 => Cardinality(Acked(acks, w.target)) < w.numreplicas

LEMMA StrandedWaiting ==
    ASSUME TypeOK
    PROVE  NoStrandedWait <=> \A w \in waiters : Waiting(w, replica_acks)
<1>1. \A w \in waiters : w.target \in Nat
  BY DEF TypeOK
<1> QED BY <1>1 DEF NoStrandedWait, Waiting, CountAcked, Acked

(* A WAIT that blocks has too few. *)
LEMMA BlockedWaits ==
    ASSUME TypeOK, TypeOK', NoStrandedWait, BlockWait
    PROVE  NoStrandedWait'
<1>1. \A w \in waiters : Waiting(w, replica_acks)
  BY StrandedWaiting
<1> DEFINE new == [id |-> waiter_id + 1, client |-> Head(inbox).client,
                   numreplicas |-> Head(inbox).numreplicas, target |-> master_ack]
<1>2. /\ waiters' = waiters \cup {new} /\ replica_acks' = replica_acks
      /\ CountAcked(replica_acks, master_ack) < Head(inbox).numreplicas
  BY DEF BlockWait
<1>3. master_ack \in Nat
  BY DEF TypeOK
<1>4. Waiting(new, replica_acks)
  BY <1>2, <1>3 DEF Waiting, CountAcked, Acked
<1> HIDE DEF new
<1>5. \A w \in waiters' : Waiting(w, replica_acks')
  BY <1>1, <1>2, <1>4
<1>6. \A w \in waiters' : w.target \in Nat
  BY DEF TypeOK
<1> QED BY <1>5, <1>6 DEF NoStrandedWait, Waiting, CountAcked, Acked

(* An acknowledgement removes every WAIT it completes. *)
LEMMA AckLeavesWaiting ==
    ASSUME TypeOK, TypeOK', ExecAck
    PROVE  NoStrandedWait'
<1>1. waiters' = waiters \ Done(replica_acks')
  BY DEF ExecAck
<1>2. \A w \in waiters' : w.target \in Nat /\ w.numreplicas \in Nat
  BY DEF TypeOK
<1>3. ASSUME NEW w \in waiters', w.target > 0
      PROVE  Cardinality(Acked(replica_acks', w.target)) < w.numreplicas
  <2>1. ~(CountAcked(replica_acks', w.target) >= w.numreplicas)
    BY <1>1 DEF Done
  <2>2. CountAcked(replica_acks', w.target) = Cardinality(Acked(replica_acks', w.target))
    BY <1>2, <1>3 DEF CountAcked, Acked
  <2>3. Cardinality(Acked(replica_acks', w.target)) \in Nat
    BY AckedCounts
  <2> QED BY <1>2, <2>1, <2>2, <2>3
<1> QED BY <1>2, <1>3 DEF NoStrandedWait, CountAcked, Acked

(* A replica that leaves takes its acknowledgement with it. *)
LEMMA LeavingWaits ==
    ASSUME TypeOK, TypeOK', NoStrandedWait, ExecUnregister
    PROVE  NoStrandedWait'
<1>1. \A w \in waiters : Waiting(w, replica_acks)
  BY StrandedWaiting
<1>2. /\ waiters' = waiters
      /\ replica_acks' = [replica_acks EXCEPT ![Head(inbox).replica] = NotAcked]
      /\ replica_acks \in [Replicas -> Nat \cup {NotAcked}]
  BY DEF ExecUnregister, ForgetAck, TypeOK
<1>3. \A w \in waiters : w.target \in Nat /\ w.numreplicas \in Nat
  BY DEF TypeOK
<1>4. ASSUME NEW w \in waiters, w.target > 0
      PROVE  Cardinality(Acked(replica_acks', w.target)) < w.numreplicas
  <2>1. Acked(replica_acks', w.target) \subseteq Acked(replica_acks, w.target)
    BY <1>2, <1>3, <1>4 DEF Acked, NotAcked
  <2>2. Cardinality(Acked(replica_acks', w.target)) <= Cardinality(Acked(replica_acks, w.target))
    BY <2>1, FewerAcked
  <2>3. Cardinality(Acked(replica_acks, w.target)) < w.numreplicas
    BY <1>1, <1>4 DEF Waiting
  <2>4. /\ Cardinality(Acked(replica_acks', w.target)) \in Nat
        /\ Cardinality(Acked(replica_acks, w.target)) \in Nat
    BY AckedCounts
  <2> QED BY <1>3, <2>2, <2>3, <2>4
<1> QED BY <1>2, <1>3, <1>4 DEF NoStrandedWait, CountAcked, Acked

(* A step that adds no WAIT and changes no acknowledgement. *)
LEMMA OthersWaiting ==
    ASSUME TypeOK, TypeOK', NoStrandedWait, waiters' \subseteq waiters, UNCHANGED replica_acks
    PROVE  NoStrandedWait'
<1>1. \A w \in waiters' : Waiting(w, replica_acks')
  BY StrandedWaiting
<1>2. \A w \in waiters' : w.target \in Nat
  BY DEF TypeOK
<1> QED BY <1>1, <1>2 DEF NoStrandedWait, Waiting, CountAcked, Acked

LEMMA WaitingStep ==
    ASSUME TypeOK, NoStrandedWait, [Next]_vars
    PROVE  NoStrandedWait'
<1>1. TypeOK'
  BY NextType
<1>2. ASSUME \/ \E c \in Clients : Send(c) \/ WriteReply(c)
             \/ \E id \in timers : TimerFires(id)
      PROVE  NoStrandedWait'
  BY <1>1, <1>2, OthersWaiting DEF Send, WriteReply, TimerFires, store
<1>3. ASSUME NEW r \in Replicas,
             \/ Join(r) \/ ForwardAck(r) \/ ReplicaDies(r) \/ NoticeEnd(r) \/ PanicOnWrite(r)
             \/ ReceiveSet(r) \/ ReceiveGetAck(r)
      PROVE  NoStrandedWait'
  BY <1>1, <1>3, OthersWaiting
     DEF Join, ForwardAck, ReplicaDies, NoticeEnd, PanicOnWrite, ReceiveSet, ReceiveGetAck, store
<1>4. ASSUME ExecSet \/ AnswerWait \/ ExecWaitTimeout \/ ExecAddReplica
      PROVE  NoStrandedWait'
  BY <1>1, <1>4, OthersWaiting DEF ExecSet, AnswerWait, ExecWaitTimeout, ExecAddReplica, store
<1>5. CASE UNCHANGED vars
  BY <1>1, <1>5, OthersWaiting DEF vars, store
<1> QED BY <1>1, <1>2, <1>3, <1>4, <1>5, BlockedWaits, AckLeavesWaiting, LeavingWaits
        DEF Next, StoreStep

(* No WAIT for writes stays blocked once enough replicas acknowledged them:
   whichever acknowledgement completes it also removes it, and neither a
   replica that joins nor one that leaves makes a blocked one complete.        *)
THEOREM NoWaitIsStranded == Spec => []NoStrandedWait
<1>1. Init => NoStrandedWait
  BY DEF Init, NoStrandedWait
<1>2. TypeOK /\ NoStrandedWait /\ [Next]_vars => NoStrandedWait'
  BY WaitingStep
<1> QED BY <1>1, <1>2, TypeCorrect, PTL DEF Spec

-----------------------------------------------------------------------------
(* The invariant: the acknowledgements of a replica, from the store through
   the inbox and the wire to the replica itself, never decrease.             *)

AckStored ==
    \A r \in Replicas :
        /\ replica_acks[r] <= ack_bytes[r]
        /\ \A k \in 1..Len(ackwire[r]) : replica_acks[r] <= ackwire[r][k]

AckOnWire ==
    \A r \in Replicas : \A k \in 1..Len(ackwire[r]) :
        /\ ackwire[r][k] <= ack_bytes[r]
        /\ \A l \in k..Len(ackwire[r]) : ackwire[r][k] <= ackwire[r][l]

AckInInbox ==
    \A i \in 1..Len(inbox) : inbox[i].type = "ack" =>
        /\ replica_acks[inbox[i].replica] <= inbox[i].bytes
        /\ inbox[i].bytes <= ack_bytes[inbox[i].replica]
        /\ \A k \in 1..Len(ackwire[inbox[i].replica]) :
              inbox[i].bytes <= ackwire[inbox[i].replica][k]
        /\ \A j \in i..Len(inbox) :
              inbox[j].type = "ack" /\ inbox[j].replica = inbox[i].replica =>
                  inbox[i].bytes <= inbox[j].bytes

AckInv == TypeOK /\ AckStored /\ AckOnWire /\ AckInInbox

(* The numbers in it. *)
LEMMA AckNumbers ==
    ASSUME TypeOK, NEW r \in Replicas
    PROVE  /\ replica_acks[r] \in Int /\ ack_bytes[r] \in Nat
           /\ ackwire[r] \in Seq(Nat) /\ Len(ackwire[r]) \in Nat
           /\ \A k \in 1..Len(ackwire[r]) : ackwire[r][k] \in Nat
<1>1. replica_acks[r] \in Nat \cup {NotAcked} /\ ack_bytes[r] \in Nat /\ ackwire[r] \in Seq(Nat)
  BY DEF TypeOK
<1> QED BY <1>1 DEF NotAcked

LEMMA AckTypes ==
    ASSUME TypeOK, NEW i \in 1..Len(inbox), inbox[i].type = "ack"
    PROVE  inbox[i].replica \in Replicas /\ inbox[i].bytes \in Nat
<1>1. inbox[i] \in Envelopes
  BY InInbox
<1> QED BY <1>1, EnvelopeTypes

(* An envelope that is no acknowledgement joins the inbox. *)
LEMMA OthersSentAck ==
    ASSUME AckInv, TypeOK', NEW m \in Envelopes, m.type # "ack", inbox' = Append(inbox, m),
           UNCHANGED <<replica_acks, ackwire, ack_bytes>>
    PROVE  AckInv'
<1>1. AckStored' /\ AckOnWire'
  BY DEF AckInv, AckStored, AckOnWire
<1>2. \A i \in 1..Len(inbox') : inbox'[i].type = "ack" =>
          i \in 1..Len(inbox) /\ inbox'[i] = inbox[i]
  BY Sent DEF AckInv
<1>3. Len(inbox) \in Nat /\ Len(inbox') = Len(inbox) + 1
  BY Sent DEF AckInv
<1>4. AckInInbox'
  BY <1>2, <1>3 DEF AckInv, AckInInbox
<1> QED BY <1>1, <1>4 DEF AckInv

(* The store takes an envelope and lowers or keeps the acknowledgements. *)
LEMMA TakenAck ==
    ASSUME AckInv, TypeOK', NEW type, Receive(type),
           \A r \in Replicas : replica_acks'[r] <= replica_acks[r],
           UNCHANGED <<ackwire, ack_bytes>>
    PROVE  AckInv'
<1>1. /\ Len(inbox') \in Nat
      /\ \A i \in 1..Len(inbox') : i \in Nat /\ i + 1 \in 1..Len(inbox) /\ inbox'[i] = inbox[i + 1]
  BY Left DEF AckInv
<1>2. \A r \in Replicas : /\ replica_acks[r] \in Int /\ replica_acks'[r] \in Int /\ ack_bytes[r] \in Int
                          /\ \A k \in 1..Len(ackwire[r]) : ackwire[r][k] \in Int
  <2>1. \A r \in Replicas : /\ replica_acks[r] \in Int /\ ack_bytes[r] \in Int
                            /\ \A k \in 1..Len(ackwire[r]) : ackwire[r][k] \in Int
    BY AckNumbers DEF AckInv
  <2>2. replica_acks' \in [Replicas -> Nat \cup {NotAcked}]
    BY DEF TypeOK
  <2>3. \A r \in Replicas : replica_acks'[r] \in Int
    BY <2>2 DEF NotAcked
  <2> QED BY <2>1, <2>3
<1>3. AckStored' /\ AckOnWire'
  BY <1>2 DEF AckInv, AckStored, AckOnWire
<1>4. AckInInbox'
  <2> SUFFICES ASSUME NEW i \in 1..Len(inbox'), inbox'[i].type = "ack"
               PROVE  /\ replica_acks'[inbox'[i].replica] <= inbox'[i].bytes
                      /\ inbox'[i].bytes <= ack_bytes[inbox'[i].replica]
                      /\ \A k \in 1..Len(ackwire[inbox'[i].replica]) :
                            inbox'[i].bytes <= ackwire[inbox'[i].replica][k]
                      /\ \A j \in i..Len(inbox') :
                            inbox'[j].type = "ack" /\ inbox'[j].replica = inbox'[i].replica =>
                                inbox'[i].bytes <= inbox'[j].bytes
    BY DEF AckInInbox
  <2>1. i + 1 \in 1..Len(inbox) /\ inbox'[i] = inbox[i + 1] /\ inbox[i + 1].type = "ack"
    BY <1>1
  <2>2. inbox[i + 1].replica \in Replicas /\ inbox[i + 1].bytes \in Int
    BY <2>1, AckTypes DEF AckInv
  <2>3. /\ replica_acks[inbox'[i].replica] <= inbox'[i].bytes
        /\ inbox'[i].bytes <= ack_bytes[inbox'[i].replica]
        /\ \A k \in 1..Len(ackwire[inbox'[i].replica]) :
              inbox'[i].bytes <= ackwire[inbox'[i].replica][k]
    BY <2>1 DEF AckInv, AckInInbox
  <2>4. ASSUME NEW j \in i..Len(inbox'), inbox'[j].type = "ack",
               inbox'[j].replica = inbox'[i].replica
        PROVE  inbox'[i].bytes <= inbox'[j].bytes
    <3>1. j \in 1..Len(inbox') /\ j + 1 \in (i + 1)..Len(inbox) /\ inbox'[j] = inbox[j + 1]
      BY <1>1, <2>1
    <3> QED BY <2>1, <2>4, <3>1 DEF AckInv, AckInInbox
  <2> QED BY <1>2, <2>1, <2>2, <2>3, <2>4
<1> QED BY <1>3, <1>4 DEF AckInv

(* Nothing of the acknowledgements changes, or the replica's offset grows. *)
LEMMA OffsetGrows ==
    ASSUME AckInv, TypeOK', UNCHANGED <<inbox, replica_acks, ackwire>>,
           \A r \in Replicas : ack_bytes'[r] >= ack_bytes[r]
    PROVE  AckInv'
<1>1. \A r \in Replicas : /\ replica_acks[r] \in Int /\ ack_bytes[r] \in Int /\ ack_bytes'[r] \in Int
                          /\ \A k \in 1..Len(ackwire[r]) : ackwire[r][k] \in Int
  <2>1. \A r \in Replicas : /\ replica_acks[r] \in Int /\ ack_bytes[r] \in Int
                            /\ \A k \in 1..Len(ackwire[r]) : ackwire[r][k] \in Int
    BY AckNumbers DEF AckInv
  <2>2. ack_bytes' \in [Replicas -> Nat]
    BY DEF TypeOK
  <2> QED BY <2>1, <2>2
<1>2. AckStored' /\ AckOnWire'
  BY <1>1 DEF AckInv, AckStored, AckOnWire
<1>3. \A i \in 1..Len(inbox) : inbox[i].type = "ack" =>
          /\ inbox[i].replica \in Replicas /\ inbox[i].bytes \in Int
          /\ inbox[i].bytes <= ack_bytes'[inbox[i].replica]
  <2> SUFFICES ASSUME NEW i \in 1..Len(inbox), inbox[i].type = "ack"
               PROVE  /\ inbox[i].replica \in Replicas /\ inbox[i].bytes \in Int
                      /\ inbox[i].bytes <= ack_bytes'[inbox[i].replica]
    OBVIOUS
  <2>1. inbox[i].replica \in Replicas /\ inbox[i].bytes \in Int
    BY AckTypes DEF AckInv
  <2>2. inbox[i].bytes <= ack_bytes[inbox[i].replica]
    BY DEF AckInv, AckInInbox
  <2>3. ack_bytes[inbox[i].replica] \in Int /\ ack_bytes'[inbox[i].replica] \in Int
    BY <1>1, <2>1
  <2> QED BY <2>1, <2>2, <2>3
<1>4. AckInInbox'
  BY <1>3 DEF AckInv, AckInInbox
<1> QED BY <1>2, <1>4 DEF AckInv

(* A replica answers a GETACK with its offset, the largest so far. *)
LEMMA AnsweredAck ==
    ASSUME AckInv, TypeOK', NEW r \in Replicas, ReceiveGetAck(r)
    PROVE  AckInv'
<1>1. /\ UNCHANGED <<inbox, replica_acks>>
      /\ ackwire' = [ackwire EXCEPT ![r] = Append(ackwire[r], ack_bytes[r])]
      /\ ack_bytes' = [ack_bytes EXCEPT ![r] = @ + GetAckLen]
      /\ ackwire \in [Replicas -> Seq(Nat)] /\ ack_bytes \in [Replicas -> Nat]
  BY DEF ReceiveGetAck, store, AckInv, TypeOK
<1> DEFINE n == ack_bytes[r]
           old == ackwire[r]
           new == ackwire'[r]
<1>2. n \in Nat /\ old \in Seq(Nat) /\ Len(old) \in Nat /\ new = Append(old, n)
      /\ ack_bytes'[r] = n + GetAckLen
      /\ \A q \in Replicas : q # r => ackwire'[q] = ackwire[q] /\ ack_bytes'[q] = ack_bytes[q]
  BY <1>1, AckNumbers DEF AckInv
<1>3. replica_acks[r] \in Int /\ replica_acks[r] <= n
      /\ \A k \in 1..Len(old) : old[k] \in Nat /\ replica_acks[r] <= old[k] /\ old[k] <= n
  BY AckNumbers DEF AckInv, AckStored, AckOnWire
<1>4. \A k, l \in 1..Len(old) : k <= l => old[k] <= old[l]
  BY DEF AckInv, AckOnWire
<1> HIDE DEF n, old, new
<1>5. /\ Len(new) = Len(old) + 1 /\ new[Len(old) + 1] = n
      /\ \A k \in 1..Len(old) : new[k] = old[k]
  BY <1>2
<1>6. \A k \in 1..Len(new) : \/ k \in 1..Len(old) /\ new[k] = old[k]
                             \/ k = Len(old) + 1 /\ new[k] = n
  BY <1>2, <1>5
<1>7. n + GetAckLen \in Nat /\ n <= n + GetAckLen
  BY <1>2, LengthsAssumption
<1>8. \A k \in 1..Len(new) : /\ new[k] \in Nat /\ new[k] <= n + GetAckLen /\ replica_acks[r] <= new[k]
                             /\ \A l \in k..Len(new) : new[k] <= new[l]
  <2> SUFFICES ASSUME NEW k \in 1..Len(new)
               PROVE  /\ new[k] \in Nat /\ new[k] <= n + GetAckLen /\ replica_acks[r] <= new[k]
                      /\ \A l \in k..Len(new) : new[k] <= new[l]
    OBVIOUS
  <2>1. new[k] \in Nat /\ new[k] <= n /\ replica_acks[r] <= new[k]
    BY <1>2, <1>3, <1>6
  <2>2. ASSUME NEW l \in k..Len(new)
        PROVE  new[k] <= new[l]
    <3>1. CASE l \in 1..Len(old)
      <4>1. k \in 1..Len(old) /\ k <= l
        BY <1>2, <1>5, <3>1
      <4> QED BY <1>4, <1>5, <3>1, <4>1
    <3>2. CASE l = Len(old) + 1
      BY <1>5, <2>1, <3>2
    <3> QED BY <1>2, <1>5, <3>1, <3>2
  <2>3. new[k] <= n + GetAckLen
    BY <1>2, <1>7, <2>1
  <2> QED BY <2>1, <2>2, <2>3
<1>9. AckStored'
  <2>1. replica_acks[r] <= n + GetAckLen
    BY <1>2, <1>3, <1>7
  <2> QED BY <1>1, <1>2, <1>8, <2>1 DEF AckInv, AckStored, new
<1>10. AckOnWire'
  BY <1>1, <1>2, <1>8 DEF AckInv, AckOnWire, new
<1>11. AckInInbox'
  <2>1. ASSUME NEW i \in 1..Len(inbox), inbox[i].type = "ack"
        PROVE  /\ inbox[i].bytes <= ack_bytes'[inbox[i].replica]
               /\ \A k \in 1..Len(ackwire'[inbox[i].replica]) :
                     inbox[i].bytes <= ackwire'[inbox[i].replica][k]
    <3>1. inbox[i].replica \in Replicas /\ inbox[i].bytes \in Nat
      BY <2>1, AckTypes DEF AckInv
    <3>2. /\ inbox[i].bytes <= ack_bytes[inbox[i].replica]
          /\ \A k \in 1..Len(ackwire[inbox[i].replica]) :
                inbox[i].bytes <= ackwire[inbox[i].replica][k]
      BY <2>1 DEF AckInv, AckInInbox
    <3>3. CASE inbox[i].replica = r
      <4>1. inbox[i].bytes <= n /\ \A k \in 1..Len(old) : inbox[i].bytes <= old[k]
        BY <3>2, <3>3 DEF n, old
      <4>2. \A k \in 1..Len(new) : inbox[i].bytes <= new[k]
        BY <1>6, <4>1
      <4>3. inbox[i].bytes <= n + GetAckLen
        BY <1>2, <1>7, <3>1, <4>1
      <4> QED BY <1>2, <3>3, <4>2, <4>3 DEF new
    <3>4. CASE inbox[i].replica # r
      BY <1>2, <3>1, <3>2, <3>4
    <3> QED BY <3>3, <3>4
  <2> QED BY <1>1, <2>1 DEF AckInv, AckInInbox
<1> QED BY <1>9, <1>10, <1>11 DEF AckInv

(* The oldest acknowledgement on the wire is forwarded: it joins the inbox. *)
LEMMA ForwardedAck ==
    ASSUME AckInv, TypeOK', NEW r \in Replicas, ForwardAck(r)
    PROVE  AckInv'
<1> DEFINE n == Head(ackwire[r])
           m == Ack(r, Head(ackwire[r]))
           old == ackwire[r]
           new == ackwire'[r]
<1>1. /\ UNCHANGED <<replica_acks, ack_bytes>>
      /\ ackwire' = [ackwire EXCEPT ![r] = Tail(ackwire[r])]
      /\ ackwire \in [Replicas -> Seq(Nat)] /\ ackwire[r] # << >>
      /\ inbox' = Append(inbox, m)
  BY DEF ForwardAck, store, replica, AckInv, TypeOK
<1>2. /\ old \in Seq(Nat) /\ old # << >> /\ new = Tail(old) /\ n = Head(old)
      /\ \A q \in Replicas : q # r => ackwire'[q] = ackwire[q]
  BY <1>1
<1>3. /\ replica_acks[r] \in Int /\ ack_bytes[r] \in Nat
      /\ \A k \in 1..Len(old) : replica_acks[r] <= old[k] /\ old[k] <= ack_bytes[r]
  BY AckNumbers DEF AckInv, AckStored, AckOnWire
<1>4. \A k, l \in 1..Len(old) : k <= l => old[k] <= old[l]
  BY DEF AckInv, AckOnWire
<1> HIDE DEF n, old, new
<1>5. /\ n = old[1] /\ n \in Nat /\ Len(old) \in Nat /\ Len(old) > 0
      /\ Len(new) = Len(old) - 1
      /\ \A k \in 1..(Len(old) - 1) : new[k] = old[k + 1]
  BY <1>2, Taken, Zenon
<1>6. m \in Envelopes /\ m.type = "ack" /\ m.replica = r /\ m.bytes = n
  BY <1>5, SentTypes DEF Ack, n
<1> HIDE DEF m
<1>7. \A k \in 1..Len(new) : k \in Nat /\ k + 1 \in 1..Len(old) /\ new[k] = old[k + 1]
  BY <1>5
<1>8. /\ Len(inbox) \in Nat /\ Len(inbox') = Len(inbox) + 1
      /\ \A i \in 1..Len(inbox') :
            \/ i \in 1..Len(inbox) /\ inbox'[i] = inbox[i]
            \/ i = Len(inbox) + 1 /\ inbox'[i] = m
  BY <1>1, <1>6, Sent DEF AckInv
<1>9. \A k \in 1..Len(new) : /\ new[k] <= ack_bytes[r] /\ replica_acks[r] <= new[k] /\ n <= new[k]
                             /\ \A l \in k..Len(new) : new[k] <= new[l]
  <2> SUFFICES ASSUME NEW k \in 1..Len(new)
               PROVE  /\ new[k] <= ack_bytes[r] /\ replica_acks[r] <= new[k] /\ n <= new[k]
                      /\ \A l \in k..Len(new) : new[k] <= new[l]
    OBVIOUS
  <2>1. new[k] <= ack_bytes[r] /\ replica_acks[r] <= new[k]
    BY <1>3, <1>7
  <2>2. n <= new[k]
    BY <1>4, <1>5, <1>7
  <2>3. ASSUME NEW l \in k..Len(new)
        PROVE  new[k] <= new[l]
    <3>1. l \in 1..Len(new) /\ k + 1 <= l + 1
      BY <1>5
    <3> QED BY <1>4, <1>7, <3>1
  <2> QED BY <2>1, <2>2, <2>3
<1>10. AckStored'
  BY <1>1, <1>2, <1>9 DEF AckInv, AckStored, new
<1>11. AckOnWire'
  BY <1>1, <1>2, <1>9 DEF AckInv, AckOnWire, new
<1>12. AckInInbox'
  <2>1. ASSUME NEW i \in 1..Len(inbox), inbox[i].type = "ack"
        PROVE  /\ inbox[i].replica = r => inbox[i].bytes <= n
               /\ \A k \in 1..Len(ackwire'[inbox[i].replica]) :
                     inbox[i].bytes <= ackwire'[inbox[i].replica][k]
    <3>1. inbox[i].replica \in Replicas
      BY <2>1, AckTypes DEF AckInv
    <3>2. \A k \in 1..Len(ackwire[inbox[i].replica]) :
             inbox[i].bytes <= ackwire[inbox[i].replica][k]
      BY <2>1 DEF AckInv, AckInInbox
    <3>3. CASE inbox[i].replica = r
      <4>1. \A k \in 1..Len(old) : inbox[i].bytes <= old[k]
        BY <3>2, <3>3 DEF old
      <4>2. inbox[i].bytes <= n /\ \A k \in 1..Len(new) : inbox[i].bytes <= new[k]
        BY <1>5, <1>7, <4>1
      <4> QED BY <3>3, <4>2 DEF new
    <3>4. CASE inbox[i].replica # r
      BY <1>2, <3>1, <3>2, <3>4
    <3> QED BY <3>3, <3>4
  <2>2. replica_acks[r] <= n /\ n <= ack_bytes[r]
    BY <1>3, <1>5
  <2> SUFFICES ASSUME NEW i \in 1..Len(inbox'), inbox'[i].type = "ack"
               PROVE  /\ replica_acks[inbox'[i].replica] <= inbox'[i].bytes
                      /\ inbox'[i].bytes <= ack_bytes[inbox'[i].replica]
                      /\ \A k \in 1..Len(ackwire'[inbox'[i].replica]) :
                            inbox'[i].bytes <= ackwire'[inbox'[i].replica][k]
                      /\ \A j \in i..Len(inbox') :
                            inbox'[j].type = "ack" /\ inbox'[j].replica = inbox'[i].replica =>
                                inbox'[i].bytes <= inbox'[j].bytes
    BY <1>1 DEF AckInInbox
  <2>3. CASE i \in 1..Len(inbox) /\ inbox'[i] = inbox[i]
    <3>1. /\ replica_acks[inbox[i].replica] <= inbox[i].bytes
          /\ inbox[i].bytes <= ack_bytes[inbox[i].replica]
      BY <2>3 DEF AckInv, AckInInbox
    <3>2. ASSUME NEW j \in i..Len(inbox'), inbox'[j].type = "ack",
                 inbox'[j].replica = inbox'[i].replica
          PROVE  inbox'[i].bytes <= inbox'[j].bytes
      <4>1. CASE j \in i..Len(inbox) /\ inbox'[j] = inbox[j]
        BY <2>3, <3>2, <4>1 DEF AckInv, AckInInbox
      <4>2. CASE inbox'[j] = m
        BY <1>6, <2>1, <2>3, <3>2, <4>2
      <4> QED BY <1>8, <2>3, <4>1, <4>2
    <3> QED BY <2>1, <2>3, <3>1, <3>2
  <2>4. CASE i = Len(inbox) + 1 /\ inbox'[i] = m
    <3>1. \A j \in i..Len(inbox') : j = i
      BY <1>8, <2>4
    <3>2. n <= n
      BY <1>5
    <3>3. \A k \in 1..Len(ackwire'[r]) : n <= ackwire'[r][k]
      BY <1>9 DEF new
    <3> QED BY <1>6, <2>2, <2>4, <3>1, <3>2, <3>3
  <2> QED BY <1>8, <2>3, <2>4
<1> QED BY <1>10, <1>11, <1>12 DEF AckInv

(* The store applies the acknowledgement at the head of its inbox. *)
LEMMA AppliedAck ==
    ASSUME AckInv, TypeOK', ExecAck
    PROVE  /\ AckInv'
           /\ \A r \in Replicas : replica_acks'[r] >= replica_acks[r]
<1> DEFINE q == Head(inbox).replica
           b == Head(inbox).bytes
<1>1. /\ Receive("ack") /\ UNCHANGED <<ackwire, ack_bytes>>
      /\ replica_acks' = [replica_acks EXCEPT ![q] = b]
      /\ replica_acks \in [Replicas -> Nat \cup {NotAcked}]
  BY DEF ExecAck, wires, replica, AckInv, TypeOK
<1>2. /\ inbox[1].type = "ack" /\ inbox[1].replica = q /\ inbox[1].bytes = b
      /\ 1 \in 1..Len(inbox) /\ q \in Replicas /\ b \in Nat
  <2>1. Head(inbox) = inbox[1] /\ 1 \in 1..Len(inbox) /\ Head(inbox).type = "ack"
    BY <1>1, Left DEF AckInv, Receive
  <2> QED BY <2>1, AckTypes DEF AckInv
<1>3. /\ Len(inbox') \in Nat
      /\ \A i \in 1..Len(inbox') : /\ i \in Nat /\ i + 1 \in 1..Len(inbox)
                                   /\ 1 <= i + 1 /\ inbox'[i] = inbox[i + 1]
  BY <1>1, Left DEF AckInv
<1> HIDE DEF q, b
<1>4. /\ replica_acks[q] <= b /\ b <= ack_bytes[q]
      /\ \A k \in 1..Len(ackwire[q]) : b <= ackwire[q][k]
      /\ \A j \in 1..Len(inbox) : inbox[j].type = "ack" /\ inbox[j].replica = q => b <= inbox[j].bytes
  BY <1>2 DEF AckInv, AckInInbox
<1>5. replica_acks'[q] = b /\ \A r \in Replicas : r # q => replica_acks'[r] = replica_acks[r]
  BY <1>1, <1>2
<1>6. \A r \in Replicas : replica_acks'[r] >= replica_acks[r]
  <2>1. \A r \in Replicas : replica_acks[r] \in Int
    BY AckNumbers DEF AckInv
  <2> QED BY <1>2, <1>4, <1>5, <2>1
<1>7. AckStored' /\ AckOnWire'
  BY <1>1, <1>4, <1>5 DEF AckInv, AckStored, AckOnWire
<1>8. AckInInbox'
  <2> SUFFICES ASSUME NEW i \in 1..Len(inbox'), inbox'[i].type = "ack"
               PROVE  /\ replica_acks'[inbox'[i].replica] <= inbox'[i].bytes
                      /\ inbox'[i].bytes <= ack_bytes[inbox'[i].replica]
                      /\ \A k \in 1..Len(ackwire[inbox'[i].replica]) :
                            inbox'[i].bytes <= ackwire[inbox'[i].replica][k]
                      /\ \A j \in i..Len(inbox') :
                            inbox'[j].type = "ack" /\ inbox'[j].replica = inbox'[i].replica =>
                                inbox'[i].bytes <= inbox'[j].bytes
    BY <1>1 DEF AckInInbox
  <2>1. i + 1 \in 1..Len(inbox) /\ inbox'[i] = inbox[i + 1] /\ inbox[i + 1].type = "ack"
    BY <1>3
  <2>2. inbox[i + 1].replica \in Replicas
    BY <2>1, AckTypes DEF AckInv
  <2>3. /\ replica_acks[inbox'[i].replica] <= inbox'[i].bytes
        /\ inbox'[i].bytes <= ack_bytes[inbox'[i].replica]
        /\ \A k \in 1..Len(ackwire[inbox'[i].replica]) :
              inbox'[i].bytes <= ackwire[inbox'[i].replica][k]
    BY <2>1 DEF AckInv, AckInInbox
  <2>4. replica_acks'[inbox'[i].replica] <= inbox'[i].bytes
    BY <1>4, <1>5, <2>1, <2>2, <2>3
  <2>5. ASSUME NEW j \in i..Len(inbox'), inbox'[j].type = "ack",
               inbox'[j].replica = inbox'[i].replica
        PROVE  inbox'[i].bytes <= inbox'[j].bytes
    <3>1. j \in 1..Len(inbox') /\ j + 1 \in (i + 1)..Len(inbox) /\ inbox'[j] = inbox[j + 1]
      BY <1>3, <2>1
    <3> QED BY <2>1, <2>5, <3>1 DEF AckInv, AckInInbox
  <2> QED BY <2>3, <2>4, <2>5
<1> QED BY <1>6, <1>7, <1>8 DEF AckInv

(* The store forgets the acknowledgement of a replica that leaves. *)
LEMMA ForgottenAck ==
    ASSUME AckInv, TypeOK', ExecUnregister
    PROVE  AckInv'
<1>1. /\ Receive("UnregisterClient") /\ UNCHANGED <<ackwire, ack_bytes>>
      /\ replica_acks' = [replica_acks EXCEPT ![Head(inbox).replica] = NotAcked]
      /\ replica_acks \in [Replicas -> Nat \cup {NotAcked}]
  BY DEF ExecUnregister, ForgetAck, wires, replica, AckInv, TypeOK
<1>2. \A r \in Replicas : replica_acks'[r] <= replica_acks[r]
  BY <1>1 DEF NotAcked
<1> QED BY <1>1, <1>2, TakenAck

(* Every step keeps the acknowledgements of a replica in order. *)
LEMMA AckStep ==
    ASSUME AckInv, [Next]_vars
    PROVE  AckInv'
<1>1. TypeOK'
  BY NextType DEF AckInv
<1>2. TypeOK /\ \A r \in Replicas : replica_acks[r] \in Int /\ ack_bytes[r] \in Nat
  BY AckNumbers DEF AckInv
<1>3. ASSUME NEW c \in Clients, Send(c)
      PROVE  AckInv'
  <2>1. PICK m \in Envelopes : m.type # "ack" /\ inbox' = Append(inbox, m)
    <3>1. CASE inbox' = Append(inbox, SetCommand(c))
      BY <3>1, SentTypes DEF SetCommand
    <3>2. ASSUME NEW n \in WaitFor, inbox' = Append(inbox, WaitCommand(c, n))
          PROVE  \E m \in Envelopes : m.type # "ack" /\ inbox' = Append(inbox, m)
      <4>1. WaitCommand(c, n) \in Envelopes /\ WaitCommand(c, n).type # "ack"
        BY SentTypes DEF WaitCommand
      <4> QED BY <3>2, <4>1
    <3> QED BY <1>3, <3>1, <3>2 DEF Send
  <2> QED BY <1>1, <1>3, <2>1, OthersSentAck DEF Send, store, wires, replica
<1>4. ASSUME NEW id \in timers, TimerFires(id)
      PROVE  AckInv'
  <2>1. WaitTimeout(id) \in Envelopes /\ WaitTimeout(id).type # "ack"
    BY <1>2, SentTypes DEF TypeOK, WaitTimeout
  <2> QED BY <1>1, <1>4, <2>1, OthersSentAck DEF TimerFires, store, wires, replica
<1>5. ASSUME NEW r \in Replicas, Join(r) \/ NoticeEnd(r)
      PROVE  AckInv'
  <2>1. /\ AddReplica(r) \in Envelopes /\ AddReplica(r).type # "ack"
        /\ Unregister(r) \in Envelopes /\ Unregister(r).type # "ack"
    BY SentTypes DEF AddReplica, Unregister
  <2> QED BY <1>1, <1>5, <2>1, OthersSentAck DEF Join, NoticeEnd, store, replica
<1>6. ASSUME NEW r \in Replicas, ReceiveSet(r)
      PROVE  AckInv'
  <2>1. /\ UNCHANGED <<inbox, replica_acks, ackwire>>
        /\ ack_bytes' = [ack_bytes EXCEPT ![r] = @ + SetLen]
        /\ ack_bytes \in [Replicas -> Nat]
    BY <1>2, <1>6 DEF ReceiveSet, store, TypeOK
  <2>2. \A q \in Replicas : ack_bytes'[q] >= ack_bytes[q]
    BY <1>2, <2>1, LengthsAssumption
  <2> QED BY <1>1, <2>1, <2>2, OffsetGrows
<1>7. ASSUME UNCHANGED <<inbox, replica_acks, ackwire, ack_bytes>>
      PROVE  AckInv'
  BY <1>1, <1>2, <1>7, OffsetGrows
<1>8. ASSUME \/ \E c \in Clients : WriteReply(c)
             \/ \E r \in Replicas : ReplicaDies(r) \/ PanicOnWrite(r)
             \/ UNCHANGED vars
      PROVE  AckInv'
  BY <1>7, <1>8 DEF WriteReply, ReplicaDies, PanicOnWrite, vars, store, wires, replica
<1>9. ASSUME NEW type, Receive(type), UNCHANGED <<replica_acks, ackwire, ack_bytes>>
      PROVE  AckInv'
  BY <1>1, <1>2, <1>9, TakenAck
<1>10. ASSUME ExecSet \/ AnswerWait \/ BlockWait \/ ExecWaitTimeout \/ ExecAddReplica
       PROVE  AckInv'
  BY <1>9, <1>10 DEF ExecSet, AnswerWait, BlockWait, ExecWaitTimeout, ExecAddReplica,
                     store, wires, replica
<1> QED BY <1>1, <1>3, <1>4, <1>5, <1>6, <1>8, <1>10, AnsweredAck, ForwardedAck, AppliedAck,
           ForgottenAck DEF Next, StoreStep

(* Only an acknowledgement raises what the store knows of a replica, and only
   the end of its connection makes the store forget it.                      *)
LEMMA AckGoesForward ==
    ASSUME AckInv, [Next]_vars, NEW r \in replicas, r \in replicas'
    PROVE  replica_acks'[r] >= replica_acks[r]
<1>1. r \in Replicas /\ replica_acks[r] \in Int
  BY AckNumbers DEF AckInv, TypeOK
<1>2. ASSUME UNCHANGED replica_acks
      PROVE  replica_acks'[r] >= replica_acks[r]
  BY <1>1, <1>2
<1>3. CASE ExecAck
  <2>1. TypeOK'
    BY NextType DEF AckInv
  <2> QED BY <1>1, <1>3, <2>1, AppliedAck
<1>4. CASE ExecUnregister
  <2>1. r # Head(inbox).replica
    BY <1>4 DEF ExecUnregister
  <2>2. replica_acks'[r] = replica_acks[r]
    BY <1>1, <1>4, <2>1 DEF ExecUnregister, ForgetAck, AckInv, TypeOK
  <2> QED BY <1>1, <2>2
<1>5. ASSUME \/ \E c \in Clients : Send(c) \/ WriteReply(c)
             \/ \E id \in timers : TimerFires(id)
             \/ \E q \in Replicas :
                   \/ Join(q) \/ ForwardAck(q) \/ ReplicaDies(q) \/ NoticeEnd(q)
                   \/ PanicOnWrite(q) \/ ReceiveSet(q) \/ ReceiveGetAck(q)
      PROVE  UNCHANGED replica_acks
  BY <1>5 DEF Send, WriteReply, TimerFires, Join, ForwardAck, ReplicaDies, NoticeEnd,
              PanicOnWrite, ReceiveSet, ReceiveGetAck, store
<1>6. ASSUME ExecSet \/ AnswerWait \/ BlockWait \/ ExecWaitTimeout \/ ExecAddReplica
             \/ UNCHANGED vars
      PROVE  UNCHANGED replica_acks
  BY <1>6 DEF ExecSet, AnswerWait, BlockWait, ExecWaitTimeout, ExecAddReplica, vars, store
<1> QED BY <1>2, <1>3, <1>4, <1>5, <1>6 DEF Next, StoreStep

(* The acknowledgements of a replica are in order wherever they are. *)
THEOREM AcksInOrder == Spec => []AckInv
<1>1. Init => AckInv
  BY InitType DEF Init, AckInv, AckStored, AckOnWire, AckInInbox, NotAcked
<1>2. AckInv /\ [Next]_vars => AckInv'
  BY AckStep
<1> QED BY <1>1, <1>2, PTL DEF Spec

(* What the store knows of a replica's offset never decreases while it is one. *)
THEOREM NoAckGoesBack == Spec => AcksNeverGoBack
<1>1. ASSUME AckInv, [Next]_vars
      PROVE  [\A r \in replicas : r \in replicas' => replica_acks'[r] >= replica_acks[r]]_vars
  BY <1>1, AckGoesForward
<1> QED BY <1>1, AcksInOrder, PTL DEF Spec, AcksNeverGoBack
=============================================================================
