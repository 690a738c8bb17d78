------------------------- MODULE BlockingListsProofs -------------------------
(***************************************************************************)
(* Theorems about BlockingLists for any clients, keys, menu of commands,   *)
(* command budget and inbox capacity.                                      *)
(***************************************************************************)
EXTENDS BlockingLists, SequenceTheorems, FiniteSetTheorems, WellFoundedInduction, TLAPS

-----------------------------------------------------------------------------
(* Lemmas about the list operations.                                       *)

(* A sequence built by index over 1..n is a sequence. *)
LEMMA FreshElementsType ==
    ASSUME NEW n \in Nat, NEW m \in Nat
    PROVE  /\ FreshElements(n, m) \in Seq(Nat)
           /\ Len(FreshElements(n, m)) = m
  BY DEF FreshElements

(* The replies without an element and with one. *)
LEMMA ShortReplyType ==
    /\ << >> \in Seq(Nat)
    /\ \A n \in Nat : <<n>> \in Seq(Nat)
  OBVIOUS

(* Reversing keeps a sequence of elements one. *)
LEMMA BackwardsType ==
    ASSUME NEW s \in Seq(Nat)
    PROVE  Backwards(s) \in Seq(Nat)
<1>1. \A i \in 1..Len(s) : s[Len(s) + 1 - i] \in Nat
  OBVIOUS
<1> QED BY <1>1 DEF Backwards

(* A push onto a sequence of elements leaves one. *)
LEMMA PushedType ==
    ASSUME NEW cmd \in Commands, IsPush(cmd), NEW s \in Seq(Nat)
    PROVE  Pushed(cmd, s) \in Seq(Nat)
<1>1. cmd.els \in Seq(Nat)
  BY DEF Commands, IsPush
<1> QED BY <1>1, BackwardsType DEF Pushed

(* What an LPOP takes and what it leaves are sequences of elements. *)
LEMMA PoppedType ==
    ASSUME NEW n \in Nat, NEW s \in Seq(Nat)
    PROVE  /\ Popped(n, s) \in Seq(Nat)
           /\ Remaining(n, s) \in Seq(Nat)
  BY DEF Popped, Remaining

(* Every inhabited set of naturals has a least element. *)
LEMMA LeastNatural ==
    ASSUME NEW S \in SUBSET Nat, S # {}
    PROVE  \E m \in S : \A j \in S : m <= j
<1> DEFINE Below == {p \in Nat \X Nat : p[1] < p[2]}
<1>1. IsWellFoundedOn(Below, Nat)
  BY NatLessThanWellFounded, Zenon DEF OpToRel
<1>2. PICK m \in S : \A j \in S : ~ (<<j, m>> \in Below)
  <2> HIDE DEF Below
  <2> QED BY <1>1, WFMin, Zenon
<1>3. \A j \in S : ~ (j < m)
  BY <1>2
<1> QED BY <1>3

(* BLPOP's choice is one of the keys, and its list has an element. *)
LEMMA FirstKeyType ==
    ASSUME NEW d \in [Keys -> Values], NEW ks \in Seq(Keys), HasElement(d, ks)
    PROVE  /\ FirstKey(d, ks) \in Keys
           /\ NonEmpty(d, FirstKey(d, ks))
           /\ \E i \in 1..Len(ks) : ks[i] = FirstKey(d, ks)
<1> DEFINE S == {i \in 1..Len(ks) : NonEmpty(d, ks[i])}
<1>1. S \in SUBSET Nat /\ S # {}
  BY DEF HasElement
<1>2. PICK m \in S : \A j \in S : m <= j
  BY <1>1, LeastNatural
<1>3. \E i \in 1..Len(ks) : /\ NonEmpty(d, ks[i])
                            /\ \A j \in 1..(i - 1) : ~NonEmpty(d, ks[j])
  BY <1>2
<1>4. PICK i \in 1..Len(ks) : NonEmpty(d, ks[i]) /\ ks[i] = FirstKey(d, ks)
  BY <1>3 DEF FirstKey
<1> QED BY <1>4

(* Whatever a client may send is a command with a payload of elements. *)
LEMMA RequestType ==
    ASSUME NEW n \in Nat, NEW cmd \in Requests(n)
    PROVE  /\ cmd \in Commands
           /\ Payload(cmd) \in Seq(Nat)
<1>1. PICK shape \in Menu : cmd = Filled(shape, n)
  BY DEF Requests
<1>2. shape \in Shapes
  BY MenuAssumption
<1>3. CASE IsPush(shape)
  <2>1. /\ shape.op \in {"rpush", "lpush"}
        /\ shape.key \in Keys
        /\ shape.size \in Nat
    BY <1>2, <1>3 DEF Shapes, IsPush
  <2>2. FreshElements(n, shape.size) \in Seq(Nat)
    BY <2>1, FreshElementsType
  <2> QED BY <1>1, <1>3, <2>1, <2>2 DEF Filled, PushCommand, Commands, Payload, IsPush
<1>4. CASE ~IsPush(shape)
  <2>1. shape \in Commands
    BY <1>2, <1>4 DEF Shapes, Commands, IsPush
  <2> QED BY <1>1, <1>4, <2>1 DEF Filled, Payload
<1> QED BY <1>3, <1>4

-----------------------------------------------------------------------------
(* Type correctness.                                                       *)

(* What the envelopes of each type carry. *)
LEMMA EnvelopeTypes ==
    ASSUME NEW e \in Envelopes
    PROVE  /\ e.type = "WithReply" => e.client \in Clients /\ e.command \in Commands
           /\ e.type = "TimeoutBlpop" => e.waiter_id \in Nat
  BY DEF Envelopes

(* What the commands of each kind carry. *)
LEMMA CommandTypes ==
    ASSUME NEW cmd \in Commands
    PROVE  /\ cmd.op \in {"rpush", "lpush"} => cmd.key \in Keys /\ cmd.els \in Seq(Nat)
           /\ cmd.op = "lpop" => cmd.key \in Keys /\ cmd.count \in Nat
           /\ cmd.op = "blpop" => cmd.keys \in Seq(Keys) /\ cmd.finite \in BOOLEAN
           /\ cmd.op = "set" => cmd.key \in Keys
  BY DEF Commands

(* The envelope the store takes, and the inbox it leaves. *)
LEMMA ReceiveType ==
    ASSUME TypeOK, NEW type, Receive(type)
    PROVE  /\ Head(inbox) \in Envelopes
           /\ inbox' \in Seq(Envelopes)
           /\ Head(inbox).type = type
  BY DEF TypeOK, Receive

(* The same for a command with a reply. *)
LEMMA ReceiveCommandType ==
    ASSUME TypeOK, NEW ops, ReceiveCommand(ops)
    PROVE  /\ inbox' \in Seq(Envelopes)
           /\ Head(inbox).client \in Clients
           /\ Head(inbox).command \in Commands
           /\ Head(inbox).command.op \in ops
  BY ReceiveType, EnvelopeTypes DEF ReceiveCommand

(* An answer is a reply on the channel of its client. *)
LEMMA AnswerType ==
    ASSUME TypeOK, NEW c \in Clients, NEW els \in Seq(Nat), Answer(c, els)
    PROVE  oneshot' \in [Clients -> Replies]
  BY DEF TypeOK, Answer, Reply, Replies

(* A list of elements is a value. *)
LEMMA ListValueType ==
    ASSUME NEW s \in Seq(Nat)
    PROVE  ListValue(s) \in Values
  BY DEF ListValue, Values

(* Taking elements off a list leaves a value: only a list has any. *)
LEMMA ShrinkType ==
    ASSUME NEW v \in Values, NEW n \in Nat
    PROVE  /\ [v EXCEPT !.list = Remaining(n, @)] \in Values
           /\ v.list \in Seq(Nat)
<1>1. CASE v = Absent \/ v = StrValue
  <2>1. v.list = << >>
    BY <1>1 DEF Absent, StrValue
  <2>2. Remaining(n, v.list) = v.list
    <3>1. Remaining(n, << >>) = << >>
      BY DEF Remaining
    <3> QED BY <2>1, <3>1
  <2>3. [v EXCEPT !.list = v.list] = v
    BY <1>1 DEF Absent, StrValue
  <2>4. v.list \in Seq(Nat)
    BY <2>1, ShortReplyType
  <2> QED BY <2>2, <2>3, <2>4
<1>2. CASE v \in [type : {"list"}, list : Seq(Nat)]
  <2>1. v.list \in Seq(Nat)
    BY <1>2
  <2>2. Remaining(n, v.list) \in Seq(Nat)
    BY <2>1, PoppedType
  <2> QED BY <1>2, <2>1, <2>2 DEF Values
<1> QED BY <1>1, <1>2 DEF Values

(* BLPOP takes an element and leaves a value. *)
LEMMA PopHeadType ==
    ASSUME NEW d \in [Keys -> Values], NEW k \in Keys, NonEmpty(d, k)
    PROVE  /\ PopHead(d, k) \in [Keys -> Values]
           /\ Head(d[k].list) \in Nat
<1>1. d[k] \in [type : {"list"}, list : Seq(Nat)]
  BY DEF NonEmpty, Values, Absent, StrValue
<1>2. Tail(d[k].list) \in Seq(Nat) /\ Head(d[k].list) \in Nat
  BY <1>1 DEF NonEmpty
<1>3. [d[k] EXCEPT !.list = Tail(@)] \in Values
  BY <1>1, <1>2 DEF Values
<1> QED BY <1>2, <1>3 DEF PopHead

(* The initial state is type-correct. *)
LEMMA InitType == Init => TypeOK
<1>1. Absent \in Values
  BY DEF Values
<1>2. NoReply \in Replies
  BY DEF NoReply, Replies
<1> QED BY <1>1, <1>2 DEF Init, TypeOK

(* The client tasks and their peers keep the types. *)
LEMMA ClientStepType ==
    ASSUME TypeOK, NEW c \in Clients,
           Send(c) \/ WriteReply(c) \/ Disconnect(c) \/ CloseTask(c)
    PROVE  TypeOK'
<1> USE DEF TypeOK
<1>1. CASE Send(c)
  <2>1. PICK cmd \in Requests(used) :
           /\ inbox' = Append(inbox, WithReply(c, cmd))
           /\ request' = [request EXCEPT ![c] = cmd]
           /\ used' = used + Len(Payload(cmd))
    BY <1>1 DEF Send
  <2>2. cmd \in Commands /\ Len(Payload(cmd)) \in Nat
    BY RequestType
  <2>3. WithReply(c, cmd) \in Envelopes
    BY <2>2 DEF WithReply, Envelopes
  <2>4. inbox' \in Seq(Envelopes) /\ used' \in Nat
    BY <2>1, <2>2, <2>3
  <2> QED BY <1>1, <2>1, <2>2, <2>4 DEF Send, store
<1>2. CASE WriteReply(c)
  <2> DEFINE els == {oneshot[c].els[i] : i \in 1..Len(oneshot[c].els)}
  <2>1. els \subseteq Nat
    BY DEF Replies
  <2>2. NoReply \in Replies
    BY DEF NoReply, Replies
  <2>3. delivered' \in [Clients -> SUBSET Nat] /\ lost' \subseteq Nat
    <3> HIDE DEF els
    <3>1. \/ delivered' = [delivered EXCEPT ![c] = @ \cup els] /\ lost' = lost
          \/ lost' = lost \cup els /\ delivered' = delivered
      BY <1>2 DEF WriteReply, els
    <3> QED BY <3>1, <2>1
  <2> QED BY <1>2, <2>2, <2>3 DEF WriteReply, store
<1>3. CASE Disconnect(c)
  BY <1>3 DEF Disconnect, store, channels, history
<1>4. CASE CloseTask(c)
  <2>1. UnregisterClient(c) \in Envelopes
    BY DEF UnregisterClient, Envelopes
  <2> QED BY <1>4, <2>1 DEF CloseTask, store, history
<1> QED BY <1>1, <1>2, <1>3, <1>4

(* The store task keeps the types. *)
LEMMA StoreStepType ==
    ASSUME TypeOK, StoreStep
    PROVE  TypeOK'
<1>1. CASE StartPush
  <2> DEFINE c   == Head(inbox).client
             cmd == Head(inbox).command
  <2>1. /\ c \in Clients /\ cmd \in Commands /\ cmd.op \in {"rpush", "lpush"}
        /\ inbox' \in Seq(Envelopes)
    BY <1>1, ReceiveCommandType DEF StartPush
  <2>2. cmd.key \in Keys /\ IsPush(cmd)
    BY <2>1, CommandTypes DEF IsPush
  <2>3. data[cmd.key].list \in Seq(Nat)
    BY <2>2, ShrinkType DEF TypeOK
  <2>4. ListValue(Pushed(cmd, data[cmd.key].list)) \in Values
    BY <2>1, <2>2, <2>3, PushedType, ListValueType
  <2>5. data' \in [Keys -> Values]
    BY <1>1, <2>2, <2>4 DEF StartPush, PushElements, TypeOK
  <2>6. todo' \subseteq Nat
    BY <1>1 DEF StartPush, Notified, TypeOK
  <2> QED BY <1>1, <2>1, <2>5, <2>6 DEF StartPush, TypeOK, clients, history
<1>2. CASE FinishPush
  <2>1. pusher \in Clients
    BY <1>2 DEF FinishPush, TypeOK
  <2>2. oneshot' \in [Clients -> Replies]
    BY <1>2, <2>1, AnswerType, ShortReplyType DEF FinishPush
  <2> QED BY <1>2, <2>2 DEF FinishPush, TypeOK, clients, history
<1>3. ASSUME NEW w \in waiters, ServeWaiter(w)
      PROVE  TypeOK'
  <2> DEFINE k == FirstKey(data, w.keys)
  <2>1. w.client \in Clients /\ w.keys \in Seq(Keys)
    BY DEF TypeOK
  <2>2. k \in Keys /\ NonEmpty(data, k)
    BY <1>3, <2>1, FirstKeyType DEF ServeWaiter, TypeOK
  <2>3. PopHead(data, k) \in [Keys -> Values] /\ Head(data[k].list) \in Nat
    BY <2>2, PopHeadType DEF TypeOK
  <2>4. oneshot' \in [Clients -> Replies]
    BY <1>3, <2>1, <2>3, AnswerType, ShortReplyType DEF ServeWaiter
  <2> QED BY <1>3, <2>3, <2>4 DEF ServeWaiter, TypeOK, clients, history
<1>4. ASSUME NEW w \in waiters, SkipWaiter(w)
      PROVE  TypeOK'
  BY <1>4 DEF SkipWaiter, TypeOK, channels, clients, history
<1>5. CASE ExecLpop
  <2> DEFINE cmd == Head(inbox).command
             v   == data[cmd.key]
  <2>1. /\ Head(inbox).client \in Clients /\ cmd \in Commands /\ cmd.op = "lpop"
        /\ inbox' \in Seq(Envelopes)
    BY <1>5, ReceiveCommandType DEF ExecLpop
  <2>2. cmd.key \in Keys /\ cmd.count \in Nat
    BY <2>1, CommandTypes
  <2>3. v \in Values
    BY <2>2 DEF TypeOK
  <2>4. [v EXCEPT !.list = Remaining(cmd.count, @)] \in Values /\ v.list \in Seq(Nat)
    BY <2>2, <2>3, ShrinkType
  <2>5. oneshot' \in [Clients -> Replies]
    BY <1>5, <2>1, <2>2, <2>4, PoppedType, AnswerType DEF ExecLpop
  <2>6. data' \in [Keys -> Values]
    BY <1>5, <2>2, <2>4 DEF ExecLpop, TypeOK
  <2> QED BY <1>5, <2>1, <2>5, <2>6 DEF ExecLpop, TypeOK, clients, history
<1>6. CASE ExecBlpop
  <2> DEFINE cmd == Head(inbox).command
             k   == FirstKey(data, cmd.keys)
  <2>1. /\ Head(inbox).client \in Clients /\ cmd \in Commands /\ cmd.op = "blpop"
        /\ inbox' \in Seq(Envelopes)
    BY <1>6, ReceiveCommandType DEF ExecBlpop
  <2>2. k \in Keys /\ NonEmpty(data, k)
    BY <1>6, <2>1, CommandTypes, FirstKeyType DEF ExecBlpop, TypeOK
  <2>3. PopHead(data, k) \in [Keys -> Values] /\ Head(data[k].list) \in Nat
    BY <2>2, PopHeadType DEF TypeOK
  <2>4. oneshot' \in [Clients -> Replies]
    BY <1>6, <2>1, <2>3, AnswerType, ShortReplyType DEF ExecBlpop
  <2> QED BY <1>6, <2>1, <2>3, <2>4 DEF ExecBlpop, TypeOK, clients, history
<1>7. CASE BlockBlpop
  <2> DEFINE c   == Head(inbox).client
             cmd == Head(inbox).command
  <2>1. /\ c \in Clients /\ cmd \in Commands /\ cmd.op = "blpop"
        /\ inbox' \in Seq(Envelopes)
    BY <1>7, ReceiveCommandType DEF BlockBlpop
  <2>2. cmd.keys \in Seq(Keys)
    BY <2>1, CommandTypes
  <2>3. waiter_id' \in Nat /\ waiter_id' = waiter_id + 1
    BY <1>7 DEF BlockBlpop, TypeOK
  <2>4. waiters' \subseteq [id : Nat, client : Clients, keys : Seq(Keys)]
    BY <1>7, <2>1, <2>2, <2>3 DEF BlockBlpop, Waiter, TypeOK
  <2>5. timers' \subseteq Nat
    BY <1>7, <2>3 DEF BlockBlpop, Timer, TypeOK
  <2> QED BY <1>7, <2>1, <2>3, <2>4, <2>5 DEF BlockBlpop, TypeOK, clients, history
<1>8. CASE ExecSet
  <2> DEFINE cmd == Head(inbox).command
             s   == data[cmd.key].list
  <2>1. /\ Head(inbox).client \in Clients /\ cmd \in Commands /\ cmd.op = "set"
        /\ inbox' \in Seq(Envelopes)
    BY <1>8, ReceiveCommandType DEF ExecSet
  <2>2. cmd.key \in Keys
    BY <2>1, CommandTypes
  <2>3. s \in Seq(Nat)
    BY <2>2, ShrinkType DEF TypeOK
  <2>4. {s[i] : i \in 1..Len(s)} \subseteq Nat
    <3> HIDE DEF s
    <3> QED BY <2>3
  <2>5. StrValue \in Values
    BY DEF Values
  <2>6. oneshot' \in [Clients -> Replies]
    BY <1>8, <2>1, AnswerType, ShortReplyType DEF ExecSet
  <2>7. data' \in [Keys -> Values] /\ overwritten' \subseteq Nat
    BY <1>8, <2>2, <2>4, <2>5 DEF ExecSet, TypeOK
  <2> QED BY <1>8, <2>1, <2>6, <2>7 DEF ExecSet, TypeOK, clients
<1>9. CASE ExecTimeout
  <2>1. inbox' \in Seq(Envelopes)
    BY <1>9, ReceiveType DEF ExecTimeout
  <2>2. \/ \E w \in waiters : TimeoutAnswers(w)
        \/ UNCHANGED <<waiters, oneshot>>
    BY <1>9 DEF ExecTimeout
  <2>3. waiters' \subseteq waiters /\ oneshot' \in [Clients -> Replies]
    <3>1. ASSUME NEW w \in waiters, TimeoutAnswers(w)
          PROVE  waiters' \subseteq waiters /\ oneshot' \in [Clients -> Replies]
      <4>1. w.client \in Clients
        BY DEF TypeOK
      <4> QED BY <3>1, <4>1, AnswerType, ShortReplyType DEF TimeoutAnswers
    <3> QED BY <2>2, <3>1 DEF TypeOK
  <2> QED BY <1>9, <2>1, <2>3 DEF ExecTimeout, TypeOK, clients, history
<1>10. CASE ExecUnregister
  <2>1. inbox' \in Seq(Envelopes)
    BY <1>10, ReceiveType DEF ExecUnregister
  <2> QED BY <1>10, <2>1 DEF ExecUnregister, TypeOK, store, clients, history
<1> QED BY <1>1, <1>2, <1>3, <1>4, <1>5, <1>6, <1>7, <1>8, <1>9, <1>10 DEF StoreStep

(* So does every step. *)
LEMMA NextType ==
    ASSUME TypeOK, [Next]_vars
    PROVE  TypeOK'
<1>1. ASSUME NEW id \in timers, TimerFires(id)
      PROVE  TypeOK'
  <2>1. TimeoutBlpop(id) \in Envelopes
    BY DEF TimeoutBlpop, Envelopes, TypeOK
  <2> QED BY <1>1, <2>1 DEF TimerFires, TypeOK, store, clients, history
<1>2. CASE UNCHANGED vars
  BY <1>2 DEF TypeOK, vars, store, channels, clients, history
<1> QED BY <1>1, <1>2, ClientStepType, StoreStepType DEF Next

(* The store, its channels, its waiters and the client tasks keep their
   types, whatever the clients send.                                        *)
THEOREM TypeCorrect == Spec => []TypeOK
  BY InitType, NextType, PTL DEF Spec

-----------------------------------------------------------------------------
(* No waiter is left blocked on a list that has an element.                *)

(* The inductive form: while a push is being served, the waiters that the
   loop has not visited are the only ones that may have an element to take.
   Waiter ids are never given out twice, so a visit concerns one waiter.    *)
OnlyTodoCanBeServed ==
    /\ \A w \in waiters : HasElement(data, w.keys) => w.id \in todo
    /\ todo # {} => ~StoreIdle

WaiterIdsUnique ==
    /\ \A w \in waiters : w.id <= waiter_id
    /\ \A v, w \in waiters : v.id = w.id => v = w

WaitInv == TypeOK /\ OnlyTodoCanBeServed /\ WaiterIdsUnique

(* Only a key that gets an element can make a wait servable. *)
LEMMA HasElementShrinks ==
    ASSUME NEW d, NEW e, NEW ks \in Seq(Keys), HasElement(e, ks),
           \A k \in Keys : NonEmpty(e, k) => NonEmpty(d, k)
    PROVE  HasElement(d, ks)
  BY DEF HasElement

(* A new value with an element only where there was one puts none anywhere. *)
LEMMA NothingPutAnywhere ==
    ASSUME NEW d \in [Keys -> Values], NEW k \in Keys, NEW v,
           v.list # << >> => NonEmpty(d, k)
    PROVE  \A j \in Keys : NonEmpty([d EXCEPT ![k] = v], j) => NonEmpty(d, j)
  BY DEF NonEmpty

(* Removing waiters leaves those that remain unservable and distinct. *)
LEMMA SubsetOfWaiters ==
    ASSUME WaitInv, waiters' \subseteq waiters, todo' = todo, pusher' = pusher,
           waiter_id' = waiter_id,
           \A k \in Keys : NonEmpty(data', k) => NonEmpty(data, k)
    PROVE  OnlyTodoCanBeServed' /\ WaiterIdsUnique'
<1>1. ASSUME NEW w \in waiters', HasElement(data', w.keys)
      PROVE  w.id \in todo'
  <2>1. w \in waiters /\ w.keys \in Seq(Keys)
    BY DEF WaitInv, TypeOK
  <2>2. HasElement(data, w.keys)
    BY <1>1, <2>1, HasElementShrinks
  <2> QED BY <2>1, <2>2 DEF WaitInv, OnlyTodoCanBeServed
<1> QED BY <1>1 DEF WaitInv, OnlyTodoCanBeServed, WaiterIdsUnique, StoreIdle

(* Every step of the store keeps the invariant. *)
LEMMA StoreStepWait ==
    ASSUME WaitInv, StoreStep
    PROVE  OnlyTodoCanBeServed' /\ WaiterIdsUnique'
<1> USE DEF WaitInv
<1>1. CASE StartPush
  <2> DEFINE key == Head(inbox).command.key
  <2>1. Head(inbox).command \in Commands /\ key \in Keys
    BY <1>1, ReceiveCommandType, CommandTypes DEF StartPush
  <2>2. \A j \in Keys : j # key /\ NonEmpty(data', j) => NonEmpty(data, j)
    <3> DEFINE v == ListValue(Pushed(Head(inbox).command, data[key].list))
    <3>1. data' = [data EXCEPT ![key] = v]
      BY <1>1 DEF StartPush, PushElements
    <3> HIDE DEF v, key
    <3>2. data \in [Keys -> Values]
      BY DEF TypeOK
    <3>3. \A j \in Keys : j # key => data'[j] = data[j]
      BY <3>1, <3>2
    <3> QED BY <3>3 DEF NonEmpty
  <2>3. /\ waiters' = waiters
        /\ todo' = {w.id : w \in {v \in waiters : key \in KeysOf(v)}}
        /\ todo = {}
    BY <1>1 DEF StartPush, Notified, ReceiveCommand, Receive, OnlyTodoCanBeServed
  <2>4. ASSUME NEW w \in waiters, HasElement(data', w.keys), key \notin KeysOf(w)
        PROVE  FALSE
    <3>1. w.keys \in Seq(Keys)
      BY DEF TypeOK
    <3>2. PICK i \in 1..Len(w.keys) : NonEmpty(data', w.keys[i])
      BY <2>4 DEF HasElement
    <3>3. w.keys[i] # key /\ w.keys[i] \in Keys
      BY <2>4, <3>1 DEF KeysOf
    <3>4. HasElement(data, w.keys)
      BY <2>2, <3>2, <3>3 DEF HasElement
    <3> QED BY <2>3, <3>4 DEF OnlyTodoCanBeServed
  <2>5. pusher' # NoClient
    BY <1>1, ReceiveCommandType, NoClientAssumption DEF StartPush
  <2>6. OnlyTodoCanBeServed'
    BY <2>3, <2>4, <2>5 DEF OnlyTodoCanBeServed, StoreIdle
  <2> QED BY <1>1, <2>6 DEF StartPush, WaiterIdsUnique
<1>2. CASE FinishPush
  BY <1>2 DEF FinishPush, OnlyTodoCanBeServed, WaiterIdsUnique, StoreIdle
<1>3. ASSUME NEW w \in waiters, ServeWaiter(w)
      PROVE  OnlyTodoCanBeServed' /\ WaiterIdsUnique'
  <2> DEFINE k == FirstKey(data, w.keys)
  <2>1. k \in Keys /\ NonEmpty(data, k)
    BY <1>3, FirstKeyType DEF ServeWaiter, TypeOK
  <2>2. \A j \in Keys : NonEmpty(data', j) => NonEmpty(data, j)
    <3> HIDE DEF k
    <3>1. data' = [data EXCEPT ![k] = [data[k] EXCEPT !.list = Tail(@)]]
      BY <1>3 DEF ServeWaiter, PopHead, k
    <3> QED BY <2>1, <3>1, NothingPutAnywhere DEF TypeOK
  <2>3. ASSUME NEW v \in waiters', HasElement(data', v.keys)
        PROVE  v.id \in todo'
    <3>1. v \in waiters /\ v # w /\ todo' = todo \ {w.id} /\ v.keys \in Seq(Keys)
      BY <1>3 DEF ServeWaiter, TypeOK
    <3>2. HasElement(data, v.keys)
      BY <2>2, <2>3, <3>1, HasElementShrinks
    <3> QED BY <3>1, <3>2 DEF OnlyTodoCanBeServed, WaiterIdsUnique
  <2> QED BY <1>3, <2>3 DEF ServeWaiter, OnlyTodoCanBeServed, WaiterIdsUnique, StoreIdle
<1>4. ASSUME NEW w \in waiters, SkipWaiter(w)
      PROVE  OnlyTodoCanBeServed' /\ WaiterIdsUnique'
  BY <1>4 DEF SkipWaiter, OnlyTodoCanBeServed, WaiterIdsUnique, StoreIdle
<1>5. CASE ExecLpop
  <2> DEFINE cmd == Head(inbox).command
             k   == cmd.key
             s   == data[k].list
  <2>1. k \in Keys /\ cmd.count \in Nat
    BY <1>5, ReceiveCommandType, CommandTypes DEF ExecLpop
  <2>2. s = << >> => Remaining(cmd.count, s) = << >>
    <3>1. Remaining(cmd.count, << >>) = << >>
      BY <2>1 DEF Remaining
    <3> QED BY <3>1
  <2>3. \A j \in Keys : NonEmpty(data', j) => NonEmpty(data, j)
    <3>1. data' = [data EXCEPT ![k] = [data[k] EXCEPT !.list = Remaining(cmd.count, s)]]
      BY <1>5 DEF ExecLpop
    <3>2. [data[k] EXCEPT !.list = Remaining(cmd.count, s)].list # << >> => NonEmpty(data, k)
      BY <2>1, <2>2 DEF NonEmpty, TypeOK, Values, Absent, StrValue
    <3> QED BY <2>1, <3>1, <3>2, NothingPutAnywhere DEF TypeOK
  <2> QED BY <1>5, <2>3, SubsetOfWaiters DEF ExecLpop
<1>6. CASE ExecBlpop
  <2> DEFINE cmd == Head(inbox).command
             k   == FirstKey(data, cmd.keys)
  <2>1. k \in Keys /\ NonEmpty(data, k)
    <3>1. /\ ReceiveCommand({"blpop"})
          /\ HasElement(data, cmd.keys)
      BY <1>6 DEF ExecBlpop
    <3>2. cmd \in Commands /\ cmd.op = "blpop"
      BY <3>1, ReceiveCommandType
    <3>3. cmd.keys \in Seq(Keys)
      BY <3>2, CommandTypes
    <3>4. data \in [Keys -> Values]
      BY DEF TypeOK
    <3> HIDE DEF cmd
    <3> QED BY <3>1, <3>3, <3>4, FirstKeyType
  <2>2. \A j \in Keys : NonEmpty(data', j) => NonEmpty(data, j)
    <3> HIDE DEF k
    <3>1. data' = [data EXCEPT ![k] = [data[k] EXCEPT !.list = Tail(@)]]
      BY <1>6 DEF ExecBlpop, PopHead, k
    <3> QED BY <2>1, <3>1, NothingPutAnywhere DEF TypeOK
  <2> QED BY <1>6, <2>2, SubsetOfWaiters DEF ExecBlpop
<1>7. CASE BlockBlpop
  <2> DEFINE w == Waiter(waiter_id + 1, Head(inbox).client, Head(inbox).command.keys)
  <2>1. waiters' = waiters \cup {w} /\ data' = data /\ todo' = todo /\ pusher' = pusher
        /\ waiter_id' = waiter_id + 1
    BY <1>7 DEF BlockBlpop
  <2>2. ~HasElement(data, w.keys) /\ w.id = waiter_id + 1
    BY <1>7 DEF BlockBlpop, Waiter
  <2>3. \A v \in waiters : v.id \in Nat /\ v.id <= waiter_id
    BY DEF TypeOK, WaiterIdsUnique
  <2>4. OnlyTodoCanBeServed'
    BY <2>1, <2>2 DEF OnlyTodoCanBeServed, StoreIdle
  <2>5. WaiterIdsUnique'
    <3> HIDE DEF w
    <3>1. waiter_id \in Nat
      BY DEF TypeOK
    <3> QED BY <2>1, <2>2, <2>3, <3>1 DEF WaiterIdsUnique
  <2> QED BY <2>4, <2>5
<1>8. CASE ExecSet
  <2> DEFINE k == Head(inbox).command.key
  <2>1. k \in Keys
    BY <1>8, ReceiveCommandType, CommandTypes DEF ExecSet
  <2>2. \A j \in Keys : NonEmpty(data', j) => NonEmpty(data, j)
    <3>1. data' = [data EXCEPT ![k] = StrValue] /\ StrValue.list = << >>
      BY <1>8 DEF ExecSet, StrValue
    <3> QED BY <2>1, <3>1, NothingPutAnywhere DEF TypeOK
  <2> QED BY <1>8, <2>2, SubsetOfWaiters DEF ExecSet
<1>9. CASE ExecTimeout
  <2>1. waiters' \subseteq waiters
    BY <1>9 DEF ExecTimeout, TimeoutAnswers
  <2> QED BY <1>9, <2>1, SubsetOfWaiters DEF ExecTimeout
<1>10. CASE ExecUnregister
  BY <1>10, SubsetOfWaiters DEF ExecUnregister, store
<1> QED BY <1>1, <1>2, <1>3, <1>4, <1>5, <1>6, <1>7, <1>8, <1>9, <1>10 DEF StoreStep

(* So does every step of the system. *)
LEMMA NextWait ==
    ASSUME WaitInv, [Next]_vars
    PROVE  WaitInv'
<1>1. TypeOK'
  BY NextType DEF WaitInv
<1>2. CASE StoreStep
  BY <1>1, <1>2, StoreStepWait DEF WaitInv
<1>3. ASSUME UNCHANGED store
      PROVE  WaitInv'
  BY <1>1, <1>3, SubsetOfWaiters DEF WaitInv, store
<1>4. ASSUME NEW c \in Clients,
             Send(c) \/ WriteReply(c) \/ Disconnect(c) \/ CloseTask(c)
      PROVE  UNCHANGED store
  BY <1>4 DEF Send, WriteReply, Disconnect, CloseTask
<1>5. ASSUME NEW id \in timers, TimerFires(id)
      PROVE  UNCHANGED store
  BY <1>5 DEF TimerFires
<1> QED BY <1>2, <1>3, <1>4, <1>5 DEF Next, vars

(* Whenever the store is between two envelopes, no blocked BLPOP could be
   served: for any number of clients, keys, waiters and pushes.             *)
THEOREM NoWaiterStranded == Spec => []NoStrandedWaiter
<1>1. Init => WaitInv
  BY InitType DEF Init, WaitInv, OnlyTodoCanBeServed, WaiterIdsUnique
<1>2. WaitInv => NoStrandedWaiter
  BY DEF WaitInv, OnlyTodoCanBeServed, NoStrandedWaiter
<1> QED BY <1>1, <1>2, NextWait, PTL DEF Spec

-----------------------------------------------------------------------------
(* Every client that awaits a reply is owed exactly one.                   *)

(* A reply is owed by an envelope, by a waiter, by the push that is running or
   by the client's channel, and by only one of these.                        *)
Asked(c)    == \E i \in 1..Len(inbox) : inbox[i].type = "WithReply" /\ inbox[i].client = c
Waiting(c)  == \E w \in waiters : w.client = c

OneAsked ==
    \A i, j \in 1..Len(inbox) :
        /\ inbox[i].type = "WithReply" /\ inbox[j].type = "WithReply"
        /\ inbox[i].client = inbox[j].client
        => i = j

OneWaiter == \A v, w \in waiters : v.client = w.client => v = w

OneDebt(c) ==
    /\ task[c] = "awaiting" <=> Asked(c) \/ Waiting(c) \/ pusher = c \/ oneshot[c].ready
    /\ ~(Asked(c) /\ (Waiting(c) \/ pusher = c \/ oneshot[c].ready))
    /\ ~(Waiting(c) /\ (pusher = c \/ oneshot[c].ready))
    /\ ~(pusher = c /\ oneshot[c].ready)

DebtInv == OneAsked /\ OneWaiter /\ \A c \in Clients : OneDebt(c)

(* The inbox that the store leaves, and the one that a task leaves. *)
LEMMA InboxTail ==
    ASSUME TypeOK, NEW type, Receive(type)
    PROVE  /\ Head(inbox) = inbox[1] /\ Len(inbox) \in Nat /\ 1 \in 1..Len(inbox)
           /\ inbox[1].type = type /\ Len(inbox') = Len(inbox) - 1
           /\ \A i \in 1..Len(inbox') : i + 1 \in 1..Len(inbox) /\ inbox'[i] = inbox[i + 1]
<1>1. inbox \in Seq(Envelopes) /\ inbox # << >> /\ inbox' = Tail(inbox) /\ Head(inbox).type = type
  BY DEF TypeOK, Receive
<1>2. ASSUME NEW S, NEW s \in Seq(S), s # << >>
      PROVE  /\ Head(s) = s[1] /\ Len(s) \in Nat /\ 1 \in 1..Len(s)
             /\ Len(Tail(s)) = Len(s) - 1
             /\ \A i \in 1..(Len(s) - 1) : i + 1 \in 1..Len(s) /\ Tail(s)[i] = s[i + 1]
  BY <1>2
<1>3. /\ Head(inbox) = inbox[1] /\ Len(inbox) \in Nat /\ 1 \in 1..Len(inbox)
      /\ Len(Tail(inbox)) = Len(inbox) - 1
      /\ \A i \in 1..(Len(inbox) - 1) : i + 1 \in 1..Len(inbox) /\ Tail(inbox)[i] = inbox[i + 1]
  BY <1>1, <1>2, Zenon
<1> QED BY <1>1, <1>3

LEMMA InboxGrows ==
    ASSUME TypeOK, NEW e \in Envelopes, inbox' = Append(inbox, e)
    PROVE  /\ Len(inbox) \in Nat /\ Len(inbox') = Len(inbox) + 1
           /\ \A i \in 1..Len(inbox) : inbox'[i] = inbox[i]
           /\ inbox'[Len(inbox) + 1] = e
<1>1. inbox \in Seq(Envelopes)
  BY DEF TypeOK
<1>2. ASSUME NEW S, NEW s \in Seq(S), NEW x \in S
      PROVE  /\ Len(s) \in Nat /\ Len(Append(s, x)) = Len(s) + 1
             /\ \A i \in 1..Len(s) : Append(s, x)[i] = s[i]
             /\ Append(s, x)[Len(s) + 1] = x
  BY <1>2
<1>3. /\ Len(inbox) \in Nat /\ Len(Append(inbox, e)) = Len(inbox) + 1
      /\ \A i \in 1..Len(inbox) : Append(inbox, e)[i] = inbox[i]
      /\ Append(inbox, e)[Len(inbox) + 1] = e
  BY <1>1, <1>2, Zenon
<1> QED BY <1>3

(* The store takes a command, or another envelope. *)
LEMMA TakesCommand ==
    ASSUME TypeOK, OneAsked, NEW ops, ReceiveCommand(ops)
    PROVE  /\ OneAsked'
           /\ Asked(Head(inbox).client)
           /\ \A d : Asked(d)' <=> Asked(d) /\ d # Head(inbox).client
<1>1. /\ Head(inbox) = inbox[1] /\ Len(inbox) \in Nat /\ 1 \in 1..Len(inbox)
      /\ inbox[1].type = "WithReply" /\ Len(inbox') = Len(inbox) - 1
      /\ \A i \in 1..Len(inbox') : i + 1 \in 1..Len(inbox) /\ inbox'[i] = inbox[i + 1]
  BY InboxTail DEF ReceiveCommand
<1>2. OneAsked'
  <2> SUFFICES ASSUME NEW i \in 1..Len(inbox'), NEW j \in 1..Len(inbox'),
                      inbox'[i].type = "WithReply", inbox'[j].type = "WithReply",
                      inbox'[i].client = inbox'[j].client
               PROVE  i = j
    BY DEF OneAsked
  <2>1. i + 1 = j + 1
    BY <1>1 DEF OneAsked
  <2> QED BY <1>1, <2>1
<1>3. ASSUME NEW d, Asked(d), d # Head(inbox).client PROVE Asked(d)'
  <2>1. PICK i \in 1..Len(inbox) : inbox[i].type = "WithReply" /\ inbox[i].client = d
    BY <1>3 DEF Asked
  <2>2. i - 1 \in 1..Len(inbox') /\ inbox'[i - 1] = inbox[i]
    BY <1>1, <1>3, <2>1
  <2> QED BY <2>1, <2>2 DEF Asked
<1>4. ASSUME NEW d, Asked(d)' PROVE Asked(d) /\ d # Head(inbox).client
  <2>1. PICK i \in 1..Len(inbox') : inbox'[i].type = "WithReply" /\ inbox'[i].client = d
    BY <1>4 DEF Asked
  <2>2. /\ i + 1 \in 1..Len(inbox) /\ i + 1 # 1
        /\ inbox[i + 1].type = "WithReply" /\ inbox[i + 1].client = d
    BY <1>1, <2>1
  <2> QED BY <1>1, <2>2 DEF Asked, OneAsked
<1> QED BY <1>1, <1>2, <1>3, <1>4 DEF Asked

LEMMA TakesOther ==
    ASSUME TypeOK, OneAsked, NEW type, type # "WithReply", Receive(type)
    PROVE  OneAsked' /\ \A d : Asked(d)' <=> Asked(d)
<1>1. /\ Len(inbox) \in Nat /\ inbox[1].type = type /\ Len(inbox') = Len(inbox) - 1
      /\ \A i \in 1..Len(inbox') : i + 1 \in 1..Len(inbox) /\ inbox'[i] = inbox[i + 1]
  BY InboxTail
<1>2. OneAsked'
  <2> SUFFICES ASSUME NEW i \in 1..Len(inbox'), NEW j \in 1..Len(inbox'),
                      inbox'[i].type = "WithReply", inbox'[j].type = "WithReply",
                      inbox'[i].client = inbox'[j].client
               PROVE  i = j
    BY DEF OneAsked
  <2>1. i + 1 = j + 1
    BY <1>1 DEF OneAsked
  <2> QED BY <1>1, <2>1
<1>3. ASSUME NEW d, Asked(d) PROVE Asked(d)'
  <2>1. PICK i \in 1..Len(inbox) : inbox[i].type = "WithReply" /\ inbox[i].client = d
    BY <1>3 DEF Asked
  <2>2. i - 1 \in 1..Len(inbox') /\ inbox'[i - 1] = inbox[i]
    BY <1>1, <2>1
  <2> QED BY <2>1, <2>2 DEF Asked
<1>4. ASSUME NEW d, Asked(d)' PROVE Asked(d)
  <2>1. PICK i \in 1..Len(inbox') : inbox'[i].type = "WithReply" /\ inbox'[i].client = d
    BY <1>4 DEF Asked
  <2> QED BY <1>1, <2>1 DEF Asked
<1> QED BY <1>2, <1>3, <1>4

(* A task sends a command, or something else is sent. *)
LEMMA SendsCommand ==
    ASSUME TypeOK, OneAsked, NEW e \in Envelopes, e.type = "WithReply", ~Asked(e.client),
           inbox' = Append(inbox, e)
    PROVE  OneAsked' /\ \A d : Asked(d)' <=> Asked(d) \/ d = e.client
<1>1. /\ Len(inbox) \in Nat /\ Len(inbox') = Len(inbox) + 1
      /\ \A i \in 1..Len(inbox) : inbox'[i] = inbox[i]
      /\ inbox'[Len(inbox) + 1] = e
  BY InboxGrows
<1>2. \A i \in 1..Len(inbox') : i \in 1..Len(inbox) \/ i = Len(inbox) + 1
  BY <1>1
<1>3. \A i \in 1..Len(inbox) : i \in 1..Len(inbox') /\ Len(inbox) + 1 \in 1..Len(inbox')
  BY <1>1
<1>4. \A i \in 1..Len(inbox) : ~(inbox[i].type = "WithReply" /\ inbox[i].client = e.client)
  BY DEF Asked
<1>5. OneAsked'
  BY <1>1, <1>2, <1>4 DEF OneAsked
<1>6. ASSUME NEW d PROVE Asked(d)' <=> Asked(d) \/ d = e.client
  <2>1. Asked(d)' => Asked(d) \/ d = e.client
    BY <1>1, <1>2 DEF Asked
  <2>2. Asked(d) => Asked(d)'
    BY <1>1, <1>3 DEF Asked
  <2>3. d = e.client => Asked(d)'
    <3>1. Len(inbox) + 1 \in 1..Len(inbox')
      BY <1>1
    <3> QED BY <1>1, <3>1 DEF Asked
  <2> QED BY <2>1, <2>2, <2>3
<1> QED BY <1>5, <1>6

LEMMA SendsOther ==
    ASSUME TypeOK, OneAsked, NEW e \in Envelopes, e.type # "WithReply",
           inbox' = Append(inbox, e)
    PROVE  OneAsked' /\ \A d : Asked(d)' <=> Asked(d)
<1>1. /\ Len(inbox) \in Nat /\ Len(inbox') = Len(inbox) + 1
      /\ \A i \in 1..Len(inbox) : inbox'[i] = inbox[i]
      /\ inbox'[Len(inbox) + 1] = e
  BY InboxGrows
<1>2. \A i \in 1..Len(inbox') : i \in 1..Len(inbox) \/ i = Len(inbox) + 1
  BY <1>1
<1>3. \A i \in 1..Len(inbox) : i \in 1..Len(inbox')
  BY <1>1
<1>4. OneAsked'
  BY <1>1, <1>2 DEF OneAsked
<1>5. ASSUME NEW d PROVE Asked(d)' <=> Asked(d)
  BY <1>1, <1>2, <1>3 DEF Asked
<1> QED BY <1>4, <1>5

(* Who is answered has a reply. *)
LEMMA AnswersOne ==
    ASSUME TypeOK, NEW c \in Clients, NEW els, Answer(c, els)
    PROVE  \A d \in Clients : oneshot'[d].ready <=> oneshot[d].ready \/ d = c
<1>1. \A d \in Clients : oneshot'[d] = IF d = c THEN Reply(els) ELSE oneshot[d]
  BY DEF Answer, TypeOK
<1> QED BY <1>1 DEF Reply

(* The store answers the command that it takes. *)
LEMMA AnswersCommand ==
    ASSUME TypeOK, DebtInv, NEW ops, ReceiveCommand(ops), NEW els,
           Answer(Head(inbox).client, els), UNCHANGED <<task, waiters, pusher>>
    PROVE  DebtInv'
<1>1. PICK c \in Clients : c = Head(inbox).client
  BY ReceiveCommandType
<1>2. OneAsked' /\ Asked(c) /\ \A d : Asked(d)' <=> Asked(d) /\ d # c
  BY <1>1, TakesCommand DEF DebtInv
<1>3. \A d \in Clients : oneshot'[d].ready <=> oneshot[d].ready \/ d = c
  BY <1>1, AnswersOne
<1>4. OneWaiter' /\ \A d : Waiting(d)' <=> Waiting(d)
  BY DEF DebtInv, OneWaiter, Waiting
<1>5. ASSUME NEW d \in Clients PROVE OneDebt(d)'
  BY <1>2, <1>3, <1>4 DEF DebtInv, OneDebt
<1> QED BY <1>2, <1>4, <1>5 DEF DebtInv

(* The store answers a waiter, and has done with it. *)
LEMMA AnswersWaiter ==
    ASSUME TypeOK, DebtInv, NEW w \in waiters, NEW els, Answer(w.client, els),
           waiters' = waiters \ {w}, OneAsked', \A d : Asked(d)' <=> Asked(d),
           UNCHANGED <<task, pusher>>
    PROVE  DebtInv'
<1>1. PICK c \in Clients : c = w.client
  BY DEF TypeOK
<1>2. \A d \in Clients : oneshot'[d].ready <=> oneshot[d].ready \/ d = c
  BY <1>1, AnswersOne
<1>3. OneWaiter' /\ Waiting(c) /\ \A d : Waiting(d)' <=> Waiting(d) /\ d # c
  BY <1>1 DEF DebtInv, OneWaiter, Waiting
<1>4. ASSUME NEW d \in Clients PROVE OneDebt(d)'
  BY <1>2, <1>3 DEF DebtInv, OneDebt
<1> QED BY <1>3, <1>4 DEF DebtInv

LEMMA StoreStepDebts ==
    ASSUME TypeOK, DebtInv, StoreStep
    PROVE  DebtInv'
<1> USE DEF store, clients, channels, history
<1>1. CASE StartPush
  <2>1. ReceiveCommand({"rpush", "lpush"}) /\ UNCHANGED <<task, waiters, oneshot>>
        /\ pusher = NoClient /\ pusher' = Head(inbox).client
    BY <1>1 DEF StartPush, ReceiveCommand, Receive, StoreIdle
  <2>2. PICK c \in Clients : c = Head(inbox).client
    BY <2>1, ReceiveCommandType
  <2>3. OneAsked' /\ Asked(c) /\ \A d : Asked(d)' <=> Asked(d) /\ d # c
    BY <2>1, <2>2, TakesCommand DEF DebtInv
  <2>4. OneWaiter' /\ \A d : Waiting(d)' <=> Waiting(d)
    BY <2>1 DEF DebtInv, OneWaiter, Waiting
  <2>5. ASSUME NEW d \in Clients PROVE OneDebt(d)'
    BY <2>1, <2>2, <2>3, <2>4, NoClientAssumption DEF DebtInv, OneDebt
  <2> QED BY <2>3, <2>4, <2>5 DEF DebtInv
<1>2. CASE FinishPush
  <2>1. /\ pusher # NoClient /\ pusher' = NoClient /\ Answer(pusher, << >>)
        /\ UNCHANGED <<task, inbox, waiters>>
    BY <1>2 DEF FinishPush
  <2>2. PICK c \in Clients : c = pusher
    BY <2>1 DEF TypeOK
  <2>3. \A d \in Clients : oneshot'[d].ready <=> oneshot[d].ready \/ d = c
    BY <2>1, <2>2, AnswersOne
  <2>4. /\ OneAsked' /\ OneWaiter'
        /\ \A d : (Waiting(d)' <=> Waiting(d)) /\ (Asked(d)' <=> Asked(d))
    BY <2>1 DEF DebtInv, OneAsked, OneWaiter, Asked, Waiting
  <2>5. ASSUME NEW d \in Clients PROVE OneDebt(d)'
    BY <2>1, <2>2, <2>3, <2>4, NoClientAssumption DEF DebtInv, OneDebt
  <2> QED BY <2>4, <2>5 DEF DebtInv
<1>3. ASSUME NEW w \in waiters, ServeWaiter(w) PROVE DebtInv'
  <2>1. /\ \E els : Answer(w.client, els)
        /\ waiters' = waiters \ {w} /\ UNCHANGED <<task, inbox, pusher>>
    BY <1>3 DEF ServeWaiter
  <2>2. OneAsked' /\ \A d : Asked(d)' <=> Asked(d)
    BY <2>1 DEF DebtInv, OneAsked, Asked
  <2> QED BY <2>1, <2>2, AnswersWaiter
<1>4. ASSUME NEW w \in waiters, SkipWaiter(w) PROVE DebtInv'
  BY <1>4 DEF SkipWaiter, DebtInv, OneAsked, OneWaiter, OneDebt, Asked, Waiting
<1>5. CASE ExecLpop
  BY <1>5, AnswersCommand DEF ExecLpop
<1>6. CASE ExecBlpop
  BY <1>6, AnswersCommand DEF ExecBlpop
<1>7. CASE BlockBlpop
  <2>1. /\ ReceiveCommand({"blpop"}) /\ UNCHANGED <<task, pusher, oneshot>>
        /\ \E w : w.client = Head(inbox).client /\ waiters' = waiters \cup {w}
    BY <1>7 DEF BlockBlpop, Waiter
  <2>2. PICK c \in Clients : c = Head(inbox).client
    BY <2>1, ReceiveCommandType
  <2>3. OneAsked' /\ Asked(c) /\ \A d : Asked(d)' <=> Asked(d) /\ d # c
    BY <2>1, <2>2, TakesCommand DEF DebtInv
  <2>4. ~Waiting(c)
    BY <2>3 DEF DebtInv, OneDebt
  <2>5. OneWaiter' /\ \A d : Waiting(d)' <=> Waiting(d) \/ d = c
    BY <2>1, <2>2, <2>4 DEF DebtInv, OneWaiter, Waiting
  <2>6. ASSUME NEW d \in Clients PROVE OneDebt(d)'
    BY <2>1, <2>3, <2>5 DEF DebtInv, OneDebt
  <2> QED BY <2>3, <2>5, <2>6 DEF DebtInv
<1>8. CASE ExecSet
  BY <1>8, AnswersCommand DEF ExecSet
<1>9. CASE ExecTimeout
  <2>1. OneAsked' /\ \A d : Asked(d)' <=> Asked(d)
    BY <1>9, TakesOther DEF ExecTimeout, DebtInv
  <2>2. CASE \E w \in waiters : TimeoutAnswers(w)
    BY <1>9, <2>1, <2>2, AnswersWaiter DEF ExecTimeout, TimeoutAnswers
  <2>3. CASE UNCHANGED <<waiters, oneshot>>
    BY <1>9, <2>1, <2>3 DEF ExecTimeout, DebtInv, OneWaiter, OneDebt, Waiting
  <2> QED BY <1>9, <2>2, <2>3 DEF ExecTimeout
<1>10. CASE ExecUnregister
  <2>1. OneAsked' /\ \A d : Asked(d)' <=> Asked(d)
    BY <1>10, TakesOther DEF ExecUnregister, DebtInv
  <2> QED BY <1>10, <2>1 DEF ExecUnregister, DebtInv, OneWaiter, OneDebt, Waiting
<1> QED BY <1>1, <1>2, <1>3, <1>4, <1>5, <1>6, <1>7, <1>8, <1>9, <1>10 DEF StoreStep

LEMMA ClientStepDebts ==
    ASSUME TypeOK, DebtInv, NEW c \in Clients,
           Send(c) \/ WriteReply(c) \/ Disconnect(c) \/ CloseTask(c)
    PROVE  DebtInv'
<1> USE DEF store, clients, channels, history
<1>1. UNCHANGED <<waiters, pusher>>
  BY DEF Send, WriteReply, Disconnect, CloseTask
<1>2. OneWaiter' /\ \A d : Waiting(d)' <=> Waiting(d)
  BY <1>1 DEF DebtInv, OneWaiter, Waiting
<1>3. CASE Send(c)
  <2>1. PICK cmd \in Requests(used) : inbox' = Append(inbox, WithReply(c, cmd))
    BY <1>3 DEF Send
  <2>2. PICK e \in Envelopes : e = WithReply(c, cmd)
    <3>1. cmd \in Commands
      BY RequestType DEF TypeOK
    <3> QED BY <3>1 DEF WithReply, Envelopes
  <2>3. e.type = "WithReply" /\ e.client = c
    BY <2>2 DEF WithReply
  <2>4. ~Asked(c)
    BY <1>3 DEF Send, DebtInv, OneDebt
  <2>5. OneAsked' /\ \A d : Asked(d)' <=> Asked(d) \/ d = c
    BY <2>1, <2>2, <2>3, <2>4, SendsCommand DEF DebtInv
  <2>6. \A d \in Clients : task'[d] = IF d = c THEN "awaiting" ELSE task[d]
    BY <1>3 DEF Send, TypeOK
  <2>7. oneshot' = oneshot /\ task[c] = "reading"
    BY <1>3 DEF Send
  <2>8. ASSUME NEW d \in Clients PROVE OneDebt(d)'
    BY <1>1, <1>2, <2>5, <2>6, <2>7 DEF DebtInv, OneDebt
  <2> QED BY <1>2, <2>5, <2>8 DEF DebtInv
<1>4. CASE WriteReply(c)
  <2>1. \A d \in Clients : /\ task'[d] = IF d = c THEN "reading" ELSE task[d]
                           /\ oneshot'[d] = IF d = c THEN NoReply ELSE oneshot[d]
    BY <1>4 DEF WriteReply, TypeOK
  <2>2. oneshot[c].ready /\ ~NoReply.ready
    BY <1>4 DEF WriteReply, NoReply
  <2>3. OneAsked' /\ \A d : Asked(d)' <=> Asked(d)
    BY <1>4 DEF WriteReply, DebtInv, OneAsked, Asked
  <2>4. ASSUME NEW d \in Clients PROVE OneDebt(d)'
    BY <1>1, <1>2, <2>1, <2>2, <2>3 DEF DebtInv, OneDebt
  <2> QED BY <1>2, <2>3, <2>4 DEF DebtInv
<1>5. CASE Disconnect(c)
  <2>1. UNCHANGED <<inbox, task, oneshot>>
    BY <1>5 DEF Disconnect
  <2> QED BY <1>1, <2>1 DEF DebtInv, OneAsked, OneWaiter, OneDebt, Asked, Waiting
<1>6. CASE CloseTask(c)
  <2>1. UnregisterClient(c) \in Envelopes /\ UnregisterClient(c).type # "WithReply"
    BY DEF UnregisterClient, Envelopes
  <2>2. OneAsked' /\ \A d : Asked(d)' <=> Asked(d)
    BY <1>6, <2>1, SendsOther DEF CloseTask, DebtInv
  <2>3. \A d \in Clients : (task'[d] = "awaiting") <=> (task[d] = "awaiting")
    BY <1>6 DEF CloseTask, TypeOK
  <2>4. oneshot' = oneshot
    BY <1>6 DEF CloseTask
  <2>5. ASSUME NEW d \in Clients PROVE OneDebt(d)'
    BY <1>1, <1>2, <2>2, <2>3, <2>4 DEF DebtInv, OneDebt
  <2> QED BY <1>2, <2>2, <2>5 DEF DebtInv
<1> QED BY <1>3, <1>4, <1>5, <1>6

LEMMA NextDebts ==
    ASSUME TypeOK, DebtInv, [Next]_vars
    PROVE  DebtInv'
<1>1. ASSUME NEW id \in timers, TimerFires(id) PROVE DebtInv'
  <2>1. TimeoutBlpop(id) \in Envelopes /\ TimeoutBlpop(id).type # "WithReply"
    BY DEF TimeoutBlpop, Envelopes, TypeOK
  <2>2. OneAsked' /\ \A d : Asked(d)' <=> Asked(d)
    BY <1>1, <2>1, SendsOther DEF TimerFires, DebtInv
  <2>3. UNCHANGED <<task, oneshot, waiters, pusher>>
    BY <1>1 DEF TimerFires, store, clients
  <2> QED BY <2>2, <2>3 DEF DebtInv, OneWaiter, OneDebt, Waiting
<1>2. CASE UNCHANGED vars
  BY <1>2 DEF vars, store, channels, clients, DebtInv, OneAsked, OneWaiter, OneDebt, Asked, Waiting
<1> QED BY <1>1, <1>2, StoreStepDebts, ClientStepDebts DEF Next

LEMMA InitDebts == Init => DebtInv
<1> SUFFICES ASSUME Init PROVE DebtInv
  OBVIOUS
<1>1. Len(inbox) = 0
  BY DEF Init
<1>2. ASSUME NEW c \in Clients PROVE OneDebt(c)
  BY <1>1, NoClientAssumption DEF Init, OneDebt, Asked, Waiting, NoReply
<1> QED BY <1>1, <1>2 DEF Init, DebtInv, OneAsked, OneWaiter

(* Every client task that awaits a reply is owed exactly one, whatever pushes,
   timers and peers do to its waiter; one that awaits nothing is owed none.   *)
THEOREM RepliesOwedOnce == Spec => []OwedExactlyOnce
<1>1. ASSUME TypeOK, DebtInv PROVE OwedExactlyOnce
  <2> SUFFICES ASSUME NEW c \in Clients
               PROVE  Cardinality(Debts(c)) = IF task[c] = "awaiting" THEN 1 ELSE 0
    BY DEF OwedExactlyOnce
  <2>1. PICK envelopes, mine :
          /\ envelopes = {j \in 1..Len(inbox) : /\ inbox[j].type = "WithReply"
                                               /\ inbox[j].client = c}
          /\ mine = {v \in waiters : v.client = c}
    OBVIOUS
  <2> DEFINE asked    == {<<"inbox", i>> : i \in envelopes}
             waiting  == {<<"waiter", w.id>> : w \in mine}
             pushing  == {<<"push", 0>> : d \in {pusher} \cap {c}}
             answered == {<<"oneshot", 0>> : d \in {r \in {oneshot[c]} : r.ready}}
  <2>2. Debts(c) = asked \cup waiting \cup pushing \cup answered
    BY <2>1 DEF Debts
  <2>3. IF Asked(c) THEN \E x : asked = {x} ELSE asked = {}
    <3>1. CASE Asked(c)
      <4>1. PICK i \in 1..Len(inbox) : inbox[i].type = "WithReply" /\ inbox[i].client = c
        BY <3>1 DEF Asked
      <4>2. envelopes = {i}
        BY <1>1, <2>1, <4>1 DEF DebtInv, OneAsked
      <4> QED BY <3>1, <4>2
    <3>2. CASE ~Asked(c)
      <4>1. envelopes = {}
        BY <2>1, <3>2 DEF Asked
      <4> QED BY <3>2, <4>1
    <3> QED BY <3>1, <3>2
  <2>4. IF Waiting(c) THEN \E x : waiting = {x} ELSE waiting = {}
    <3>1. CASE Waiting(c)
      <4>1. PICK w \in waiters : w.client = c
        BY <3>1 DEF Waiting
      <4>2. mine = {w}
        BY <1>1, <2>1, <4>1 DEF DebtInv, OneWaiter
      <4> QED BY <3>1, <4>2
    <3>2. CASE ~Waiting(c)
      <4>1. mine = {}
        BY <2>1, <3>2 DEF Waiting
      <4> QED BY <3>2, <4>1
    <3> QED BY <3>1, <3>2
  <2>5. IF pusher = c THEN \E x : pushing = {x} ELSE pushing = {}
    OBVIOUS
  <2>6. IF oneshot[c].ready THEN \E x : answered = {x} ELSE answered = {}
    OBVIOUS
  <2>7. OneDebt(c)
    BY <1>1 DEF DebtInv
  <2> HIDE DEF asked, waiting, pushing, answered
  <2>8. IF task[c] = "awaiting" THEN \E x : Debts(c) = {x} ELSE Debts(c) = {}
    BY <2>2, <2>3, <2>4, <2>5, <2>6, <2>7 DEF OneDebt
  <2> QED BY <2>8, FS_EmptySet, FS_Singleton
<1> QED BY <1>1, InitType, NextType, InitDebts, NextDebts, PTL DEF Spec


-----------------------------------------------------------------------------
(* The list commands are linearizable.                                     *)

(* What connects a reply to the call it answers: the command in an envelope is
   the one its client last sent, a waiter holds the keys of its client's BLPOP,
   and a timer, asleep or delivered, belongs to a BLPOP with a finite timeout
   or to a waiter that has been served - never to one that came later.       *)
TimerFits(id) ==
    /\ id <= waiter_id
    /\ \A w \in waiters : w.id = id => request[w.client].finite

EnvelopeFits(e) ==
    /\ e.type = "WithReply" => request[e.client] = e.command
    /\ e.type = "TimeoutBlpop" => TimerFits(e.waiter_id)

WaiterFits(w) ==
    /\ request[w.client].op = "blpop"
    /\ request[w.client].keys = w.keys

CallInv ==
    /\ \A i \in 1..Len(inbox) : EnvelopeFits(inbox[i])
    /\ \A w \in waiters : WaiterFits(w)
    /\ \A id \in timers : TimerFits(id)

LinearInv == WaitInv /\ DebtInv /\ CallInv

LEMMA CallsStayFit ==
    ASSUME CallInv, UNCHANGED <<request, waiter_id>>,
           waiters' \subseteq waiters, timers' \subseteq timers,
           \A i \in 1..Len(inbox') : EnvelopeFits(inbox'[i])
    PROVE  CallInv'
<1>1. \A id : TimerFits(id) => TimerFits(id)'
  BY DEF TimerFits
<1>2. \A e : EnvelopeFits(e) => EnvelopeFits(e)'
  BY <1>1 DEF EnvelopeFits
<1>3. \A w : WaiterFits(w) => WaiterFits(w)'
  BY DEF WaiterFits
<1>4. \A i \in 1..Len(inbox') : EnvelopeFits(inbox[i])'
  BY <1>1 DEF EnvelopeFits, TimerFits
<1> QED BY <1>1, <1>3, <1>4 DEF CallInv

LEMMA TakenFits ==
    ASSUME TypeOK, CallInv, NEW type, Receive(type)
    PROVE  \A i \in 1..Len(inbox') : EnvelopeFits(inbox'[i])
  BY InboxTail DEF CallInv

LEMMA SentFits ==
    ASSUME TypeOK, CallInv, NEW e \in Envelopes, EnvelopeFits(e), inbox' = Append(inbox, e)
    PROVE  \A i \in 1..Len(inbox') : EnvelopeFits(inbox'[i])
<1>1. /\ Len(inbox) \in Nat /\ Len(inbox') = Len(inbox) + 1
      /\ \A i \in 1..Len(inbox) : inbox'[i] = inbox[i]
      /\ inbox'[Len(inbox) + 1] = e
  BY InboxGrows
<1>2. \A i \in 1..Len(inbox') : i \in 1..Len(inbox) \/ i = Len(inbox) + 1
  BY <1>1
<1> QED BY <1>1, <1>2 DEF CallInv

(* The command that the store takes is the one its client waits for. *)
LEMMA TakenCommand ==
    ASSUME TypeOK, CallInv, NEW ops, ReceiveCommand(ops)
    PROVE  request[Head(inbox).client] = Head(inbox).command
<1>1. Head(inbox) = inbox[1] /\ 1 \in 1..Len(inbox) /\ inbox[1].type = "WithReply"
  BY InboxTail DEF ReceiveCommand
<1> QED BY <1>1 DEF CallInv, EnvelopeFits

LEMMA BlockCalls ==
    ASSUME TypeOK, WaiterIdsUnique, CallInv, BlockBlpop
    PROVE  CallInv'
<1>1. PICK c \in Clients, cmd \in Commands :
         c = Head(inbox).client /\ cmd = Head(inbox).command /\ cmd.op = "blpop"
  BY ReceiveCommandType DEF BlockBlpop
<1>2. request[c] = cmd
  BY <1>1, TakenCommand DEF BlockBlpop
<1>3. PICK new : new = waiter_id + 1
  OBVIOUS
<1>4. PICK w : w.id = new /\ w.client = c /\ w.keys = cmd.keys
               /\ waiters' = waiters \cup {w}
  BY <1>1, <1>3 DEF BlockBlpop, Waiter
<1>5. /\ waiter_id' = new /\ request' = request
      /\ timers' = IF cmd.finite THEN timers \cup {new} ELSE timers
  BY <1>1, <1>3 DEF BlockBlpop, Timer, clients
<1>6. waiter_id \in Nat /\ timers \subseteq Nat /\ \A v \in waiters : v.id \in Nat /\ v.id <= waiter_id
  BY DEF TypeOK, WaiterIdsUnique
<1>7. ASSUME NEW id \in Nat, TimerFits(id) PROVE TimerFits(id)'
  BY <1>3, <1>4, <1>5, <1>6, <1>7 DEF TimerFits
<1>8. cmd.finite => TimerFits(new)'
  BY <1>2, <1>3, <1>4, <1>5, <1>6 DEF TimerFits
<1>9. \A id \in timers' : TimerFits(id)'
  BY <1>3, <1>5, <1>6, <1>7, <1>8 DEF CallInv
<1>10. \A v \in waiters' : WaiterFits(v)'
  BY <1>1, <1>2, <1>4, <1>5 DEF CallInv, WaiterFits
<1>11. ASSUME NEW i \in 1..Len(inbox') PROVE EnvelopeFits(inbox[i])'
  <2>1. PICK e : e = inbox'[i]
    OBVIOUS
  <2>2. EnvelopeFits(e) /\ e \in Envelopes
    <3>1. inbox' \in Seq(Envelopes)
      BY ReceiveCommandType DEF BlockBlpop
    <3>2. EnvelopeFits(e)
      BY <2>1, TakenFits DEF BlockBlpop, ReceiveCommand
    <3> QED BY <2>1, <3>1, <3>2
  <2>3. EnvelopeFits(e)'
    BY <1>5, <1>7, <2>2, EnvelopeTypes DEF EnvelopeFits
  <2> QED BY <2>1, <2>3 DEF EnvelopeFits, TimerFits
<1> QED BY <1>9, <1>10, <1>11 DEF CallInv

LEMMA SendCalls ==
    ASSUME TypeOK, DebtInv, CallInv, NEW c \in Clients, Send(c)
    PROVE  CallInv'
<1>1. PICK cmd \in Commands : /\ inbox' = Append(inbox, WithReply(c, cmd))
                              /\ request' = [request EXCEPT ![c] = cmd]
  BY RequestType DEF Send, TypeOK
<1>2. PICK e \in Envelopes : e = WithReply(c, cmd)
  BY DEF WithReply, Envelopes
<1>3. e.type = "WithReply" /\ e.client = c /\ e.command = cmd
  BY <1>2 DEF WithReply
<1>4. /\ Len(inbox) \in Nat /\ Len(inbox') = Len(inbox) + 1
      /\ \A i \in 1..Len(inbox) : inbox'[i] = inbox[i]
      /\ inbox'[Len(inbox) + 1] = e
  BY <1>1, <1>2, InboxGrows
<1>5. ~Asked(c) /\ ~Waiting(c)
  BY DEF Send, DebtInv, OneDebt
<1>6. UNCHANGED <<waiters, waiter_id, timers>>
  BY DEF Send, store
<1>7. \A d : d # c => request'[d] = request[d]
  BY <1>1 DEF TypeOK
<1>8. request'[c] = cmd
  BY <1>1 DEF TypeOK
<1>9. \A w \in waiters : request'[w.client] = request[w.client]
  BY <1>5, <1>7 DEF Waiting
<1>10. \A id : TimerFits(id)' <=> TimerFits(id)
  BY <1>6, <1>9 DEF TimerFits
<1>11. \A w \in waiters' : WaiterFits(w)'
  BY <1>6, <1>9 DEF WaiterFits, CallInv
<1>12. ASSUME NEW i \in 1..Len(inbox') PROVE EnvelopeFits(inbox[i])'
  <2>1. PICK x : x = inbox'[i]
    OBVIOUS
  <2>2. EnvelopeFits(x)'
    <3>1. CASE i \in 1..Len(inbox)
      <4>1. x = inbox[i] /\ EnvelopeFits(x)
        BY <1>4, <2>1, <3>1 DEF CallInv
      <4>2. x.type = "WithReply" => x.client # c
        BY <1>5, <3>1, <4>1 DEF Asked
      <4> QED BY <1>7, <1>10, <4>1, <4>2 DEF EnvelopeFits
    <3>2. CASE i = Len(inbox) + 1
      BY <1>3, <1>4, <1>8, <2>1, <3>2 DEF EnvelopeFits
    <3> QED BY <1>4, <3>1, <3>2
  <2> QED BY <2>1, <2>2 DEF EnvelopeFits, TimerFits
<1> QED BY <1>6, <1>10, <1>11, <1>12 DEF CallInv

LEMMA NextCalls ==
    ASSUME LinearInv, [Next]_vars
    PROVE  CallInv'
<1> USE DEF LinearInv, WaitInv
<1> USE DEF store, channels, clients, history
<1>1. CASE StartPush
  BY <1>1, CallsStayFit, TakenFits DEF StartPush, ReceiveCommand
<1>2. CASE FinishPush
  BY <1>2, CallsStayFit DEF FinishPush, CallInv
<1>3. ASSUME NEW w \in waiters, ServeWaiter(w) \/ SkipWaiter(w) PROVE CallInv'
  <2>1. UNCHANGED <<request, waiter_id, timers, inbox>> /\ waiters' \subseteq waiters
    BY <1>3 DEF ServeWaiter, SkipWaiter
  <2> QED BY <2>1, CallsStayFit DEF CallInv
<1>4. CASE ExecLpop
  BY <1>4, CallsStayFit, TakenFits DEF ExecLpop, ReceiveCommand
<1>5. CASE ExecBlpop
  BY <1>5, CallsStayFit, TakenFits DEF ExecBlpop, ReceiveCommand
<1>6. CASE ExecSet
  BY <1>6, CallsStayFit, TakenFits DEF ExecSet, ReceiveCommand
<1>7. CASE ExecTimeout
  <2>1. UNCHANGED <<request, waiter_id, timers>> /\ waiters' \subseteq waiters
    BY <1>7 DEF ExecTimeout, TimeoutAnswers
  <2> QED BY <1>7, <2>1, CallsStayFit, TakenFits DEF ExecTimeout
<1>8. CASE ExecUnregister
  BY <1>8, CallsStayFit, TakenFits DEF ExecUnregister
<1>9. ASSUME NEW c \in Clients, WriteReply(c) \/ Disconnect(c) PROVE CallInv'
  <2>1. UNCHANGED <<request, waiter_id, timers, inbox, waiters>>
    BY <1>9 DEF WriteReply, Disconnect
  <2> QED BY <2>1, CallsStayFit DEF CallInv
<1>10. ASSUME NEW c \in Clients, CloseTask(c) PROVE CallInv'
  <2>1. UnregisterClient(c) \in Envelopes /\ EnvelopeFits(UnregisterClient(c))
    BY DEF UnregisterClient, Envelopes, EnvelopeFits
  <2> QED BY <1>10, <2>1, CallsStayFit, SentFits DEF CloseTask
<1>11. ASSUME NEW id \in timers, TimerFires(id) PROVE CallInv'
  <2>1. TimeoutBlpop(id) \in Envelopes /\ EnvelopeFits(TimeoutBlpop(id))
    BY DEF TimeoutBlpop, Envelopes, EnvelopeFits, TypeOK, CallInv
  <2> QED BY <1>11, <2>1, CallsStayFit, SentFits DEF TimerFires
<1>12. CASE UNCHANGED vars
  BY <1>12, CallsStayFit DEF vars, CallInv
<1> QED BY <1>1, <1>2, <1>3, <1>4, <1>5, <1>6, <1>7, <1>8, <1>9, <1>10, <1>11, <1>12,
           BlockCalls, SendCalls DEF Next, StoreStep

LEMMA LinearInvInductive ==
    /\ Init => LinearInv
    /\ LinearInv /\ [Next]_vars => LinearInv'
<1>1. Init => WaitInv /\ DebtInv
  BY InitType, InitDebts DEF Init, WaitInv, OnlyTodoCanBeServed, WaiterIdsUnique
<1>2. Init => CallInv
  <2>1. Init => Len(inbox) = 0
    BY DEF Init
  <2> QED BY <2>1 DEF Init, CallInv
<1>3. LinearInv /\ [Next]_vars => LinearInv'
  BY NextWait, NextDebts, NextCalls DEF LinearInv, WaitInv
<1> QED BY <1>1, <1>2, <1>3 DEF LinearInv


(* The operators of the abstract specification are those of the model. *)
LEMMA SameOperators ==
    /\ \A cmd, s : Linear!Pushed(cmd, s) = Pushed(cmd, s)
    /\ \A s : Linear!ListValue(s) = ListValue(s)
    /\ \A n, s : Linear!Popped(n, s) = Popped(n, s) /\ Linear!Remaining(n, s) = Remaining(n, s)
    /\ \A d, ks : /\ Linear!HasElement(d, ks) <=> HasElement(d, ks)
                  /\ Linear!FirstKey(d, ks) = FirstKey(d, ks)
    /\ \A d, k : Linear!PopHead(d, k) = PopHead(d, k)
    /\ \A n : Linear!Requests(n) = Requests(n)
    /\ \A cmd : Linear!Payload(cmd) = Payload(cmd)
    /\ Linear!StrValue = StrValue /\ Linear!Absent = Absent
<1>1. \A cmd, s : Linear!Pushed(cmd, s) = Pushed(cmd, s)
  BY DEF Pushed, Linear!Pushed, Backwards, Linear!Backwards
<1>2. \A s : Linear!ListValue(s) = ListValue(s)
  BY DEF ListValue, Linear!ListValue
<1>3. \A n, s : Linear!Popped(n, s) = Popped(n, s) /\ Linear!Remaining(n, s) = Remaining(n, s)
  BY DEF Popped, Linear!Popped, Remaining, Linear!Remaining
<1>4. \A d, k : Linear!NonEmpty(d, k) <=> NonEmpty(d, k)
  BY DEF NonEmpty, Linear!NonEmpty
<1>5. \A d, ks : Linear!HasElement(d, ks) <=> HasElement(d, ks)
  BY <1>4 DEF HasElement, Linear!HasElement
<1>6. \A d, ks : Linear!FirstKey(d, ks) = FirstKey(d, ks)
  BY DEF FirstKey, Linear!FirstKey, NonEmpty, Linear!NonEmpty
<1>7. \A d, k : Linear!PopHead(d, k) = PopHead(d, k)
  BY DEF PopHead, Linear!PopHead
<1>8. \A n : Linear!Requests(n) = Requests(n)
  BY DEF Requests, Linear!Requests, Filled, Linear!Filled, IsPush, Linear!IsPush,
         PushCommand, Linear!PushCommand, FreshElements, Linear!FreshElements
<1>9. \A cmd : Linear!Payload(cmd) = Payload(cmd)
  BY DEF Payload, Linear!Payload, IsPush, Linear!IsPush
<1>10. Linear!StrValue = StrValue /\ Linear!Absent = Absent
  BY DEF StrValue, Linear!StrValue, Absent, Linear!Absent
<1> QED BY <1>1, <1>2, <1>3, <1>5, <1>6, <1>7, <1>8, <1>9, <1>10

(* What one client is doing, in the terms of the abstract specification. *)
CallOf(c) ==
    IF task[c] # "awaiting" THEN Linear!Idle
    ELSE IF oneshot[c].ready THEN Linear!Decided(oneshot[c].els)
    ELSE IF pusher = c THEN Linear!Decided(<< >>)
    ELSE Linear!Called(request[c])

LEMMA CallIsCallOf ==
    /\ call = [c \in Clients |-> CallOf(c)]
    /\ call' = [c \in Clients |-> CallOf(c)']
<1>1. call = [c \in Clients |-> CallOf(c)]
  BY DEF call, CallOf, Linear!Idle, Linear!Decided, Linear!Called
<1>2. call' = [c \in Clients |-> CallOf(c)']
  BY DEF call, CallOf, Linear!Idle, Linear!Decided, Linear!Called
<1> QED BY <1>1, <1>2

LEMMA CallChanges ==
    ASSUME NEW c \in Clients, \A d \in Clients : d # c => CallOf(d)' = CallOf(d)
    PROVE  call' = [call EXCEPT ![c] = CallOf(c)']
<1> DEFINE was(d) == CallOf(d)
           is(d)  == CallOf(d)'
<1>1. call = [d \in Clients |-> was(d)] /\ call' = [d \in Clients |-> is(d)]
  BY CallIsCallOf
<1>2. \A d \in Clients : d # c => is(d) = was(d)
  OBVIOUS
<1> HIDE DEF was, is
<1>3. call' = [call EXCEPT ![c] = is(c)]
  BY <1>1, <1>2
<1> QED BY <1>3 DEF is

LEMMA CallStays ==
    ASSUME \A d \in Clients : CallOf(d)' = CallOf(d)
    PROVE  call' = call
<1> DEFINE was(d) == CallOf(d)
           is(d)  == CallOf(d)'
<1>1. call = [d \in Clients |-> was(d)] /\ call' = [d \in Clients |-> is(d)]
  BY CallIsCallOf
<1>2. \A d \in Clients : is(d) = was(d)
  OBVIOUS
<1> HIDE DEF was, is
<1> QED BY <1>1, <1>2

(* A reply put on a client's channel decides its call. *)
LEMMA AnswerDecides ==
    ASSUME TypeOK, NEW c \in Clients, NEW els, Answer(c, els), task[c] = "awaiting",
           UNCHANGED <<task, pusher, request>>
    PROVE  call' = [call EXCEPT ![c] = Linear!Decided(els)]
<1>1. \A d \in Clients : oneshot'[d] = IF d = c THEN Reply(els) ELSE oneshot[d]
  BY DEF Answer, TypeOK
<1>2. \A d \in Clients : d # c => CallOf(d)' = CallOf(d)
  BY <1>1 DEF CallOf
<1>3. CallOf(c)' = Linear!Decided(els)
  BY <1>1 DEF CallOf, Reply
<1> QED BY <1>2, <1>3, CallChanges

(* Who has a command in the inbox, or a waiter, has called. *)
LEMMA OwedIsCalled ==
    ASSUME DebtInv, NEW c \in Clients, Asked(c) \/ Waiting(c)
    PROVE  task[c] = "awaiting" /\ pusher # c /\ call[c] = Linear!Called(request[c])
<1>1. task[c] = "awaiting" /\ pusher # c /\ ~oneshot[c].ready
  BY DEF DebtInv, OneDebt
<1>2. call[c] = CallOf(c)
  BY CallIsCallOf
<1> QED BY <1>1, <1>2 DEF CallOf

LEMMA CommandIsCalled ==
    ASSUME LinearInv, NEW ops, ReceiveCommand(ops)
    PROVE  \E c \in Clients, cmd \in Commands :
              /\ c = Head(inbox).client /\ cmd = Head(inbox).command /\ cmd.op \in ops
              /\ task[c] = "awaiting" /\ pusher = NoClient /\ pusher # c
              /\ call[c].st = "called" /\ call[c].cmd = cmd
<1> USE DEF LinearInv, WaitInv
<1>1. PICK c \in Clients, cmd \in Commands :
        c = Head(inbox).client /\ cmd = Head(inbox).command /\ cmd.op \in ops
  BY ReceiveCommandType
<1>2. Asked(c) /\ request[c] = cmd
  BY <1>1, TakesCommand, TakenCommand DEF DebtInv
<1>3. pusher = NoClient
  BY DEF ReceiveCommand, Receive, StoreIdle
<1>4. task[c] = "awaiting" /\ pusher # c /\ call[c] = Linear!Called(cmd)
  BY <1>2, OwedIsCalled
<1>5. call[c].st = "called" /\ call[c].cmd = cmd
  BY <1>4 DEF Linear!Called
<1> QED BY <1>1, <1>3, <1>4, <1>5

LEMMA WaiterIsCalled ==
    ASSUME LinearInv, NEW w \in waiters
    PROVE  \E c, cmd :
              /\ c \in Clients /\ c = w.client /\ cmd = request[c] /\ cmd.op = "blpop" /\ cmd.keys = w.keys
              /\ task[c] = "awaiting" /\ call[c].st = "called" /\ call[c].cmd = cmd
<1>1. PICK c \in Clients : c = w.client
  BY DEF LinearInv, WaitInv, TypeOK
<1>2. Waiting(c)
  BY <1>1 DEF Waiting
<1>3. task[c] = "awaiting" /\ call[c] = Linear!Called(request[c])
  BY <1>2, OwedIsCalled DEF LinearInv
<1>4. request[c].op = "blpop" /\ request[c].keys = w.keys
  BY <1>1 DEF LinearInv, CallInv, WaiterFits
<1>5. call[c].st = "called" /\ call[c].cmd = request[c]
  BY <1>3 DEF Linear!Called
<1> QED BY <1>1, <1>3, <1>4, <1>5

LEMMA RefinedStoreStep ==
    ASSUME LinearInv, StoreStep
    PROVE  [Linear!Next]_(Linear!vars)
<1> USE DEF LinearInv, WaitInv
<1>1. CASE StartPush
  <2>1. PICK c \in Clients, cmd \in Commands :
          /\ c = Head(inbox).client /\ cmd = Head(inbox).command /\ cmd.op \in {"rpush", "lpush"}
          /\ task[c] = "awaiting" /\ pusher = NoClient /\ pusher # c
          /\ call[c].st = "called" /\ call[c].cmd = cmd
    BY <1>1, CommandIsCalled DEF StartPush
  <2>2. /\ data' = [data EXCEPT ![cmd.key] = ListValue(Pushed(cmd, @.list))]
        /\ pusher' = c /\ UNCHANGED <<oneshot, task, request, used>>
    BY <1>1, <2>1 DEF StartPush, PushElements, clients, history
  <2>3. CallOf(c)' = Linear!Decided(<< >>)
    <3>1. CASE oneshot[c].ready
      <4>1. call[c] = CallOf(c)
        BY CallIsCallOf
      <4> QED BY <2>1, <3>1, <4>1 DEF CallOf, Linear!Decided
    <3>2. CASE ~oneshot[c].ready
      BY <2>1, <2>2, <3>2 DEF CallOf
    <3> QED BY <3>1, <3>2
  <2>4. \A d \in Clients : d # c => CallOf(d)' = CallOf(d)
    BY <2>1, <2>2, NoClientAssumption DEF CallOf
  <2>5. call' = [call EXCEPT ![c] = Linear!Decided(<< >>)]
    BY <2>3, <2>4, CallChanges
  <2>6. data' = [data EXCEPT ![cmd.key] = Linear!ListValue(Linear!Pushed(cmd, @.list))]
    BY <2>2, SameOperators
  <2>7. Linear!Push(c)
    BY <2>1, <2>2, <2>5, <2>6 DEF Linear!Push, Linear!Takes
  <2> QED BY <2>7 DEF Linear!Next
<1>2. CASE FinishPush
  <2>1. PICK c \in Clients : c = pusher
    BY <1>2 DEF FinishPush, TypeOK
  <2>2. UNCHANGED <<data, task, request, used>> /\ pusher' = NoClient /\ Answer(c, << >>)
    BY <1>2, <2>1 DEF FinishPush, clients, history
  <2>3. \A d \in Clients : oneshot'[d] = IF d = c THEN Reply(<< >>) ELSE oneshot[d]
    BY <2>2 DEF Answer, TypeOK
  <2>4. task[c] = "awaiting" /\ ~oneshot[c].ready
    BY <2>1 DEF DebtInv, OneDebt
  <2>5. ASSUME NEW d \in Clients PROVE CallOf(d)' = CallOf(d)
    BY <2>1, <2>2, <2>3, <2>4, NoClientAssumption DEF CallOf, Reply
  <2> QED BY <2>2, <2>5, CallStays DEF Linear!vars
<1>3. ASSUME NEW w \in waiters, ServeWaiter(w) PROVE [Linear!Next]_(Linear!vars)
  <2>1. PICK c, cmd :
          /\ c \in Clients /\ c = w.client /\ cmd = request[c] /\ cmd.op = "blpop" /\ cmd.keys = w.keys
          /\ task[c] = "awaiting" /\ call[c].st = "called" /\ call[c].cmd = cmd
    BY WaiterIsCalled
  <2>2. PICK k : k = FirstKey(data, w.keys)
    OBVIOUS
  <2>3. /\ HasElement(data, w.keys) /\ data' = PopHead(data, k)
        /\ Answer(c, <<Head(data[k].list)>>)
        /\ UNCHANGED <<task, pusher, request, used>>
    BY <1>3, <2>1, <2>2 DEF ServeWaiter, clients, history
  <2>4. call' = [call EXCEPT ![c] = Linear!Decided(<<Head(data[k].list)>>)]
    BY <2>1, <2>3, AnswerDecides
  <2>5. /\ Linear!HasElement(data, call[c].cmd.keys)
        /\ k = Linear!FirstKey(data, call[c].cmd.keys)
        /\ data' = Linear!PopHead(data, k)
    BY <2>1, <2>2, <2>3, SameOperators
  <2>6. Linear!Blpop(c)
    BY <2>1, <2>3, <2>4, <2>5 DEF Linear!Blpop, Linear!Takes
  <2> QED BY <2>1, <2>6 DEF Linear!Next
<1>4. ASSUME UNCHANGED <<data, oneshot, pusher, task, request, used>>
      PROVE  [Linear!Next]_(Linear!vars)
  <2>1. \A d \in Clients : CallOf(d)' = CallOf(d)
    BY <1>4 DEF CallOf
  <2> QED BY <1>4, <2>1, CallStays DEF Linear!vars
<1>5. ASSUME NEW w \in waiters, SkipWaiter(w) PROVE [Linear!Next]_(Linear!vars)
  BY <1>4, <1>5 DEF SkipWaiter, channels, clients, history
<1>6. CASE ExecLpop
  <2>1. PICK c \in Clients, cmd \in Commands :
          /\ c = Head(inbox).client /\ cmd = Head(inbox).command /\ cmd.op \in {"lpop"}
          /\ task[c] = "awaiting" /\ pusher = NoClient /\ pusher # c
          /\ call[c].st = "called" /\ call[c].cmd = cmd
    BY <1>6, CommandIsCalled DEF ExecLpop
  <2>2. PICK s : s = data[cmd.key].list
    OBVIOUS
  <2>3. /\ data' = [data EXCEPT ![cmd.key].list = Remaining(cmd.count, s)]
        /\ Answer(c, Popped(cmd.count, s))
        /\ UNCHANGED <<task, pusher, request, used>>
    BY <1>6, <2>1, <2>2 DEF ExecLpop, clients, history
  <2>4. call' = [call EXCEPT ![c] = Linear!Decided(Popped(cmd.count, s))]
    BY <2>1, <2>3, AnswerDecides
  <2>5. Linear!Lpop(c)
    BY <2>1, <2>2, <2>3, <2>4, SameOperators DEF Linear!Lpop, Linear!Takes
  <2> QED BY <2>5 DEF Linear!Next
<1>7. CASE ExecBlpop
  <2>1. PICK c \in Clients, cmd \in Commands :
          /\ c = Head(inbox).client /\ cmd = Head(inbox).command /\ cmd.op \in {"blpop"}
          /\ task[c] = "awaiting" /\ pusher = NoClient /\ pusher # c
          /\ call[c].st = "called" /\ call[c].cmd = cmd
    BY <1>7, CommandIsCalled DEF ExecBlpop
  <2>2. PICK k : k = FirstKey(data, cmd.keys)
    OBVIOUS
  <2>3. /\ HasElement(data, cmd.keys) /\ data' = PopHead(data, k)
        /\ Answer(c, <<Head(data[k].list)>>)
        /\ UNCHANGED <<task, pusher, request, used>>
    BY <1>7, <2>1, <2>2 DEF ExecBlpop, clients, history
  <2>4. call' = [call EXCEPT ![c] = Linear!Decided(<<Head(data[k].list)>>)]
    BY <2>1, <2>3, AnswerDecides
  <2>5. /\ Linear!HasElement(data, call[c].cmd.keys)
        /\ k = Linear!FirstKey(data, call[c].cmd.keys)
        /\ data' = Linear!PopHead(data, k)
    BY <2>1, <2>2, <2>3, SameOperators
  <2>6. Linear!Blpop(c)
    BY <2>1, <2>3, <2>4, <2>5 DEF Linear!Blpop, Linear!Takes
  <2> QED BY <2>6 DEF Linear!Next
<1>8. CASE BlockBlpop
  BY <1>4, <1>8 DEF BlockBlpop, clients, history
<1>9. CASE ExecSet
  <2>1. PICK c \in Clients, cmd \in Commands :
          /\ c = Head(inbox).client /\ cmd = Head(inbox).command /\ cmd.op \in {"set"}
          /\ task[c] = "awaiting" /\ pusher = NoClient /\ pusher # c
          /\ call[c].st = "called" /\ call[c].cmd = cmd
    BY <1>9, CommandIsCalled DEF ExecSet
  <2>2. /\ data' = [data EXCEPT ![cmd.key] = StrValue] /\ Answer(c, << >>)
        /\ UNCHANGED <<task, pusher, request, used>>
    BY <1>9, <2>1 DEF ExecSet, clients
  <2>3. call' = [call EXCEPT ![c] = Linear!Decided(<< >>)]
    BY <2>1, <2>2, AnswerDecides
  <2>4. Linear!Set(c)
    BY <2>1, <2>2, <2>3, SameOperators DEF Linear!Set, Linear!Takes
  <2> QED BY <2>4 DEF Linear!Next
<1>10. CASE ExecTimeout
  <2>1. /\ UNCHANGED <<data, pusher, task, request, used>> /\ StoreIdle
        /\ Head(inbox) = inbox[1] /\ 1 \in 1..Len(inbox) /\ inbox[1].type = "TimeoutBlpop"
    BY <1>10, InboxTail DEF ExecTimeout, Receive, clients, history
  <2>2. ASSUME NEW w \in waiters, w.id = Head(inbox).waiter_id, TimeoutAnswers(w)
        PROVE  [Linear!Next]_(Linear!vars)
    <3>1. PICK c, cmd :
            /\ c \in Clients /\ c = w.client /\ cmd = request[c] /\ cmd.op = "blpop" /\ cmd.keys = w.keys
            /\ task[c] = "awaiting" /\ call[c].st = "called" /\ call[c].cmd = cmd
      BY WaiterIsCalled
    <3>2. cmd.finite
      BY <2>1, <2>2, <3>1 DEF CallInv, EnvelopeFits, TimerFits
    <3>3. ~HasElement(data, w.keys)
      BY <2>1 DEF OnlyTodoCanBeServed
    <3>4. call' = [call EXCEPT ![c] = Linear!Decided(<< >>)]
      BY <2>1, <2>2, <3>1, AnswerDecides DEF TimeoutAnswers
    <3>5. ~Linear!HasElement(data, call[c].cmd.keys)
      BY <3>1, <3>3, SameOperators
    <3>6. Linear!GiveUp(c)
      BY <2>1, <3>1, <3>2, <3>4, <3>5 DEF Linear!GiveUp, Linear!Takes
    <3> QED BY <3>1, <3>6 DEF Linear!Next
  <2>3. CASE UNCHANGED oneshot
    BY <1>4, <2>1, <2>3
  <2> QED BY <1>10, <2>2, <2>3 DEF ExecTimeout
<1>11. CASE ExecUnregister
  BY <1>4, <1>11 DEF ExecUnregister, store, clients, history
<1> QED BY <1>1, <1>2, <1>3, <1>5, <1>6, <1>7, <1>8, <1>9, <1>10, <1>11 DEF StoreStep

LEMMA RefinedStep ==
    ASSUME LinearInv, [Next]_vars
    PROVE  [Linear!Next]_(Linear!vars)
<1> USE DEF LinearInv, WaitInv
<1>1. ASSUME NEW c \in Clients, Send(c) PROVE [Linear!Next]_(Linear!vars)
  <2>1. PICK cmd \in Requests(used) :
          request' = [request EXCEPT ![c] = cmd] /\ used' = used + Len(Payload(cmd))
    BY <1>1 DEF Send
  <2>2. task[c] = "reading" /\ UNCHANGED <<data, pusher, oneshot>>
    BY <1>1 DEF Send, store
  <2>3. \A d \in Clients : /\ task'[d] = IF d = c THEN "awaiting" ELSE task[d]
                           /\ request'[d] = IF d = c THEN cmd ELSE request[d]
    BY <1>1, <2>1 DEF Send, TypeOK
  <2>4. ~oneshot[c].ready /\ pusher # c
    BY <2>2 DEF DebtInv, OneDebt
  <2>5. CallOf(c)' = Linear!Called(cmd)
    BY <2>2, <2>3, <2>4 DEF CallOf
  <2>6. \A d \in Clients : d # c => CallOf(d)' = CallOf(d)
    BY <2>2, <2>3 DEF CallOf
  <2>7. call' = [call EXCEPT ![c] = Linear!Called(cmd)]
    BY <2>5, <2>6, CallChanges
  <2>8. call[c] = Linear!Idle
    BY <2>2, CallIsCallOf DEF CallOf
  <2>9. Linear!Invoke(c)
    BY <2>1, <2>2, <2>7, <2>8, SameOperators DEF Linear!Invoke
  <2> QED BY <2>9 DEF Linear!Next
<1>2. ASSUME NEW c \in Clients, WriteReply(c) PROVE [Linear!Next]_(Linear!vars)
  <2>1. /\ task[c] = "awaiting" /\ oneshot[c].ready
        /\ UNCHANGED <<data, pusher, request, used>>
    BY <1>2 DEF WriteReply, store
  <2>2. \A d \in Clients : /\ task'[d] = IF d = c THEN "reading" ELSE task[d]
                           /\ oneshot'[d] = IF d = c THEN NoReply ELSE oneshot[d]
    BY <1>2 DEF WriteReply, TypeOK
  <2>3. CallOf(c)' = Linear!Idle
    BY <2>2 DEF CallOf
  <2>4. \A d \in Clients : d # c => CallOf(d)' = CallOf(d)
    BY <2>1, <2>2 DEF CallOf
  <2>5. call' = [call EXCEPT ![c] = Linear!Idle]
    BY <2>3, <2>4, CallChanges
  <2>6. call[c].st = "decided"
    BY <2>1, CallIsCallOf DEF CallOf, Linear!Decided
  <2>7. Linear!Return(c)
    BY <2>1, <2>5, <2>6 DEF Linear!Return
  <2> QED BY <2>7 DEF Linear!Next
<1>3. ASSUME UNCHANGED <<data, oneshot, pusher, request, used>>,
             \A d \in Clients : (task'[d] = "awaiting") <=> (task[d] = "awaiting")
      PROVE  [Linear!Next]_(Linear!vars)
  <2>1. \A d \in Clients : CallOf(d)' = CallOf(d)
    BY <1>3 DEF CallOf
  <2> QED BY <1>3, <2>1, CallStays DEF Linear!vars
<1>4. ASSUME NEW c \in Clients, Disconnect(c) \/ CloseTask(c)
      PROVE  [Linear!Next]_(Linear!vars)
  <2>1. UNCHANGED <<data, oneshot, pusher, request, used>>
    BY <1>4 DEF Disconnect, CloseTask, store, channels, history
  <2>2. \A d \in Clients : (task'[d] = "awaiting") <=> (task[d] = "awaiting")
    BY <1>4 DEF Disconnect, CloseTask, TypeOK
  <2> QED BY <1>3, <2>1, <2>2
<1>5. ASSUME NEW id \in timers, TimerFires(id) PROVE [Linear!Next]_(Linear!vars)
  BY <1>3, <1>5 DEF TimerFires, store, clients, history
<1>6. CASE UNCHANGED vars
  BY <1>3, <1>6 DEF vars, store, channels, clients, history
<1> QED BY <1>1, <1>2, <1>4, <1>5, <1>6, RefinedStoreStep DEF Next

LEMMA RefinedInit == Init => Linear!Init
<1> SUFFICES ASSUME Init PROVE Linear!Init
  OBVIOUS
<1>1. call = [c \in Clients |-> Linear!Idle]
  BY CallIsCallOf DEF Init, CallOf
<1> QED BY <1>1, SameOperators DEF Init, Linear!Init

(* The store task, its waiters and its timers behave, for every client, as if
   each list command took effect at one instant between the call and the
   reply; a BLPOP gives up only if its timeout is finite, and only at an
   instant at which all of its lists are empty.                              *)
THEOREM ListsAreLinearizable == Spec => Linearizable
<1>1. LinearInv /\ [Next]_vars => [Linear!Next]_(Linear!vars)
  BY RefinedStep
<1> QED BY <1>1, LinearInvInductive, RefinedInit, PTL DEF Spec, Linearizable, Linear!Spec


-----------------------------------------------------------------------------
(* No element is lost or handed out twice.                                 *)

(* The inductive form.  The elements lie in boxes: the commands under way, one
   for each client since it has at most one in the inbox, the lists, the
   replies under way, what the peers were sent, and the two ways the code may
   lose some.  The boxes share out the elements that were sent, no sequence
   holds one twice, and a channel without a reply holds none, so that an
   answer overwrites nothing.                                                *)
Elements(s) == {s[i] : i \in 1..Len(s)}
OnceEach(s) == \A i, j \in 1..Len(s) : s[i] = s[j] => i = j

Flying(c) == IF Asked(c) THEN Payload(request[c]) ELSE << >>

Boxes == ({"flying", "reply", "peer"} \X Clients) \cup ({"list"} \X Keys)
         \cup ({"lost", "overwritten"} \X {0})

Contents(x) ==
    IF x[1] = "flying" THEN Elements(Flying(x[2]))
    ELSE IF x[1] = "reply" THEN Elements(oneshot[x[2]].els)
    ELSE IF x[1] = "peer" THEN delivered[x[2]]
    ELSE IF x[1] = "list" THEN Elements(data[x[2]].list)
    ELSE IF x[1] = "lost" THEN lost
    ELSE overwritten

SharedOut ==
    /\ \A x, y \in Boxes : \A e \in Contents(x) : e \in Contents(y) => x = y
    /\ \A e : (e \in 1..used) <=> \E x \in Boxes : e \in Contents(x)

SequencesOnceEach ==
    /\ \A c \in Clients : OnceEach(Flying(c)) /\ OnceEach(oneshot[c].els)
    /\ \A k \in Keys : OnceEach(data[k].list)

SilentChannels == \A c \in Clients : ~oneshot[c].ready => oneshot[c].els = << >>

ShareInv == SharedOut /\ SequencesOnceEach /\ SilentChannels


(* The elements of the sequences that the operations build. *)
LEMMA NoElements == Elements(<< >>) = {} /\ OnceEach(<< >>)
  BY DEF Elements, OnceEach

LEMMA OneElement == \A e : Elements(<<e>>) = {e} /\ OnceEach(<<e>>)
  BY DEF Elements, OnceEach

LEMMA FreshOnce ==
    ASSUME NEW m \in Nat, NEW n \in Nat
    PROVE  /\ Elements(FreshElements(m, n)) = (m + 1)..(m + n)
           /\ OnceEach(FreshElements(m, n)) /\ Len(FreshElements(m, n)) = n
<1> DEFINE s == FreshElements(m, n)
<1>1. Len(s) = n /\ \A i \in 1..n : s[i] = m + i
  BY DEF FreshElements
<1> HIDE DEF s
<1>2. OnceEach(s)
  BY <1>1 DEF OnceEach
<1>3. ASSUME NEW e \in Elements(s) PROVE e \in (m + 1)..(m + n)
  BY <1>1 DEF Elements
<1>4. ASSUME NEW e \in (m + 1)..(m + n) PROVE e \in Elements(s)
  <2>1. PICK i \in 1..n : i = e - m
    OBVIOUS
  <2>2. s[i] = e /\ i \in 1..Len(s)
    BY <1>1, <2>1
  <2> QED BY <2>2 DEF Elements
<1> QED BY <1>1, <1>2, <1>3, <1>4 DEF s

LEMMA JoinedOnce ==
    ASSUME NEW s \in Seq(Nat), NEW t \in Seq(Nat)
    PROVE  /\ Elements(s \o t) = Elements(s) \cup Elements(t)
           /\ OnceEach(s) /\ OnceEach(t) /\ Elements(s) \cap Elements(t) = {} => OnceEach(s \o t)
<1> DEFINE u == s \o t
<1>1. /\ Len(s) \in Nat /\ Len(t) \in Nat /\ Len(u) = Len(s) + Len(t)
      /\ \A i \in 1..Len(s) : u[i] = s[i]
      /\ \A i \in 1..Len(t) : u[Len(s) + i] = t[i]
  OBVIOUS
<1> HIDE DEF u
<1>2. ASSUME NEW i \in 1..Len(u), ~(i \in 1..Len(s))
      PROVE  i - Len(s) \in 1..Len(t) /\ u[i] = t[i - Len(s)]
  <2>1. i - Len(s) \in 1..Len(t) /\ Len(s) + (i - Len(s)) = i
    BY <1>1, <1>2
  <2> QED BY <1>1, <2>1
<1>3. ASSUME NEW e \in Elements(u) PROVE e \in Elements(s) \/ e \in Elements(t)
  <2>1. PICK i \in 1..Len(u) : e = u[i]
    BY DEF Elements
  <2>2. CASE i \in 1..Len(s)
    BY <1>1, <2>1, <2>2 DEF Elements
  <2>3. CASE ~(i \in 1..Len(s))
    <3>1. PICK j \in 1..Len(t) : e = t[j]
      BY <1>2, <2>1, <2>3
    <3> QED BY <3>1 DEF Elements
  <2> QED BY <2>2, <2>3
<1>4. ASSUME NEW e, e \in Elements(s) \/ e \in Elements(t) PROVE e \in Elements(u)
  <2>1. CASE e \in Elements(s)
    BY <1>1, <2>1 DEF Elements
  <2>2. CASE e \in Elements(t)
    <3>1. PICK i \in 1..Len(t) : e = t[i]
      BY <2>2 DEF Elements
    <3>2. Len(s) + i \in 1..Len(u) /\ u[Len(s) + i] = e
      BY <1>1, <3>1
    <3> QED BY <3>2 DEF Elements
  <2> QED BY <1>4, <2>1, <2>2
<1>5. ASSUME OnceEach(s), OnceEach(t), Elements(s) \cap Elements(t) = {},
             NEW i \in 1..Len(u), NEW j \in 1..Len(u), u[i] = u[j]
      PROVE  i = j
  <2>1. CASE i \in 1..Len(s) /\ j \in 1..Len(s)
    BY <1>1, <1>5, <2>1 DEF OnceEach
  <2>2. CASE ~(i \in 1..Len(s)) /\ ~(j \in 1..Len(s))
    <3>1. i - Len(s) = j - Len(s)
      BY <1>2, <1>5, <2>2 DEF OnceEach
    <3> QED BY <1>1, <3>1
  <2>3. ASSUME NEW a \in 1..Len(s), NEW b \in 1..Len(u), ~(b \in 1..Len(s))
        PROVE  u[a] # u[b]
    <3>1. u[a] \in Elements(s)
      BY <1>1 DEF Elements
    <3>2. PICK k : k = b - Len(s)
      OBVIOUS
    <3>3. k \in 1..Len(t) /\ u[b] = t[k]
      BY <1>2, <2>3, <3>2
    <3>4. u[b] \in Elements(t)
      BY <3>3 DEF Elements
    <3> QED BY <1>5, <3>1, <3>4
  <2> QED BY <1>5, <2>1, <2>2, <2>3
<1> QED BY <1>3, <1>4, <1>5 DEF u, OnceEach

LEMMA BackwardsOnce ==
    ASSUME NEW s \in Seq(Nat)
    PROVE  Elements(Backwards(s)) = Elements(s) /\ (OnceEach(s) => OnceEach(Backwards(s)))
<1> DEFINE t == Backwards(s)
<1>1. /\ Len(s) \in Nat /\ Len(t) = Len(s)
      /\ \A i \in 1..Len(s) : t[i] = s[Len(s) + 1 - i]
  BY DEF Backwards
<1>2. \A i \in 1..Len(s) : /\ Len(s) + 1 - i \in 1..Len(s)
                           /\ Len(s) + 1 - (Len(s) + 1 - i) = i
  BY <1>1
<1> HIDE DEF t
<1>3. Elements(t) = Elements(s)
  <2>1. ASSUME NEW e \in Elements(s) PROVE e \in Elements(t)
    <3>1. PICK i \in 1..Len(s) : e = s[i]
      BY DEF Elements
    <3>2. PICK j \in 1..Len(s) : j = Len(s) + 1 - i /\ Len(s) + 1 - j = i
      BY <1>2
    <3> QED BY <1>1, <3>1, <3>2 DEF Elements
  <2>2. ASSUME NEW e \in Elements(t) PROVE e \in Elements(s)
    <3>1. PICK i \in 1..Len(s) : e = t[i]
      BY <1>1 DEF Elements
    <3>2. PICK j \in 1..Len(s) : j = Len(s) + 1 - i
      BY <1>2
    <3> QED BY <1>1, <3>1, <3>2 DEF Elements
  <2> QED BY <2>1, <2>2
<1>4. ASSUME OnceEach(s), NEW i \in 1..Len(t), NEW j \in 1..Len(t), t[i] = t[j]
      PROVE  i = j
  <2>1. Len(s) + 1 - i = Len(s) + 1 - j
    BY <1>1, <1>2, <1>4 DEF OnceEach
  <2> QED BY <1>1, <2>1
<1> QED BY <1>3, <1>4 DEF t, OnceEach

LEMMA PushedOnce ==
    ASSUME NEW cmd \in Commands, IsPush(cmd), NEW s \in Seq(Nat)
    PROVE  /\ Elements(Pushed(cmd, s)) = Elements(s) \cup Elements(cmd.els)
           /\ OnceEach(s) /\ OnceEach(cmd.els) /\ Elements(s) \cap Elements(cmd.els) = {}
              => OnceEach(Pushed(cmd, s))
<1>1. cmd.els \in Seq(Nat) /\ Backwards(cmd.els) \in Seq(Nat)
  BY CommandTypes, BackwardsType DEF IsPush
<1>2. CASE cmd.op = "rpush"
  BY <1>1, <1>2, JoinedOnce DEF Pushed
<1>3. CASE cmd.op # "rpush"
  BY <1>1, <1>3, JoinedOnce, BackwardsOnce DEF Pushed
<1> QED BY <1>2, <1>3

(* An LPOP takes some elements and leaves the others. *)
LEMMA PoppedOnce ==
    ASSUME NEW n \in Nat, NEW s \in Seq(Nat), OnceEach(s)
    PROVE  /\ Elements(Popped(n, s)) \subseteq Elements(s)
           /\ Elements(Remaining(n, s)) = Elements(s) \ Elements(Popped(n, s))
           /\ OnceEach(Popped(n, s)) /\ OnceEach(Remaining(n, s))
<1> DEFINE p == Popped(n, s)
           r == Remaining(n, s)
<1>1. PICK m \in Nat : m = IF n < Len(s) THEN n ELSE Len(s)
  OBVIOUS
<1>2. m <= Len(s) /\ p = SubSeq(s, 1, m) /\ r = SubSeq(s, m + 1, Len(s))
  <2>1. p = SubSeq(s, 1, m)
    BY <1>1 DEF Popped
  <2>2. r = SubSeq(s, m + 1, Len(s))
    <3>1. CASE n < Len(s)
      BY <1>1, <3>1 DEF Remaining
    <3>2. CASE ~(n < Len(s))
      BY <1>1, <3>2 DEF Remaining
    <3> QED BY <3>1, <3>2
  <2> QED BY <1>1, <2>1, <2>2
<1> HIDE DEF p, r
<1>3. /\ Len(s) \in Nat /\ Len(p) = m /\ Len(r) = Len(s) - m
      /\ \A i \in 1..m : p[i] = s[i]
      /\ \A i \in 1..(Len(s) - m) : r[i] = s[m + i]
  BY <1>2
<1>4. \A i \in 1..m : i \in 1..Len(s)
  BY <1>2, <1>3
<1>5. \A i \in 1..(Len(s) - m) : m + i \in 1..Len(s) /\ ~(m + i \in 1..m)
  BY <1>2, <1>3
<1>6. Elements(p) \subseteq Elements(s) /\ OnceEach(p)
  BY <1>3, <1>4 DEF Elements, OnceEach
<1>7. OnceEach(r)
  <2> SUFFICES ASSUME NEW i \in 1..Len(r), NEW j \in 1..Len(r), r[i] = r[j] PROVE i = j
    BY DEF OnceEach
  <2>1. PICK a \in 1..Len(s), b \in 1..Len(s) : a = m + i /\ b = m + j
    BY <1>3, <1>5
  <2>2. s[a] = s[b]
    BY <1>3, <2>1
  <2>3. a = b
    BY <2>2 DEF OnceEach
  <2> QED BY <1>3, <2>1, <2>3
<1>8. ASSUME NEW e \in Elements(r) PROVE e \in Elements(s) /\ e \notin Elements(p)
  <2>1. PICK i \in 1..Len(r) : e = r[i]
    BY DEF Elements
  <2>2. PICK a \in 1..Len(s) : a = m + i /\ ~(a \in 1..m) /\ e = s[a]
    BY <1>3, <1>5, <2>1
  <2>3. ASSUME NEW j \in 1..m, e = s[j] PROVE FALSE
    BY <1>4, <2>2, <2>3 DEF OnceEach
  <2> QED BY <1>3, <2>2, <2>3 DEF Elements
<1>9. ASSUME NEW e \in Elements(s), e \notin Elements(p) PROVE e \in Elements(r)
  <2>1. PICK i \in 1..Len(s) : e = s[i]
    BY DEF Elements
  <2>2. ~(i \in 1..m)
    BY <1>3, <1>9, <2>1 DEF Elements
  <2>3. i - m \in 1..(Len(s) - m) /\ m + (i - m) = i
    BY <1>2, <1>3, <2>2
  <2>4. r[i - m] = s[i]
    BY <1>3, <2>3
  <2> QED BY <1>3, <2>1, <2>3, <2>4 DEF Elements
<1>10. Elements(r) = Elements(s) \ Elements(p)
  BY <1>8, <1>9
<1> QED BY <1>6, <1>7, <1>10 DEF p, r

(* A BLPOP that is served takes the head. *)
LEMMA HeadOnce ==
    ASSUME NEW s \in Seq(Nat), s # << >>, OnceEach(s)
    PROVE  /\ Head(s) \in Elements(s) /\ Elements(Tail(s)) = Elements(s) \ {Head(s)}
           /\ OnceEach(Tail(s))
<1>1. Len(s) \in Nat /\ Len(s) >= 1
  OBVIOUS
<1>2. SubSeq(s, 1, 1) = <<Head(s)>> /\ SubSeq(s, 2, Len(s)) = Tail(s)
  <2>1. SubSeq(s, 1, 1) = <<Head(s)>>
    <3> DEFINE t == SubSeq(s, 1, 1)
    <3>1. t \in Seq(Nat) /\ Len(t) = 1 /\ t[1] = s[1]
      BY <1>1, SubSeqProperties
    <3> HIDE DEF t
    <3>2. t = <<s[1]>>
      BY <3>1
    <3> QED BY <3>2 DEF t
  <2>2. SubSeq(s, 2, Len(s)) = Tail(s)
    BY TailIsSubSeq
  <2> QED BY <2>1, <2>2
<1>3. Popped(1, s) = <<Head(s)>>
  <2>1. (IF 1 < Len(s) THEN 1 ELSE Len(s)) = 1
    BY <1>1
  <2> QED BY <1>2, <2>1 DEF Popped
<1>4. Remaining(1, s) = Tail(s)
  BY <1>2 DEF Remaining
<1>5. Elements(<<Head(s)>>) = {Head(s)}
  BY OneElement
<1>6. /\ Elements(Popped(1, s)) \subseteq Elements(s)
      /\ Elements(Remaining(1, s)) = Elements(s) \ Elements(Popped(1, s))
      /\ OnceEach(Remaining(1, s))
  BY PoppedOnce
<1> QED BY <1>3, <1>4, <1>5, <1>6


(* Some elements go from one box to another. *)
LEMMA MovesBetween ==
    ASSUME SharedOut, used' = used, NEW a \in Boxes, NEW b \in Boxes, a # b,
           NEW M, M \subseteq Contents(a),
           Contents(a)' = Contents(a) \ M, Contents(b)' = Contents(b) \cup M,
           \A x \in Boxes : x # a /\ x # b => Contents(x)' = Contents(x)
    PROVE  SharedOut'
<1> DEFINE was(x) == Contents(x)
           is(x)  == Contents(x)'
<1>1. /\ \A x, y \in Boxes : \A e \in was(x) : e \in was(y) => x = y
      /\ \A e : (e \in 1..used) <=> \E x \in Boxes : e \in was(x)
      /\ M \subseteq was(a) /\ is(a) = was(a) \ M /\ is(b) = was(b) \cup M
      /\ \A x \in Boxes : x # a /\ x # b => is(x) = was(x)
  BY DEF SharedOut
<1> HIDE DEF was, is
<1>2. \A x, y \in Boxes : \A e \in is(x) : e \in is(y) => x = y
  <2> SUFFICES ASSUME NEW x \in Boxes, NEW y \in Boxes, NEW e \in is(x), e \in is(y)
               PROVE  x = y
    OBVIOUS
  <2>1. CASE e \in M
    <3>1. \A z \in Boxes : e \in is(z) => z = b
      BY <1>1, <2>1
    <3> QED BY <3>1
  <2>2. CASE e \notin M
    <3>1. \A z \in Boxes : e \in is(z) => e \in was(z)
      BY <1>1, <2>2
    <3> QED BY <1>1, <3>1
  <2> QED BY <2>1, <2>2
<1>3. ASSUME NEW e PROVE (\E x \in Boxes : e \in is(x)) <=> \E x \in Boxes : e \in was(x)
  BY <1>1
<1>4. \A e : (e \in 1..used) <=> \E x \in Boxes : e \in is(x)
  BY <1>1, <1>3
<1> QED BY <1>2, <1>4 DEF was, is, SharedOut

LEMMA MovesNothing ==
    ASSUME SharedOut, used' = used, \A x \in Boxes : Contents(x)' = Contents(x)
    PROVE  SharedOut'
  BY DEF SharedOut

(* The boxes, one by one, before and after a step. *)
LEMMA BoxKinds ==
    ASSUME NEW x \in Boxes
    PROVE  \/ \E c \in Clients : x = <<"flying", c>>
           \/ \E c \in Clients : x = <<"reply", c>>
           \/ \E c \in Clients : x = <<"peer", c>>
           \/ \E k \in Keys : x = <<"list", k>>
           \/ x = <<"lost", 0>> \/ x = <<"overwritten", 0>>
  BY DEF Boxes

LEMMA BoxesAre ==
    /\ \A c \in Clients : <<"flying", c>> \in Boxes /\ <<"reply", c>> \in Boxes /\ <<"peer", c>> \in Boxes
    /\ \A k \in Keys : <<"list", k>> \in Boxes
    /\ <<"lost", 0>> \in Boxes /\ <<"overwritten", 0>> \in Boxes
  BY DEF Boxes

LEMMA ContentsAre ==
    /\ \A c : /\ Contents(<<"flying", c>>) = Elements(Flying(c))
              /\ Contents(<<"reply", c>>) = Elements(oneshot[c].els)
              /\ Contents(<<"peer", c>>) = delivered[c]
    /\ \A k : Contents(<<"list", k>>) = Elements(data[k].list)
    /\ Contents(<<"lost", 0>>) = lost
    /\ Contents(<<"overwritten", 0>>) = overwritten
  BY DEF Contents

LEMMA ContentsBecome ==
    /\ \A c : /\ Contents(<<"flying", c>>)' = Elements(Flying(c)')
              /\ Contents(<<"reply", c>>)' = Elements(oneshot'[c].els)
              /\ Contents(<<"peer", c>>)' = delivered'[c]
    /\ \A k : Contents(<<"list", k>>)' = Elements(data'[k].list)
    /\ Contents(<<"lost", 0>>)' = lost'
    /\ Contents(<<"overwritten", 0>>)' = overwritten'
  BY DEF Contents, Elements

(* A box that a step does not touch keeps what is in it. *)
LEMMA UntouchedBox ==
    ASSUME NEW x \in Boxes,
           \A c \in Clients : /\ x = <<"flying", c>> => Flying(c)' = Flying(c)
                              /\ x = <<"reply", c>> => oneshot'[c].els = oneshot[c].els
                              /\ x = <<"peer", c>> => delivered'[c] = delivered[c],
           \A k \in Keys : x = <<"list", k>> => data'[k].list = data[k].list,
           x = <<"lost", 0>> => lost' = lost,
           x = <<"overwritten", 0>> => overwritten' = overwritten
    PROVE  Contents(x)' = Contents(x)
<1>1. ASSUME NEW c \in Clients, x = <<"flying", c>> PROVE Contents(x)' = Contents(x)
  BY <1>1, ContentsAre, ContentsBecome
<1>2. ASSUME NEW c \in Clients, x = <<"reply", c>> PROVE Contents(x)' = Contents(x)
  BY <1>2, ContentsAre, ContentsBecome
<1>3. ASSUME NEW c \in Clients, x = <<"peer", c>> PROVE Contents(x)' = Contents(x)
  BY <1>3, ContentsAre, ContentsBecome
<1>4. ASSUME NEW k \in Keys, x = <<"list", k>> PROVE Contents(x)' = Contents(x)
  BY <1>4, ContentsAre, ContentsBecome
<1>5. CASE x = <<"lost", 0>> \/ x = <<"overwritten", 0>>
  BY <1>5, ContentsAre, ContentsBecome
<1> QED BY <1>1, <1>2, <1>3, <1>4, <1>5, BoxKinds

(* What a command carries, and what an answer changes. *)
LEMMA FlyingType ==
    ASSUME TypeOK, CallInv, NEW c \in Clients
    PROVE  Flying(c) \in Seq(Nat)
<1>1. CASE Asked(c)
  <2>1. PICK i \in 1..Len(inbox) : inbox[i].type = "WithReply" /\ inbox[i].client = c
    BY <1>1 DEF Asked
  <2>2. inbox[i] \in Envelopes
    BY DEF TypeOK
  <2>3. request[c] \in Commands
    BY <2>1, <2>2, EnvelopeTypes DEF CallInv, EnvelopeFits
  <2> QED BY <1>1, <2>3, CommandTypes, ShortReplyType DEF Flying, Payload, IsPush
<1>2. CASE ~Asked(c)
  BY <1>2, ShortReplyType DEF Flying
<1> QED BY <1>1, <1>2

LEMMA TakesFlying ==
    ASSUME LinearInv, NEW ops, ReceiveCommand(ops), request' = request
    PROVE  \E c \in Clients, cmd \in Commands :
              /\ c = Head(inbox).client /\ cmd = Head(inbox).command /\ cmd.op \in ops
              /\ Flying(c) = Payload(cmd) /\ Flying(c)' = << >>
              /\ \A d : d # c => Flying(d)' = Flying(d)
              /\ ~oneshot[c].ready
<1> USE DEF LinearInv, WaitInv
<1>1. PICK c \in Clients, cmd \in Commands :
        c = Head(inbox).client /\ cmd = Head(inbox).command /\ cmd.op \in ops
  BY ReceiveCommandType
<1>2. Asked(c) /\ \A d : Asked(d)' <=> Asked(d) /\ d # c
  BY <1>1, TakesCommand DEF DebtInv
<1>3. request[c] = cmd
  BY <1>1, TakenCommand
<1>4. Flying(c)' = << >>
  BY <1>2 DEF Flying
<1>5. \A d : d # c => Flying(d)' = Flying(d)
  BY <1>2 DEF Flying
<1>6. Flying(c) = Payload(cmd)
  BY <1>2, <1>3 DEF Flying
<1>7. ~oneshot[c].ready
  BY <1>2 DEF DebtInv, OneDebt
<1> QED BY <1>1, <1>4, <1>5, <1>6, <1>7


(* A step that moves no element. *)
LEMMA NothingMoves ==
    ASSUME ShareInv, UNCHANGED <<data, delivered, lost, overwritten, used>>,
           \A c \in Clients : /\ Flying(c)' = Flying(c)
                              /\ oneshot'[c].els = oneshot[c].els
                              /\ oneshot[c].ready => oneshot'[c].ready
    PROVE  ShareInv'
<1>1. ASSUME NEW x \in Boxes PROVE Contents(x)' = Contents(x)
  BY UntouchedBox
<1>2. SharedOut'
  BY <1>1, MovesNothing DEF ShareInv
<1>3. SequencesOnceEach' /\ SilentChannels'
  BY DEF ShareInv, SequencesOnceEach, SilentChannels
<1> QED BY <1>2, <1>3 DEF ShareInv

(* An empty answer to a client whose channel holds nothing moves no element. *)
LEMMA EmptyAnswerMovesNothing ==
    ASSUME TypeOK, ShareInv, NEW c \in Clients, ~oneshot[c].ready, Answer(c, << >>)
    PROVE  \A d \in Clients : /\ oneshot'[d].els = oneshot[d].els
                              /\ oneshot[d].ready => oneshot'[d].ready
<1>1. \A d \in Clients : oneshot'[d] = IF d = c THEN Reply(<< >>) ELSE oneshot[d]
  BY DEF Answer, TypeOK
<1>2. oneshot[c].els = << >>
  BY DEF ShareInv, SilentChannels
<1> QED BY <1>1, <1>2 DEF Reply

(* Elements are taken off a list and answered. *)
LEMMA TakenOffAndAnswered ==
    ASSUME TypeOK, ShareInv, NEW c \in Clients, ~oneshot[c].ready, NEW k \in Keys,
           NEW p, NEW r,
           Elements(p) \subseteq Elements(data[k].list),
           Elements(r) = Elements(data[k].list) \ Elements(p),
           OnceEach(p), OnceEach(r),
           Answer(c, p), data' = [data EXCEPT ![k].list = r],
           \A d \in Clients : Flying(d)' = Flying(d),
           UNCHANGED <<delivered, lost, overwritten, used>>
    PROVE  ShareInv'
<1>1. \A d \in Clients : oneshot'[d] = IF d = c THEN Reply(p) ELSE oneshot[d]
  BY DEF Answer, TypeOK
<1>2. data'[k].list = r /\ \A j \in Keys : j # k => data'[j] = data[j]
  <2>1. "list" \in DOMAIN data[k]
    BY DEF TypeOK, Values, Absent, StrValue
  <2>2. data \in [Keys -> Values]
    BY DEF TypeOK
  <2> QED BY <2>1, <2>2
<1>3. oneshot[c].els = << >> /\ oneshot'[c].els = p
  BY <1>1 DEF ShareInv, SilentChannels, Reply
<1>4. /\ Contents(<<"list", k>>)' = Contents(<<"list", k>>) \ Elements(p)
      /\ Contents(<<"reply", c>>)' = Contents(<<"reply", c>>) \cup Elements(p)
  BY <1>2, <1>3, ContentsAre, ContentsBecome, NoElements
<1>5. ASSUME NEW x \in Boxes, x # <<"list", k>>, x # <<"reply", c>>
      PROVE  Contents(x)' = Contents(x)
  BY <1>1, <1>2, <1>5, UntouchedBox
<1>6. /\ <<"list", k>> \in Boxes /\ <<"reply", c>> \in Boxes /\ <<"list", k>> # <<"reply", c>>
      /\ Elements(p) \subseteq Contents(<<"list", k>>)
  BY BoxesAre, ContentsAre
<1>7. SharedOut'
  <2> HIDE DEF Contents
  <2>1. PICK a \in Boxes, b \in Boxes, M \in {Elements(p)} :
          a = <<"list", k>> /\ b = <<"reply", c>> /\ M = Elements(p)
    BY <1>6
  <2>2. a # b /\ M \subseteq Contents(a)
    BY <1>6, <2>1
  <2>3. Contents(a)' = Contents(a) \ M /\ Contents(b)' = Contents(b) \cup M
    BY <1>4, <2>1
  <2>4. \A x \in Boxes : x # a /\ x # b => Contents(x)' = Contents(x)
    BY <1>5, <2>1
  <2>5. SharedOut /\ used' = used
    BY DEF ShareInv
  <2> QED BY <2>2, <2>3, <2>4, <2>5, MovesBetween
<1>8. SequencesOnceEach'
  <2>1. ASSUME NEW d \in Clients PROVE OnceEach(Flying(d)') /\ OnceEach(oneshot'[d].els)
    BY <1>1, <1>3 DEF ShareInv, SequencesOnceEach
  <2>2. ASSUME NEW j \in Keys PROVE OnceEach(data'[j].list)
    BY <1>2 DEF ShareInv, SequencesOnceEach
  <2> QED BY <2>1, <2>2 DEF SequencesOnceEach, OnceEach
<1>9. SilentChannels'
  BY <1>1 DEF ShareInv, SilentChannels, Reply
<1> QED BY <1>7, <1>8, <1>9 DEF ShareInv

(* The store takes the head of a list for a client. *)
LEMMA HeadAnswered ==
    ASSUME TypeOK, ShareInv, NEW c \in Clients, ~oneshot[c].ready,
           NEW k \in Keys, NonEmpty(data, k),
           Answer(c, <<Head(data[k].list)>>), data' = PopHead(data, k),
           \A d \in Clients : Flying(d)' = Flying(d),
           UNCHANGED <<delivered, lost, overwritten, used>>
    PROVE  ShareInv'
<1>1. PICK s : s = data[k].list
  OBVIOUS
<1>2. s \in Seq(Nat) /\ s # << >> /\ OnceEach(s)
  BY <1>1, ShrinkType DEF TypeOK, NonEmpty, ShareInv, SequencesOnceEach
<1>3. Head(s) \in Elements(s) /\ Elements(Tail(s)) = Elements(s) \ {Head(s)} /\ OnceEach(Tail(s))
  BY <1>2, HeadOnce
<1>4. PICK p, r : p = <<Head(s)>> /\ r = Tail(s) /\ Elements(p) = {Head(s)} /\ OnceEach(p)
  BY OneElement
<1>5. data' = [data EXCEPT ![k].list = r] /\ Answer(c, p)
  BY <1>1, <1>4 DEF PopHead
<1>6. Elements(p) \subseteq Elements(s) /\ Elements(r) = Elements(s) \ Elements(p) /\ OnceEach(r)
  BY <1>3, <1>4
<1> QED BY <1>1, <1>4, <1>5, <1>6, TakenOffAndAnswered


(* A push puts what its command carried into the list. *)
LEMMA PushShares ==
    ASSUME LinearInv, ShareInv, StartPush
    PROVE  ShareInv'
<1> USE DEF LinearInv, WaitInv
<1>1. PICK c \in Clients, cmd \in Commands :
        /\ c = Head(inbox).client /\ cmd = Head(inbox).command /\ cmd.op \in {"rpush", "lpush"}
        /\ Flying(c) = Payload(cmd) /\ Flying(c)' = << >>
        /\ \A d : d # c => Flying(d)' = Flying(d)
  BY TakesFlying DEF StartPush, clients
<1>2. PICK k \in Keys, s \in Seq(Nat) : k = cmd.key /\ s = data[k].list
  BY <1>1, CommandTypes, ShrinkType DEF TypeOK
<1>3. PICK t : t = Pushed(cmd, s)
  OBVIOUS
<1>4. IsPush(cmd) /\ Payload(cmd) = cmd.els
  BY <1>1 DEF IsPush, Payload
<1>5. /\ data'[k].list = t /\ \A j \in Keys : j # k => data'[j] = data[j]
      /\ UNCHANGED <<oneshot, delivered, lost, overwritten, used>>
  <2>1. data' = [data EXCEPT ![k] = ListValue(t)] /\ data \in [Keys -> Values]
    BY <1>1, <1>2, <1>3 DEF StartPush, PushElements, TypeOK
  <2>2. UNCHANGED <<oneshot, delivered, lost, overwritten, used>>
    BY DEF StartPush, history
  <2> QED BY <2>1, <2>2 DEF ListValue
<1>6. OnceEach(s) /\ OnceEach(cmd.els)
  BY <1>1, <1>2, <1>4 DEF ShareInv, SequencesOnceEach
<1>7. PICK a \in Boxes, b \in Boxes, M \in {Elements(cmd.els)} :
        a = <<"flying", c>> /\ b = <<"list", k>> /\ M = Elements(cmd.els)
  BY BoxesAre
<1>8. a # b /\ Contents(a) = M /\ Contents(b) = Elements(s)
  BY <1>1, <1>2, <1>4, <1>7, ContentsAre
<1>9. M \cap Elements(s) = {}
  BY <1>8 DEF ShareInv, SharedOut
<1>10. Elements(t) = Elements(s) \cup M /\ OnceEach(t)
  BY <1>3, <1>4, <1>6, <1>7, <1>9, PushedOnce
<1>11. Contents(a)' = Contents(a) \ M /\ Contents(b)' = Contents(b) \cup M
  <2>1. Contents(<<"flying", c>>)' = {} /\ Contents(<<"list", k>>)' = Elements(t)
    BY <1>1, <1>5, ContentsBecome, NoElements
  <2> QED BY <1>7, <1>8, <1>10, <2>1
<1>12. ASSUME NEW x \in Boxes, x # a, x # b PROVE Contents(x)' = Contents(x)
  BY <1>1, <1>5, <1>7, <1>12, UntouchedBox
<1>13. SharedOut'
  BY <1>5, <1>8, <1>11, <1>12, MovesBetween DEF ShareInv
<1>14. SequencesOnceEach'
  <2>1. ASSUME NEW d \in Clients PROVE OnceEach(Flying(d)') /\ OnceEach(oneshot'[d].els)
    BY <1>1, <1>5, NoElements DEF ShareInv, SequencesOnceEach
  <2>2. ASSUME NEW j \in Keys PROVE OnceEach(data'[j].list)
    BY <1>5, <1>10 DEF ShareInv, SequencesOnceEach
  <2> QED BY <2>1, <2>2 DEF SequencesOnceEach, OnceEach
<1>15. SilentChannels'
  BY <1>5 DEF ShareInv, SilentChannels
<1> QED BY <1>13, <1>14, <1>15 DEF ShareInv

(* A SET throws away what the list held. *)
LEMMA SetShares ==
    ASSUME LinearInv, ShareInv, ExecSet
    PROVE  ShareInv'
<1> USE DEF LinearInv, WaitInv
<1>1. PICK c \in Clients, cmd \in Commands :
        /\ c = Head(inbox).client /\ cmd = Head(inbox).command /\ cmd.op \in {"set"}
        /\ Flying(c) = Payload(cmd) /\ Flying(c)' = << >>
        /\ \A d : d # c => Flying(d)' = Flying(d)
        /\ ~oneshot[c].ready
  BY TakesFlying DEF ExecSet, clients
<1>2. \A d : Flying(d)' = Flying(d)
  BY <1>1 DEF Payload, IsPush
<1>3. PICK k \in Keys, s \in Seq(Nat) : k = cmd.key /\ s = data[k].list
  BY <1>1, CommandTypes, ShrinkType DEF TypeOK
<1>4. /\ data'[k].list = << >> /\ \A j \in Keys : j # k => data'[j] = data[j]
      /\ overwritten' = overwritten \cup Elements(s)
      /\ UNCHANGED <<delivered, lost, used>> /\ Answer(c, << >>)
  <2>1. data' = [data EXCEPT ![k] = StrValue] /\ data \in [Keys -> Values]
    BY <1>1, <1>3 DEF ExecSet, TypeOK
  <2>2. /\ overwritten' = overwritten \cup Elements(s)
        /\ UNCHANGED <<delivered, lost, used>> /\ Answer(c, << >>)
    BY <1>1, <1>3 DEF ExecSet, Elements
  <2> QED BY <2>1, <2>2 DEF StrValue
<1>5. \A d \in Clients : /\ oneshot'[d].els = oneshot[d].els
                         /\ oneshot[d].ready => oneshot'[d].ready
  BY <1>1, <1>4, EmptyAnswerMovesNothing
<1>6. PICK a \in Boxes, b \in Boxes, M \in {Elements(s)} :
        a = <<"list", k>> /\ b = <<"overwritten", 0>> /\ M = Elements(s)
  BY BoxesAre
<1>7. a # b /\ Contents(a) = M /\ Contents(b) = overwritten
  BY <1>3, <1>6, ContentsAre
<1>8. Contents(a)' = Contents(a) \ M /\ Contents(b)' = Contents(b) \cup M
  <2>1. Contents(<<"list", k>>)' = {} /\ Contents(<<"overwritten", 0>>)' = overwritten'
    BY <1>4, ContentsBecome, NoElements
  <2> QED BY <1>4, <1>6, <1>7, <2>1
<1>9. ASSUME NEW x \in Boxes, x # a, x # b PROVE Contents(x)' = Contents(x)
  BY <1>2, <1>4, <1>5, <1>6, <1>9, UntouchedBox
<1>10. SharedOut'
  BY <1>4, <1>7, <1>8, <1>9, MovesBetween DEF ShareInv
<1>11. SequencesOnceEach'
  <2>1. ASSUME NEW d \in Clients PROVE OnceEach(Flying(d)') /\ OnceEach(oneshot'[d].els)
    BY <1>2, <1>5 DEF ShareInv, SequencesOnceEach
  <2>2. ASSUME NEW j \in Keys PROVE OnceEach(data'[j].list)
    BY <1>4, NoElements DEF ShareInv, SequencesOnceEach
  <2> QED BY <2>1, <2>2 DEF SequencesOnceEach, OnceEach
<1>12. SilentChannels'
  BY <1>5 DEF ShareInv, SilentChannels
<1> QED BY <1>10, <1>11, <1>12 DEF ShareInv

(* The other steps of the store. *)
LEMMA StoreStepShares ==
    ASSUME LinearInv, ShareInv, StoreStep
    PROVE  ShareInv'
<1> USE DEF LinearInv, WaitInv
<1>1. CASE FinishPush
  <2>1. PICK c \in Clients : c = pusher
    BY <1>1 DEF FinishPush, TypeOK
  <2>2. ~oneshot[c].ready
    BY <2>1 DEF DebtInv, OneDebt
  <2>3. UNCHANGED <<data, inbox, request, delivered, lost, overwritten, used>> /\ Answer(c, << >>)
    BY <1>1, <2>1 DEF FinishPush, clients, history
  <2>4. \A d \in Clients : Flying(d)' = Flying(d)
    BY <2>3 DEF Flying, Asked
  <2> QED BY <2>2, <2>3, <2>4, EmptyAnswerMovesNothing, NothingMoves
<1>2. ASSUME NEW w \in waiters, ServeWaiter(w) PROVE ShareInv'
  <2>1. PICK c \in Clients : c = w.client
    BY DEF TypeOK
  <2>2. ~oneshot[c].ready
    BY <2>1 DEF DebtInv, OneDebt, Waiting
  <2>3. PICK k \in Keys : k = FirstKey(data, w.keys) /\ NonEmpty(data, k)
    BY <1>2, FirstKeyType DEF ServeWaiter, TypeOK
  <2>4. /\ data' = PopHead(data, k) /\ Answer(c, <<Head(data[k].list)>>)
        /\ UNCHANGED <<inbox, request, delivered, lost, overwritten, used>>
    BY <1>2, <2>1, <2>3 DEF ServeWaiter, clients, history
  <2>5. \A d \in Clients : Flying(d)' = Flying(d)
    BY <2>4 DEF Flying, Asked
  <2> QED BY <2>2, <2>3, <2>4, <2>5, HeadAnswered
<1>3. ASSUME NEW w \in waiters, SkipWaiter(w) PROVE ShareInv'
  <2>1. UNCHANGED <<data, inbox, request, oneshot, delivered, lost, overwritten, used>>
    BY <1>3 DEF SkipWaiter, channels, clients, history
  <2>2. \A d \in Clients : Flying(d)' = Flying(d)
    BY <2>1 DEF Flying, Asked
  <2> QED BY <2>1, <2>2, NothingMoves
<1>4. CASE ExecLpop
  <2>1. PICK c \in Clients, cmd \in Commands :
          /\ c = Head(inbox).client /\ cmd = Head(inbox).command /\ cmd.op \in {"lpop"}
          /\ Flying(c) = Payload(cmd) /\ Flying(c)' = << >>
          /\ \A d : d # c => Flying(d)' = Flying(d)
          /\ ~oneshot[c].ready
    BY <1>4, TakesFlying DEF ExecLpop, clients
  <2>2. \A d \in Clients : Flying(d)' = Flying(d)
    BY <2>1 DEF Payload, IsPush
  <2>3. PICK k \in Keys, n \in Nat, s \in Seq(Nat) :
          k = cmd.key /\ n = cmd.count /\ s = data[k].list
    BY <2>1, CommandTypes, ShrinkType DEF TypeOK
  <2>4. PICK p, r : p = Popped(n, s) /\ r = Remaining(n, s)
    OBVIOUS
  <2>5. /\ data' = [data EXCEPT ![k].list = r] /\ Answer(c, p)
        /\ UNCHANGED <<delivered, lost, overwritten, used>>
    BY <1>4, <2>1, <2>3, <2>4 DEF ExecLpop, history
  <2>6. OnceEach(s)
    BY <2>3 DEF ShareInv, SequencesOnceEach
  <2>7. /\ Elements(p) \subseteq Elements(s) /\ Elements(r) = Elements(s) \ Elements(p)
        /\ OnceEach(p) /\ OnceEach(r)
    BY <2>4, <2>6, PoppedOnce
  <2> QED BY <2>1, <2>2, <2>3, <2>5, <2>7, TakenOffAndAnswered
<1>5. CASE ExecBlpop
  <2>1. PICK c \in Clients, cmd \in Commands :
          /\ c = Head(inbox).client /\ cmd = Head(inbox).command /\ cmd.op \in {"blpop"}
          /\ Flying(c) = Payload(cmd) /\ Flying(c)' = << >>
          /\ \A d : d # c => Flying(d)' = Flying(d)
          /\ ~oneshot[c].ready
    BY <1>5, TakesFlying DEF ExecBlpop, clients
  <2>2. \A d \in Clients : Flying(d)' = Flying(d)
    BY <2>1 DEF Payload, IsPush
  <2>3. cmd.keys \in Seq(Keys) /\ HasElement(data, cmd.keys) /\ data \in [Keys -> Values]
    BY <1>5, <2>1, CommandTypes DEF ExecBlpop, TypeOK
  <2>4. PICK k \in Keys : k = FirstKey(data, cmd.keys) /\ NonEmpty(data, k)
    BY <2>3, FirstKeyType
  <2>5. /\ data' = PopHead(data, k) /\ Answer(c, <<Head(data[k].list)>>)
        /\ UNCHANGED <<delivered, lost, overwritten, used>>
    BY <1>5, <2>1, <2>4 DEF ExecBlpop, history
  <2> QED BY <2>1, <2>2, <2>4, <2>5, HeadAnswered
<1>6. CASE BlockBlpop
  <2>1. PICK c \in Clients, cmd \in Commands :
          /\ cmd.op \in {"blpop"} /\ Flying(c) = Payload(cmd) /\ Flying(c)' = << >>
          /\ \A d : d # c => Flying(d)' = Flying(d)
    BY <1>6, TakesFlying DEF BlockBlpop, clients
  <2>2. \A d \in Clients : Flying(d)' = Flying(d)
    BY <2>1 DEF Payload, IsPush
  <2>3. UNCHANGED <<data, oneshot, delivered, lost, overwritten, used>>
    BY <1>6 DEF BlockBlpop, history
  <2> QED BY <2>2, <2>3, NothingMoves
<1>7. CASE ExecTimeout \/ ExecUnregister
  <2>1. \A d : Asked(d)' <=> Asked(d)
    BY <1>7, TakesOther DEF ExecTimeout, ExecUnregister, DebtInv
  <2>2. UNCHANGED <<data, request, delivered, lost, overwritten, used>>
    BY <1>7 DEF ExecTimeout, ExecUnregister, store, clients, history
  <2>3. \A d \in Clients : Flying(d)' = Flying(d)
    BY <2>1, <2>2 DEF Flying
  <2>4. CASE UNCHANGED oneshot
    BY <2>2, <2>3, <2>4, NothingMoves
  <2>5. ASSUME NEW w \in waiters, TimeoutAnswers(w) PROVE ShareInv'
    <3>1. PICK c \in Clients : c = w.client
      BY DEF TypeOK
    <3>2. ~oneshot[c].ready /\ Answer(c, << >>)
      BY <2>5, <3>1 DEF DebtInv, OneDebt, Waiting, TimeoutAnswers
    <3> QED BY <2>2, <2>3, <3>2, EmptyAnswerMovesNothing, NothingMoves
  <2> QED BY <1>7, <2>4, <2>5 DEF ExecTimeout, ExecUnregister
<1> QED BY <1>1, <1>2, <1>3, <1>4, <1>5, <1>6, <1>7, PushShares, SetShares DEF StoreStep


(* A push that is sent carries the next elements. *)
LEMMA PayloadIsFresh ==
    ASSUME NEW m \in Nat, NEW cmd \in Requests(m)
    PROVE  \E n \in Nat : Payload(cmd) = FreshElements(m, n) /\ Len(Payload(cmd)) = n
<1>1. PICK shape \in Menu : cmd = Filled(shape, m)
  BY DEF Requests
<1>2. shape \in Shapes
  BY MenuAssumption
<1>3. CASE IsPush(shape)
  <2>1. shape.size \in Nat
    BY <1>2, <1>3 DEF Shapes, IsPush
  <2>2. Payload(cmd) = FreshElements(m, shape.size)
    BY <1>1, <1>3 DEF Filled, PushCommand, Payload, IsPush
  <2> QED BY <2>1, <2>2, FreshOnce
<1>4. CASE ~IsPush(shape)
  <2>1. Payload(cmd) = << >>
    BY <1>1, <1>4 DEF Filled, Payload
  <2>2. FreshElements(m, 0) = << >>
    BY FreshElementsType
  <2> QED BY <2>1, <2>2
<1> QED BY <1>3, <1>4

LEMMA SendShares ==
    ASSUME LinearInv, ShareInv, NEW c \in Clients, Send(c)
    PROVE  ShareInv'
<1> USE DEF LinearInv, WaitInv
<1>1. PICK cmd \in Requests(used) :
        /\ inbox' = Append(inbox, WithReply(c, cmd))
        /\ request' = [request EXCEPT ![c] = cmd]
        /\ used' = used + Len(Payload(cmd))
  BY DEF Send
<1>2. PICK m \in Nat, n \in Nat : m = used /\ Payload(cmd) = FreshElements(m, n) /\ used' = m + n
  BY <1>1, PayloadIsFresh DEF TypeOK
<1>3. PICK p : p = Payload(cmd) /\ Elements(p) = (m + 1)..(m + n) /\ OnceEach(p)
  BY <1>2, FreshOnce
<1>4. ~Asked(c)
  BY DEF Send, DebtInv, OneDebt
<1>5. \A d : Asked(d)' <=> Asked(d) \/ d = c
  <2>1. PICK e \in Envelopes : e = WithReply(c, cmd)
    <3>1. cmd \in Commands
      BY RequestType DEF TypeOK
    <3> QED BY <3>1 DEF WithReply, Envelopes
  <2>2. e.type = "WithReply" /\ e.client = c
    BY <2>1 DEF WithReply
  <2> QED BY <1>1, <1>4, <2>1, <2>2, SendsCommand DEF DebtInv
<1>6. Flying(c) = << >> /\ Flying(c)' = p /\ \A d \in Clients : d # c => Flying(d)' = Flying(d)
  <2>1. request'[c] = cmd /\ \A d \in Clients : d # c => request'[d] = request[d]
    BY <1>1 DEF TypeOK
  <2> QED BY <1>3, <1>4, <1>5, <2>1 DEF Flying
<1>7. UNCHANGED <<data, oneshot, delivered, lost, overwritten>>
  BY DEF Send, store
<1>8. SharedOut'
  <2> DEFINE was(x) == Contents(x)
             is(x)  == Contents(x)'
  <2>1. PICK a \in Boxes : a = <<"flying", c>>
    BY BoxesAre
  <2>2. was(a) = {} /\ is(a) = (m + 1)..(m + n)
    <3>1. Contents(<<"flying", c>>) = {} /\ Contents(<<"flying", c>>)' = Elements(p)
      BY <1>6, ContentsAre, ContentsBecome, NoElements
    <3> QED BY <1>3, <2>1, <3>1
  <2>3. ASSUME NEW x \in Boxes, x # a PROVE is(x) = was(x)
    BY <1>6, <1>7, <2>1, <2>3, UntouchedBox
  <2>4. /\ \A x, y \in Boxes : \A e \in was(x) : e \in was(y) => x = y
        /\ \A e : (e \in 1..m) <=> \E x \in Boxes : e \in was(x)
    BY <1>2 DEF ShareInv, SharedOut
  <2> HIDE DEF was, is
  <2>5. \A e : e \in 1..(m + n) <=> e \in 1..m \/ e \in (m + 1)..(m + n)
    OBVIOUS
  <2>6. \A e : ~(e \in 1..m /\ e \in (m + 1)..(m + n))
    OBVIOUS
  <2>7. ASSUME NEW e PROVE (e \in 1..(m + n)) <=> \E x \in Boxes : e \in is(x)
    BY <2>2, <2>3, <2>4, <2>5
  <2>8. ASSUME NEW x \in Boxes, NEW y \in Boxes, NEW e \in is(x), e \in is(y) PROVE x = y
    <3>1. ASSUME NEW z \in Boxes, z # a, e \in is(z) PROVE e \in 1..m
      BY <2>3, <2>4, <3>1
    <3>2. CASE e \in 1..m
      <4>1. x # a /\ y # a
        BY <2>2, <2>6, <2>8, <3>2
      <4> QED BY <2>3, <2>4, <2>8, <4>1
    <3>3. CASE ~(e \in 1..m)
      BY <2>8, <3>1, <3>3
    <3> QED BY <3>2, <3>3
  <2> QED BY <1>2, <2>7, <2>8 DEF was, is, SharedOut
<1>9. SequencesOnceEach'
  <2>1. ASSUME NEW d \in Clients PROVE OnceEach(Flying(d)') /\ OnceEach(oneshot'[d].els)
    BY <1>3, <1>6, <1>7 DEF ShareInv, SequencesOnceEach
  <2> QED BY <1>7, <2>1 DEF ShareInv, SequencesOnceEach, OnceEach
<1>10. SilentChannels'
  BY <1>7 DEF ShareInv, SilentChannels
<1> QED BY <1>8, <1>9, <1>10 DEF ShareInv

(* A reply goes to the peer, or is lost with it. *)
LEMMA WriteShares ==
    ASSUME LinearInv, ShareInv, NEW c \in Clients, WriteReply(c)
    PROVE  ShareInv'
<1> USE DEF LinearInv, WaitInv
<1>1. \A d \in Clients : Flying(d)' = Flying(d)
  BY DEF WriteReply, Flying, Asked
<1>2. UNCHANGED <<data, overwritten, used>>
  BY DEF WriteReply, store
<1>3. \A d \in Clients : oneshot'[d] = IF d = c THEN NoReply ELSE oneshot[d]
  BY DEF WriteReply, TypeOK
<1>4. PICK M : M = Elements(oneshot[c].els)
  OBVIOUS
<1>5. \/ delivered' = [delivered EXCEPT ![c] = @ \cup M] /\ lost' = lost
      \/ lost' = lost \cup M /\ delivered' = delivered
  BY <1>4 DEF WriteReply, Elements
<1>6. PICK a \in Boxes : a = <<"reply", c>>
  BY BoxesAre
<1>7. Contents(a) = M /\ Contents(a)' = Contents(a) \ M
  <2>1. Contents(<<"reply", c>>) = M /\ Contents(<<"reply", c>>)' = {}
    BY <1>3, <1>4, ContentsAre, ContentsBecome, NoElements DEF NoReply
  <2> QED BY <1>6, <2>1
<1>8. PICK b \in Boxes :
        /\ a # b /\ Contents(b)' = Contents(b) \cup M
        /\ \A d \in Clients : b # <<"peer", d>> => delivered'[d] = delivered[d]
        /\ b # <<"lost", 0>> => lost' = lost
  <2>1. CASE delivered' = [delivered EXCEPT ![c] = @ \cup M] /\ lost' = lost
    <3>1. \A d \in Clients : delivered'[d] = IF d = c THEN delivered[d] \cup M ELSE delivered[d]
      BY <2>1 DEF TypeOK
    <3>2. PICK b \in Boxes : b = <<"peer", c>>
      BY BoxesAre
    <3>3. Contents(<<"peer", c>>)' = Contents(<<"peer", c>>) \cup M
      BY <3>1, ContentsAre, ContentsBecome
    <3>4. Contents(b)' = Contents(b) \cup M /\ a # b
      BY <1>6, <3>2, <3>3
    <3>5. \A d \in Clients : b # <<"peer", d>> => delivered'[d] = delivered[d]
      BY <3>1, <3>2
    <3> QED BY <2>1, <3>4, <3>5
  <2>2. CASE lost' = lost \cup M /\ delivered' = delivered
    <3>1. PICK b \in Boxes : b = <<"lost", 0>>
      BY BoxesAre
    <3>2. Contents(<<"lost", 0>>)' = Contents(<<"lost", 0>>) \cup M
      BY <2>2, ContentsAre, ContentsBecome
    <3>3. Contents(b)' = Contents(b) \cup M /\ a # b
      BY <1>6, <3>1, <3>2
    <3> QED BY <2>2, <3>1, <3>3
  <2> QED BY <1>5, <2>1, <2>2
<1>9. ASSUME NEW x \in Boxes, x # a, x # b PROVE Contents(x)' = Contents(x)
  BY <1>1, <1>2, <1>3, <1>6, <1>8, <1>9, UntouchedBox
<1>10. SharedOut'
  BY <1>2, <1>7, <1>8, <1>9, MovesBetween DEF ShareInv
<1>11. SequencesOnceEach'
  <2>1. ASSUME NEW d \in Clients PROVE OnceEach(Flying(d)') /\ OnceEach(oneshot'[d].els)
    BY <1>1, <1>3, NoElements DEF ShareInv, SequencesOnceEach, NoReply
  <2> QED BY <1>2, <2>1 DEF ShareInv, SequencesOnceEach, OnceEach
<1>12. SilentChannels'
  BY <1>3 DEF ShareInv, SilentChannels, NoReply
<1> QED BY <1>10, <1>11, <1>12 DEF ShareInv

LEMMA NextShares ==
    ASSUME LinearInv, ShareInv, [Next]_vars
    PROVE  ShareInv'
<1> USE DEF LinearInv, WaitInv
<1>1. ASSUME UNCHANGED <<data, oneshot, request, history>>, \A d : Asked(d)' <=> Asked(d)
      PROVE  ShareInv'
  <2>1. \A d \in Clients : Flying(d)' = Flying(d)
    BY <1>1 DEF Flying
  <2> QED BY <1>1, <2>1, NothingMoves DEF history
<1>2. ASSUME NEW c \in Clients, CloseTask(c) PROVE ShareInv'
  <2>1. UnregisterClient(c) \in Envelopes /\ UnregisterClient(c).type # "WithReply"
    BY DEF UnregisterClient, Envelopes
  <2>2. \A d : Asked(d)' <=> Asked(d)
    BY <1>2, <2>1, SendsOther DEF CloseTask, DebtInv
  <2> QED BY <1>1, <1>2, <2>2 DEF CloseTask, store
<1>3. ASSUME NEW c \in Clients, Disconnect(c) PROVE ShareInv'
  <2>1. \A d : Asked(d)' <=> Asked(d)
    BY <1>3 DEF Disconnect, channels, Asked
  <2> QED BY <1>1, <1>3, <2>1 DEF Disconnect, store, channels
<1>4. ASSUME NEW id \in timers, TimerFires(id) PROVE ShareInv'
  <2>1. TimeoutBlpop(id) \in Envelopes /\ TimeoutBlpop(id).type # "WithReply"
    BY DEF TimeoutBlpop, Envelopes, TypeOK
  <2>2. \A d : Asked(d)' <=> Asked(d)
    BY <1>4, <2>1, SendsOther DEF TimerFires, DebtInv
  <2> QED BY <1>1, <1>4, <2>2 DEF TimerFires, store, clients
<1>5. CASE UNCHANGED vars
  <2>1. \A d : Asked(d)' <=> Asked(d)
    BY <1>5 DEF vars, channels, Asked
  <2> QED BY <1>1, <1>5, <2>1 DEF vars, store, channels, clients
<1> QED BY <1>2, <1>3, <1>4, <1>5, SendShares, WriteShares, StoreStepShares DEF Next

LEMMA InitShares == Init => ShareInv
<1> SUFFICES ASSUME Init PROVE ShareInv
  OBVIOUS
<1>1. Len(inbox) = 0
  BY DEF Init
<1>2. ASSUME NEW c \in Clients
      PROVE  Flying(c) = << >> /\ oneshot[c].els = << >> /\ delivered[c] = {}
  BY <1>1 DEF Init, Flying, Asked, NoReply
<1>3. \A k \in Keys : data[k].list = << >>
  BY DEF Init, Absent
<1>4. ASSUME NEW x \in Boxes PROVE Contents(x) = {}
  BY <1>2, <1>3, BoxKinds, ContentsAre, NoElements DEF Init
<1>5. SharedOut
  BY <1>4 DEF Init, SharedOut
<1>6. SequencesOnceEach /\ SilentChannels
  BY <1>2, <1>3, NoElements DEF SequencesOnceEach, SilentChannels
<1> QED BY <1>5, <1>6 DEF ShareInv


(* The places of an element are positions in the boxes that hold it. *)
PlaceOf(p, x, e) ==
    \/ \E c \in Clients : \E i \in 1..Len(inbox) : \E j \in 1..Len(Flying(c)) :
          /\ x = <<"flying", c>> /\ p = <<"inbox", i, j>>
          /\ inbox[i].type = "WithReply" /\ inbox[i].client = c /\ Flying(c)[j] = e
    \/ \E k \in Keys : \E j \in 1..Len(data[k].list) :
          x = <<"list", k>> /\ p = <<"list", k, j>> /\ data[k].list[j] = e
    \/ \E c \in Clients : \E j \in 1..Len(oneshot[c].els) :
          x = <<"reply", c>> /\ p = <<"reply", c, j>> /\ oneshot[c].els[j] = e
    \/ \E c \in Clients : x = <<"peer", c>> /\ p = <<"peer", c, 0>> /\ e \in delivered[c]
    \/ x = <<"lost", 0>> /\ p = <<"lost", 0, 0>> /\ e \in lost
    \/ x = <<"overwritten", 0>> /\ p = <<"overwritten", 0, 0>> /\ e \in overwritten

LEMMA EnvelopeCarries ==
    ASSUME LinearInv, NEW i \in 1..Len(inbox), inbox[i].type = "WithReply"
    PROVE  /\ inbox[i].client \in Clients
           /\ Flying(inbox[i].client) = Payload(inbox[i].command)
<1>1. inbox[i] \in Envelopes
  BY DEF LinearInv, WaitInv, TypeOK
<1>2. inbox[i].client \in Clients
  BY <1>1, EnvelopeTypes
<1>3. Asked(inbox[i].client) /\ request[inbox[i].client] = inbox[i].command
  BY DEF Asked, LinearInv, CallInv, EnvelopeFits
<1> QED BY <1>2, <1>3 DEF Flying

LEMMA PlacesAreInBoxes ==
    ASSUME LinearInv, NEW e, NEW p
    PROVE  p \in Places(e) <=> \E x : PlaceOf(p, x, e)
<1> DEFINE inboxes == UNION {{<<"inbox", i, j>> : j \in In(Payload(inbox[i].command), e)} :
                        i \in {m \in 1..Len(inbox) : inbox[m].type = "WithReply"}}
           lists   == UNION {{<<"list", k, j>> : j \in In(data[k].list, e)} : k \in Keys}
           replies == UNION {{<<"reply", c, j>> : j \in In(oneshot[c].els, e)} : c \in Clients}
           peers   == {<<"peer", c, 0>> : c \in {d \in Clients : e \in delivered[d]}}
           losts   == {<<"lost", 0, 0>> : d \in {e} \cap lost}
           overs   == {<<"overwritten", 0, 0>> : d \in {e} \cap overwritten}
<1>2. Places(e) = inboxes \cup lists \cup replies \cup peers \cup losts \cup overs
  BY DEF Places
<1>3. p \in inboxes <=> \E c \in Clients : \E i \in 1..Len(inbox) : \E j \in 1..Len(Flying(c)) :
          /\ p = <<"inbox", i, j>>
          /\ inbox[i].type = "WithReply" /\ inbox[i].client = c /\ Flying(c)[j] = e
  <2>1. p \in inboxes <=> \E i \in 1..Len(inbox) : \E j \in In(Payload(inbox[i].command), e) :
                             inbox[i].type = "WithReply" /\ p = <<"inbox", i, j>>
    OBVIOUS
  <2>2. p \in inboxes <=> \E i \in 1..Len(inbox) : \E j \in 1..Len(Flying(inbox[i].client)) :
                             /\ inbox[i].type = "WithReply" /\ p = <<"inbox", i, j>>
                             /\ Flying(inbox[i].client)[j] = e
    BY <2>1, EnvelopeCarries DEF In
  <2> QED BY <2>2, EnvelopeCarries
<1>4. p \in lists <=> \E k \in Keys : \E j \in 1..Len(data[k].list) :
          p = <<"list", k, j>> /\ data[k].list[j] = e
  BY DEF In
<1>5. p \in replies <=> \E c \in Clients : \E j \in 1..Len(oneshot[c].els) :
          p = <<"reply", c, j>> /\ oneshot[c].els[j] = e
  BY DEF In
<1>6. p \in peers <=> \E c \in Clients : p = <<"peer", c, 0>> /\ e \in delivered[c]
  OBVIOUS
<1>7. p \in losts <=> p = <<"lost", 0, 0>> /\ e \in lost
  OBVIOUS
<1>8. p \in overs <=> p = <<"overwritten", 0, 0>> /\ e \in overwritten
  OBVIOUS
<1> HIDE DEF inboxes, lists, replies, peers, losts, overs
<1>9. ASSUME p \in Places(e) PROVE \E x : PlaceOf(p, x, e)
  <2>1. CASE p \in inboxes
    BY <1>3, <2>1 DEF PlaceOf
  <2>2. CASE p \in lists
    BY <1>4, <2>2 DEF PlaceOf
  <2>3. CASE p \in replies
    BY <1>5, <2>3 DEF PlaceOf
  <2>4. CASE p \in peers
    BY <1>6, <2>4 DEF PlaceOf
  <2>5. CASE p \in losts
    BY <1>7, <2>5 DEF PlaceOf
  <2>6. CASE p \in overs
    BY <1>8, <2>6 DEF PlaceOf
  <2> QED BY <1>2, <1>9, <2>1, <2>2, <2>3, <2>4, <2>5, <2>6
<1>10. ASSUME NEW x, PlaceOf(p, x, e) PROVE p \in Places(e)
  BY <1>2, <1>3, <1>4, <1>5, <1>6, <1>7, <1>8, <1>10 DEF PlaceOf
<1> QED BY <1>9, <1>10

(* The box that holds an element determines its place. *)
LEMMA OnePlaceInBox ==
    ASSUME LinearInv, ShareInv, NEW e, NEW x \in Boxes, e \in Contents(x)
    PROVE  \E p : PlaceOf(p, x, e) /\ \A q : PlaceOf(q, x, e) => q = p
<1> USE DEF LinearInv, WaitInv, ShareInv
<1>1. ASSUME NEW c \in Clients, x = <<"flying", c>>
      PROVE  \E p : PlaceOf(p, x, e) /\ \A q : PlaceOf(q, x, e) => q = p
  <2>1. PICK j \in 1..Len(Flying(c)) : Flying(c)[j] = e
    BY <1>1, ContentsAre DEF Elements
  <2>2. Asked(c)
    <3>1. Flying(c) # << >>
      BY <2>1
    <3> QED BY <3>1 DEF Flying
  <2>3. PICK i \in 1..Len(inbox) : inbox[i].type = "WithReply" /\ inbox[i].client = c
    BY <2>2 DEF Asked
  <2>4. PlaceOf(<<"inbox", i, j>>, x, e)
    BY <1>1, <2>1, <2>3 DEF PlaceOf
  <2>5. ASSUME NEW q, PlaceOf(q, x, e) PROVE q = <<"inbox", i, j>>
    <3>1. PICK i1 \in 1..Len(inbox), j1 \in 1..Len(Flying(c)) :
            /\ q = <<"inbox", i1, j1>> /\ inbox[i1].type = "WithReply"
            /\ inbox[i1].client = c /\ Flying(c)[j1] = e
      BY <1>1, <2>5 DEF PlaceOf
    <3>2. i1 = i
      BY <2>3, <3>1 DEF DebtInv, OneAsked
    <3>3. j1 = j
      BY <2>1, <3>1 DEF SequencesOnceEach, OnceEach
    <3> QED BY <3>1, <3>2, <3>3
  <2> QED BY <2>4, <2>5
<1>2. ASSUME NEW k \in Keys, x = <<"list", k>>
      PROVE  \E p : PlaceOf(p, x, e) /\ \A q : PlaceOf(q, x, e) => q = p
  <2>1. PICK j \in 1..Len(data[k].list) : data[k].list[j] = e
    BY <1>2, ContentsAre DEF Elements
  <2>2. PlaceOf(<<"list", k, j>>, x, e)
    BY <1>2, <2>1 DEF PlaceOf
  <2>3. ASSUME NEW q, PlaceOf(q, x, e) PROVE q = <<"list", k, j>>
    <3>1. PICK j1 \in 1..Len(data[k].list) : q = <<"list", k, j1>> /\ data[k].list[j1] = e
      BY <1>2, <2>3 DEF PlaceOf
    <3> QED BY <2>1, <3>1 DEF SequencesOnceEach, OnceEach
  <2> QED BY <2>2, <2>3
<1>3. ASSUME NEW c \in Clients, x = <<"reply", c>>
      PROVE  \E p : PlaceOf(p, x, e) /\ \A q : PlaceOf(q, x, e) => q = p
  <2>1. PICK j \in 1..Len(oneshot[c].els) : oneshot[c].els[j] = e
    BY <1>3, ContentsAre DEF Elements
  <2>2. PlaceOf(<<"reply", c, j>>, x, e)
    BY <1>3, <2>1 DEF PlaceOf
  <2>3. ASSUME NEW q, PlaceOf(q, x, e) PROVE q = <<"reply", c, j>>
    <3>1. PICK j1 \in 1..Len(oneshot[c].els) : q = <<"reply", c, j1>> /\ oneshot[c].els[j1] = e
      BY <1>3, <2>3 DEF PlaceOf
    <3> QED BY <2>1, <3>1 DEF SequencesOnceEach, OnceEach
  <2> QED BY <2>2, <2>3
<1>4. ASSUME NEW c \in Clients, x = <<"peer", c>>
      PROVE  \E p : PlaceOf(p, x, e) /\ \A q : PlaceOf(q, x, e) => q = p
  <2>1. e \in delivered[c]
    BY <1>4, ContentsAre
  <2>2. PlaceOf(<<"peer", c, 0>>, x, e)
    BY <1>4, <2>1 DEF PlaceOf
  <2>3. \A q : PlaceOf(q, x, e) => q = <<"peer", c, 0>>
    BY <1>4 DEF PlaceOf
  <2> QED BY <2>2, <2>3
<1>5. CASE x = <<"lost", 0>>
  <2>1. PlaceOf(<<"lost", 0, 0>>, x, e)
    BY <1>5, ContentsAre DEF PlaceOf
  <2>2. \A q : PlaceOf(q, x, e) => q = <<"lost", 0, 0>>
    BY <1>5 DEF PlaceOf
  <2> QED BY <2>1, <2>2
<1>6. CASE x = <<"overwritten", 0>>
  <2>1. PlaceOf(<<"overwritten", 0, 0>>, x, e)
    BY <1>6, ContentsAre DEF PlaceOf
  <2>2. \A q : PlaceOf(q, x, e) => q = <<"overwritten", 0, 0>>
    BY <1>6 DEF PlaceOf
  <2> QED BY <2>1, <2>2
<1> QED BY <1>1, <1>2, <1>3, <1>4, <1>5, <1>6, BoxKinds

(* Where an element has a place, there is a box that holds it. *)
LEMMA PlaceIsInBox ==
    ASSUME NEW p, NEW x, NEW e, PlaceOf(p, x, e)
    PROVE  x \in Boxes /\ e \in Contents(x)
<1>1. ASSUME NEW c \in Clients, x = <<"flying", c>>, e \in Elements(Flying(c))
      PROVE  x \in Boxes /\ e \in Contents(x)
  BY <1>1, BoxesAre, ContentsAre
<1>2. ASSUME NEW k \in Keys, x = <<"list", k>>, e \in Elements(data[k].list)
      PROVE  x \in Boxes /\ e \in Contents(x)
  BY <1>2, BoxesAre, ContentsAre
<1>3. ASSUME NEW c \in Clients, x = <<"reply", c>>, e \in Elements(oneshot[c].els)
      PROVE  x \in Boxes /\ e \in Contents(x)
  BY <1>3, BoxesAre, ContentsAre
<1>4. ASSUME NEW c \in Clients, x = <<"peer", c>>, e \in delivered[c]
      PROVE  x \in Boxes /\ e \in Contents(x)
  BY <1>4, BoxesAre, ContentsAre
<1>5. ASSUME x = <<"lost", 0>>, e \in lost PROVE x \in Boxes /\ e \in Contents(x)
  BY <1>5, BoxesAre, ContentsAre
<1>6. ASSUME x = <<"overwritten", 0>>, e \in overwritten
      PROVE  x \in Boxes /\ e \in Contents(x)
  BY <1>6, BoxesAre, ContentsAre
<1>7. \/ \E c \in Clients : x = <<"flying", c>> /\ e \in Elements(Flying(c))
      \/ \E k \in Keys : x = <<"list", k>> /\ e \in Elements(data[k].list)
      \/ \E c \in Clients : x = <<"reply", c>> /\ e \in Elements(oneshot[c].els)
      \/ \E c \in Clients : x = <<"peer", c>> /\ e \in delivered[c]
      \/ x = <<"lost", 0>> /\ e \in lost
      \/ x = <<"overwritten", 0>> /\ e \in overwritten
  BY DEF PlaceOf, Elements
<1> QED BY <1>1, <1>2, <1>3, <1>4, <1>5, <1>6, <1>7

(* Whatever pushes, pops, timeouts and disconnections cross, each element that
   was sent is in exactly one place: no list command loses one or hands one
   out twice.                                                                *)
THEOREM ElementsAreConserved == Spec => []ElementsConserved
<1>1. ASSUME LinearInv, ShareInv PROVE ElementsConserved
  <2> SUFFICES ASSUME NEW e \in 1..used PROVE Cardinality(Places(e)) = 1
    BY DEF ElementsConserved
  <2>1. PICK x \in Boxes : e \in Contents(x)
    BY <1>1 DEF ShareInv, SharedOut
  <2>2. PICK p : PlaceOf(p, x, e) /\ \A q : PlaceOf(q, x, e) => q = p
    BY <1>1, <2>1, OnePlaceInBox
  <2>3. ASSUME NEW q \in Places(e) PROVE q = p
    <3>1. PICK y : PlaceOf(q, y, e)
      BY <1>1, PlacesAreInBoxes
    <3>2. y \in Boxes /\ e \in Contents(y)
      BY <3>1, PlaceIsInBox
    <3>3. y = x
      BY <1>1, <2>1, <3>2 DEF ShareInv, SharedOut
    <3> QED BY <2>2, <3>1, <3>3
  <2>4. p \in Places(e)
    BY <1>1, <2>2, PlacesAreInBoxes
  <2>5. Places(e) = {p}
    BY <2>3, <2>4
  <2> QED BY <2>5, FS_Singleton
<1> QED BY <1>1, LinearInvInductive, InitShares, NextShares, PTL DEF Spec
=============================================================================
