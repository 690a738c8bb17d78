------------------------------- MODULE Sessions -------------------------------
(***************************************************************************)
(* The life of a client connection: registration, authentication, the      *)
(* modes a client is in, and the messages published to it.                 *)
(*                                                                         *)
(* A client task (handle_client) registers with the store, which tells it  *)
(* once whether it must authenticate.  It then either reads a command, runs *)
(* it through its mode (ClientRunMode::run), and awaits the store's reply    *)
(* when the store has to execute it; or it takes what the store has pushed   *)
(* into its channel and writes it to the peer.  The store never waits for    *)
(* room in that channel when it publishes: a message that finds it full is  *)
(* dropped.                                                                *)
(*                                                                         *)
(* WATCH, the replica's commands and commands on data are in other modules; *)
(* the inbox of the store never fills here.                                *)
(***************************************************************************)
EXTENDS Integers, Sequences, FiniteSets

CONSTANTS
    Clients,
    Channels,
    Passwords,    \* what ACL SETUSER may set for the user "default"
    Guesses,      \* what AUTH may be called with
    PushCap,      \* capacity of the channel to a client (1024 in the code)
    Offered,      \* the commands each client sends
    MaxCalls,     \* bound: how many each client sends
    Leavers       \* bound: the clients whose peer may go

Ops == {"auth", "setuser", "subscribe", "unsubscribe", "publish",
        "ping", "multi", "exec", "discard"}

ASSUME PasswordsAssumption == Passwords \subseteq Guesses
ASSUME PushCapAssumption == PushCap \in Nat \ {0}
ASSUME CallsAssumption ==
    Offered \in [Clients -> SUBSET Ops] /\ MaxCalls \in [Clients -> Nat]
ASSUME LeaversAssumption == Leavers \subseteq Clients

VARIABLES
    \* the store
    inbox,         \* the mpsc channel to the store; it answers the head and goes on
    verdict,       \* of the head: every AUTH that was executed had a right password
    registered,    \* store.clients
    passwords,     \* store.users["default"]
    subscriptions, \* store.pubsub.subscriptions: [Channels -> SUBSET Clients]
    \* per client task
    task,          \* "none", "registering", "reading", "awaiting" or "ended"
    need_auth,
    mode,          \* ClientRunMode
    queue,         \* the commands of ClientRunMode::Transaction
    request,       \* what it awaits the reply to
    oneshot,       \* the channel of that reply
    push,          \* the mpsc channel with the store's pushes
    connected,     \* its peer is there
    \* history
    calls,         \* how many commands it sent
    published,     \* how many messages were published
    meant,         \* the messages published to a channel while it was subscribed
    got,           \* the messages its peer received
    missed,        \* the messages it never will
    confirmed,     \* the channels it was told it subscribes to
    announced,     \* some client was told that a password is set
    newcomer,      \* it connected after that
    proven         \* it was told that its password is right

storeVars  == <<registered, passwords, subscriptions>>
clientVars == <<task, need_auth, mode, queue, request, oneshot, connected>>
mailVars   == <<push, published, meant, missed>>
noteVars   == <<calls, got, confirmed, announced, newcomer, proven>>
vars       == <<inbox, verdict, storeVars, clientVars, mailVars, noteVars>>

Command(op, arg) == [op |-> op, arg |-> arg]
NoArg == "none"
Message(n, ch)   == [id |-> n, channel |-> ch]

WithReply(c, cmds)    == [type |-> "WithReply", client |-> c, commands |-> cmds]
RegisterClient(c)     == [type |-> "RegisterClient", client |-> c, commands |-> << >>]
UnregisterClient(c)   == [type |-> "UnregisterClient", client |-> c, commands |-> << >>]

NoReply  == [ready |-> FALSE, ok |-> FALSE]
Reply(b) == [ready |-> TRUE, ok |-> b]
NoRequest == << >>

Init ==
    /\ inbox = << >> /\ verdict = TRUE /\ registered = {} /\ passwords = {}
    /\ subscriptions = [ch \in Channels |-> {}]
    /\ task = [c \in Clients |-> "none"]
    /\ need_auth = [c \in Clients |-> FALSE]
    /\ mode = [c \in Clients |-> "Normal"]
    /\ queue = [c \in Clients |-> << >>]
    /\ request = [c \in Clients |-> NoRequest]
    /\ oneshot = [c \in Clients |-> NoReply]
    /\ push = [c \in Clients |-> << >>]
    /\ connected = [c \in Clients |-> FALSE]
    /\ calls = [c \in Clients |-> 0]
    /\ published = 0 /\ announced = FALSE /\ newcomer = {} /\ proven = {}
    /\ meant = [c \in Clients |-> {}]
    /\ got = [c \in Clients |-> << >>]
    /\ missed = [c \in Clients |-> {}]
    /\ confirmed = [c \in Clients |-> {}]

-----------------------------------------------------------------------------
(* What a client's mode makes of a command (ClientRunMode::run): the next    *)
(* mode and queue, and the commands the store has to execute, if any.        *)

Run(m, q, cmds) == [mode |-> m, queue |-> q, execute |-> cmds]

RunNormal(cmd) ==
    CASE cmd.op = "multi"                        -> Run("Transaction", << >>, << >>)
      [] cmd.op \in {"ping", "exec", "discard"}  -> Run("Normal", << >>, << >>)
      [] cmd.op = "subscribe"                    -> Run("Subscription", << >>, <<cmd>>)
      [] OTHER                                   -> Run("Normal", << >>, <<cmd>>)

RunTransaction(q, cmd) ==
    CASE cmd.op = "discard" -> Run("Normal", << >>, <<cmd>>)
      [] cmd.op = "exec"    -> Run("Normal", << >>, q)
      [] OTHER              -> Run("Transaction", Append(q, cmd), << >>)

RunSubscription(cmd) ==
    IF cmd.op \in {"publish", "subscribe", "unsubscribe"}
    THEN Run("Subscription", << >>, <<cmd>>)
    ELSE Run("Subscription", << >>, << >>)

RunMode(c, cmd) ==
    IF need_auth[c]
    THEN Run("Normal", << >>, IF cmd.op = "auth" THEN <<cmd>> ELSE << >>)
    ELSE CASE mode[c] = "Normal"       -> RunNormal(cmd)
           [] mode[c] = "Transaction"  -> RunTransaction(queue[c], cmd)
           [] mode[c] = "Subscription" -> RunSubscription(cmd)

-----------------------------------------------------------------------------
(* The client task (handle_client).                                        *)

Connect(c) ==
    /\ task[c] = "none"
    /\ task' = [task EXCEPT ![c] = "registering"]
    /\ connected' = [connected EXCEPT ![c] = TRUE]
    /\ inbox' = Append(inbox, RegisterClient(c))
    /\ newcomer' = IF announced THEN newcomer \cup {c} ELSE newcomer
    /\ UNCHANGED <<verdict, storeVars, need_auth, mode, queue, request, oneshot, mailVars,
                   calls, got, confirmed, announced, proven>>

Registered(c) ==
    /\ task[c] = "registering"
    /\ oneshot[c].ready
    /\ need_auth' = [need_auth EXCEPT ![c] = oneshot[c].ok]
    /\ oneshot' = [oneshot EXCEPT ![c] = NoReply]
    /\ task' = [task EXCEPT ![c] = "reading"]
    /\ UNCHANGED <<inbox, verdict, storeVars, mode, queue, request, connected, mailVars, noteVars>>

Args(op) ==
    CASE op = "auth"    -> Guesses
      [] op = "setuser" -> Passwords
      [] op \in {"subscribe", "unsubscribe", "publish"} -> Channels
      [] OTHER          -> {NoArg}

(* An empty transaction, too, goes to the store. *)
NeedsStore(c, cmd, run) ==
    \/ run.execute # << >>
    \/ cmd.op = "exec" /\ mode[c] = "Transaction" /\ ~need_auth[c]

ReadCommand(c) ==
    /\ task[c] = "reading"
    /\ connected[c]
    /\ calls[c] < MaxCalls[c]
    /\ \E op \in Offered[c] :
       \E arg \in Args(op) :
          LET cmd == Command(op, arg)
              run == RunMode(c, cmd)
          IN  /\ mode' = [mode EXCEPT ![c] = run.mode]
              /\ queue' = [queue EXCEPT ![c] = run.queue]
              /\ IF NeedsStore(c, cmd, run)
                 THEN /\ inbox' = Append(inbox, WithReply(c, run.execute))
                      /\ request' = [request EXCEPT ![c] = run.execute]
                      /\ task' = [task EXCEPT ![c] = "awaiting"]
                 ELSE UNCHANGED <<inbox, request, task>>
    /\ calls' = [calls EXCEPT ![c] = @ + 1]
    /\ UNCHANGED <<verdict, storeVars, need_auth, oneshot, connected, mailVars,
                   got, confirmed, announced, newcomer, proven>>

Asks(c, op) == \E i \in 1..Len(request[c]) : request[c][i].op = op
AskedChannels(c) ==
    {request[c][i].arg : i \in {j \in 1..Len(request[c]) : request[c][j].op = "subscribe"}}

(* mutant: any answer to AUTH will do *)
AnyAnswer(c) == need_auth[c]
(* MustAuth: the only command that a client that must authenticate waits for *)
Authenticates(c) == need_auth[c] /\ oneshot[c].ok

WriteReply(c) ==
    /\ task[c] = "awaiting"
    /\ oneshot[c].ready
    /\ need_auth' = [need_auth EXCEPT ![c] = @ /\ ~Authenticates(c)]
    /\ oneshot' = [oneshot EXCEPT ![c] = NoReply]
    /\ request' = [request EXCEPT ![c] = NoRequest]
    /\ task' = [task EXCEPT ![c] = "reading"]
    /\ IF connected[c]
       THEN /\ confirmed' = [confirmed EXCEPT ![c] = @ \cup AskedChannels(c)]
            /\ announced' = (announced \/ Asks(c, "setuser"))
            /\ proven' = IF Asks(c, "auth") /\ oneshot[c].ok THEN proven \cup {c} ELSE proven
       ELSE UNCHANGED <<confirmed, announced, proven>>
    /\ UNCHANGED <<inbox, verdict, storeVars, mode, queue, connected, mailVars, calls, got, newcomer>>

(* mutant: pushes are written while a reply is awaited *)
AnyMoment(c) == task[c] \in {"reading", "awaiting"}
(* mutant: only a client in the mode of subscribers looks at its channel *)
OnlySubscribers(c) == task[c] = "reading" /\ mode[c] = "Subscription"
Selects(c) == task[c] = "reading"

(* A push is written to the peer, or to a connection that nobody reads. *)
ForwardPush(c) ==
    /\ Selects(c)
    /\ push[c] # << >>
    /\ push' = [push EXCEPT ![c] = Tail(@)]
    /\ IF connected[c]
       THEN got' = [got EXCEPT ![c] = Append(@, Head(push[c]))] /\ UNCHANGED missed
       ELSE missed' = [missed EXCEPT ![c] = @ \cup {Head(push[c]).id}] /\ UNCHANGED got
    /\ UNCHANGED <<inbox, verdict, storeVars, clientVars, published, meant, calls, confirmed,
                   announced, newcomer, proven>>

Leave(c) ==
    /\ c \in Leavers
    /\ connected[c]
    /\ connected' = [connected EXCEPT ![c] = FALSE]
    /\ UNCHANGED <<inbox, verdict, storeVars, task, need_auth, mode, queue, request, oneshot,
                   mailVars, noteVars>>

LeftInChannel(c) == {push[c][i].id : i \in 1..Len(push[c])}
End(c) ==
    /\ task' = [task EXCEPT ![c] = "ended"]
    /\ push' = [push EXCEPT ![c] = << >>]
    /\ missed' = [missed EXCEPT ![c] = @ \cup LeftInChannel(c)]

(* A read returns 0 bytes: the subscriptions stay. *)
CloseTask(c) ==
    /\ task[c] = "reading"
    /\ ~connected[c]
    /\ End(c)
    /\ inbox' = Append(inbox, UnregisterClient(c))
    /\ UNCHANGED <<verdict, storeVars, need_auth, mode, queue, request, oneshot, connected,
                   published, meant, noteVars>>

(* Writing a push fails: the task panics, and the store never hears of it. *)
PanicOnWrite(c) ==
    /\ task[c] = "reading"
    /\ ~connected[c]
    /\ push[c] # << >>
    /\ End(c)
    /\ UNCHANGED <<inbox, verdict, storeVars, need_auth, mode, queue, request, oneshot, connected,
                   published, meant, noteVars>>

-----------------------------------------------------------------------------
(* The store task.                                                         *)

Receive(type) ==
    /\ inbox # << >>
    /\ Head(inbox).type = type
    /\ inbox' = Tail(inbox)

MustAuth == passwords # {}

ExecRegister ==
    /\ Receive("RegisterClient")
    /\ LET c == Head(inbox).client IN
          /\ registered' = registered \cup {c}
          /\ oneshot' = [oneshot EXCEPT ![c] = Reply(MustAuth)]
    /\ UNCHANGED <<verdict, passwords, subscriptions, task, need_auth, mode, queue, request,
                   connected, mailVars, noteVars>>

ExecUnregister ==
    /\ Receive("UnregisterClient")
    /\ registered' = registered \ {Head(inbox).client}
    /\ UNCHANGED <<verdict, passwords, subscriptions, clientVars, mailVars, noteVars>>

(* The next command of the request at the head of the inbox.  The client tasks
   run beside the store, also between two commands of a transaction.         *)
Takes(op) ==
    /\ inbox # << >>
    /\ Head(inbox).type = "WithReply"
    /\ Head(inbox).commands # << >>
    /\ Head(Head(inbox).commands).op = op
    /\ inbox' = [inbox EXCEPT ![1].commands = Tail(@)]

Caller == Head(inbox).client
Arg    == Head(Head(inbox).commands).arg

ExecSetUser ==
    /\ Takes("setuser")
    /\ passwords' = passwords \cup {Arg}
    /\ UNCHANGED <<verdict, registered, subscriptions, clientVars, mailVars, noteVars>>

ExecAuth ==
    /\ Takes("auth")
    /\ verdict' = (verdict /\ Arg \in passwords)
    /\ UNCHANGED <<storeVars, clientVars, mailVars, noteVars>>

ExecSubscribe ==
    /\ Takes("subscribe")
    /\ subscriptions' = [subscriptions EXCEPT ![Arg] = @ \cup {Caller}]
    /\ UNCHANGED <<verdict, registered, passwords, clientVars, mailVars, noteVars>>

ExecUnsubscribe ==
    /\ Takes("unsubscribe")
    /\ subscriptions' = [subscriptions EXCEPT ![Arg] = @ \ {Caller}]
    /\ UNCHANGED <<verdict, registered, passwords, clientVars, mailVars, noteVars>>

(* mutant: the publisher's own subscription is passed over *)
OthersSubscribed(ch) == (subscriptions[ch] \cap registered) \ {Caller}
Subscribers(ch) == subscriptions[ch] \cap registered

(* mutant: the channel has no bound *)
CanAlwaysSend(d) == task[d] # "ended"
(* mutant: the last place of a channel is not used *)
CanSendLess(d) == task[d] # "ended" /\ Len(push[d]) < PushCap - 1
(* try_send: room in the channel, and a task that still has its other end *)
CanSend(d) == task[d] # "ended" /\ Len(push[d]) < PushCap

ExecPublish ==
    /\ Takes("publish")
    /\ LET n  == published + 1
           to == Subscribers(Arg)
       IN  /\ push'   = [d \in Clients |-> IF d \in to /\ CanSend(d)
                                           THEN Append(push[d], Message(n, Arg)) ELSE push[d]]
           /\ missed' = [d \in Clients |-> IF d \in to /\ ~CanSend(d)
                                           THEN missed[d] \cup {n} ELSE missed[d]]
           /\ meant'  = [d \in Clients |-> IF d \in subscriptions[Arg] \cap registered
                                           THEN meant[d] \cup {n} ELSE meant[d]]
           /\ published' = n
    /\ UNCHANGED <<verdict, storeVars, clientVars, noteVars>>

(* Commands that change nothing here. *)
ExecOther ==
    /\ \E op \in {"ping", "multi", "exec", "discard"} : Takes(op)
    /\ UNCHANGED <<verdict, storeVars, clientVars, mailVars, noteVars>>

(* mutant: an empty transaction gets no answer *)
AnswerIfAny(c) == IF request[c] = NoRequest THEN oneshot ELSE [oneshot EXCEPT ![c] = Reply(verdict)]
(* AUTH is answered by whether the password is right, all else by OK. *)
Answered(c) == [oneshot EXCEPT ![c] = Reply(verdict)]

Answer ==
    /\ Receive("WithReply")
    /\ Head(inbox).commands = << >>
    /\ oneshot' = Answered(Caller)
    /\ verdict' = TRUE
    /\ UNCHANGED <<storeVars, task, need_auth, mode, queue, request, connected, mailVars, noteVars>>

-----------------------------------------------------------------------------
TryExecute ==
    ExecSetUser \/ ExecAuth \/ ExecSubscribe \/ ExecUnsubscribe \/ ExecPublish \/ ExecOther

StoreStep == ExecRegister \/ ExecUnregister \/ TryExecute \/ Answer

TaskStep(c) == Registered(c) \/ WriteReply(c) \/ ForwardPush(c) \/ CloseTask(c) \/ PanicOnWrite(c)

Next ==
    \/ StoreStep
    \/ \E c \in Clients : Connect(c) \/ ReadCommand(c) \/ Leave(c) \/ TaskStep(c)

(* The store takes its next envelope, a client task goes on while it can.
   select! starts with a random branch, so a task that also has commands to
   read gets to its pushes.  Peers need not send, stay or go.               *)
Fairness ==
    /\ WF_vars(StoreStep)
    /\ \A c \in Clients : WF_vars(TaskStep(c)) /\ SF_vars(ForwardPush(c))

Spec == Init /\ [][Next]_vars
FairSpec == Spec /\ Fairness

-----------------------------------------------------------------------------
(* Properties                                                              *)

Commands  == {cmd \in [op : Ops, arg : Guesses \cup Channels \cup {NoArg}] : cmd.arg \in Args(cmd.op)}
Messages  == [id : Nat, channel : Channels]
Envelopes == [type : {"WithReply", "RegisterClient", "UnregisterClient"},
              client : Clients, commands : Seq(Commands)]

TypeOK ==
    /\ inbox \in Seq(Envelopes) /\ verdict \in BOOLEAN
    /\ registered \subseteq Clients
    /\ passwords \subseteq Passwords
    /\ subscriptions \in [Channels -> SUBSET Clients]
    /\ task \in [Clients -> {"none", "registering", "reading", "awaiting", "ended"}]
    /\ need_auth \in [Clients -> BOOLEAN]
    /\ mode \in [Clients -> {"Normal", "Transaction", "Subscription"}]
    /\ queue \in [Clients -> Seq(Commands)]
    /\ request \in [Clients -> Seq(Commands)]
    /\ oneshot \in [Clients -> [ready : BOOLEAN, ok : BOOLEAN]]
    /\ push \in [Clients -> Seq(Messages)]
    /\ \A c \in Clients : Len(push[c]) <= PushCap
    /\ connected \in [Clients -> BOOLEAN]
    /\ calls \in [Clients -> Nat] /\ published \in Nat
    /\ got \in [Clients -> Seq(Messages)]
    /\ meant \in [Clients -> SUBSET Nat] /\ missed \in [Clients -> SUBSET Nat]
    /\ confirmed \in [Clients -> SUBSET Channels]
    /\ announced \in BOOLEAN /\ newcomer \subseteq Clients /\ proven \subseteq Clients

(* Whoever connects after some client was told that a password is set must give
   it first: until then nothing that it sends is executed or even queued, and
   no message reaches it.  The store is asked once, at registration, through
   the same inbox as the SETUSER.                                            *)
StrangersKeptOut ==
    \A c \in newcomer \ proven :
        /\ mode[c] = "Normal"
        /\ \A ch \in Channels : c \notin subscriptions[ch]
        /\ \A i \in 1..Len(inbox) :
              inbox[i].client = c =>
                 \A j \in 1..Len(inbox[i].commands) : inbox[i].commands[j].op = "auth"
        /\ got[c] = << >>

(* Every message published to a channel reaches each of its registered
   subscribers, is on its way in the subscriber's channel, or was dropped;
   what arrives, arrives once and in the order of publication.               *)
MailOf(c) == got[c] \o push[c]

MessagesAccountedFor ==
    \A c \in Clients :
        /\ \A i, j \in 1..Len(MailOf(c)) : i < j => MailOf(c)[i].id < MailOf(c)[j].id
        /\ meant[c] = missed[c] \cup {MailOf(c)[i].id : i \in 1..Len(MailOf(c))}
        /\ \A i \in 1..Len(MailOf(c)) : MailOf(c)[i].id \notin missed[c]

(* A message is dropped only for a subscriber whose channel is full or whose
   connection is gone.                                                      *)
DroppedForCause ==
    [][\A c \in Clients :
          missed'[c] # missed[c] => Len(push'[c]) = PushCap \/ ~connected[c]]_vars

(* A client hears of a channel only after the reply to its SUBSCRIBE, also when
   a message is published between the subscription and that reply.           *)
ConfirmedFirst ==
    \A c \in Clients : \A i \in 1..Len(got[c]) : got[c][i].channel \in confirmed[c]

(* A message in a client's channel gets to the client, unless its peer goes:
   also to one that keeps sending commands.                                 *)
MailArrives ==
    \A c \in Clients : (push[c] # << >>) ~> (push[c] = << >>)

(* Every client gets through its registration and every command is answered. *)
EveryCallAnswered ==
    \A c \in Clients : (task[c] \in {"registering", "awaiting"}) ~> (task[c] = "reading")
=============================================================================
