--------------------------- MODULE SessionsProofs ---------------------------
(***************************************************************************)
(* Theorems about Sessions for any clients, channels, passwords, capacity   *)
(* of a client's channel, and commands that the clients send.               *)
(***************************************************************************)
EXTENDS Sessions, TLAPS

(* A sequence with one element more. *)
LEMMA Appended ==
    ASSUME NEW S, NEW s \in Seq(S), NEW e \in S
    PROVE  /\ Append(s, e) \in Seq(S) /\ Len(Append(s, e)) = Len(s) + 1 /\ Len(s) \in Nat
           /\ \A i \in 1..Len(s) : Append(s, e)[i] = s[i]
           /\ Append(s, e)[Len(s) + 1] = e
  OBVIOUS

(* A sequence without its first element. *)
LEMMA Taken ==
    ASSUME NEW S, NEW s \in Seq(S), s # << >>
    PROVE  /\ Head(s) \in S /\ Head(s) = s[1] /\ Len(s) \in Nat /\ Len(s) > 0
           /\ Tail(s) \in Seq(S) /\ Len(Tail(s)) = Len(s) - 1
           /\ \A i \in 1..(Len(s) - 1) : Tail(s)[i] = s[i + 1]
  OBVIOUS

(* A sequence without elements. *)
LEMMA EmptyType ==
    ASSUME NEW S
    PROVE  << >> \in Seq(S) /\ Len(<< >>) = 0
  OBVIOUS

(* The elements of a sequence. *)
LEMMA ElementOf ==
    ASSUME NEW S, NEW s \in Seq(S), NEW i \in 1..Len(s)
    PROVE  s[i] \in S
  OBVIOUS

-----------------------------------------------------------------------------
(* Type correctness.                                                       *)

LEMMA CommandTypes ==
    ASSUME NEW cmd \in Commands
    PROVE  /\ cmd.op \in Ops /\ cmd.arg \in Args(cmd.op)
           /\ cmd.op \in {"subscribe", "unsubscribe", "publish"} => cmd.arg \in Channels
           /\ cmd.op = "setuser" => cmd.arg \in Passwords
  BY DEF Commands, Args

(* What a client sends is a command. *)
LEMMA SentTypes ==
    ASSUME NEW c \in Clients, NEW op \in Offered[c], NEW arg \in Args(op)
    PROVE  Command(op, arg) \in Commands
<1>1. op \in Ops
  BY CallsAssumption
<1>2. arg \in Guesses \cup Channels \cup {NoArg}
  BY <1>1, PasswordsAssumption DEF Args, Ops
<1> QED BY <1>1, <1>2 DEF Command, Commands

(* What the mode of a client makes of a command. *)
LEMMA RunTypes ==
    ASSUME TypeOK, NEW c \in Clients, NEW cmd \in Commands
    PROVE  /\ RunMode(c, cmd).mode \in {"Normal", "Transaction", "Subscription"}
           /\ RunMode(c, cmd).queue \in Seq(Commands)
           /\ RunMode(c, cmd).execute \in Seq(Commands)
<1>1. <<cmd>> \in Seq(Commands) /\ << >> \in Seq(Commands)
  OBVIOUS
<1>2. queue[c] \in Seq(Commands) /\ mode[c] \in {"Normal", "Transaction", "Subscription"}
  BY DEF TypeOK
<1>3. Append(queue[c], cmd) \in Seq(Commands)
  BY <1>2, Appended
<1>4. \A m \in {"Normal", "Transaction", "Subscription"}, q, ex \in Seq(Commands) :
        /\ Run(m, q, ex).mode \in {"Normal", "Transaction", "Subscription"}
        /\ Run(m, q, ex).queue \in Seq(Commands) /\ Run(m, q, ex).execute \in Seq(Commands)
  BY DEF Run
<1>5. \E m \in {"Normal", "Transaction", "Subscription"}, q, ex \in Seq(Commands) :
        RunMode(c, cmd) = Run(m, q, ex)
  <2>1. CASE need_auth[c]
    BY <2>1, <1>1 DEF RunMode
  <2>2. CASE ~need_auth[c] /\ mode[c] = "Normal"
    <3>1. RunMode(c, cmd) = RunNormal(cmd)
      BY <2>2 DEF RunMode
    <3> QED BY <3>1, <1>1 DEF RunNormal
  <2>3. CASE ~need_auth[c] /\ mode[c] = "Transaction"
    <3>1. RunMode(c, cmd) = RunTransaction(queue[c], cmd)
      BY <2>3 DEF RunMode
    <3> QED BY <3>1, <1>1, <1>2, <1>3 DEF RunTransaction
  <2>4. CASE ~need_auth[c] /\ mode[c] = "Subscription"
    <3>1. RunMode(c, cmd) = RunSubscription(cmd)
      BY <2>4 DEF RunMode
    <3> QED BY <3>1, <1>1 DEF RunSubscription
  <2> QED BY <2>1, <2>2, <2>3, <2>4, <1>2
<1> QED BY <1>4, <1>5

LEMMA EnvelopeTypes ==
    ASSUME NEW c \in Clients, NEW cmds \in Seq(Commands)
    PROVE  /\ WithReply(c, cmds) \in Envelopes
           /\ RegisterClient(c) \in Envelopes /\ UnregisterClient(c) \in Envelopes
<1>1. << >> \in Seq(Commands)
  BY EmptyType
<1> QED BY <1>1 DEF WithReply, RegisterClient, UnregisterClient, Envelopes

LEMMA InInbox ==
    ASSUME TypeOK, NEW i \in 1..Len(inbox)
    PROVE  /\ inbox[i] \in Envelopes /\ inbox[i].client \in Clients
           /\ inbox[i].commands \in Seq(Commands)
           /\ inbox[i].type \in {"WithReply", "RegisterClient", "UnregisterClient"}
<1>1. inbox \in Seq(Envelopes)
  BY DEF TypeOK
<1>2. inbox[i] \in Envelopes
  BY <1>1, ElementOf, Zenon
<1> QED BY <1>2 DEF Envelopes

(* An envelope that the store is done with. *)
LEMMA ReceiveTypes ==
    ASSUME TypeOK, NEW type, Receive(type)
    PROVE  /\ Head(inbox) = inbox[1] /\ 1 \in 1..Len(inbox) /\ Len(inbox) \in Nat
           /\ Head(inbox).client \in Clients /\ inbox[1].type = type
           /\ inbox' \in Seq(Envelopes) /\ Len(inbox') = Len(inbox) - 1
           /\ \A i \in 1..Len(inbox') : i + 1 \in 1..Len(inbox) /\ inbox'[i] = inbox[i + 1]
<1>1. inbox \in Seq(Envelopes) /\ inbox # << >> /\ inbox' = Tail(inbox) /\ Head(inbox).type = type
  BY DEF TypeOK, Receive
<1>2. /\ Head(inbox) = inbox[1] /\ Len(inbox) \in Nat /\ Len(inbox) > 0
      /\ Tail(inbox) \in Seq(Envelopes) /\ Len(Tail(inbox)) = Len(inbox) - 1
      /\ \A i \in 1..(Len(inbox) - 1) : Tail(inbox)[i] = inbox[i + 1]
  BY <1>1, Taken, Zenon
<1>3. 1 \in 1..Len(inbox)
  BY <1>2
<1>4. Head(inbox).client \in Clients
  BY <1>2, <1>3, InInbox
<1>5. \A i \in 1..(Len(inbox) - 1) : i + 1 \in 1..Len(inbox)
  BY <1>2
<1> QED BY <1>1, <1>2, <1>3, <1>4, <1>5

(* The envelope at the head is changed. *)
LEMMA HeadChanged ==
    ASSUME inbox \in Seq(Envelopes), NEW e \in Envelopes, inbox' = [inbox EXCEPT ![1] = e]
    PROVE  /\ inbox' \in Seq(Envelopes) /\ Len(inbox') = Len(inbox)
           /\ \A i \in 1..Len(inbox) : inbox'[i] = IF i = 1 THEN e ELSE inbox[i]
<1>1. Len(inbox) \in Nat /\ DOMAIN inbox = 1..Len(inbox) /\ inbox \in [1..Len(inbox) -> Envelopes]
  OBVIOUS
<1>2. inbox' \in [1..Len(inbox) -> Envelopes]
  BY <1>1
<1>3. inbox' \in Seq(Envelopes)
  BY <1>1, <1>2
<1>4. DOMAIN inbox' = 1..Len(inbox)
  BY <1>1
<1>5. Len(inbox') = Len(inbox)
  BY <1>1, <1>3, <1>4
<1>6. \A i \in 1..Len(inbox) : inbox'[i] = IF i = 1 THEN e ELSE inbox[i]
  BY <1>1
<1> QED BY <1>3, <1>5, <1>6

(* An envelope that the store goes on with. *)
LEMMA TakesTypes ==
    ASSUME TypeOK, NEW op, Takes(op)
    PROVE  /\ Head(inbox) = inbox[1] /\ 1 \in 1..Len(inbox) /\ Len(inbox) \in Nat
           /\ Caller \in Clients /\ Caller = inbox[1].client /\ inbox[1].type = "WithReply"
           /\ inbox[1].commands \in Seq(Commands) /\ 1 \in 1..Len(inbox[1].commands)
           /\ inbox[1].commands[1].op = op /\ inbox[1].commands[1].arg = Arg
           /\ Arg \in Args(op)
           /\ inbox' \in Seq(Envelopes) /\ Len(inbox') = Len(inbox)
           /\ \A i \in 1..Len(inbox) : i # 1 => inbox'[i] = inbox[i]
           /\ inbox'[1].client = Caller /\ inbox'[1].type = "WithReply"
           /\ Len(inbox'[1].commands) = Len(inbox[1].commands) - 1
           /\ \A j \in 1..Len(inbox'[1].commands) :
                 /\ j + 1 \in 1..Len(inbox[1].commands)
                 /\ inbox'[1].commands[j] = inbox[1].commands[j + 1]
<1> DEFINE cmds == inbox[1].commands
           left == [inbox[1] EXCEPT !.commands = Tail(@)]
<1>1. /\ inbox \in Seq(Envelopes) /\ inbox # << >> /\ Head(inbox).type = "WithReply"
      /\ Head(inbox).commands # << >> /\ Head(Head(inbox).commands).op = op
      /\ inbox' = [inbox EXCEPT ![1].commands = Tail(@)]
  BY DEF TypeOK, Takes
<1>2. Head(inbox) = inbox[1] /\ Len(inbox) \in Nat /\ Len(inbox) > 0
  BY <1>1, Taken, Zenon
<1>3. 1 \in 1..Len(inbox)
  BY <1>2
<1>4. inbox[1] \in Envelopes /\ inbox[1].client \in Clients /\ cmds \in Seq(Commands)
  BY <1>3, InInbox
<1>5. /\ Head(cmds) \in Commands /\ Head(cmds) = cmds[1] /\ Len(cmds) \in Nat /\ Len(cmds) > 0
      /\ Tail(cmds) \in Seq(Commands) /\ Len(Tail(cmds)) = Len(cmds) - 1
      /\ \A i \in 1..(Len(cmds) - 1) : Tail(cmds)[i] = cmds[i + 1]
  BY <1>1, <1>2, <1>4, Taken, Zenon
<1>6. cmds[1].op = op /\ cmds[1].arg = Arg /\ Arg \in Args(op)
  BY <1>1, <1>2, <1>5, CommandTypes, Zenon DEF Arg
<1>7. /\ left \in Envelopes /\ left.client = inbox[1].client /\ left.type = inbox[1].type
      /\ left.commands = Tail(cmds)
  BY <1>4, <1>5 DEF Envelopes
<1>8. inbox' = [inbox EXCEPT ![1] = left]
  BY <1>1
<1>9. /\ inbox' \in Seq(Envelopes) /\ Len(inbox') = Len(inbox)
      /\ \A i \in 1..Len(inbox) : inbox'[i] = IF i = 1 THEN left ELSE inbox[i]
  <2> HIDE DEF left
  <2>1. inbox \in Seq(Envelopes) /\ left \in Envelopes
    BY <1>1, <1>7
  <2> QED BY <2>1, <1>8, HeadChanged
<1>10. inbox'[1] = left
  BY <1>9, <1>3
<1>11. \A j \in 1..(Len(cmds) - 1) : j + 1 \in 1..Len(cmds)
  BY <1>5
<1>12. 1 \in 1..Len(cmds)
  BY <1>5
<1> HIDE DEF left
<1> QED BY <1>1, <1>2, <1>3, <1>4, <1>5, <1>6, <1>7, <1>9, <1>10, <1>11, <1>12 DEF Caller

(* The commands of the store that leave its channels alone. *)
LEMMA ExecTypes ==
    ASSUME TypeOK
    PROVE  /\ ExecSetUser => TypeOK'
           /\ ExecAuth => TypeOK'
           /\ ExecSubscribe => TypeOK'
           /\ ExecUnsubscribe => TypeOK'
           /\ ExecOther => TypeOK'
<1> USE DEF storeVars, clientVars, mailVars, noteVars
<1>1. ASSUME ExecSetUser PROVE TypeOK'
  <2>1. inbox' \in Seq(Envelopes) /\ Arg \in Passwords
    BY <1>1, TakesTypes DEF ExecSetUser, Args
  <2>2. passwords' \subseteq Passwords
    BY <1>1, <2>1 DEF ExecSetUser, TypeOK
  <2> QED BY <1>1, <2>1, <2>2 DEF ExecSetUser, TypeOK
<1>2. ASSUME ExecAuth PROVE TypeOK'
  <2>1. inbox' \in Seq(Envelopes)
    BY <1>2, TakesTypes DEF ExecAuth
  <2>2. verdict' \in BOOLEAN
    BY <1>2 DEF ExecAuth, TypeOK
  <2> QED BY <1>2, <2>1, <2>2 DEF ExecAuth, TypeOK
<1>3. ASSUME ExecSubscribe PROVE TypeOK'
  <2>1. inbox' \in Seq(Envelopes) /\ Arg \in Channels /\ Caller \in Clients
    BY <1>3, TakesTypes DEF ExecSubscribe, Args
  <2>2. subscriptions' \in [Channels -> SUBSET Clients]
    BY <1>3, <2>1 DEF ExecSubscribe, TypeOK
  <2> QED BY <1>3, <2>1, <2>2 DEF ExecSubscribe, TypeOK
<1>4. ASSUME ExecUnsubscribe PROVE TypeOK'
  <2>1. inbox' \in Seq(Envelopes) /\ Arg \in Channels /\ Caller \in Clients
    BY <1>4, TakesTypes DEF ExecUnsubscribe, Args
  <2>2. subscriptions' \in [Channels -> SUBSET Clients]
    BY <1>4, <2>1 DEF ExecUnsubscribe, TypeOK
  <2> QED BY <1>4, <2>1, <2>2 DEF ExecUnsubscribe, TypeOK
<1>5. ASSUME ExecOther PROVE TypeOK'
  <2>1. inbox' \in Seq(Envelopes)
    BY <1>5, TakesTypes DEF ExecOther
  <2> QED BY <1>5, <2>1 DEF ExecOther, TypeOK
<1> QED BY <1>1, <1>2, <1>3, <1>4, <1>5

(* What a PUBLISH does to the channel of one client. *)
LEMMA PublishTypes ==
    ASSUME TypeOK, ExecPublish, NEW d \in Clients
    PROVE  /\ published \in Nat /\ published' = published + 1 /\ Arg \in Channels
           /\ Message(published + 1, Arg) \in Messages
           /\ CASE d \in Subscribers(Arg) /\ CanSend(d) ->
                     /\ push'[d] = Append(push[d], Message(published + 1, Arg))
                     /\ missed'[d] = missed[d] /\ meant'[d] = meant[d] \cup {published + 1}
                [] d \in Subscribers(Arg) /\ ~CanSend(d) ->
                     /\ push'[d] = push[d] /\ meant'[d] = meant[d] \cup {published + 1}
                     /\ missed'[d] = missed[d] \cup {published + 1}
                [] d \notin Subscribers(Arg) ->
                     push'[d] = push[d] /\ missed'[d] = missed[d] /\ meant'[d] = meant[d]
<1>1. published \in Nat /\ published' = published + 1 /\ Arg \in Channels
  BY TakesTypes DEF ExecPublish, Args, TypeOK
<1>2. Message(published + 1, Arg) \in Messages
  BY <1>1 DEF Message, Messages
<1>3. /\ push'[d]   = IF d \in Subscribers(Arg) /\ CanSend(d)
                      THEN Append(push[d], Message(published + 1, Arg)) ELSE push[d]
      /\ missed'[d] = IF d \in Subscribers(Arg) /\ ~CanSend(d)
                      THEN missed[d] \cup {published + 1} ELSE missed[d]
      /\ meant'[d]  = IF d \in Subscribers(Arg) THEN meant[d] \cup {published + 1} ELSE meant[d]
  BY DEF ExecPublish, Subscribers
<1> QED BY <1>1, <1>2, <1>3

LEMMA PublishedTypes ==
    ASSUME TypeOK, ExecPublish
    PROVE  TypeOK'
<1>1. inbox' \in Seq(Envelopes)
  BY TakesTypes DEF ExecPublish
<1>2. published' \in Nat /\ published + 1 \in Nat
  BY DEF ExecPublish, TypeOK
<1>3. ASSUME NEW d \in Clients PROVE push'[d] \in Seq(Messages) /\ Len(push'[d]) <= PushCap
  <2>1. push[d] \in Seq(Messages) /\ Len(push[d]) <= PushCap
    BY DEF TypeOK
  <2>2. CASE push'[d] = push[d]
    BY <2>1, <2>2
  <2>3. CASE push'[d] # push[d]
    <3>1. /\ push'[d] = Append(push[d], Message(published + 1, Arg)) /\ CanSend(d)
          /\ Message(published + 1, Arg) \in Messages
      BY <2>3, PublishTypes
    <3> QED BY <2>1, <3>1, PushCapAssumption, Appended DEF CanSend
  <2> QED BY <2>2, <2>3
<1>4. push' \in [Clients -> Seq(Messages)]
  <2>1. push' = [d \in Clients |-> push'[d]]
    BY DEF ExecPublish
  <2> QED BY <1>3, <2>1
<1>5. meant' \in [Clients -> SUBSET Nat]
  BY <1>2 DEF ExecPublish, TypeOK
<1>6. missed' \in [Clients -> SUBSET Nat]
  BY <1>2 DEF ExecPublish, TypeOK
<1>7. /\ verdict' = verdict /\ UNCHANGED <<registered, passwords, subscriptions>>
      /\ UNCHANGED <<task, need_auth, mode, queue, request, oneshot, connected>>
      /\ UNCHANGED <<calls, got, confirmed, announced, newcomer, proven>>
  BY DEF ExecPublish, storeVars, clientVars, noteVars
<1> QED BY <1>1, <1>2, <1>3, <1>4, <1>5, <1>6, <1>7 DEF TypeOK

LEMMA RegistryTypes ==
    ASSUME TypeOK
    PROVE  /\ ExecRegister => TypeOK'
           /\ ExecUnregister => TypeOK'
           /\ Answer => TypeOK'
<1> USE DEF storeVars, clientVars, mailVars, noteVars
<1>1. ASSUME ExecRegister PROVE TypeOK'
  <2>1. inbox' \in Seq(Envelopes) /\ Head(inbox).client \in Clients
    BY <1>1, ReceiveTypes DEF ExecRegister
  <2>2. registered' \subseteq Clients
    BY <1>1, <2>1 DEF ExecRegister, TypeOK
  <2>3. oneshot' \in [Clients -> [ready : BOOLEAN, ok : BOOLEAN]]
    BY <1>1, <2>1 DEF ExecRegister, Reply, MustAuth, TypeOK
  <2> QED BY <1>1, <2>1, <2>2, <2>3 DEF ExecRegister, TypeOK
<1>2. ASSUME ExecUnregister PROVE TypeOK'
  <2>1. inbox' \in Seq(Envelopes)
    BY <1>2, ReceiveTypes DEF ExecUnregister
  <2> QED BY <1>2, <2>1 DEF ExecUnregister, TypeOK
<1>3. ASSUME Answer PROVE TypeOK'
  <2>1. inbox' \in Seq(Envelopes)
    BY <1>3, ReceiveTypes DEF Answer
  <2>2. oneshot' \in [Clients -> [ready : BOOLEAN, ok : BOOLEAN]]
    BY <1>3 DEF Answer, Answered, Reply, TypeOK
  <2> QED BY <1>3, <2>1, <2>2 DEF Answer, TypeOK
<1> QED BY <1>1, <1>2, <1>3

(* A client's command, and what its mode made of it. *)
LEMMA Reads ==
    ASSUME TypeOK, NEW c \in Clients, ReadCommand(c)
    PROVE  \E cmd \in Commands :
              /\ cmd.op \in Offered[c]
              /\ mode' = [mode EXCEPT ![c] = RunMode(c, cmd).mode]
              /\ queue' = [queue EXCEPT ![c] = RunMode(c, cmd).queue]
              /\ \/ /\ NeedsStore(c, cmd, RunMode(c, cmd))
                    /\ inbox' = Append(inbox, WithReply(c, RunMode(c, cmd).execute))
                    /\ request' = [request EXCEPT ![c] = RunMode(c, cmd).execute]
                    /\ task' = [task EXCEPT ![c] = "awaiting"]
                 \/ UNCHANGED <<inbox, request, task>>
<1>1. PICK op \in Offered[c] : \E arg \in Args(op) :
        LET cmd == Command(op, arg)
            run == RunMode(c, cmd)
        IN  /\ mode' = [mode EXCEPT ![c] = run.mode]
            /\ queue' = [queue EXCEPT ![c] = run.queue]
            /\ IF NeedsStore(c, cmd, run)
               THEN /\ inbox' = Append(inbox, WithReply(c, run.execute))
                    /\ request' = [request EXCEPT ![c] = run.execute]
                    /\ task' = [task EXCEPT ![c] = "awaiting"]
               ELSE UNCHANGED <<inbox, request, task>>
  BY Zenon DEF ReadCommand
<1>2. PICK arg \in Args(op) :
        LET cmd == Command(op, arg)
            run == RunMode(c, cmd)
        IN  /\ mode' = [mode EXCEPT ![c] = run.mode]
            /\ queue' = [queue EXCEPT ![c] = run.queue]
            /\ IF NeedsStore(c, cmd, run)
               THEN /\ inbox' = Append(inbox, WithReply(c, run.execute))
                    /\ request' = [request EXCEPT ![c] = run.execute]
                    /\ task' = [task EXCEPT ![c] = "awaiting"]
               ELSE UNCHANGED <<inbox, request, task>>
  BY <1>1, Zenon
<1>3. Command(op, arg) \in Commands
  BY SentTypes
<1>4. Command(op, arg).op = op
  BY DEF Command
<1>5. WITNESS Command(op, arg) \in Commands
<1> QED BY <1>2, <1>4, Zenon

LEMMA TaskTypes ==
    ASSUME TypeOK, NEW c \in Clients
    PROVE  /\ Connect(c) => TypeOK'
           /\ Registered(c) => TypeOK'
           /\ ReadCommand(c) => TypeOK'
           /\ WriteReply(c) => TypeOK'
           /\ ForwardPush(c) => TypeOK'
           /\ Leave(c) => TypeOK'
           /\ CloseTask(c) => TypeOK'
           /\ PanicOnWrite(c) => TypeOK'
<1> USE DEF storeVars, clientVars, mailVars, noteVars
<1> DEFINE Tasks == {"none", "registering", "reading", "awaiting", "ended"}
<1>0. /\ WithReply(c, << >>) \in Envelopes /\ RegisterClient(c) \in Envelopes
      /\ UnregisterClient(c) \in Envelopes /\ inbox \in Seq(Envelopes)
      /\ << >> \in Seq(Commands) /\ << >> \in Seq(Messages)
  BY EnvelopeTypes, EmptyType DEF TypeOK
<1>1. ASSUME Connect(c) PROVE TypeOK'
  <2>1. inbox' \in Seq(Envelopes)
    BY <1>0, <1>1, Appended DEF Connect
  <2>2. task' \in [Clients -> Tasks]
    BY <1>1 DEF Connect, TypeOK
  <2>3. newcomer' \subseteq Clients /\ connected' \in [Clients -> BOOLEAN]
    BY <1>1 DEF Connect, TypeOK
  <2> QED BY <1>1, <2>1, <2>2, <2>3 DEF Connect, TypeOK
<1>2. ASSUME Registered(c) PROVE TypeOK'
  <2>1. need_auth' \in [Clients -> BOOLEAN]
    BY <1>2 DEF Registered, TypeOK
  <2>2. oneshot' \in [Clients -> [ready : BOOLEAN, ok : BOOLEAN]]
    BY <1>2 DEF Registered, NoReply, TypeOK
  <2>3. task' \in [Clients -> Tasks]
    BY <1>2 DEF Registered, TypeOK
  <2> QED BY <1>2, <2>1, <2>2, <2>3 DEF Registered, TypeOK
<1>3. ASSUME ReadCommand(c) PROVE TypeOK'
  <2>1. PICK cmd \in Commands :
              /\ cmd.op \in Offered[c]
              /\ mode' = [mode EXCEPT ![c] = RunMode(c, cmd).mode]
              /\ queue' = [queue EXCEPT ![c] = RunMode(c, cmd).queue]
              /\ \/ /\ NeedsStore(c, cmd, RunMode(c, cmd))
                    /\ inbox' = Append(inbox, WithReply(c, RunMode(c, cmd).execute))
                    /\ request' = [request EXCEPT ![c] = RunMode(c, cmd).execute]
                    /\ task' = [task EXCEPT ![c] = "awaiting"]
                 \/ UNCHANGED <<inbox, request, task>>
    BY <1>3, Reads, Zenon
  <2>2. /\ RunMode(c, cmd).mode \in {"Normal", "Transaction", "Subscription"}
        /\ RunMode(c, cmd).queue \in Seq(Commands)
        /\ RunMode(c, cmd).execute \in Seq(Commands)
    BY RunTypes
  <2>3. WithReply(c, RunMode(c, cmd).execute) \in Envelopes
    BY <2>2, EnvelopeTypes
  <2>4. inbox' \in Seq(Envelopes)
    <3>1. inbox' = inbox \/ \E e \in Envelopes : inbox' = Append(inbox, e)
      BY <2>1, <2>3
    <3> QED BY <1>0, <3>1, Appended
  <2>5. mode' \in [Clients -> {"Normal", "Transaction", "Subscription"}]
    BY <2>1, <2>2 DEF TypeOK
  <2>6. queue' \in [Clients -> Seq(Commands)]
    BY <2>1, <2>2 DEF TypeOK
  <2>7. request' \in [Clients -> Seq(Commands)]
    BY <2>1, <2>2 DEF TypeOK
  <2>8. task' \in [Clients -> Tasks]
    BY <2>1 DEF TypeOK
  <2>9. calls' \in [Clients -> Nat]
    BY <1>3 DEF ReadCommand, TypeOK
  <2>10. /\ UNCHANGED <<verdict, registered, passwords, subscriptions, need_auth, oneshot>>
         /\ UNCHANGED <<connected, push, published, meant, missed>>
         /\ UNCHANGED <<got, confirmed, announced, newcomer, proven>>
    BY <1>3 DEF ReadCommand
  <2> QED BY <2>4, <2>5, <2>6, <2>7, <2>8, <2>9, <2>10 DEF TypeOK
<1>4. ASSUME WriteReply(c) PROVE TypeOK'
  <2>1. need_auth' \in [Clients -> BOOLEAN]
    BY <1>4 DEF WriteReply, TypeOK
  <2>2. oneshot' \in [Clients -> [ready : BOOLEAN, ok : BOOLEAN]]
    BY <1>4 DEF WriteReply, NoReply, TypeOK
  <2>3. request' \in [Clients -> Seq(Commands)]
    BY <1>0, <1>4 DEF WriteReply, NoRequest, TypeOK
  <2>4. task' \in [Clients -> Tasks]
    BY <1>4 DEF WriteReply, TypeOK
  <2>5. AskedChannels(c) \subseteq Channels
    <3>1. request[c] \in Seq(Commands)
      BY DEF TypeOK
    <3>2. \A i \in 1..Len(request[c]) : request[c][i] \in Commands
      BY <3>1, ElementOf
    <3> QED BY <3>2, CommandTypes DEF AskedChannels
  <2>6. confirmed' \in [Clients -> SUBSET Channels]
    <3>1. /\ confirmed \in [Clients -> SUBSET Channels]
          /\ confirmed[c] \cup AskedChannels(c) \in SUBSET Channels
      BY <2>5 DEF TypeOK
    <3>2. \/ confirmed' = [confirmed EXCEPT ![c] = @ \cup AskedChannels(c)]
          \/ confirmed' = confirmed
      BY <1>4 DEF WriteReply
    <3> QED BY <3>1, <3>2
  <2>7. announced' \in BOOLEAN
    BY <1>4 DEF WriteReply, TypeOK, Asks
  <2>8. proven' \subseteq Clients
    BY <1>4 DEF WriteReply, TypeOK
  <2>9. /\ UNCHANGED <<inbox, verdict, registered, passwords, subscriptions, mode, queue>>
        /\ UNCHANGED <<connected, push, published, meant, missed, calls, got, newcomer>>
    BY <1>4 DEF WriteReply
  <2> QED BY <2>1, <2>2, <2>3, <2>4, <2>6, <2>7, <2>8, <2>9 DEF TypeOK
<1>5. ASSUME ForwardPush(c) PROVE TypeOK'
  <2>1. push[c] \in Seq(Messages) /\ Len(push[c]) <= PushCap /\ push[c] # << >>
    BY <1>5 DEF ForwardPush, TypeOK
  <2>2. /\ Head(push[c]) \in Messages /\ Tail(push[c]) \in Seq(Messages)
        /\ Len(Tail(push[c])) <= PushCap
    <3>1. /\ Head(push[c]) \in Messages /\ Tail(push[c]) \in Seq(Messages)
          /\ Len(Tail(push[c])) = Len(push[c]) - 1 /\ Len(push[c]) \in Nat
      BY <2>1, Taken
    <3> QED BY <2>1, <3>1, PushCapAssumption
  <2>3. push' \in [Clients -> Seq(Messages)]
    BY <1>5, <2>2 DEF ForwardPush, TypeOK
  <2>4. \A d \in Clients : Len(push'[d]) <= PushCap
    BY <1>5, <2>2 DEF ForwardPush, TypeOK
  <2>5. Append(got[c], Head(push[c])) \in Seq(Messages) /\ Head(push[c]).id \in Nat
    BY <2>2, Appended DEF TypeOK, Messages
  <2>6. got' \in [Clients -> Seq(Messages)]
    BY <1>5, <2>5 DEF ForwardPush, TypeOK
  <2>7. missed' \in [Clients -> SUBSET Nat]
    <3>1. missed \in [Clients -> SUBSET Nat] /\ missed[c] \cup {Head(push[c]).id} \in SUBSET Nat
      BY <2>5 DEF TypeOK
    <3>2. \/ missed' = [missed EXCEPT ![c] = @ \cup {Head(push[c]).id}]
          \/ missed' = missed
      BY <1>5 DEF ForwardPush
    <3> QED BY <3>1, <3>2
  <2>8. /\ UNCHANGED <<inbox, verdict, registered, passwords, subscriptions>>
        /\ UNCHANGED <<task, need_auth, mode, queue, request, oneshot, connected>>
        /\ UNCHANGED <<published, meant, calls, confirmed, announced, newcomer, proven>>
    BY <1>5 DEF ForwardPush
  <2> QED BY <2>3, <2>4, <2>6, <2>7, <2>8 DEF TypeOK
<1>6. ASSUME Leave(c) PROVE TypeOK'
  <2>1. connected' \in [Clients -> BOOLEAN]
    BY <1>6 DEF Leave, TypeOK
  <2> QED BY <1>6, <2>1 DEF Leave, TypeOK
<1>7. ASSUME End(c)
      PROVE  /\ task' \in [Clients -> Tasks] /\ push' \in [Clients -> Seq(Messages)]
             /\ \A d \in Clients : Len(push'[d]) <= PushCap
             /\ missed' \in [Clients -> SUBSET Nat]
  <2>1. task' \in [Clients -> Tasks]
    BY <1>7 DEF End, TypeOK
  <2>2. push' \in [Clients -> Seq(Messages)]
    BY <1>0, <1>7 DEF End, TypeOK
  <2>3. \A d \in Clients : Len(push'[d]) <= PushCap
    <3>1. Len(<< >>) = 0
      OBVIOUS
    <3> QED BY <1>7, <3>1, PushCapAssumption DEF End, TypeOK
  <2>4. LeftInChannel(c) \subseteq Nat
    <3>1. push[c] \in Seq(Messages)
      BY DEF TypeOK
    <3>2. \A i \in 1..Len(push[c]) : push[c][i] \in Messages
      BY <3>1, ElementOf
    <3> QED BY <3>2 DEF LeftInChannel, Messages
  <2>5. missed' \in [Clients -> SUBSET Nat]
    BY <1>7, <2>4 DEF End, TypeOK
  <2> QED BY <2>1, <2>2, <2>3, <2>5
<1>8. ASSUME CloseTask(c) PROVE TypeOK'
  <2>1. inbox' \in Seq(Envelopes)
    BY <1>0, <1>8, Appended DEF CloseTask
  <2>2. /\ UNCHANGED <<verdict, registered, passwords, subscriptions>>
        /\ UNCHANGED <<need_auth, mode, queue, request, oneshot, connected, published, meant>>
        /\ UNCHANGED <<calls, got, confirmed, announced, newcomer, proven>>
    BY <1>8 DEF CloseTask
  <2>3. End(c)
    BY <1>8 DEF CloseTask
  <2> QED BY <1>7, <2>1, <2>2, <2>3 DEF TypeOK
<1>9. ASSUME PanicOnWrite(c) PROVE TypeOK'
  <2>1. /\ UNCHANGED <<inbox, verdict, registered, passwords, subscriptions>>
        /\ UNCHANGED <<need_auth, mode, queue, request, oneshot, connected, published, meant>>
        /\ UNCHANGED <<calls, got, confirmed, announced, newcomer, proven>>
    BY <1>9 DEF PanicOnWrite
  <2>2. End(c)
    BY <1>9 DEF PanicOnWrite
  <2> QED BY <1>7, <2>1, <2>2 DEF TypeOK
<1> QED BY <1>1, <1>2, <1>3, <1>4, <1>5, <1>6, <1>8, <1>9

LEMMA InitTypes == Init => TypeOK
<1>1. << >> \in Seq(Envelopes) /\ << >> \in Seq(Commands) /\ << >> \in Seq(Messages) /\ Len(<< >>) = 0
  BY EmptyType
<1> SUFFICES ASSUME Init PROVE TypeOK
  OBVIOUS
<1>2. inbox \in Seq(Envelopes) /\ queue \in [Clients -> Seq(Commands)]
  BY <1>1 DEF Init
<1>3. request \in [Clients -> Seq(Commands)]
  BY <1>1 DEF Init, NoRequest
<1>4. push \in [Clients -> Seq(Messages)] /\ got \in [Clients -> Seq(Messages)]
  BY <1>1 DEF Init
<1>5. \A c \in Clients : Len(push[c]) <= PushCap
  BY <1>1, PushCapAssumption DEF Init
<1>6. oneshot \in [Clients -> [ready : BOOLEAN, ok : BOOLEAN]]
  BY DEF Init, NoReply
<1> QED BY <1>2, <1>3, <1>4, <1>5, <1>6 DEF Init, TypeOK

LEMMA NextTypes ==
    ASSUME TypeOK, [Next]_vars
    PROVE  TypeOK'
<1>1. CASE Next
  BY <1>1, ExecTypes, PublishedTypes, RegistryTypes, TaskTypes, Zenon
     DEF Next, StoreStep, TryExecute, TaskStep
<1>2. CASE UNCHANGED vars
  BY <1>2 DEF vars, storeVars, clientVars, mailVars, noteVars, TypeOK
<1> QED BY <1>1, <1>2

(* The variables of Sessions have their types, and no channel to a client holds
   more messages than its capacity.                                          *)
THEOREM TypeCorrect == Spec => []TypeOK
<1> QED BY InitTypes, NextTypes, PTL DEF Spec

-----------------------------------------------------------------------------
(* The requests on their way.                                              *)

(* A client task that sent an envelope waits for its reply, or is gone; what
   is left of its request is part of it.                                     *)
Awaited(e) ==
    /\ e.type = "WithReply" =>
          /\ task[e.client] = "awaiting" /\ ~oneshot[e.client].ready
          /\ \A j \in 1..Len(e.commands) :
                \E k \in 1..Len(request[e.client]) : request[e.client][k] = e.commands[j]
    /\ e.type = "RegisterClient" =>
          task[e.client] = "registering" /\ ~oneshot[e.client].ready /\ e.commands = << >>
    /\ e.type = "UnregisterClient" => task[e.client] = "ended" /\ e.commands = << >>

RequestsAwaited == \A i \in 1..Len(inbox) : Awaited(inbox[i])

OneEach == \A i, j \in 1..Len(inbox) : inbox[i].client = inbox[j].client => i = j

RepliesAwaited == \A c \in Clients : oneshot[c].ready => task[c] \in {"registering", "awaiting"}

(* A task ends only after its peer has gone. *)
EndedGone == \A c \in Clients : task[c] = "ended" => ~connected[c]

RequestInv == RequestsAwaited /\ OneEach /\ RepliesAwaited /\ EndedGone

Silent(c) == \A i \in 1..Len(inbox) : inbox[i].client # c

(* Who waits for nothing, or has its reply, has nothing on its way. *)
LEMMA SilentClients ==
    ASSUME TypeOK, RequestInv, NEW c \in Clients,
           task[c] \in {"none", "reading"} \/ oneshot[c].ready
    PROVE  Silent(c)
<1> SUFFICES ASSUME NEW i \in 1..Len(inbox), inbox[i].client = c PROVE FALSE
  BY DEF Silent
<1>1. inbox[i].type \in {"WithReply", "RegisterClient", "UnregisterClient"}
  BY InInbox
<1>2. Awaited(inbox[i])
  BY DEF RequestInv, RequestsAwaited
<1>3. oneshot[c].ready => task[c] \in {"registering", "awaiting"}
  BY DEF RequestInv, RepliesAwaited
<1> QED BY <1>1, <1>2, <1>3 DEF Awaited

(* What a step leaves alone of the requests of everyone but c. *)
SpareOthers(c) ==
    \A d \in Clients : d # c =>
        task'[d] = task[d] /\ oneshot'[d].ready = oneshot[d].ready /\ request'[d] = request[d]

LEMMA StaysAwaited ==
    ASSUME NEW c, SpareOthers(c), NEW e, e.client \in Clients, e.client # c, Awaited(e)
    PROVE  Awaited(e)'
<1>1. /\ task'[e.client] = task[e.client] /\ request'[e.client] = request[e.client]
      /\ oneshot'[e.client].ready = oneshot[e.client].ready
  BY DEF SpareOthers
<1> QED BY <1>1 DEF Awaited

(* A step that has nothing to do with requests. *)
LEMMA RequestsStay ==
    ASSUME RequestInv, UNCHANGED <<inbox, task, request, oneshot>>
    PROVE  RequestsAwaited' /\ OneEach' /\ RepliesAwaited'
<1>1. ASSUME NEW i \in 1..Len(inbox) PROVE Awaited(inbox[i])'
  <2>1. PICK e : e = inbox[i]
    OBVIOUS
  <2>2. Awaited(e)
    BY <2>1 DEF RequestInv, RequestsAwaited
  <2>3. Awaited(e)'
    BY <2>2 DEF Awaited
  <2> QED BY <2>1, <2>3
<1> QED BY <1>1 DEF RequestInv, RequestsAwaited, OneEach, RepliesAwaited

(* A step of a client that has nothing on its way and sends nothing. *)
LEMMA NothingSent ==
    ASSUME TypeOK, RequestInv, NEW c \in Clients, Silent(c), SpareOthers(c), inbox' = inbox
    PROVE  RequestsAwaited' /\ OneEach'
<1>1. ASSUME NEW i \in 1..Len(inbox) PROVE Awaited(inbox[i])'
  <2>1. PICK e : e = inbox[i]
    OBVIOUS
  <2>2. e.client \in Clients /\ e.client # c /\ Awaited(e)
    BY <2>1, InInbox DEF Silent, RequestInv, RequestsAwaited
  <2>3. Awaited(e)'
    BY <2>2, StaysAwaited
  <2> QED BY <2>1, <2>3
<1> QED BY <1>1 DEF RequestInv, RequestsAwaited, OneEach

(* A step of such a client that sends an envelope. *)
LEMMA EnvelopeSent ==
    ASSUME TypeOK, RequestInv, NEW c \in Clients, Silent(c), SpareOthers(c),
           NEW e \in Envelopes, e.client = c, inbox' = Append(inbox, e), Awaited(e)'
    PROVE  RequestsAwaited' /\ OneEach'
<1>1. /\ Len(inbox') = Len(inbox) + 1 /\ Len(inbox) \in Nat
      /\ \A i \in 1..Len(inbox) : inbox'[i] = inbox[i]
      /\ inbox'[Len(inbox) + 1] = e
  <2>1. inbox \in Seq(Envelopes)
    BY DEF TypeOK
  <2> QED BY <2>1, Appended
<1>2. ASSUME NEW i \in 1..Len(inbox) PROVE Awaited(inbox[i])'
  <2>1. PICK f : f = inbox[i]
    OBVIOUS
  <2>2. f.client \in Clients /\ f.client # c /\ Awaited(f)
    BY <2>1, InInbox DEF Silent, RequestInv, RequestsAwaited
  <2>3. Awaited(f)'
    BY <2>2, StaysAwaited
  <2> QED BY <1>1, <2>1, <2>3
<1>3. Awaited(inbox[Len(inbox)])'
  BY <1>1
<1>4. RequestsAwaited'
  <2>1. \A i \in 1..Len(inbox') : i \in 1..Len(inbox) \/ i = Len(inbox')
    BY <1>1
  <2> QED BY <1>2, <1>3, <2>1 DEF RequestsAwaited
<1>5. OneEach'
  <2> SUFFICES ASSUME NEW i \in 1..Len(inbox'), NEW j \in 1..Len(inbox'),
                      inbox'[i].client = inbox'[j].client
               PROVE  i = j
    BY DEF OneEach
  <2>1. CASE i \in 1..Len(inbox) /\ j \in 1..Len(inbox)
    BY <1>1, <2>1 DEF RequestInv, OneEach
  <2>2. CASE i \notin 1..Len(inbox) /\ j \notin 1..Len(inbox)
    BY <1>1, <2>2
  <2>3. CASE i \in 1..Len(inbox) /\ j \notin 1..Len(inbox)
    <3>1. inbox'[j] = e /\ inbox'[i] = inbox[i]
      BY <1>1, <2>3
    <3> QED BY <2>3, <3>1 DEF Silent
  <2>4. CASE i \notin 1..Len(inbox) /\ j \in 1..Len(inbox)
    <3>1. inbox'[i] = e /\ inbox'[j] = inbox[j]
      BY <1>1, <2>4
    <3> QED BY <2>4, <3>1 DEF Silent
  <2> QED BY <2>1, <2>2, <2>3, <2>4
<1> QED BY <1>4, <1>5

(* The store is done with the envelope at the head. *)
LEMMA EnvelopeDone ==
    ASSUME TypeOK, RequestInv, NEW type, Receive(type), SpareOthers(Head(inbox).client)
    PROVE  RequestsAwaited' /\ OneEach'
<1>1. /\ Head(inbox) = inbox[1] /\ 1 \in 1..Len(inbox) /\ Len(inbox) \in Nat
      /\ \A i \in 1..Len(inbox') : i + 1 \in 1..Len(inbox) /\ inbox'[i] = inbox[i + 1]
      /\ Len(inbox') = Len(inbox) - 1
  BY ReceiveTypes
<1>2. ASSUME NEW i \in 1..Len(inbox') PROVE Awaited(inbox[i])'
  <2>1. PICK e : e = inbox[i + 1]
    OBVIOUS
  <2>2. i + 1 \in 1..Len(inbox) /\ i + 1 # 1
    BY <1>1
  <2>3. e.client # inbox[1].client
    BY <1>1, <2>1, <2>2 DEF RequestInv, OneEach
  <2>4. e.client \in Clients /\ Awaited(e)
    BY <2>1, <2>2, InInbox DEF RequestInv, RequestsAwaited
  <2>5. Awaited(e)'
    BY <1>1, <2>3, <2>4, StaysAwaited
  <2> QED BY <1>1, <2>1, <2>5
<1>3. OneEach'
  <2> SUFFICES ASSUME NEW i \in 1..Len(inbox'), NEW j \in 1..Len(inbox'),
                      inbox'[i].client = inbox'[j].client
               PROVE  i = j
    BY DEF OneEach
  <2>1. i + 1 = j + 1
    BY <1>1 DEF RequestInv, OneEach
  <2> QED BY <1>1, <2>1
<1> QED BY <1>2, <1>3 DEF RequestsAwaited

(* The store has executed a command of it. *)
LEMMA CommandDone ==
    ASSUME TypeOK, RequestInv, NEW op, Takes(op),
           UNCHANGED <<task, oneshot, request, connected>>
    PROVE  RequestInv'
<1>1. /\ 1 \in 1..Len(inbox) /\ Len(inbox) \in Nat
      /\ Caller = inbox[1].client /\ inbox[1].type = "WithReply"
      /\ Len(inbox') = Len(inbox) /\ \A i \in 1..Len(inbox) : i # 1 => inbox'[i] = inbox[i]
      /\ inbox'[1].client = Caller /\ inbox'[1].type = "WithReply"
      /\ \A j \in 1..Len(inbox'[1].commands) :
            /\ j + 1 \in 1..Len(inbox[1].commands)
            /\ inbox'[1].commands[j] = inbox[1].commands[j + 1]
  BY TakesTypes
<1>2. ASSUME NEW i \in 1..Len(inbox) PROVE Awaited(inbox[i])'
  <2>1. Awaited(inbox[i]) /\ Awaited(inbox[1])
    BY <1>1 DEF RequestInv, RequestsAwaited
  <2>2. CASE i # 1
    <3>1. PICK e : e = inbox[i]
      OBVIOUS
    <3>2. Awaited(e)
      BY <2>1, <3>1
    <3>3. Awaited(e)'
      BY <3>2 DEF Awaited
    <3> QED BY <1>1, <2>2, <3>1, <3>3
  <2>3. CASE i = 1
    <3>1. task[Caller] = "awaiting" /\ ~oneshot[Caller].ready
      BY <1>1, <2>1 DEF Awaited
    <3>2. \A j \in 1..Len(inbox'[1].commands) :
             \E k \in 1..Len(request[Caller]) : request[Caller][k] = inbox'[1].commands[j]
      BY <1>1, <2>1 DEF Awaited
    <3>3. PICK e : e = inbox'[1]
      OBVIOUS
    <3>4. e.type = "WithReply" /\ e.client = Caller
      BY <1>1, <3>3
    <3>5. PICK f : f = Caller
      OBVIOUS
    <3>6. /\ task'[f] = "awaiting" /\ ~oneshot'[f].ready
          /\ \A j \in 1..Len(e.commands) :
                \E k \in 1..Len(request'[f]) : request'[f][k] = e.commands[j]
      BY <3>1, <3>2, <3>3, <3>5
    <3>7. Awaited(e)'
      BY <3>4, <3>5, <3>6 DEF Awaited
    <3> QED BY <2>3, <3>3, <3>7
  <2> QED BY <2>2, <2>3
<1>3. RequestsAwaited'
  BY <1>1, <1>2 DEF RequestsAwaited
<1>4. OneEach'
  <2>1. \A i \in 1..Len(inbox) : inbox'[i].client = inbox[i].client
    BY <1>1
  <2> QED BY <1>1, <2>1 DEF RequestInv, OneEach
<1>5. RepliesAwaited' /\ EndedGone'
  BY DEF RequestInv, RepliesAwaited, EndedGone
<1> QED BY <1>3, <1>4, <1>5 DEF RequestInv

LEMMA StoreRequests ==
    ASSUME TypeOK, RequestInv, StoreStep
    PROVE  RequestInv'
<1> USE DEF storeVars, clientVars, mailVars, noteVars
<1>1. CASE ExecRegister
  <2>1. PICK c : c = Head(inbox).client
    OBVIOUS
  <2>2. Receive("RegisterClient")
    BY <1>1 DEF ExecRegister
  <2>3. c \in Clients /\ task[c] = "registering"
    BY <2>1, <2>2, ReceiveTypes DEF RequestInv, RequestsAwaited, Awaited
  <2>4. /\ UNCHANGED <<task, request, connected>>
        /\ \A d \in Clients : oneshot'[d] = IF d = c THEN Reply(MustAuth) ELSE oneshot[d]
    BY <1>1, <2>1, <2>3 DEF ExecRegister, TypeOK
  <2>5. SpareOthers(c)
    BY <2>4 DEF SpareOthers
  <2>6. RequestsAwaited' /\ OneEach'
    BY <2>1, <2>2, <2>5, EnvelopeDone
  <2>7. RepliesAwaited' /\ EndedGone'
    BY <2>3, <2>4 DEF RequestInv, RepliesAwaited, EndedGone
  <2> QED BY <2>6, <2>7 DEF RequestInv
<1>2. CASE ExecUnregister
  <2>1. Receive("UnregisterClient") /\ UNCHANGED <<task, oneshot, request, connected>>
    BY <1>2 DEF ExecUnregister
  <2>2. SpareOthers(Head(inbox).client)
    BY <2>1 DEF SpareOthers
  <2>3. RequestsAwaited' /\ OneEach'
    BY <2>1, <2>2, EnvelopeDone
  <2>4. RepliesAwaited' /\ EndedGone'
    BY <2>1 DEF RequestInv, RepliesAwaited, EndedGone
  <2> QED BY <2>3, <2>4 DEF RequestInv
<1>3. CASE TryExecute
  <2>1. /\ \E op : Takes(op)
        /\ UNCHANGED <<task, oneshot, request, connected>>
    BY <1>3, Zenon DEF TryExecute, ExecSetUser, ExecAuth, ExecSubscribe, ExecUnsubscribe,
                       ExecPublish, ExecOther
  <2> QED BY <2>1, CommandDone
<1>4. CASE Answer
  <2>1. PICK c : c = Head(inbox).client
    OBVIOUS
  <2>2. Receive("WithReply")
    BY <1>4 DEF Answer
  <2>3. c \in Clients /\ task[c] = "awaiting"
    BY <2>1, <2>2, ReceiveTypes DEF RequestInv, RequestsAwaited, Awaited
  <2>4. /\ UNCHANGED <<task, request, connected>>
        /\ \A d \in Clients : oneshot'[d] = IF d = c THEN Reply(verdict) ELSE oneshot[d]
    BY <1>4, <2>1, <2>3 DEF Answer, Answered, Caller, TypeOK
  <2>5. SpareOthers(c)
    BY <2>4 DEF SpareOthers
  <2>6. RequestsAwaited' /\ OneEach'
    BY <2>1, <2>2, <2>5, EnvelopeDone
  <2>7. RepliesAwaited' /\ EndedGone'
    BY <2>3, <2>4 DEF RequestInv, RepliesAwaited, EndedGone
  <2> QED BY <2>6, <2>7 DEF RequestInv
<1> QED BY <1>1, <1>2, <1>3, <1>4 DEF StoreStep

LEMMA TaskRequests ==
    ASSUME TypeOK, RequestInv, NEW c \in Clients
    PROVE  /\ Connect(c) => RequestInv'
           /\ Registered(c) => RequestInv'
           /\ ReadCommand(c) => RequestInv'
           /\ WriteReply(c) => RequestInv'
           /\ ForwardPush(c) => RequestInv'
           /\ Leave(c) => RequestInv'
           /\ CloseTask(c) => RequestInv'
           /\ PanicOnWrite(c) => RequestInv'
<1> USE DEF storeVars, clientVars, mailVars, noteVars
<1>0. /\ task \in [Clients -> {"none", "registering", "reading", "awaiting", "ended"}]
      /\ request \in [Clients -> Seq(Commands)] /\ connected \in [Clients -> BOOLEAN]
      /\ oneshot \in [Clients -> [ready : BOOLEAN, ok : BOOLEAN]]
  BY DEF TypeOK
<1>1. ASSUME Connect(c) PROVE RequestInv'
  <2>1. Silent(c)
    BY <1>1, SilentClients DEF Connect
  <2>2. /\ task' = [task EXCEPT ![c] = "registering"] /\ UNCHANGED <<oneshot, request>>
        /\ connected' = [connected EXCEPT ![c] = TRUE]
        /\ inbox' = Append(inbox, RegisterClient(c)) /\ task[c] = "none"
    BY <1>1 DEF Connect
  <2>3. SpareOthers(c)
    BY <1>0, <2>2 DEF SpareOthers
  <2>4. ~oneshot[c].ready
    BY <2>2 DEF RequestInv, RepliesAwaited
  <2>5. RegisterClient(c) \in Envelopes /\ RegisterClient(c).client = c
    BY EnvelopeTypes, EmptyType DEF RegisterClient
  <2>6. Awaited(RegisterClient(c))'
    BY <1>0, <2>2, <2>4 DEF Awaited, RegisterClient
  <2>7. RequestsAwaited' /\ OneEach'
    BY <2>1, <2>2, <2>3, <2>5, <2>6, EnvelopeSent
  <2>8. RepliesAwaited' /\ EndedGone'
    BY <1>0, <2>2 DEF RequestInv, RepliesAwaited, EndedGone
  <2> QED BY <2>7, <2>8 DEF RequestInv
<1>2. ASSUME Registered(c) PROVE RequestInv'
  <2>1. Silent(c)
    BY <1>2, SilentClients DEF Registered
  <2>2. /\ task' = [task EXCEPT ![c] = "reading"] /\ UNCHANGED <<inbox, request, connected>>
        /\ oneshot' = [oneshot EXCEPT ![c] = NoReply]
    BY <1>2 DEF Registered
  <2>3. SpareOthers(c)
    BY <1>0, <2>2 DEF SpareOthers
  <2>4. RequestsAwaited' /\ OneEach'
    BY <2>1, <2>2, <2>3, NothingSent
  <2>5. RepliesAwaited' /\ EndedGone'
    BY <1>0, <2>2 DEF RequestInv, RepliesAwaited, EndedGone, NoReply
  <2> QED BY <2>4, <2>5 DEF RequestInv
<1>3. ASSUME ReadCommand(c) PROVE RequestInv'
  <2>1. Silent(c) /\ task[c] = "reading" /\ UNCHANGED <<oneshot, connected>>
    BY <1>3, SilentClients DEF ReadCommand
  <2>2. PICK cmd \in Commands :
              \/ /\ inbox' = Append(inbox, WithReply(c, RunMode(c, cmd).execute))
                 /\ request' = [request EXCEPT ![c] = RunMode(c, cmd).execute]
                 /\ task' = [task EXCEPT ![c] = "awaiting"]
              \/ UNCHANGED <<inbox, request, task>>
    BY <1>3, Reads, Zenon
  <2>3. CASE UNCHANGED <<inbox, request, task>>
    <3>1. SpareOthers(c)
      BY <2>1, <2>3 DEF SpareOthers
    <3>2. RequestsAwaited' /\ OneEach'
      BY <2>1, <2>3, <3>1, NothingSent
    <3>3. RepliesAwaited' /\ EndedGone'
      BY <2>1, <2>3 DEF RequestInv, RepliesAwaited, EndedGone
    <3> QED BY <3>2, <3>3 DEF RequestInv
  <2>4. CASE /\ inbox' = Append(inbox, WithReply(c, RunMode(c, cmd).execute))
             /\ request' = [request EXCEPT ![c] = RunMode(c, cmd).execute]
             /\ task' = [task EXCEPT ![c] = "awaiting"]
    <3>1. PICK cmds \in Seq(Commands) : cmds = RunMode(c, cmd).execute
      BY RunTypes
    <3>2. /\ inbox' = Append(inbox, WithReply(c, cmds))
          /\ request' = [request EXCEPT ![c] = cmds]
          /\ task' = [task EXCEPT ![c] = "awaiting"]
      BY <2>4, <3>1
    <3>3. SpareOthers(c)
      BY <1>0, <2>1, <3>2 DEF SpareOthers
    <3>4. ~oneshot[c].ready
      BY <2>1 DEF RequestInv, RepliesAwaited
    <3>5. WithReply(c, cmds) \in Envelopes /\ WithReply(c, cmds).client = c
      BY EnvelopeTypes DEF WithReply
    <3>6. Awaited(WithReply(c, cmds))'
      <4>1. task'[c] = "awaiting" /\ ~oneshot'[c].ready /\ request'[c] = cmds
        BY <1>0, <2>1, <3>2, <3>4
      <4> QED BY <4>1 DEF Awaited, WithReply
    <3>7. RequestsAwaited' /\ OneEach'
      BY <2>1, <3>2, <3>3, <3>5, <3>6, EnvelopeSent
    <3>8. RepliesAwaited' /\ EndedGone'
      BY <1>0, <2>1, <3>2 DEF RequestInv, RepliesAwaited, EndedGone
    <3> QED BY <3>7, <3>8 DEF RequestInv
  <2> QED BY <2>2, <2>3, <2>4
<1>4. ASSUME WriteReply(c) PROVE RequestInv'
  <2>1. Silent(c)
    BY <1>4, SilentClients DEF WriteReply
  <2>2. /\ task' = [task EXCEPT ![c] = "reading"] /\ UNCHANGED <<inbox, connected>>
        /\ request' = [request EXCEPT ![c] = NoRequest]
        /\ oneshot' = [oneshot EXCEPT ![c] = NoReply]
    BY <1>4 DEF WriteReply
  <2>3. SpareOthers(c)
    BY <1>0, <2>2 DEF SpareOthers
  <2>4. RequestsAwaited' /\ OneEach'
    BY <2>1, <2>2, <2>3, NothingSent
  <2>5. RepliesAwaited' /\ EndedGone'
    BY <1>0, <2>2 DEF RequestInv, RepliesAwaited, EndedGone, NoReply
  <2> QED BY <2>4, <2>5 DEF RequestInv
<1>5. ASSUME ForwardPush(c) PROVE RequestInv'
  <2>1. UNCHANGED <<inbox, task, request, oneshot, connected>>
    BY <1>5 DEF ForwardPush
  <2> QED BY <2>1, RequestsStay DEF RequestInv, EndedGone
<1>6. ASSUME Leave(c) PROVE RequestInv'
  <2>1. UNCHANGED <<inbox, task, request, oneshot>> /\ connected' = [connected EXCEPT ![c] = FALSE]
    BY <1>6 DEF Leave
  <2>2. EndedGone'
    BY <1>0, <2>1 DEF RequestInv, EndedGone
  <2> QED BY <2>1, <2>2, RequestsStay DEF RequestInv
<1>7. ASSUME CloseTask(c) PROVE RequestInv'
  <2>1. Silent(c)
    BY <1>7, SilentClients DEF CloseTask
  <2>2. /\ task' = [task EXCEPT ![c] = "ended"] /\ UNCHANGED <<oneshot, request, connected>>
        /\ inbox' = Append(inbox, UnregisterClient(c)) /\ task[c] = "reading" /\ ~connected[c]
    BY <1>7 DEF CloseTask, End
  <2>3. SpareOthers(c)
    BY <1>0, <2>2 DEF SpareOthers
  <2>4. UnregisterClient(c) \in Envelopes /\ UnregisterClient(c).client = c
    BY EnvelopeTypes, EmptyType DEF UnregisterClient
  <2>5. Awaited(UnregisterClient(c))'
    BY <1>0, <2>2 DEF Awaited, UnregisterClient
  <2>6. RequestsAwaited' /\ OneEach'
    BY <2>1, <2>2, <2>3, <2>4, <2>5, EnvelopeSent
  <2>7. RepliesAwaited' /\ EndedGone'
    BY <1>0, <2>2 DEF RequestInv, RepliesAwaited, EndedGone
  <2> QED BY <2>6, <2>7 DEF RequestInv
<1>8. ASSUME PanicOnWrite(c) PROVE RequestInv'
  <2>1. Silent(c)
    BY <1>8, SilentClients DEF PanicOnWrite
  <2>2. /\ task' = [task EXCEPT ![c] = "ended"] /\ UNCHANGED <<inbox, oneshot, request, connected>>
        /\ task[c] = "reading" /\ ~connected[c]
    BY <1>8 DEF PanicOnWrite, End
  <2>3. SpareOthers(c)
    BY <1>0, <2>2 DEF SpareOthers
  <2>4. RequestsAwaited' /\ OneEach'
    BY <2>1, <2>2, <2>3, NothingSent
  <2>5. RepliesAwaited' /\ EndedGone'
    BY <1>0, <2>2 DEF RequestInv, RepliesAwaited, EndedGone
  <2> QED BY <2>4, <2>5 DEF RequestInv
<1> QED BY <1>1, <1>2, <1>3, <1>4, <1>5, <1>6, <1>7, <1>8

LEMMA NextRequests ==
    ASSUME TypeOK, RequestInv, [Next]_vars
    PROVE  RequestInv'
<1>1. CASE Next
  BY <1>1, StoreRequests, TaskRequests, Zenon DEF Next, TaskStep
<1>2. CASE UNCHANGED vars
  BY <1>2, RequestsStay DEF vars, clientVars, RequestInv, EndedGone
<1> QED BY <1>1, <1>2

LEMMA InitRequests == Init => RequestInv
<1> SUFFICES ASSUME Init PROVE RequestInv
  OBVIOUS
<1>1. Len(inbox) = 0
  BY EmptyType DEF Init
<1> QED BY <1>1 DEF Init, NoReply, RequestInv, RequestsAwaited, OneEach, RepliesAwaited, EndedGone

-----------------------------------------------------------------------------
(* Who does what.                                                          *)

ClientStep(c) == Connect(c) \/ ReadCommand(c) \/ Leave(c) \/ TaskStep(c)

(* The store does not act for the client tasks. *)
LEMMA StoreActs ==
    ASSUME TypeOK, StoreStep
    PROVE  /\ UNCHANGED <<task, need_auth, mode, queue, request, connected>>
           /\ UNCHANGED <<calls, got, confirmed, announced, newcomer, proven>>
           /\ passwords \subseteq passwords'
           /\ ExecSubscribe \/ \A ch \in Channels : subscriptions'[ch] \subseteq subscriptions[ch]
           /\ ExecPublish \/ UNCHANGED <<push, published, meant, missed>>
           /\ ExecRegister \/ Answer \/ oneshot' = oneshot
<1> USE DEF storeVars, clientVars, mailVars, noteVars
<1>1. CASE ExecRegister
  BY <1>1 DEF ExecRegister
<1>2. CASE ExecUnregister
  BY <1>2 DEF ExecUnregister
<1>3. CASE Answer
  BY <1>3 DEF Answer
<1>4. CASE ExecSetUser
  BY <1>4 DEF ExecSetUser
<1>5. CASE ExecAuth
  BY <1>5 DEF ExecAuth
<1>6. CASE ExecSubscribe
  BY <1>6 DEF ExecSubscribe
<1>7. CASE ExecUnsubscribe
  <2>1. \A ch \in Channels : subscriptions'[ch] \subseteq subscriptions[ch]
    BY <1>7 DEF ExecUnsubscribe, TypeOK
  <2> QED BY <1>7, <2>1 DEF ExecUnsubscribe
<1>8. CASE ExecPublish
  BY <1>8 DEF ExecPublish
<1>9. CASE ExecOther
  BY <1>9 DEF ExecOther
<1> QED BY <1>1, <1>2, <1>3, <1>4, <1>5, <1>6, <1>7, <1>8, <1>9 DEF StoreStep, TryExecute

(* A client task acts for itself. *)
LEMMA TaskActs ==
    ASSUME TypeOK, NEW c \in Clients, ClientStep(c), NEW d \in Clients, d # c
    PROVE  /\ task'[d] = task[d] /\ need_auth'[d] = need_auth[d] /\ mode'[d] = mode[d]
           /\ request'[d] = request[d] /\ oneshot'[d] = oneshot[d]
           /\ connected'[d] = connected[d] /\ push'[d] = push[d] /\ got'[d] = got[d]
           /\ missed'[d] = missed[d] /\ confirmed'[d] = confirmed[d]
           /\ d \in newcomer' <=> d \in newcomer
           /\ d \in proven' <=> d \in proven
<1> USE DEF storeVars, clientVars, mailVars, noteVars
<1>1. CASE Connect(c)
  BY <1>1 DEF Connect, TypeOK
<1>2. CASE ReadCommand(c)
  <2>1. PICK cmd \in Commands :
              /\ mode' = [mode EXCEPT ![c] = RunMode(c, cmd).mode]
              /\ \/ /\ request' = [request EXCEPT ![c] = RunMode(c, cmd).execute]
                    /\ task' = [task EXCEPT ![c] = "awaiting"]
                 \/ UNCHANGED <<inbox, request, task>>
    BY <1>2, Reads, Zenon
  <2>2. mode'[d] = mode[d] /\ request'[d] = request[d] /\ task'[d] = task[d]
    BY <2>1 DEF TypeOK
  <2> QED BY <1>2, <2>2 DEF ReadCommand
<1>3. CASE Leave(c)
  BY <1>3 DEF Leave, TypeOK
<1>4. CASE Registered(c)
  BY <1>4 DEF Registered, TypeOK
<1>5. CASE WriteReply(c)
  <2>1. /\ task'[d] = task[d] /\ need_auth'[d] = need_auth[d]
        /\ request'[d] = request[d] /\ oneshot'[d] = oneshot[d]
    BY <1>5 DEF WriteReply, TypeOK
  <2>2. confirmed'[d] = confirmed[d] /\ (d \in proven' <=> d \in proven)
    BY <1>5 DEF WriteReply, TypeOK
  <2> QED BY <1>5, <2>1, <2>2 DEF WriteReply
<1>6. CASE ForwardPush(c)
  BY <1>6 DEF ForwardPush, TypeOK
<1>7. CASE CloseTask(c)
  BY <1>7 DEF CloseTask, End, TypeOK
<1>8. CASE PanicOnWrite(c)
  BY <1>8 DEF PanicOnWrite, End, TypeOK
<1> QED BY <1>1, <1>2, <1>3, <1>4, <1>5, <1>6, <1>7, <1>8 DEF ClientStep, TaskStep

(* No client task changes what the store has. *)
LEMMA TaskSpares ==
    ASSUME TypeOK, NEW c \in Clients, ClientStep(c)
    PROVE  /\ UNCHANGED <<registered, passwords, subscriptions, published, meant>>
           /\ announced' = announced \/ WriteReply(c)
           /\ newcomer' = newcomer \/ (announced /\ Connect(c))
           /\ inbox' = inbox \/ \E e \in Envelopes : inbox' = Append(inbox, e)
<1> USE DEF storeVars, clientVars, mailVars, noteVars
<1>0. << >> \in Seq(Commands)
  BY EmptyType
<1>1. CASE Connect(c)
  BY <1>0, <1>1, EnvelopeTypes DEF Connect
<1>2. CASE ReadCommand(c)
  <2>1. PICK cmd \in Commands :
              \/ inbox' = Append(inbox, WithReply(c, RunMode(c, cmd).execute))
              \/ UNCHANGED <<inbox, request, task>>
    BY <1>2, Reads, Zenon
  <2>2. WithReply(c, RunMode(c, cmd).execute) \in Envelopes
    BY RunTypes, EnvelopeTypes
  <2>3. inbox' = inbox \/ \E e \in Envelopes : inbox' = Append(inbox, e)
    BY <2>1, <2>2
  <2> QED BY <1>2, <2>3 DEF ReadCommand
<1>3. CASE Leave(c)
  BY <1>3 DEF Leave
<1>4. CASE Registered(c)
  BY <1>4 DEF Registered
<1>5. CASE WriteReply(c)
  BY <1>5 DEF WriteReply
<1>6. CASE ForwardPush(c)
  BY <1>6 DEF ForwardPush
<1>7. CASE CloseTask(c)
  BY <1>0, <1>7, EnvelopeTypes DEF CloseTask
<1>8. CASE PanicOnWrite(c)
  BY <1>8 DEF PanicOnWrite
<1> QED BY <1>1, <1>2, <1>3, <1>4, <1>5, <1>6, <1>7, <1>8 DEF ClientStep, TaskStep

-----------------------------------------------------------------------------
(* Authentication.                                                         *)

(* Who was told of a password was told the truth, and it lasts. *)
PasswordIsSet == (announced \/ newcomer # {}) => passwords # {}

(* An envelope of c that still sets a password. *)
Sets(e, c) ==
    /\ e.type = "WithReply" /\ e.client = c
    /\ \E j \in 1..Len(e.commands) : e.commands[j].op = "setuser"
OnItsWay(c) == \E i \in 1..Len(inbox) : Sets(inbox[i], c)

PasswordOnItsWay ==
    \A c \in Clients :
        task[c] = "awaiting" /\ Asks(c, "setuser") => passwords # {} \/ OnItsWay(c)

(* Nothing is known of a client, and nothing has reached it. *)
Untouched(c) ==
    /\ mode[c] = "Normal"
    /\ \A ch \in Channels : c \notin subscriptions[ch]
    /\ push[c] = << >> /\ got[c] = << >>

FreshClients ==
    \A c \in Clients :
        /\ task[c] \in {"none", "registering"} => Untouched(c)
        /\ task[c] = "none" => c \notin newcomer

(* A stranger stays untouched, and can do nothing but authenticate. *)
Stranger(c) ==
    /\ Untouched(c)
    /\ task[c] = "registering" /\ oneshot[c].ready => oneshot[c].ok
    /\ task[c] = "reading" => need_auth[c] \/ ~connected[c]
    /\ task[c] = "awaiting" =>
          /\ need_auth[c]
          /\ Len(request[c]) > 0 /\ \A k \in 1..Len(request[c]) : request[c][k].op = "auth"

Strangers == \A c \in newcomer \ proven : Stranger(c)

AuthInv == PasswordIsSet /\ PasswordOnItsWay /\ FreshClients /\ Strangers

(* A password that is on its way stays there until it is set. *)
LEMMA StaysOnItsWay ==
    ASSUME TypeOK, NEW c, OnItsWay(c), StoreStep, ~ExecSetUser
    PROVE  OnItsWay(c)'
<1>1. PICK i \in 1..Len(inbox) : Sets(inbox[i], c)
  BY DEF OnItsWay
<1>2. ASSUME NEW type, Receive(type), type # "WithReply" \/ Head(inbox).commands = << >>
      PROVE  OnItsWay(c)'
  <2>1. /\ Head(inbox) = inbox[1] /\ 1 \in 1..Len(inbox) /\ Len(inbox) \in Nat
        /\ inbox[1].type = type /\ Len(inbox') = Len(inbox) - 1
        /\ \A m \in 1..Len(inbox') : inbox'[m] = inbox[m + 1]
    BY <1>2, ReceiveTypes
  <2>2. i # 1
    <3>1. Len(<< >>) = 0
      OBVIOUS
    <3> QED BY <1>1, <1>2, <2>1, <3>1 DEF Sets
  <2>3. i - 1 \in 1..Len(inbox') /\ inbox'[i - 1] = inbox[i]
    BY <2>1, <2>2
  <2> QED BY <1>1, <2>3 DEF OnItsWay, Sets
<1>3. ASSUME NEW op, Takes(op), op # "setuser"
      PROVE  OnItsWay(c)'
  <2>1. /\ inbox[1].type = "WithReply" /\ Len(inbox') = Len(inbox)
        /\ 1 \in 1..Len(inbox[1].commands) /\ inbox[1].commands[1].op = op
        /\ Caller = inbox[1].client /\ inbox'[1].client = Caller /\ inbox'[1].type = "WithReply"
        /\ inbox[1].commands \in Seq(Commands)
        /\ Len(inbox'[1].commands) = Len(inbox[1].commands) - 1
        /\ \A m \in 1..Len(inbox) : m # 1 => inbox'[m] = inbox[m]
        /\ \A j \in 1..Len(inbox'[1].commands) : inbox'[1].commands[j] = inbox[1].commands[j + 1]
    BY <1>3, TakesTypes
  <2>2. CASE i # 1
    <3>1. inbox'[i] = inbox[i] /\ i \in 1..Len(inbox')
      BY <2>1, <2>2
    <3> QED BY <1>1, <3>1 DEF OnItsWay, Sets
  <2>3. CASE i = 1
    <3>1. PICK j \in 1..Len(inbox[1].commands) : inbox[1].commands[j].op = "setuser"
      BY <1>1, <2>3 DEF Sets
    <3>2. j # 1 /\ Len(inbox[1].commands) \in Nat
      BY <1>3, <2>1, <3>1
    <3>3. j - 1 \in 1..Len(inbox'[1].commands) /\ inbox'[1].commands[j - 1].op = "setuser"
      BY <2>1, <3>1, <3>2
    <3>4. inbox'[1].client = c /\ 1 \in 1..Len(inbox')
      BY <1>1, <2>1, <2>3 DEF Sets
    <3> QED BY <2>1, <3>3, <3>4 DEF OnItsWay, Sets
  <2> QED BY <2>2, <2>3
<1>4. CASE ExecRegister
  BY <1>2, <1>4 DEF ExecRegister
<1>5. CASE ExecUnregister
  BY <1>2, <1>5 DEF ExecUnregister
<1>6. CASE Answer
  BY <1>2, <1>6 DEF Answer
<1>7. CASE TryExecute
  <2>1. \E op : op # "setuser" /\ Takes(op)
    BY <1>7 DEF TryExecute, ExecAuth, ExecSubscribe, ExecUnsubscribe, ExecPublish, ExecOther
  <2> QED BY <1>3, <2>1
<1> QED BY <1>4, <1>5, <1>6, <1>7 DEF StoreStep

(* What is on its way is kept when something else is sent. *)
LEMMA SentAfter ==
    ASSUME TypeOK, NEW c, OnItsWay(c), NEW e \in Envelopes, inbox' = Append(inbox, e)
    PROVE  OnItsWay(c)'
<1>1. /\ Len(inbox') = Len(inbox) + 1 /\ Len(inbox) \in Nat
      /\ \A i \in 1..Len(inbox) : inbox'[i] = inbox[i]
  <2>1. inbox \in Seq(Envelopes)
    BY DEF TypeOK
  <2> QED BY <2>1, Appended
<1>2. PICK i \in 1..Len(inbox) : Sets(inbox[i], c)
  BY DEF OnItsWay
<1>3. i \in 1..Len(inbox') /\ inbox'[i] = inbox[i]
  BY <1>1
<1> QED BY <1>2, <1>3 DEF OnItsWay, Sets

(* A reply is not ready while its request is on its way. *)
LEMMA NotYetAnswered ==
    ASSUME TypeOK, RequestInv, NEW c \in Clients, OnItsWay(c)
    PROVE  ~oneshot[c].ready
<1>1. PICK i \in 1..Len(inbox) : inbox[i].type = "WithReply" /\ inbox[i].client = c
  BY DEF OnItsWay, Sets
<1>2. Awaited(inbox[i])
  BY DEF RequestInv, RequestsAwaited
<1> QED BY <1>1, <1>2 DEF Awaited

LEMMA PasswordsStep ==
    ASSUME TypeOK, RequestInv, AuthInv, Next
    PROVE  PasswordIsSet' /\ PasswordOnItsWay'
<1>1. CASE StoreStep
  <2>1. /\ UNCHANGED <<task, request, announced, newcomer>> /\ passwords \subseteq passwords'
    BY <1>1, StoreActs
  <2>2. PasswordIsSet'
    BY <2>1 DEF AuthInv, PasswordIsSet
  <2>3. ASSUME NEW c \in Clients, task'[c] = "awaiting", Asks(c, "setuser")', passwords' = {}
        PROVE  OnItsWay(c)'
    <3>1. task[c] = "awaiting" /\ Asks(c, "setuser") /\ passwords = {}
      BY <2>1, <2>3 DEF Asks
    <3>2. OnItsWay(c)
      BY <3>1 DEF AuthInv, PasswordOnItsWay
    <3>3. ~ExecSetUser
      BY <2>3 DEF ExecSetUser
    <3> QED BY <1>1, <3>2, <3>3, StaysOnItsWay
  <2>4. PasswordOnItsWay'
    BY <2>3 DEF PasswordOnItsWay
  <2> QED BY <2>2, <2>4
<1>2. ASSUME NEW c \in Clients, ClientStep(c) PROVE PasswordIsSet' /\ PasswordOnItsWay'
  <2>1. /\ passwords' = passwords
        /\ announced' = announced \/ WriteReply(c)
        /\ newcomer' = newcomer \/ announced
        /\ inbox' = inbox \/ \E e \in Envelopes : inbox' = Append(inbox, e)
    BY <1>2, TaskSpares
  <2>2. PasswordIsSet'
    <3>1. CASE announced' = announced
      BY <2>1, <3>1 DEF AuthInv, PasswordIsSet
    <3>2. CASE WriteReply(c)
      <4>1. task[c] = "awaiting" /\ oneshot[c].ready /\ newcomer' = newcomer
        BY <3>2 DEF WriteReply
      <4>2. announced' => announced \/ Asks(c, "setuser")
        BY <3>2 DEF WriteReply
      <4>3. Asks(c, "setuser") => passwords # {}
        BY <4>1, NotYetAnswered DEF AuthInv, PasswordOnItsWay
      <4> QED BY <2>1, <4>1, <4>2, <4>3 DEF AuthInv, PasswordIsSet
    <3> QED BY <2>1, <3>1, <3>2
  <2>3. ASSUME NEW d \in Clients, task'[d] = "awaiting", Asks(d, "setuser")', passwords' = {}
        PROVE  OnItsWay(d)'
    <3>1. CASE task[d] = "awaiting" /\ request'[d] = request[d]
      <4>1. Asks(d, "setuser")
        BY <2>3, <3>1 DEF Asks
      <4>2. OnItsWay(d)
        BY <2>1, <2>3, <3>1, <4>1 DEF AuthInv, PasswordOnItsWay
      <4>3. CASE inbox' = inbox
        BY <4>2, <4>3 DEF OnItsWay
      <4>4. CASE \E e \in Envelopes : inbox' = Append(inbox, e)
        BY <4>2, <4>4, SentAfter
      <4> QED BY <2>1, <4>3, <4>4
    <3>2. CASE d # c
      BY <1>2, <2>3, <3>1, <3>2, TaskActs
    <3>3. CASE d = c
      <4>1. CASE ReadCommand(c)
        <5>1. PICK cmd \in Commands :
                \/ /\ inbox' = Append(inbox, WithReply(c, RunMode(c, cmd).execute))
                   /\ request' = [request EXCEPT ![c] = RunMode(c, cmd).execute]
                   /\ task' = [task EXCEPT ![c] = "awaiting"]
                \/ UNCHANGED <<inbox, request, task>>
          BY <4>1, Reads, Zenon
        <5>2. task[c] = "reading"
          BY <4>1 DEF ReadCommand
        <5>3. PICK cmds \in Seq(Commands) : cmds = RunMode(c, cmd).execute
          BY RunTypes
        <5>4. inbox' = Append(inbox, WithReply(c, cmds)) /\ request'[c] = cmds
          BY <2>3, <3>3, <5>1, <5>2, <5>3 DEF TypeOK
        <5>5. WithReply(c, cmds) \in Envelopes /\ inbox \in Seq(Envelopes)
          BY EnvelopeTypes DEF TypeOK
        <5>6. Len(inbox') \in 1..Len(inbox') /\ inbox'[Len(inbox')] = WithReply(c, cmds)
          <6>1. /\ Len(inbox') = Len(inbox) + 1 /\ Len(inbox) \in Nat
                /\ inbox'[Len(inbox) + 1] = WithReply(c, cmds)
            BY <5>4, <5>5, Appended
          <6> QED BY <6>1
        <5>7. \E j \in 1..Len(cmds) : cmds[j].op = "setuser"
          BY <2>3, <3>3, <5>4 DEF Asks
        <5>8. Sets(WithReply(c, cmds), c)
          BY <5>7 DEF Sets, WithReply
        <5> QED BY <3>3, <5>6, <5>8 DEF OnItsWay, Sets
      <4>2. CASE Leave(c) \/ ForwardPush(c)
        <5>1. UNCHANGED <<task, request>>
          BY <4>2 DEF Leave, ForwardPush, clientVars
        <5> QED BY <2>3, <3>1, <5>1
      <4>3. CASE Connect(c) \/ Registered(c) \/ WriteReply(c) \/ CloseTask(c) \/ PanicOnWrite(c)
        <5>1. task'[c] \in {"registering", "reading", "ended"}
          BY <4>3 DEF Connect, Registered, WriteReply, CloseTask, PanicOnWrite, End, TypeOK
        <5> QED BY <2>3, <3>3, <5>1
      <4> QED BY <1>2, <4>1, <4>2, <4>3 DEF ClientStep, TaskStep
    <3> QED BY <3>2, <3>3
  <2>4. PasswordOnItsWay'
    BY <2>3 DEF PasswordOnItsWay
  <2> QED BY <2>2, <2>4
<1> QED BY <1>1, <1>2 DEF Next, ClientStep

(* Only its own SUBSCRIBE lets the store reach a client. *)
LEMMA StoreLeavesUntouched ==
    ASSUME TypeOK, StoreStep, NEW c \in Clients, Untouched(c), ExecSubscribe => Caller # c
    PROVE  Untouched(c)'
<1>1. mode'[c] = "Normal" /\ got'[c] = << >>
  BY StoreActs DEF Untouched
<1>2. \A ch \in Channels : c \notin subscriptions'[ch]
  <2>1. CASE ExecSubscribe
    <3>1. Arg \in Channels /\ Caller # c
      BY <2>1, TakesTypes DEF ExecSubscribe, Args
    <3> QED BY <2>1, <3>1 DEF ExecSubscribe, Untouched, TypeOK
  <2>2. CASE ~ExecSubscribe
    BY <2>2, StoreActs DEF Untouched
  <2> QED BY <2>1, <2>2
<1>3. push'[c] = << >>
  <2>1. CASE ExecPublish
    <3>1. c \notin Subscribers(Arg)
      BY <2>1, PublishTypes DEF Subscribers, Untouched
    <3>2. push'[c] = push[c]
      BY <2>1, <3>1, PublishTypes
    <3> QED BY <3>2 DEF Untouched
  <2>2. CASE ~ExecPublish
    BY <2>2, StoreActs DEF Untouched
  <2> QED BY <2>1, <2>2
<1> QED BY <1>1, <1>2, <1>3 DEF Untouched

(* Whose command the store executes waits for it. *)
LEMMA CallerAwaits ==
    ASSUME TypeOK, RequestInv, NEW op, Takes(op)
    PROVE  /\ Caller \in Clients /\ task[Caller] = "awaiting"
           /\ \E k \in 1..Len(request[Caller]) :
                 request[Caller][k].op = op /\ request[Caller][k].arg = Arg
<1>1. /\ 1 \in 1..Len(inbox) /\ Caller \in Clients /\ Caller = inbox[1].client
      /\ inbox[1].type = "WithReply" /\ 1 \in 1..Len(inbox[1].commands)
      /\ inbox[1].commands[1].op = op /\ inbox[1].commands[1].arg = Arg
  BY TakesTypes
<1>2. Awaited(inbox[1])
  BY <1>1 DEF RequestInv, RequestsAwaited
<1>3. PICK k \in 1..Len(request[Caller]) : request[Caller][k] = inbox[1].commands[1]
  BY <1>1, <1>2 DEF Awaited
<1> QED BY <1>1, <1>2, <1>3 DEF Awaited

LEMMA FreshStep ==
    ASSUME TypeOK, RequestInv, AuthInv, Next
    PROVE  FreshClients'
<1>1. CASE StoreStep
  <2>1. UNCHANGED <<task, newcomer>>
    BY <1>1, StoreActs
  <2>2. ASSUME NEW c \in Clients, task[c] \in {"none", "registering"} PROVE Untouched(c)'
    <3>1. ExecSubscribe => Caller # c
      BY <2>2, CallerAwaits DEF ExecSubscribe
    <3>2. Untouched(c)
      BY <2>2 DEF AuthInv, FreshClients
    <3> QED BY <1>1, <3>1, <3>2, StoreLeavesUntouched
  <2> QED BY <2>1, <2>2 DEF AuthInv, FreshClients
<1>2. ASSUME NEW c \in Clients, ClientStep(c) PROVE FreshClients'
  <2>1. subscriptions' = subscriptions
    BY <1>2, TaskSpares
  <2>2. ASSUME NEW d \in Clients, d # c
        PROVE  /\ task'[d] \in {"none", "registering"} => Untouched(d)'
               /\ task'[d] = "none" => d \notin newcomer'
    <3>1. /\ task'[d] = task[d] /\ mode'[d] = mode[d] /\ push'[d] = push[d]
          /\ got'[d] = got[d] /\ (d \in newcomer' <=> d \in newcomer)
      BY <1>2, <2>2, TaskActs
    <3> QED BY <2>1, <3>1 DEF AuthInv, FreshClients, Untouched
  <2>3. /\ task'[c] \in {"none", "registering"} => Untouched(c)'
        /\ task'[c] = "none" => c \notin newcomer'
    <3>1. CASE Connect(c)
      <4>1. task[c] = "none" /\ UNCHANGED <<mode, push, got>> /\ task'[c] = "registering"
        BY <3>1 DEF Connect, mailVars, TypeOK
      <4> QED BY <2>1, <4>1 DEF AuthInv, FreshClients, Untouched
    <3>2. CASE Leave(c)
      <4>1. UNCHANGED <<task, mode, push, got, newcomer>>
        BY <3>2 DEF Leave, mailVars, noteVars
      <4> QED BY <2>1, <4>1 DEF AuthInv, FreshClients, Untouched
    <3>3. CASE ReadCommand(c)
      <4>1. PICK cmd \in Commands :
                \/ task' = [task EXCEPT ![c] = "awaiting"]
                \/ UNCHANGED <<inbox, request, task>>
        BY <3>3, Reads, Zenon
      <4>2. task[c] = "reading"
        BY <3>3 DEF ReadCommand
      <4> QED BY <4>1, <4>2 DEF TypeOK
    <3>4. CASE ForwardPush(c)
      <4>1. task'[c] = "reading"
        BY <3>4 DEF ForwardPush, Selects, clientVars
      <4> QED BY <4>1
    <3>5. CASE Registered(c) \/ WriteReply(c) \/ CloseTask(c) \/ PanicOnWrite(c)
      <4>1. task'[c] \in {"reading", "ended"}
        BY <3>5 DEF Registered, WriteReply, CloseTask, PanicOnWrite, End, TypeOK
      <4> QED BY <4>1
    <3> QED BY <1>2, <3>1, <3>2, <3>3, <3>4, <3>5 DEF ClientStep, TaskStep
  <2> QED BY <2>2, <2>3 DEF FreshClients
<1> QED BY <1>1, <1>2 DEF Next, ClientStep

(* A stranger that goes on. *)
LEMMA StrangerReads ==
    ASSUME TypeOK, NEW c \in Clients, Stranger(c), ReadCommand(c)
    PROVE  Stranger(c)'
<1>1. PICK cmd \in Commands :
              /\ mode' = [mode EXCEPT ![c] = RunMode(c, cmd).mode]
              /\ \/ /\ NeedsStore(c, cmd, RunMode(c, cmd))
                    /\ request' = [request EXCEPT ![c] = RunMode(c, cmd).execute]
                    /\ task' = [task EXCEPT ![c] = "awaiting"]
                 \/ UNCHANGED <<inbox, request, task>>
  BY Reads, Zenon
<1>2. task[c] = "reading" /\ connected[c] /\ need_auth[c]
  BY DEF ReadCommand, Stranger
<1>3. RunMode(c, cmd) = Run("Normal", << >>, IF cmd.op = "auth" THEN <<cmd>> ELSE << >>)
  BY <1>2 DEF RunMode
<1>4. /\ RunMode(c, cmd).mode = "Normal"
      /\ RunMode(c, cmd).execute = IF cmd.op = "auth" THEN <<cmd>> ELSE << >>
  BY <1>3 DEF Run
<1>5. /\ need_auth' = need_auth /\ UNCHANGED <<push, got, subscriptions>>
      /\ mode'[c] = "Normal"
  BY <1>1, <1>4 DEF ReadCommand, storeVars, mailVars, TypeOK
<1>6. Untouched(c)'
  BY <1>5 DEF Stranger, Untouched
<1>7. CASE UNCHANGED <<inbox, request, task>>
  BY <1>2, <1>5, <1>6, <1>7 DEF Stranger
<1>8. CASE /\ NeedsStore(c, cmd, RunMode(c, cmd))
           /\ request' = [request EXCEPT ![c] = RunMode(c, cmd).execute]
           /\ task' = [task EXCEPT ![c] = "awaiting"]
  <2>1. cmd.op = "auth"
    BY <1>2, <1>4, <1>8 DEF NeedsStore
  <2>2. request'[c] = <<cmd>> /\ task'[c] = "awaiting"
    BY <1>4, <1>8, <2>1 DEF TypeOK
  <2>3. Len(request'[c]) > 0 /\ \A k \in 1..Len(request'[c]) : request'[c][k].op = "auth"
    BY <2>1, <2>2
  <2> QED BY <1>2, <1>5, <1>6, <2>2, <2>3 DEF Stranger
<1> QED BY <1>1, <1>7, <1>8

LEMMA StrangerSteps ==
    ASSUME TypeOK, AuthInv, RequestInv, NEW c \in Clients, c \in newcomer', c \notin proven',
           ClientStep(c)
    PROVE  Stranger(c)'
<1> USE DEF storeVars, clientVars, mailVars, noteVars
<1>1. CASE Connect(c)
  <2>1. /\ task[c] = "none" /\ UNCHANGED <<mode, push, got, subscriptions, oneshot>>
        /\ task'[c] = "registering"
    BY <1>1 DEF Connect, TypeOK
  <2>2. Untouched(c)'
    BY <2>1 DEF AuthInv, FreshClients, Untouched
  <2>3. ~oneshot'[c].ready
    BY <2>1 DEF RequestInv, RepliesAwaited
  <2> QED BY <2>1, <2>2, <2>3 DEF Stranger
<1>2. ASSUME ~Connect(c), c \notin proven PROVE Stranger(c)
  <2>1. c \in newcomer
    BY <1>2, TaskSpares
  <2> QED BY <1>2, <2>1 DEF AuthInv, Strangers
<1>3. CASE Registered(c)
  <2>1. Stranger(c)
    BY <1>2, <1>3 DEF Registered, Connect
  <2>2. /\ task[c] = "registering" /\ oneshot[c].ready /\ task'[c] = "reading"
        /\ need_auth'[c] = oneshot[c].ok
        /\ UNCHANGED <<mode, push, got, subscriptions>>
    BY <1>3 DEF Registered, TypeOK
  <2> QED BY <2>1, <2>2 DEF Stranger, Untouched
<1>4. CASE ReadCommand(c)
  <2>1. Stranger(c)
    BY <1>2, <1>4 DEF ReadCommand, Connect
  <2> QED BY <1>4, <2>1, StrangerReads
<1>5. CASE Leave(c)
  <2>1. Stranger(c)
    <3>1. CASE Connect(c)
      <4>1. connected'[c] = TRUE /\ connected'[c] = FALSE
        BY <1>5, <3>1 DEF Leave, Connect, TypeOK
      <4> QED BY <4>1
    <3> QED BY <1>2, <1>5, <3>1 DEF Leave
  <2>2. /\ UNCHANGED <<task, mode, push, got, subscriptions, oneshot, need_auth, request>>
        /\ connected'[c] = FALSE
    BY <1>5 DEF Leave, TypeOK
  <2> QED BY <2>1, <2>2 DEF Stranger, Untouched
<1>6. CASE WriteReply(c)
  <2>1. /\ task[c] = "awaiting" /\ task'[c] = "reading" /\ oneshot[c].ready
        /\ need_auth'[c] = (need_auth[c] /\ ~Authenticates(c))
        /\ UNCHANGED <<mode, push, got, subscriptions, connected>>
        /\ connected[c] => proven' = IF Asks(c, "auth") /\ oneshot[c].ok
                                     THEN proven \cup {c} ELSE proven
        /\ ~connected[c] => proven' = proven
    BY <1>6 DEF WriteReply, TypeOK
  <2>2. c \notin proven
    BY <2>1
  <2>3. Stranger(c)
    BY <1>2, <1>6, <2>1, <2>2 DEF Connect
  <2>4. Untouched(c)'
    BY <2>1, <2>3 DEF Stranger, Untouched
  <2>5. Asks(c, "auth") /\ need_auth[c]
    <3>1. /\ need_auth[c] /\ Len(request[c]) > 0
          /\ \A k \in 1..Len(request[c]) : request[c][k].op = "auth"
      BY <2>1, <2>3 DEF Stranger
    <3>2. 1 \in 1..Len(request[c])
      <4>1. request[c] \in Seq(Commands)
        BY DEF TypeOK
      <4> QED BY <3>1, <4>1
    <3> QED BY <3>1, <3>2 DEF Asks
  <2>6. need_auth'[c] \/ ~connected[c]
    BY <2>1, <2>5 DEF Authenticates
  <2> QED BY <2>1, <2>4, <2>6 DEF Stranger
<1>7. CASE ForwardPush(c)
  <2>1. task[c] = "reading" /\ push[c] # << >> /\ UNCHANGED proven
    BY <1>7 DEF ForwardPush, Selects
  <2>2. Stranger(c)
    BY <1>2, <2>1 DEF Connect
  <2> QED BY <2>1, <2>2 DEF Stranger, Untouched
<1>8. CASE CloseTask(c) \/ PanicOnWrite(c)
  <2>1. /\ task[c] = "reading" /\ task'[c] = "ended" /\ push'[c] = << >>
        /\ UNCHANGED <<mode, got, subscriptions, proven>>
    BY <1>8 DEF CloseTask, PanicOnWrite, End, TypeOK
  <2>2. Stranger(c)
    BY <1>2, <2>1 DEF Connect
  <2> QED BY <2>1, <2>2 DEF Stranger, Untouched
<1> QED BY <1>1, <1>3, <1>4, <1>5, <1>6, <1>7, <1>8 DEF ClientStep, TaskStep

LEMMA StrangersStep ==
    ASSUME TypeOK, RequestInv, AuthInv, Next
    PROVE  Strangers'
<1>1. CASE StoreStep
  <2> SUFFICES ASSUME NEW c \in newcomer, c \notin proven PROVE Stranger(c)'
    BY <1>1, StoreActs DEF Strangers
  <2>1. c \in Clients /\ Stranger(c)
    BY DEF AuthInv, Strangers, TypeOK
  <2>2. ExecSubscribe => Caller # c
    <3> SUFFICES ASSUME ExecSubscribe, Caller = c PROVE FALSE
      OBVIOUS
    <3>1. /\ task[c] = "awaiting"
          /\ \E k \in 1..Len(request[c]) : request[c][k].op = "subscribe"
      BY CallerAwaits DEF ExecSubscribe
    <3> QED BY <2>1, <3>1 DEF Stranger
  <2>3. Untouched(c)'
    BY <1>1, <2>1, <2>2, StoreLeavesUntouched DEF Stranger
  <2>4. UNCHANGED <<task, need_auth, request, connected>>
    BY <1>1, StoreActs
  <2>5. task[c] = "registering" /\ oneshot'[c].ready => oneshot'[c].ok
    <3>1. CASE oneshot' = oneshot
      BY <2>1, <3>1 DEF Stranger
    <3>2. CASE ExecRegister
      <4>1. Head(inbox).client \in Clients
        BY <3>2, ReceiveTypes DEF ExecRegister
      <4>2. CASE Head(inbox).client = c
        <5>1. oneshot'[c] = Reply(MustAuth)
          BY <3>2, <4>2, <2>1 DEF ExecRegister, TypeOK
        <5>2. MustAuth
          BY DEF AuthInv, PasswordIsSet, MustAuth
        <5> QED BY <5>1, <5>2 DEF Reply
      <4>3. CASE Head(inbox).client # c
        <5>1. oneshot'[c] = oneshot[c]
          BY <3>2, <4>3, <2>1 DEF ExecRegister, TypeOK
        <5> QED BY <2>1, <5>1 DEF Stranger
      <4> QED BY <4>2, <4>3
    <3>3. CASE Answer
      <4>1. Caller \in Clients /\ task[Caller] = "awaiting"
        BY <3>3, ReceiveTypes DEF Answer, Caller, RequestInv, RequestsAwaited, Awaited
      <4>2. CASE Caller = c
        BY <4>1, <4>2
      <4>3. CASE Caller # c
        <5>1. oneshot'[c] = oneshot[c]
          BY <3>3, <4>3, <2>1 DEF Answer, Answered, TypeOK
        <5> QED BY <2>1, <5>1 DEF Stranger
      <4> QED BY <4>2, <4>3
    <3> QED BY <1>1, <3>1, <3>2, <3>3, StoreActs
  <2> QED BY <2>1, <2>3, <2>4, <2>5 DEF Stranger
<1>2. ASSUME NEW c \in Clients, ClientStep(c) PROVE Strangers'
  <2> SUFFICES ASSUME NEW d \in newcomer', d \notin proven' PROVE Stranger(d)'
    BY DEF Strangers
  <2>1. d \in Clients
    <3>1. TypeOK'
      BY <1>2, NextTypes DEF Next, ClientStep
    <3> QED BY <3>1 DEF TypeOK
  <2>2. CASE d = c
    BY <1>2, <2>1, <2>2, StrangerSteps
  <2>3. CASE d # c
    <3>1. /\ task'[d] = task[d] /\ need_auth'[d] = need_auth[d] /\ mode'[d] = mode[d]
          /\ request'[d] = request[d] /\ oneshot'[d] = oneshot[d]
          /\ connected'[d] = connected[d] /\ push'[d] = push[d] /\ got'[d] = got[d]
          /\ d \in newcomer /\ d \notin proven
      BY <1>2, <2>1, <2>3, TaskActs
    <3>2. subscriptions' = subscriptions
      BY <1>2, TaskSpares
    <3>3. Stranger(d)
      BY <3>1 DEF AuthInv, Strangers
    <3> QED BY <3>1, <3>2, <3>3 DEF Stranger, Untouched
  <2> QED BY <2>2, <2>3
<1> QED BY <1>1, <1>2 DEF Next, ClientStep

LEMMA NextAuth ==
    ASSUME TypeOK, RequestInv, AuthInv, [Next]_vars
    PROVE  AuthInv'
<1>1. CASE Next
  BY <1>1, PasswordsStep, FreshStep, StrangersStep DEF AuthInv
<1>2. CASE UNCHANGED vars
  <2>1. UNCHANGED <<inbox, passwords, subscriptions, task, need_auth, mode, request>>
    BY <1>2 DEF vars, storeVars, clientVars
  <2>2. UNCHANGED <<oneshot, connected, push, got, announced, newcomer, proven>>
    BY <1>2 DEF vars, clientVars, mailVars, noteVars
  <2>3. PasswordIsSet' /\ PasswordOnItsWay'
    BY <2>1, <2>2 DEF AuthInv, PasswordIsSet, PasswordOnItsWay, Asks, OnItsWay, Sets
  <2>4. FreshClients' /\ Strangers'
    BY <2>1, <2>2 DEF AuthInv, FreshClients, Strangers, Stranger, Untouched
  <2> QED BY <2>3, <2>4 DEF AuthInv
<1> QED BY <1>1, <1>2

LEMMA InitAuth == Init => AuthInv
<1> SUFFICES ASSUME Init PROVE AuthInv
  OBVIOUS
<1>1. FreshClients
  BY DEF Init, FreshClients, Untouched
<1> QED BY <1>1 DEF Init, AuthInv, PasswordIsSet, PasswordOnItsWay, Strangers

(* Whoever connects after some client was told that a password is set gets
   nothing executed but AUTH, and gets no message, until it was told that its
   password is right: what RequestInv and AuthInv say of its request says so of
   every envelope that is on its way.                                        *)
THEOREM StrangersStayOut == Spec => []StrangersKeptOut
<1>1. ASSUME TypeOK, RequestInv, AuthInv PROVE StrangersKeptOut
  <2> SUFFICES ASSUME NEW c \in newcomer, c \notin proven
               PROVE  /\ mode[c] = "Normal"
                      /\ \A ch \in Channels : c \notin subscriptions[ch]
                      /\ \A i \in 1..Len(inbox) :
                            inbox[i].client = c =>
                               \A j \in 1..Len(inbox[i].commands) : inbox[i].commands[j].op = "auth"
                      /\ got[c] = << >>
    BY DEF StrangersKeptOut
  <2>1. Stranger(c)
    BY <1>1 DEF AuthInv, Strangers
  <2>2. ASSUME NEW i \in 1..Len(inbox), inbox[i].client = c,
               NEW j \in 1..Len(inbox[i].commands)
        PROVE  inbox[i].commands[j].op = "auth"
    <3>1. inbox[i].type \in {"WithReply", "RegisterClient", "UnregisterClient"}
      BY <1>1, InInbox
    <3>2. Awaited(inbox[i])
      BY <1>1 DEF RequestInv, RequestsAwaited
    <3>3. inbox[i].commands # << >>
      <4>1. Len(<< >>) = 0
        OBVIOUS
      <4> QED BY <2>2, <4>1
    <3>4. task[c] = "awaiting" /\ \E k \in 1..Len(request[c]) : request[c][k] = inbox[i].commands[j]
      BY <2>2, <3>1, <3>2, <3>3 DEF Awaited
    <3> QED BY <2>1, <3>4 DEF Stranger
  <2> QED BY <2>1, <2>2 DEF Stranger, Untouched
<1> QED BY <1>1, InitTypes, NextTypes, InitRequests, NextRequests, InitAuth, NextAuth, PTL DEF Spec

-----------------------------------------------------------------------------
(* What a client knows of its subscriptions.                               *)

(* It was told of a channel, or is about to be. *)
Known(c, ch) ==
    \/ ch \in confirmed[c]
    \/ task[c] = "awaiting" /\ ch \in AskedChannels(c)

SubscriptionsKnown ==
    \A c \in Clients : connected[c] =>
        /\ \A ch \in Channels : c \in subscriptions[ch] => Known(c, ch)
        /\ \A i \in 1..Len(push[c]) : Known(c, push[c][i].channel)

(* What the store does for a client that knows its subscriptions. *)
LEMMA StoreKnows ==
    ASSUME TypeOK, RequestInv, SubscriptionsKnown, StoreStep
    PROVE  SubscriptionsKnown'
<1>1. UNCHANGED <<task, request, connected, confirmed>>
  BY StoreActs
<1>2. ASSUME NEW c, NEW ch, Known(c, ch) PROVE Known(c, ch)'
  BY <1>1, <1>2 DEF Known, AskedChannels
<1> SUFFICES ASSUME NEW c \in Clients, connected[c]
             PROVE  /\ \A ch \in Channels : c \in subscriptions'[ch] => Known(c, ch)'
                    /\ \A i \in 1..Len(push'[c]) : Known(c, push[c][i].channel)'
  BY <1>1 DEF SubscriptionsKnown
<1>3. /\ \A ch \in Channels : c \in subscriptions[ch] => Known(c, ch)
      /\ \A i \in 1..Len(push[c]) : Known(c, push[c][i].channel)
  BY DEF SubscriptionsKnown
<1>4. ASSUME NEW ch \in Channels, c \in subscriptions'[ch] PROVE Known(c, ch)'
  <2>1. CASE c \in subscriptions[ch]
    BY <1>2, <1>3, <2>1
  <2>2. CASE c \notin subscriptions[ch]
    <3>1. ExecSubscribe
      BY <1>4, <2>2, StoreActs
    <3>2. Arg = ch /\ Caller = c
      <4>1. subscriptions' = [subscriptions EXCEPT ![Arg] = @ \cup {Caller}] /\ Arg \in Channels
        BY <3>1, TakesTypes DEF ExecSubscribe, Args
      <4> QED BY <1>4, <2>2, <4>1 DEF TypeOK
    <3>3. /\ task[c] = "awaiting"
          /\ \E k \in 1..Len(request[c]) : request[c][k].op = "subscribe" /\ request[c][k].arg = ch
      BY <3>1, <3>2, CallerAwaits DEF ExecSubscribe
    <3>4. Known(c, ch)
      BY <3>3 DEF Known, AskedChannels
    <3> QED BY <1>2, <3>4
  <2> QED BY <2>1, <2>2
<1>5. ASSUME NEW i \in 1..Len(push'[c]) PROVE Known(c, push[c][i].channel)'
  <2>1. PICK ch : ch = push'[c][i].channel
    OBVIOUS
  <2>2. Known(c, ch)
    <3>1. CASE push'[c] = push[c]
      BY <1>3, <2>1, <3>1
    <3>2. CASE push'[c] # push[c]
      <4>1. ExecPublish
        BY <3>2, StoreActs
      <4>2. /\ c \in Subscribers(Arg) /\ Arg \in Channels
            /\ push'[c] = Append(push[c], Message(published + 1, Arg))
            /\ Message(published + 1, Arg) \in Messages
        BY <3>2, <4>1, PublishTypes
      <4>3. push[c] \in Seq(Messages)
        BY DEF TypeOK
      <4>4. CASE i \in 1..Len(push[c])
        <5>1. push'[c][i] = push[c][i]
          BY <4>2, <4>3, <4>4, Appended
        <5> QED BY <1>3, <2>1, <4>4, <5>1
      <4>5. CASE i \notin 1..Len(push[c])
        <5>1. push'[c][i] = Message(published + 1, Arg)
          <6>1. /\ Len(push'[c]) = Len(push[c]) + 1 /\ Len(push[c]) \in Nat
                /\ push'[c][Len(push[c]) + 1] = Message(published + 1, Arg)
            BY <4>2, <4>3, Appended
          <6> QED BY <4>5, <6>1
        <5>2. ch = Arg
          BY <2>1, <5>1 DEF Message
        <5> QED BY <1>3, <4>2, <5>2 DEF Subscribers
      <4> QED BY <4>4, <4>5
    <3> QED BY <3>1, <3>2
  <2>3. Known(c, ch)'
    BY <1>2, <2>2
  <2> QED BY <2>1, <2>3
<1> QED BY <1>4, <1>5

(* A client task that goes on is connected, and adds nothing to its channel. *)
LEMMA TaskStaysConnected ==
    ASSUME TypeOK, NEW c \in Clients, ClientStep(c), connected'[c], ~Connect(c)
    PROVE  /\ connected[c]
           /\ \A i \in 1..Len(push'[c]) : \E j \in 1..Len(push[c]) : push'[c][i] = push[c][j]
<1> USE DEF storeVars, clientVars, mailVars, noteVars
<1>1. CASE ReadCommand(c)
  BY <1>1 DEF ReadCommand
<1>2. CASE Leave(c)
  BY <1>2 DEF Leave, TypeOK
<1>3. CASE Registered(c)
  BY <1>3 DEF Registered
<1>4. CASE WriteReply(c)
  BY <1>4 DEF WriteReply
<1>5. CASE ForwardPush(c)
  <2>1. /\ UNCHANGED connected
        /\ push'[c] = Tail(push[c]) /\ push[c] # << >> /\ push[c] \in Seq(Messages)
    BY <1>5 DEF ForwardPush, TypeOK
  <2>2. /\ Len(Tail(push[c])) = Len(push[c]) - 1 /\ Len(push[c]) \in Nat
        /\ \A i \in 1..(Len(push[c]) - 1) : Tail(push[c])[i] = push[c][i + 1]
    BY <2>1, Taken
  <2>3. \A i \in 1..Len(push'[c]) : i + 1 \in 1..Len(push[c]) /\ push'[c][i] = push[c][i + 1]
    BY <2>1, <2>2
  <2> QED BY <2>1, <2>3
<1>6. CASE CloseTask(c) \/ PanicOnWrite(c)
  BY <1>6 DEF CloseTask, PanicOnWrite
<1> QED BY <1>1, <1>2, <1>3, <1>4, <1>5, <1>6 DEF ClientStep, TaskStep

(* What it knows it will go on knowing. *)
LEMMA TaskKnows ==
    ASSUME TypeOK, NEW c \in Clients, ClientStep(c), connected'[c], ~Connect(c), NEW ch, Known(c, ch)
    PROVE  Known(c, ch)'
<1> USE DEF storeVars, clientVars, mailVars, noteVars
<1>1. CASE ReadCommand(c)
  <2>1. UNCHANGED confirmed /\ task[c] = "reading"
    BY <1>1 DEF ReadCommand
  <2> QED BY <2>1 DEF Known
<1>2. CASE Leave(c) \/ ForwardPush(c)
  <2>1. UNCHANGED <<confirmed, task, request>>
    BY <1>2 DEF Leave, ForwardPush
  <2> QED BY <2>1 DEF Known, AskedChannels
<1>3. CASE Registered(c)
  <2>1. UNCHANGED confirmed /\ task[c] = "registering"
    BY <1>3 DEF Registered
  <2> QED BY <2>1 DEF Known
<1>4. CASE WriteReply(c)
  <2>1. connected[c]
    BY <1>4 DEF WriteReply
  <2>2. confirmed'[c] = confirmed[c] \cup AskedChannels(c)
    BY <1>4, <2>1 DEF WriteReply, TypeOK
  <2> QED BY <2>2 DEF Known
<1>5. CASE CloseTask(c) \/ PanicOnWrite(c)
  BY <1>5 DEF CloseTask, PanicOnWrite
<1> QED BY <1>1, <1>2, <1>3, <1>4, <1>5 DEF ClientStep, TaskStep

LEMMA NextKnown ==
    ASSUME TypeOK, RequestInv, AuthInv, SubscriptionsKnown, [Next]_vars
    PROVE  SubscriptionsKnown'
<1>1. CASE StoreStep
  BY <1>1, StoreKnows
<1>2. ASSUME NEW c \in Clients, ClientStep(c) PROVE SubscriptionsKnown'
  <2>1. subscriptions' = subscriptions
    BY <1>2, TaskSpares
  <2> SUFFICES ASSUME NEW d \in Clients, connected'[d]
               PROVE  /\ \A ch \in Channels : d \in subscriptions[ch] => Known(d, ch)'
                      /\ \A i \in 1..Len(push'[d]) : Known(d, push[d][i].channel)'
    BY <2>1 DEF SubscriptionsKnown
  <2>2. CASE d # c
    <3>1. /\ task'[d] = task[d] /\ request'[d] = request[d] /\ connected'[d] = connected[d]
          /\ push'[d] = push[d] /\ confirmed'[d] = confirmed[d]
      BY <1>2, <2>2, TaskActs
    <3>2. ASSUME NEW ch, Known(d, ch) PROVE Known(d, ch)'
      BY <3>1, <3>2 DEF Known, AskedChannels
    <3>3. ASSUME NEW i \in 1..Len(push'[d]) PROVE Known(d, push[d][i].channel)'
      <4>1. PICK ch : ch = push[d][i].channel
        OBVIOUS
      <4>2. Known(d, ch)'
        BY <3>1, <3>2, <4>1 DEF SubscriptionsKnown
      <4> QED BY <3>1, <4>1, <4>2
    <3> QED BY <3>1, <3>2, <3>3 DEF SubscriptionsKnown
  <2>3. CASE d = c /\ Connect(c)
    <3>1. Untouched(c) /\ push' = push
      BY <2>3 DEF Connect, mailVars, AuthInv, FreshClients
    <3>2. Len(push'[c]) = 0
      BY <3>1, EmptyType DEF Untouched
    <3> QED BY <2>3, <3>1, <3>2 DEF Untouched
  <2>4. CASE d = c /\ ~Connect(c)
    <3>1. ASSUME NEW ch, Known(c, ch) PROVE Known(c, ch)'
      BY <1>2, <2>4, <3>1, TaskKnows
    <3>2. ASSUME NEW ch \in Channels, c \in subscriptions[ch] PROVE Known(c, ch)'
      <4>1. connected[c]
        BY <1>2, <2>4, TaskStaysConnected
      <4> QED BY <3>1, <3>2, <4>1 DEF SubscriptionsKnown
    <3>3. ASSUME NEW i \in 1..Len(push'[c]) PROVE Known(c, push[c][i].channel)'
      <4>1. PICK ch : ch = push'[c][i].channel
        OBVIOUS
      <4>2. connected[c]
        BY <1>2, <2>4, TaskStaysConnected
      <4>3. \E j \in 1..Len(push[c]) : push'[c][i] = push[c][j]
        BY <1>2, <2>4, TaskStaysConnected
      <4>4. Known(c, ch)
        BY <4>1, <4>2, <4>3 DEF SubscriptionsKnown
      <4>5. Known(c, ch)'
        BY <3>1, <4>4
      <4> QED BY <4>1, <4>5
    <3> QED BY <2>4, <3>2, <3>3
  <2> QED BY <2>2, <2>3, <2>4
<1>3. CASE UNCHANGED vars
  BY <1>3 DEF vars, storeVars, clientVars, mailVars, noteVars, SubscriptionsKnown, Known,
              AskedChannels
<1> QED BY <1>1, <1>2, <1>3 DEF Next, ClientStep

LEMMA InitKnown == Init => SubscriptionsKnown
  BY DEF Init, SubscriptionsKnown

(* A message reaches a client only when it awaits no reply: by then it has
   been told of every channel that it knows.                                 *)
LEMMA NextConfirmed ==
    ASSUME TypeOK, SubscriptionsKnown, ConfirmedFirst, [Next]_vars
    PROVE  ConfirmedFirst'
<1>1. CASE StoreStep \/ UNCHANGED vars
  <2>1. UNCHANGED <<got, confirmed>>
    BY <1>1, StoreActs DEF vars, noteVars
  <2> QED BY <2>1 DEF ConfirmedFirst
<1>2. ASSUME NEW c \in Clients, ClientStep(c) PROVE ConfirmedFirst'
  <2> SUFFICES ASSUME NEW d \in Clients, NEW i \in 1..Len(got'[d])
               PROVE  got'[d][i].channel \in confirmed'[d]
    BY DEF ConfirmedFirst
  <2>1. CASE got'[d] = got[d] /\ confirmed[d] \subseteq confirmed'[d]
    BY <2>1 DEF ConfirmedFirst
  <2>2. CASE d # c
    BY <1>2, <2>1, <2>2, TaskActs
  <2>3. CASE d = c /\ ForwardPush(c) /\ connected[c]
    <3>1. /\ got'[c] = Append(got[c], Head(push[c])) /\ confirmed' = confirmed
          /\ push[c] # << >> /\ task[c] = "reading"
          /\ got[c] \in Seq(Messages) /\ push[c] \in Seq(Messages)
      BY <2>3 DEF ForwardPush, Selects, TypeOK
    <3>2. Head(push[c]) \in Messages /\ Head(push[c]) = push[c][1] /\ 1 \in 1..Len(push[c])
      <4>1. /\ Head(push[c]) \in Messages /\ Head(push[c]) = push[c][1]
            /\ Len(push[c]) \in Nat /\ Len(push[c]) > 0
        BY <3>1, Taken
      <4> QED BY <4>1
    <3>3. Head(push[c]).channel \in confirmed[c]
      BY <2>3, <3>1, <3>2 DEF SubscriptionsKnown, Known
    <3>4. /\ Len(got'[c]) = Len(got[c]) + 1 /\ Len(got[c]) \in Nat
          /\ \A j \in 1..Len(got[c]) : got'[c][j] = got[c][j]
          /\ got'[c][Len(got[c]) + 1] = Head(push[c])
      BY <3>1, <3>2, Appended
    <3>5. i \in 1..Len(got[c]) \/ i = Len(got[c]) + 1
      BY <2>3, <3>4
    <3> QED BY <2>3, <3>1, <3>3, <3>4, <3>5 DEF ConfirmedFirst
  <2>4. CASE d = c /\ WriteReply(c)
    BY <2>1, <2>4 DEF WriteReply, TypeOK
  <2>5. CASE d = c /\ ~WriteReply(c) /\ ~(ForwardPush(c) /\ connected[c])
    <3>1. UNCHANGED <<got, confirmed>>
      BY <1>2, <2>5 DEF ClientStep, TaskStep, Connect, ReadCommand, Leave, Registered,
                        ForwardPush, CloseTask, PanicOnWrite, noteVars
    <3> QED BY <2>1, <3>1
  <2> QED BY <2>2, <2>3, <2>4, <2>5
<1> QED BY <1>1, <1>2 DEF Next, ClientStep

(* No message arrives before the reply to the SUBSCRIBE that it is for. *)
THEOREM NothingUnannounced == Spec => []ConfirmedFirst
<1>1. Init => ConfirmedFirst
  BY DEF Init, ConfirmedFirst
<1> QED BY <1>1, InitTypes, NextTypes, InitRequests, NextRequests, InitAuth, NextAuth,
           InitKnown, NextKnown, NextConfirmed, PTL DEF Spec

-----------------------------------------------------------------------------
(* What becomes of the messages.                                           *)

(* The messages of mail arrived or are on their way in their order; they and the
   lost ones are all that were sent.                                         *)
Accounted(mail, sent, lost) ==
    /\ \A i, j \in 1..Len(mail) : i < j => mail[i].id < mail[j].id
    /\ sent = lost \cup {mail[i].id : i \in 1..Len(mail)}
    /\ \A i \in 1..Len(mail) : mail[i].id \notin lost

(* Nothing is sent before it is published. *)
MeantWasPublished == \A c \in Clients : meant[c] \subseteq 1..published

MailInv == MessagesAccountedFor /\ MeantWasPublished

LEMMA MailOfEach == MessagesAccountedFor <=> \A c \in Clients : Accounted(MailOf(c), meant[c], missed[c])
  BY Zenon DEF MessagesAccountedFor, Accounted

(* One sequence after another. *)
LEMMA Joined ==
    ASSUME NEW S, NEW s \in Seq(S), NEW t \in Seq(S)
    PROVE  /\ s \o t \in Seq(S) /\ Len(s \o t) = Len(s) + Len(t)
           /\ Len(s) \in Nat /\ Len(t) \in Nat
           /\ \A i \in 1..Len(s) : (s \o t)[i] = s[i]
           /\ \A i \in 1..Len(t) : (s \o t)[Len(s) + i] = t[i]
  OBVIOUS

(* Some of the mail goes, and is lost. *)
LEMMA SomeLost ==
    ASSUME NEW mail \in Seq(Messages), NEW rest \in Seq(Messages), NEW sent, NEW lost,
           Accounted(mail, sent, lost),
           NEW at \in [1..Len(rest) -> 1..Len(mail)],
           \A i, j \in 1..Len(rest) : i < j => at[i] < at[j],
           \A i \in 1..Len(rest) : rest[i] = mail[at[i]],
           NEW gone,
           gone = {mail[j].id : j \in {k \in 1..Len(mail) : \A i \in 1..Len(rest) : at[i] # k}}
    PROVE  Accounted(rest, sent, lost \cup gone)
<1>1. \A j \in 1..Len(mail) : mail[j] \in Messages /\ mail[j].id \in Nat
  <2>1. \A j \in 1..Len(mail) : mail[j] \in Messages
    BY ElementOf
  <2> QED BY <2>1 DEF Messages
<1>2. \A i, j \in 1..Len(mail) : i < j => mail[i].id < mail[j].id
  BY DEF Accounted
<1>3. \A i \in 1..Len(rest) : at[i] \in 1..Len(mail)
  OBVIOUS
<1>4. \A i, j \in 1..Len(rest) : i < j => rest[i].id < rest[j].id
  BY <1>2, <1>3
<1>5. \A i, j \in 1..Len(mail) : i # j => mail[i].id # mail[j].id
  <2> SUFFICES ASSUME NEW i \in 1..Len(mail), NEW j \in 1..Len(mail), i # j
               PROVE  mail[i].id # mail[j].id
    OBVIOUS
  <2>1. i < j \/ j < i
    OBVIOUS
  <2>2. mail[i].id < mail[j].id \/ mail[j].id < mail[i].id
    BY <1>2, <2>1
  <2> QED BY <1>1, <2>2
<1>6. ASSUME NEW i \in 1..Len(rest) PROVE rest[i].id \notin lost \cup gone
  <2>1. rest[i].id \notin lost
    BY <1>3 DEF Accounted
  <2>2. rest[i].id \notin gone
    <3> SUFFICES ASSUME NEW j \in 1..Len(mail), \A k \in 1..Len(rest) : at[k] # j,
                        rest[i].id = mail[j].id
                 PROVE  FALSE
      OBVIOUS
    <3>1. at[i] # j /\ rest[i].id = mail[at[i]].id
      OBVIOUS
    <3> QED BY <1>3, <1>5, <3>1
  <2> QED BY <2>1, <2>2
<1>7. {mail[i].id : i \in 1..Len(mail)} = gone \cup {rest[i].id : i \in 1..Len(rest)}
  <2>1. ASSUME NEW j \in 1..Len(mail)
        PROVE  mail[j].id \in gone \/ \E i \in 1..Len(rest) : mail[j].id = rest[i].id
    <3>1. CASE \E i \in 1..Len(rest) : at[i] = j
      BY <3>1
    <3>2. CASE \A i \in 1..Len(rest) : at[i] # j
      BY <3>2
    <3> QED BY <3>1, <3>2
  <2>2. \A i \in 1..Len(rest) : \E j \in 1..Len(mail) : rest[i].id = mail[j].id
    BY <1>3
  <2>3. \A x \in gone : \E j \in 1..Len(mail) : x = mail[j].id
    OBVIOUS
  <2> QED BY <2>1, <2>2, <2>3
<1>8. sent = (lost \cup gone) \cup {rest[i].id : i \in 1..Len(rest)}
  BY <1>7 DEF Accounted
<1> QED BY <1>4, <1>6, <1>8 DEF Accounted

(* A message that is newer than all others is sent on, or lost. *)
LEMMA OneMore ==
    ASSUME NEW g \in Seq(Messages), NEW p \in Seq(Messages), NEW sent, NEW lost, NEW n \in Nat,
           sent \subseteq 1..n, Accounted(g \o p, sent, lost),
           NEW e \in Messages, e.id = n + 1
    PROVE  /\ Accounted(g \o Append(p, e), sent \cup {n + 1}, lost)
           /\ Accounted(g \o p, sent \cup {n + 1}, lost \cup {n + 1})
<1> DEFINE mail == g \o p
           more == g \o Append(p, e)
<1>1. /\ mail \in Seq(Messages) /\ Len(mail) = Len(g) + Len(p) /\ Len(g) \in Nat /\ Len(p) \in Nat
      /\ \A i \in 1..Len(g) : mail[i] = g[i]
      /\ \A i \in 1..Len(p) : mail[Len(g) + i] = p[i]
  BY Joined
<1>2. /\ Append(p, e) \in Seq(Messages) /\ Len(Append(p, e)) = Len(p) + 1
      /\ \A i \in 1..Len(p) : Append(p, e)[i] = p[i]
      /\ Append(p, e)[Len(p) + 1] = e
  BY Appended
<1>3. /\ Len(more) = Len(g) + Len(p) + 1
      /\ \A i \in 1..Len(g) : more[i] = g[i]
      /\ \A i \in 1..(Len(p) + 1) : more[Len(g) + i] = Append(p, e)[i]
  <2>1. /\ Len(more) = Len(g) + Len(Append(p, e))
        /\ \A i \in 1..Len(g) : more[i] = g[i]
        /\ \A i \in 1..Len(Append(p, e)) : more[Len(g) + i] = Append(p, e)[i]
    BY <1>2, Joined
  <2> QED BY <1>1, <1>2, <2>1
<1>4. Accounted(mail, sent, lost)
  OBVIOUS
<1> HIDE DEF mail, more
<1>5. /\ Len(more) = Len(mail) + 1 /\ Len(mail) \in Nat
      /\ \A i \in 1..Len(mail) : more[i] = mail[i]
      /\ more[Len(mail) + 1] = e
  <2>1. ASSUME NEW i \in 1..Len(mail) PROVE more[i] = mail[i]
    <3>1. CASE i \in 1..Len(g)
      BY <1>1, <1>3, <3>1
    <3>2. CASE i \notin 1..Len(g)
      <4>1. i - Len(g) \in 1..Len(p) /\ Len(g) + (i - Len(g)) = i
        BY <1>1, <3>2
      <4>2. PICK j \in 1..Len(p) : i = Len(g) + j
        BY <4>1
      <4>3. mail[i] = p[j]
        BY <1>1, <4>2
      <4>4. more[i] = p[j]
        <5>1. j \in 1..(Len(p) + 1)
          BY <1>1, <4>2
        <5>2. more[i] = Append(p, e)[j]
          BY <1>3, <4>2, <5>1
        <5> QED BY <1>2, <4>2, <5>2
      <4> QED BY <4>3, <4>4
    <3> QED BY <3>1, <3>2
  <2>2. more[Len(mail) + 1] = e
    <3>1. Len(p) + 1 \in 1..(Len(p) + 1) /\ Len(mail) + 1 = Len(g) + (Len(p) + 1)
      BY <1>1
    <3> QED BY <1>2, <1>3, <3>1
  <2> QED BY <1>1, <1>3, <2>1, <2>2
<1>6. \A i \in 1..Len(mail) : mail[i].id \in 1..n
  BY <1>4 DEF Accounted
<1>7. \A x \in lost : x \in 1..n
  BY <1>4 DEF Accounted
<1>8. ASSUME NEW i \in 1..Len(more), NEW j \in 1..Len(more), i < j PROVE more[i].id < more[j].id
  <2>1. i \in 1..Len(mail) /\ more[i] = mail[i]
    BY <1>5, <1>8
  <2>2. CASE j \in 1..Len(mail)
    BY <1>4, <1>5, <1>8, <2>1, <2>2 DEF Accounted
  <2>3. CASE j \notin 1..Len(mail)
    <3>1. more[j] = e
      BY <1>5, <2>3
    <3>2. mail[i].id \in 1..n
      BY <1>6, <2>1
    <3> QED BY <2>1, <3>1, <3>2
  <2> QED BY <2>2, <2>3
<1>9. {more[i].id : i \in 1..Len(more)} = {mail[i].id : i \in 1..Len(mail)} \cup {n + 1}
  <2>1. \A i \in 1..Len(more) : i \in 1..Len(mail) \/ i = Len(mail) + 1
    BY <1>5
  <2>2. \A i \in 1..Len(mail) : i \in 1..Len(more)
    BY <1>5
  <2>3. Len(mail) + 1 \in 1..Len(more)
    BY <1>5
  <2> QED BY <1>5, <2>1, <2>2, <2>3
<1>10. \A i \in 1..Len(more) : more[i].id \notin lost
  <2> SUFFICES ASSUME NEW i \in 1..Len(more) PROVE more[i].id \notin lost
    OBVIOUS
  <2>1. CASE i \in 1..Len(mail)
    BY <1>4, <1>5, <2>1 DEF Accounted
  <2>2. CASE i \notin 1..Len(mail)
    <3>1. more[i] = e
      BY <1>5, <2>2
    <3>2. n + 1 \notin 1..n
      OBVIOUS
    <3> QED BY <1>7, <3>1, <3>2
  <2> QED BY <2>1, <2>2
<1>11. Accounted(more, sent \cup {n + 1}, lost)
  <2>1. sent \cup {n + 1} = lost \cup {more[i].id : i \in 1..Len(more)}
    BY <1>4, <1>9 DEF Accounted
  <2> QED BY <1>8, <1>10, <2>1 DEF Accounted
<1>12. Accounted(mail, sent \cup {n + 1}, lost \cup {n + 1})
  <2>1. \A i \in 1..Len(mail) : mail[i].id # n + 1
    BY <1>6
  <2> QED BY <1>4, <2>1 DEF Accounted
<1> QED BY <1>11, <1>12 DEF mail, more

(* The oldest message of the channel is written to the peer. *)
LEMMA OneReceived ==
    ASSUME NEW g \in Seq(Messages), NEW p \in Seq(Messages), p # << >>
    PROVE  Append(g, Head(p)) \o Tail(p) = g \o p
  OBVIOUS

(* It is written to a connection that nobody reads. *)
LEMMA OneDropped ==
    ASSUME NEW g \in Seq(Messages), NEW p \in Seq(Messages), p # << >>, NEW sent, NEW lost,
           Accounted(g \o p, sent, lost)
    PROVE  Accounted(g \o Tail(p), sent, lost \cup {Head(p).id})
<1> DEFINE mail == g \o p
           rest == g \o Tail(p)
           at   == [i \in 1..Len(rest) |-> IF i \in 1..Len(g) THEN i ELSE i + 1]
           gone == {mail[j].id : j \in {k \in 1..Len(mail) : \A i \in 1..Len(rest) : at[i] # k}}
<1>1. /\ mail \in Seq(Messages) /\ Len(mail) = Len(g) + Len(p) /\ Len(g) \in Nat /\ Len(p) \in Nat
      /\ \A i \in 1..Len(g) : mail[i] = g[i]
      /\ \A i \in 1..Len(p) : mail[Len(g) + i] = p[i]
  BY Joined
<1>2. /\ Head(p) = p[1] /\ Len(p) > 0 /\ Tail(p) \in Seq(Messages) /\ Len(Tail(p)) = Len(p) - 1
      /\ \A i \in 1..(Len(p) - 1) : Tail(p)[i] = p[i + 1]
  BY Taken
<1>3. /\ rest \in Seq(Messages) /\ Len(rest) = Len(g) + Len(Tail(p))
      /\ \A i \in 1..Len(g) : rest[i] = g[i]
      /\ \A i \in 1..Len(Tail(p)) : rest[Len(g) + i] = Tail(p)[i]
  BY <1>2, Joined
<1>4. Len(rest) = Len(mail) - 1 /\ Len(rest) \in Nat
  <2> HIDE DEF mail, rest
  <2> QED BY <1>1, <1>2, <1>3
<1>5. Accounted(mail, sent, lost)
  OBVIOUS
<1> HIDE DEF mail, rest
<1>6. at \in [1..Len(rest) -> 1..Len(mail)]
  BY <1>1, <1>4
<1>7. \A i, j \in 1..Len(rest) : i < j => at[i] < at[j]
  BY <1>1, <1>4
<1>8. \A i \in 1..Len(rest) : rest[i] = mail[at[i]]
  <2> SUFFICES ASSUME NEW i \in 1..Len(rest) PROVE rest[i] = mail[at[i]]
    OBVIOUS
  <2>1. CASE i \in 1..Len(g)
    BY <1>1, <1>3, <2>1
  <2>2. CASE i \notin 1..Len(g)
    <3>1. i - Len(g) \in 1..(Len(p) - 1) /\ Len(g) + (i - Len(g)) = i
      BY <1>1, <1>2, <1>4, <2>2
    <3>2. PICK j \in 1..(Len(p) - 1) : i = Len(g) + j
      BY <3>1
    <3>3. rest[i] = p[j + 1]
      BY <1>2, <1>3, <3>2
    <3>4. j + 1 \in 1..Len(p) /\ Len(g) + (j + 1) = i + 1
      BY <1>1, <3>2
    <3>5. mail[i + 1] = p[j + 1]
      BY <1>1, <3>4
    <3>6. at[i] = i + 1
      BY <2>2
    <3> QED BY <3>3, <3>5, <3>6
  <2> QED BY <2>1, <2>2
<1>9. gone = {Head(p).id}
  <2>1. \A k \in 1..Len(mail) : (\A i \in 1..Len(rest) : at[i] # k) <=> k = Len(g) + 1
    <3> SUFFICES ASSUME NEW k \in 1..Len(mail)
                 PROVE  (\A i \in 1..Len(rest) : at[i] # k) <=> k = Len(g) + 1
      OBVIOUS
    <3>1. CASE k \in 1..Len(g)
      <4>1. k \in 1..Len(rest) /\ at[k] = k
        BY <1>1, <1>2, <1>4, <3>1
      <4> QED BY <1>1, <3>1, <4>1
    <3>2. CASE k = Len(g) + 1
      <4>1. \A i \in 1..Len(rest) : at[i] # k
        BY <1>1, <3>2
      <4> QED BY <3>2, <4>1
    <3>3. CASE k \notin 1..Len(g) /\ k # Len(g) + 1
      <4>1. k - 1 \in 1..Len(rest) /\ k - 1 \notin 1..Len(g)
        BY <1>1, <1>4, <3>3
      <4>2. at[k - 1] = k
        BY <4>1
      <4> QED BY <3>3, <4>1, <4>2
    <3> QED BY <3>1, <3>2, <3>3
  <2>2. Len(g) + 1 \in 1..Len(mail)
    BY <1>1, <1>2
  <2>3. mail[Len(g) + 1] = Head(p)
    <3>1. 1 \in 1..Len(p)
      BY <1>1, <1>2
    <3> QED BY <1>1, <1>2, <3>1
  <2> HIDE DEF at
  <2>4. {k \in 1..Len(mail) : \A i \in 1..Len(rest) : at[i] # k} = {Len(g) + 1}
    BY <2>1, <2>2
  <2>5. PICK K : K = {k \in 1..Len(mail) : \A i \in 1..Len(rest) : at[i] # k}
    OBVIOUS
  <2>6. gone = {mail[j].id : j \in K} /\ K = {Len(g) + 1}
    BY <2>4, <2>5
  <2> HIDE DEF gone
  <2>7. gone = {mail[Len(g) + 1].id}
    BY <2>6
  <2> QED BY <2>3, <2>7
<1> HIDE DEF at, gone
<1>10. Accounted(rest, sent, lost \cup gone)
  <2>1. gone = {mail[j].id : j \in {k \in 1..Len(mail) : \A i \in 1..Len(rest) : at[i] # k}}
    BY DEF gone
  <2> QED BY <1>1, <1>3, <1>5, <1>6, <1>7, <1>8, <2>1, SomeLost
<1> QED BY <1>9, <1>10 DEF rest

(* The channel is dropped with all that is in it. *)
LEMMA AllDropped ==
    ASSUME NEW g \in Seq(Messages), NEW p \in Seq(Messages), NEW sent, NEW lost,
           Accounted(g \o p, sent, lost)
    PROVE  Accounted(g \o << >>, sent, lost \cup {p[i].id : i \in 1..Len(p)})
<1> DEFINE mail == g \o p
           at   == [i \in 1..Len(g) |-> i]
           gone == {mail[j].id : j \in {k \in 1..Len(mail) : \A i \in 1..Len(g) : at[i] # k}}
<1>1. /\ mail \in Seq(Messages) /\ Len(mail) = Len(g) + Len(p) /\ Len(g) \in Nat /\ Len(p) \in Nat
      /\ \A i \in 1..Len(g) : mail[i] = g[i]
      /\ \A i \in 1..Len(p) : mail[Len(g) + i] = p[i]
  BY Joined
<1>2. Accounted(mail, sent, lost)
  OBVIOUS
<1> HIDE DEF mail
<1>3. at \in [1..Len(g) -> 1..Len(mail)]
  BY <1>1
<1>4. \A i, j \in 1..Len(g) : i < j => at[i] < at[j]
  OBVIOUS
<1>5. \A i \in 1..Len(g) : g[i] = mail[at[i]]
  BY <1>1
<1>6. gone = {p[i].id : i \in 1..Len(p)}
  <2>1. \A k \in 1..Len(mail) : (\A i \in 1..Len(g) : at[i] # k) <=> k \notin 1..Len(g)
    OBVIOUS
  <2> HIDE DEF at
  <2>2. ASSUME NEW k \in 1..Len(mail), k \notin 1..Len(g)
        PROVE  k - Len(g) \in 1..Len(p) /\ mail[k] = p[k - Len(g)]
    <3>1. k - Len(g) \in 1..Len(p) /\ Len(g) + (k - Len(g)) = k
      BY <1>1, <2>2
    <3> QED BY <1>1, <3>1
  <2>3. ASSUME NEW i \in 1..Len(p)
        PROVE  Len(g) + i \in 1..Len(mail) /\ Len(g) + i \notin 1..Len(g) /\ mail[Len(g) + i] = p[i]
    BY <1>1
  <2>4. \A x \in gone : \E i \in 1..Len(p) : x = p[i].id
    <3> SUFFICES ASSUME NEW k \in 1..Len(mail), \A i \in 1..Len(g) : at[i] # k
                 PROVE  \E i \in 1..Len(p) : mail[k].id = p[i].id
      OBVIOUS
    <3>1. k \notin 1..Len(g)
      BY <2>1
    <3> QED BY <2>2, <3>1
  <2>5. \A i \in 1..Len(p) : p[i].id \in gone
    <3> SUFFICES ASSUME NEW i \in 1..Len(p) PROVE p[i].id \in gone
      OBVIOUS
    <3>1. PICK k \in 1..Len(mail) : k \notin 1..Len(g) /\ mail[k] = p[i]
      BY <2>3
    <3>2. k \in {m \in 1..Len(mail) : \A j \in 1..Len(g) : at[j] # m}
      BY <2>1, <3>1
    <3> QED BY <3>1, <3>2
  <2> QED BY <2>4, <2>5
<1>7. Accounted(g, sent, lost \cup gone)
  <2> HIDE DEF at, gone
  <2>1. gone = {mail[j].id : j \in {k \in 1..Len(mail) : \A i \in 1..Len(g) : at[i] # k}}
    BY DEF gone
  <2> QED BY <1>1, <1>2, <1>3, <1>4, <1>5, <2>1, SomeLost
<1>8. g \o << >> = g
  OBVIOUS
<1> HIDE DEF gone
<1> QED BY <1>6, <1>7, <1>8

(* What a step does to the mail of one client. *)
LEMMA MailStays ==
    ASSUME MailInv, NEW d \in Clients, UNCHANGED meant,
           got'[d] = got[d], push'[d] = push[d], missed'[d] = missed[d]
    PROVE  Accounted(MailOf(d), meant[d], missed[d])'
<1>1. Accounted(MailOf(d), meant[d], missed[d])
  BY MailOfEach DEF MailInv
<1>2. PICK mail, sent, lost : mail = MailOf(d) /\ sent = meant[d] /\ lost = missed[d]
  OBVIOUS
<1>3. mail = MailOf(d)' /\ sent = meant'[d] /\ lost = missed'[d]
  BY <1>2 DEF MailOf
<1> QED BY <1>1, <1>2, <1>3

LEMMA MailPublished ==
    ASSUME TypeOK, MailInv, ExecPublish, NEW d \in Clients
    PROVE  Accounted(MailOf(d), meant[d], missed[d])'
<1>1. PICK g, p, sent, lost, n :
        g = got[d] /\ p = push[d] /\ sent = meant[d] /\ lost = missed[d] /\ n = published
  OBVIOUS
<1>2. /\ g \in Seq(Messages) /\ p \in Seq(Messages) /\ n \in Nat /\ sent \subseteq 1..n
      /\ got'[d] = g
  BY <1>1 DEF TypeOK, MailInv, MeantWasPublished, ExecPublish, noteVars
<1>3. Accounted(g \o p, sent, lost)
  BY <1>1, MailOfEach DEF MailInv, MailOf
<1>4. PICK e \in Messages : e = Message(n + 1, Arg)
  BY <1>1, PublishTypes
<1>5. e.id = n + 1
  BY <1>4 DEF Message
<1>6. /\ Accounted(g \o Append(p, e), sent \cup {n + 1}, lost)
      /\ Accounted(g \o p, sent \cup {n + 1}, lost \cup {n + 1})
  BY <1>2, <1>3, <1>5, OneMore
<1>7. CASE d \in Subscribers(Arg) /\ CanSend(d)
  <2>1. push'[d] = Append(p, e) /\ missed'[d] = lost /\ meant'[d] = sent \cup {n + 1}
    BY <1>1, <1>4, <1>7, PublishTypes
  <2>2. MailOf(d)' = g \o Append(p, e)
    BY <1>2, <2>1 DEF MailOf
  <2> QED BY <1>6, <2>1, <2>2
<1>8. CASE d \in Subscribers(Arg) /\ ~CanSend(d)
  <2>1. push'[d] = p /\ missed'[d] = lost \cup {n + 1} /\ meant'[d] = sent \cup {n + 1}
    BY <1>1, <1>8, PublishTypes
  <2>2. MailOf(d)' = g \o p
    BY <1>2, <2>1 DEF MailOf
  <2> QED BY <1>6, <2>1, <2>2
<1>9. CASE d \notin Subscribers(Arg)
  <2>1. push'[d] = p /\ missed'[d] = lost /\ meant'[d] = sent
    BY <1>1, <1>9, PublishTypes
  <2>2. MailOf(d)' = g \o p
    BY <1>2, <2>1 DEF MailOf
  <2> QED BY <1>3, <2>1, <2>2
<1> QED BY <1>7, <1>8, <1>9

LEMMA MailForwarded ==
    ASSUME TypeOK, MailInv, NEW c \in Clients, ForwardPush(c)
    PROVE  Accounted(MailOf(c), meant[c], missed[c])'
<1>1. PICK g, p, sent, lost : g = got[c] /\ p = push[c] /\ sent = meant[c] /\ lost = missed[c]
  OBVIOUS
<1>2. g \in Seq(Messages) /\ p \in Seq(Messages) /\ p # << >>
  BY <1>1 DEF TypeOK, ForwardPush
<1>3. Accounted(g \o p, sent, lost)
  BY <1>1, MailOfEach DEF MailInv, MailOf
<1>4. push'[c] = Tail(p) /\ meant'[c] = sent
  BY <1>1 DEF ForwardPush, TypeOK
<1>5. CASE connected[c]
  <2>1. got'[c] = Append(g, Head(p)) /\ missed'[c] = lost
    BY <1>1, <1>5 DEF ForwardPush, TypeOK
  <2>2. MailOf(c)' = g \o p
    BY <1>2, <1>4, <2>1, OneReceived DEF MailOf
  <2> QED BY <1>3, <1>4, <2>1, <2>2
<1>6. CASE ~connected[c]
  <2>1. got'[c] = g /\ missed'[c] = lost \cup {Head(p).id}
    BY <1>1, <1>6 DEF ForwardPush, TypeOK
  <2>2. MailOf(c)' = g \o Tail(p)
    BY <1>4, <2>1 DEF MailOf
  <2> QED BY <1>2, <1>3, <1>4, <2>1, <2>2, OneDropped
<1> QED BY <1>5, <1>6

LEMMA MailEnded ==
    ASSUME TypeOK, MailInv, NEW c \in Clients, CloseTask(c) \/ PanicOnWrite(c)
    PROVE  Accounted(MailOf(c), meant[c], missed[c])'
<1>1. PICK g, p, sent, lost : g = got[c] /\ p = push[c] /\ sent = meant[c] /\ lost = missed[c]
  OBVIOUS
<1>2. g \in Seq(Messages) /\ p \in Seq(Messages)
  BY <1>1 DEF TypeOK
<1>3. Accounted(g \o p, sent, lost)
  BY <1>1, MailOfEach DEF MailInv, MailOf
<1>4. push'[c] = << >> /\ meant'[c] = sent /\ got'[c] = g
  BY <1>1 DEF CloseTask, PanicOnWrite, End, noteVars, TypeOK
<1>5. missed'[c] = lost \cup {p[i].id : i \in 1..Len(p)}
  BY <1>1 DEF CloseTask, PanicOnWrite, End, LeftInChannel, TypeOK
<1>6. MailOf(c)' = g \o << >>
  BY <1>4 DEF MailOf
<1> QED BY <1>2, <1>3, <1>4, <1>5, <1>6, AllDropped

LEMMA NextMail ==
    ASSUME TypeOK, MailInv, [Next]_vars
    PROVE  MailInv'
<1>1. MeantWasPublished'
  <2>1. CASE ExecPublish
    <3> SUFFICES ASSUME NEW d \in Clients PROVE meant'[d] \subseteq 1..published'
      BY DEF MeantWasPublished
    <3>1. /\ published \in Nat /\ published' = published + 1
          /\ meant'[d] = meant[d] \/ meant'[d] = meant[d] \cup {published + 1}
      BY <2>1, PublishTypes
    <3>2. meant[d] \subseteq 1..published
      BY DEF MailInv, MeantWasPublished
    <3> QED BY <3>1, <3>2
  <2>2. CASE ~ExecPublish
    <3>1. UNCHANGED <<meant, published>>
      BY <2>2, StoreActs, TaskSpares DEF Next, ClientStep, vars, mailVars
    <3> QED BY <3>1 DEF MailInv, MeantWasPublished
  <2> QED BY <2>1, <2>2
<1>2. ASSUME NEW d \in Clients PROVE Accounted(MailOf(d), meant[d], missed[d])'
  <2>1. CASE ExecPublish
    BY <2>1, MailPublished
  <2>2. CASE (StoreStep /\ ~ExecPublish) \/ UNCHANGED vars
    <3>1. UNCHANGED <<got, push, meant, missed>>
      BY <2>2, StoreActs DEF vars, mailVars, noteVars
    <3> QED BY <3>1, MailStays
  <2>3. ASSUME NEW c \in Clients, ClientStep(c)
        PROVE  Accounted(MailOf(d), meant[d], missed[d])'
    <3>1. UNCHANGED meant
      BY <2>3, TaskSpares
    <3>2. CASE d # c
      BY <2>3, <3>1, <3>2, TaskActs, MailStays
    <3>3. CASE d = c /\ ForwardPush(c)
      BY <3>3, MailForwarded
    <3>4. CASE d = c /\ (CloseTask(c) \/ PanicOnWrite(c))
      BY <3>4, MailEnded
    <3>5. CASE d = c /\ (Connect(c) \/ ReadCommand(c) \/ Leave(c) \/ Registered(c) \/ WriteReply(c))
      <4>1. UNCHANGED <<got, push, missed>>
        BY <3>5 DEF Connect, ReadCommand, Leave, Registered, WriteReply, mailVars, noteVars
      <4> QED BY <3>1, <4>1, MailStays
    <3> QED BY <2>3, <3>2, <3>3, <3>4, <3>5 DEF ClientStep, TaskStep
  <2> QED BY <2>1, <2>2, <2>3 DEF Next, ClientStep
<1>3. MessagesAccountedFor'
  <2>1. (\A c \in Clients : Accounted(MailOf(c), meant[c], missed[c]))'
    BY <1>2
  <2> QED BY <2>1, Zenon DEF MessagesAccountedFor, Accounted
<1> QED BY <1>1, <1>3 DEF MailInv

LEMMA InitMail == Init => MailInv
<1> SUFFICES ASSUME Init PROVE MailInv
  OBVIOUS
<1>1. ASSUME NEW c \in Clients
      PROVE  Len(MailOf(c)) = 0 /\ meant[c] = {} /\ missed[c] = {}
  BY <1>1 DEF Init, MailOf
<1>2. MessagesAccountedFor
  BY <1>1, MailOfEach DEF Accounted
<1> QED BY <1>1, <1>2 DEF MailInv, MeantWasPublished

(* Every message published to a channel reaches each of its registered
   subscribers, is on its way, or is known to be dropped; what arrives, arrives
   once and in the order of publication, whatever the channels hold and
   whenever peers go.                                                        *)
THEOREM NoMessageUnaccounted == Spec => []MessagesAccountedFor
<1>1. MailInv => MessagesAccountedFor
  BY DEF MailInv
<1> QED BY <1>1, InitTypes, NextTypes, InitMail, NextMail, PTL DEF Spec

(* A message is dropped only for a subscriber whose channel is full or whose
   connection is gone: a task ends only after its peer.                      *)
THEOREM NoMessageDroppedInVain == Spec => DroppedForCause
<1>1. ASSUME TypeOK, RequestInv, [Next]_vars
      PROVE  [\A c \in Clients :
                 missed'[c] # missed[c] => Len(push'[c]) = PushCap \/ ~connected[c]]_vars
  <2> SUFFICES ASSUME Next, NEW d \in Clients, missed'[d] # missed[d]
               PROVE  Len(push'[d]) = PushCap \/ ~connected[d]
    BY <1>1
  <2>1. CASE StoreStep
    <3>1. ExecPublish
      BY <1>1, <2>1, StoreActs
    <3>2. ~CanSend(d) /\ push'[d] = push[d]
      BY <1>1, <3>1, PublishTypes
    <3>3. Len(push[d]) <= PushCap /\ Len(push[d]) \in Nat
      <4>1. push[d] \in Seq(Messages) /\ Len(push[d]) <= PushCap
        BY <1>1 DEF TypeOK
      <4> QED BY <4>1
    <3>4. CASE task[d] = "ended"
      BY <1>1, <3>4 DEF RequestInv, EndedGone
    <3>5. CASE ~(Len(push[d]) < PushCap)
      BY <3>2, <3>3, <3>5, PushCapAssumption
    <3> QED BY <3>2, <3>4, <3>5 DEF CanSend
  <2>2. ASSUME NEW c \in Clients, ClientStep(c) PROVE ~connected[d]
    <3>1. d = c
      BY <1>1, <2>2, TaskActs
    <3> QED BY <2>2, <3>1
           DEF ClientStep, TaskStep, Connect, ReadCommand, Leave, Registered, WriteReply,
               ForwardPush, CloseTask, PanicOnWrite, mailVars
  <2> QED BY <2>1, <2>2 DEF Next, ClientStep
<1> QED BY <1>1, InitTypes, NextTypes, InitRequests, NextRequests, PTL DEF Spec, DroppedForCause
=============================================================================
