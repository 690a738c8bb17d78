----------------------------- MODULE Persistence -----------------------------
(***************************************************************************)
(* What a restart brings back: strings with their deadlines, the append    *)
(* only file they are logged to, the RDB file the server starts from, and  *)
(* crashes in between.                                                     *)
(*                                                                         *)
(* The store appends a SET to the file before it executes it, and only a   *)
(* SET that is a command of its own: what INCR and the SETs of a           *)
(* transaction do is in memory alone.  At a start the RDB file is loaded,   *)
(* the append only file is parsed as a whole and replayed, and only then    *)
(* does the store take requests.                                           *)
(*                                                                         *)
(* A value is what became of a SET: the number of that SET in the order in  *)
(* which the SETs are sent, how often it was incremented since, and its     *)
(* deadline.  All values that clients send are integers, and neither they   *)
(* nor the keys contain text of the protocol.                               *)
(*                                                                         *)
(* A write that fails may leave a piece of a SET in the file, and the store  *)
(* goes on appending behind it.  The parser takes as many bytes as a length  *)
(* announces, whatever they are, so that such a piece is not always a        *)
(* panic: with the commands behind it, it may read as one SET that nobody    *)
(* sent, and those commands are gone.  Which of the two it is depends on     *)
(* lengths, and is left open here.                                          *)
(* Time is in milliseconds and never steps back here.                      *)
(***************************************************************************)
EXTENDS Integers, Sequences, FiniteSets

CONSTANTS
    Clients,
    Keys,
    OtherKey,    \* stands for any key that is none of Keys
    Ttls,        \* the PX options clients give, NoTtl for none
    RdbFile,     \* [Keys -> Values]: what the RDB file holds
    MaxSets,     \* bound: SETs sent, those of transactions included
    MaxIncrs,    \* bound: INCRs sent
    MaxTime,     \* bound: the clock
    MaxFaults    \* bound: crashes and failed writes

NoTtl == -1
Never == -1      \* the deadline of a value without one

NoSet    == -2   \* nothing there, or a value that INCR made out of nothing
Garbled  == -1   \* a value that no client gave: a piece of the file and what follows it
FromFile == 0    \* the value that the RDB file gave
Value(n, incrs, expire) == [set |-> n, incrs |-> incrs, expire |-> expire]
Values == [set : Nat \cup {NoSet, Garbled}, incrs : Nat, expire : Nat \cup {Never}]
Absent == Value(NoSet, 0, Never)

ASSUME OtherKeyAssumption == OtherKey \notin Keys
ASSUME TtlsAssumption == Ttls \subseteq Nat \cup {NoTtl}
ASSUME BoundsAssumption ==
    MaxSets \in Nat /\ MaxIncrs \in Nat /\ MaxTime \in Nat /\ MaxFaults \in Nat
ASSUME RdbFileAssumption ==
    RdbFile \in [Keys -> {v \in Values : v.set = FromFile} \cup {Absent}]

VARIABLES
    \* the process
    server,      \* "down", "loading", "replaying", "serving" or "dead"
    data,        \* store.data
    replayed,    \* how many commands of the file were replayed
    appended,    \* the SET at the head of the inbox has been appended
    inbox,       \* the mpsc channel to the store: requests
    oneshot,     \* per client: its reply channel
    task,        \* per client: "idle" or "awaiting"
    \* the world
    log,         \* the append only file: what it reads as, see Entries
    now,         \* the clock
    sent,        \* how many SETs and INCRs were sent
    faults,      \* how many faults there were
    \* history
    seen,        \* per key: the latest logged SET that some client knows of
    volatile,    \* the SETs that were executed without being logged
    due          \* per SET: the deadline it was first given

process == <<server, data, replayed, appended, inbox, oneshot, task>>
world   == <<log, now, sent, faults>>
history == <<seen, volatile, due>>
vars    == <<process, world, history>>

Command(op, k, n, ttl) == [op |-> op, key |-> k, set |-> n, ttl |-> ttl]
Commands == [op : {"set", "txset", "incr", "get"}, key : Keys,
             set : Nat, ttl : Ttls \cup {NoTtl}]
Request(c, cmd) == [client |-> c, command |-> cmd]

(* The file: SETs, pieces of one, and what became of a piece: a SET that
   nobody sent, of a value (or of another key) that is garbled.              *)
Piece(cmd) == [cmd EXCEPT !.op = "piece"]
Entries ==
    [op : {"set"}, key : Keys, set : Nat, ttl : Ttls \cup {NoTtl}] \cup
    [op : {"piece"}, key : Keys \cup {OtherKey}, set : Nat \cup {Garbled}, ttl : Ttls \cup {NoTtl}] \cup
    [op : {"garbled"}, key : Keys \cup {OtherKey}, set : {Garbled}, ttl : Ttls \cup {NoTtl}]

NoReply == [ready |-> FALSE]
\* A reply shows a client that SET n of the key was executed.
Reply(k, n) == [ready |-> TRUE, key |-> k, set |-> n]

Nothing == [k \in Keys |-> Absent]

(* History: what a file still gives for a key k: the RDB file's value and the
   SETs that no garbled SET of k follows.                                     *)
GarbledAfter(file, i, k) ==
    \E j \in (i + 1)..Len(file) : file[j].op = "garbled" /\ file[j].key = k
Survivors(file, k) ==
    (IF GarbledAfter(file, 0, k) THEN {} ELSE {RdbFile[k].set}) \cup
    {file[i].set : i \in {j \in 1..Len(file) : /\ file[j].op = "set" /\ file[j].key = k
                                               /\ ~GarbledAfter(file, j, k)}}
\* what is left of the promise that SET n of key k is there
StillPromised(file, k, n) ==
    LET left == {NoSet} \cup {m \in Survivors(file, k) : m <= n}
    IN  CHOOSE m \in left : \A other \in left : other <= m
LosesPromises == seen' = [k \in Keys |-> StillPromised(log', k, seen[k])]

Init ==
    /\ server = "down" /\ data = Nothing /\ replayed = 0 /\ appended = FALSE
    /\ inbox = << >>
    /\ oneshot = [c \in Clients |-> NoReply]
    /\ task = [c \in Clients |-> "idle"]
    /\ log = << >> /\ now = 0 /\ sent = [set |-> 0, incr |-> 0] /\ faults = 0
    /\ seen = [k \in Keys |-> NoSet] /\ volatile = {} /\ due = << >>

-----------------------------------------------------------------------------
(* Starting up.                                                            *)

(* Aof::from_config opens the file, Store::new loads the RDB file, the store
   task is spawned, and clients can connect.                                *)
Start ==
    /\ server = "down"
    /\ server' = "loading"
    /\ data' = RdbFile
    /\ UNCHANGED <<replayed, appended, inbox, oneshot, task, world, history>>

(* One turn of parse_resp's loop, at the first piece of a SET: the length of its
   key or of its value takes in the beginning of what follows, and the rest of a
   later command gives the elements that it lacks.  So one or more commands
   (or pieces) are read with it as one SET: of the piece's own key and a garbled
   value, or of a garbled key.  A deadline it can only have from a command that
   it takes in.  The bytes are as they were; from now on they are known to read
   like this.                                                                *)
MisreadAs(i, j) ==
    [op : {"garbled"}, key : {log[i].key, OtherKey}, set : {Garbled},
     ttl : {NoTtl} \cup {log[m].ttl : m \in {x \in (i + 1)..j :
                                               log[x].op = "set" /\ log[i].ttl # NoTtl}}]

(* The entries from i to j are read as one, g. *)
ReadAsOne(file, i, j, g) == SubSeq(file, 1, i - 1) \o <<g>> \o SubSeq(file, j + 1, Len(file))

Misread ==
    /\ server = "loading"
    /\ \E i \in 1..Len(log) :
          /\ log[i].op = "piece"
          /\ \A h \in 1..(i - 1) : log[h].op # "piece"
          /\ \E j \in (i + 1)..Len(log) : \E g \in MisreadAs(i, j) : log' = ReadAsOne(log, i, j, g)
    /\ LosesPromises
    /\ UNCHANGED <<process, now, sent, faults, volatile, due>>

(* mutant: a file without a single command does not parse *)
ParsesSome(file) == file # << >> /\ \A i \in 1..Len(file) : file[i].op # "piece"
(* A piece that did not turn into a SET (Misread) is a panic: always when it is
   the end of the file.  (A SET without a deadline that lacks only its last CRLF
   parses, as the RDB form of a string: it counts as whole.)                  *)
Parses(file) == \A i \in 1..Len(file) : file[i].op # "piece"

(* The whole file is parsed before anything is executed.  When that is a panic,
   the requests in the channel, and the reply channels in them, are dropped
   with the store task.                                                     *)
GetInitialCommands ==
    /\ server = "loading"
    /\ IF Parses(log) THEN server' = "replaying" /\ UNCHANGED inbox
                      ELSE server' = "dead" /\ inbox' = << >>
    /\ replayed' = 0
    /\ UNCHANGED <<data, appended, oneshot, task, world, history>>

(* mutant: the deadline is kept as the milliseconds the client gave *)
RelativeDeadline(ttl) == IF ttl = NoTtl THEN Never ELSE ttl
Deadline(ttl) == IF ttl = NoTtl THEN Never ELSE now + ttl

(* what SET promises *)
FirstDeadline(cmd) == IF cmd.ttl = NoTtl THEN Never ELSE now + cmd.ttl

(* command_set *)
Set(cmd) == data' = [data EXCEPT ![cmd.key] = Value(cmd.set, 0, Deadline(cmd.ttl))]

(* History: the deadline at the first execution of a SET. *)
Remember(cmd) ==
    due' = [n \in DOMAIN due \cup {cmd.set} |->
               IF n \in DOMAIN due THEN due[n] ELSE FirstDeadline(cmd)]

Replay ==
    /\ server = "replaying"
    /\ replayed < Len(log)
    /\ LET cmd == log[replayed + 1] IN
          \/ cmd.op = "set" /\ Set(cmd) /\ Remember(cmd)
          \/ cmd.op = "garbled" /\ cmd.key \in Keys /\ Set(cmd) /\ UNCHANGED due
          \/ cmd.op = "garbled" /\ cmd.key = OtherKey /\ UNCHANGED <<data, due>>
    /\ replayed' = replayed + 1
    /\ UNCHANGED <<server, appended, inbox, oneshot, task, world, seen, volatile>>

Serve ==
    /\ server = "replaying"
    /\ replayed = Len(log)
    /\ server' = "serving"
    /\ UNCHANGED <<data, replayed, appended, inbox, oneshot, task, world, history>>

-----------------------------------------------------------------------------
(* Clients.                                                                *)

(* Sending to a store that is gone fails, and the error is ignored. *)
Enqueue(r) == inbox' = IF server = "dead" THEN inbox ELSE Append(inbox, r)

Send(c) ==
    /\ server # "down"
    /\ task[c] = "idle"
    /\ \E k \in Keys :
          \/ /\ sent.set < MaxSets
             /\ \E ttl \in Ttls, op \in {"set", "txset"} :
                   Enqueue(Request(c, Command(op, k, sent.set + 1, ttl)))
             /\ sent' = [sent EXCEPT !.set = @ + 1]
          \/ /\ sent.incr < MaxIncrs
             /\ Enqueue(Request(c, Command("incr", k, 0, NoTtl)))
             /\ sent' = [sent EXCEPT !.incr = @ + 1]
          \/ /\ Enqueue(Request(c, Command("get", k, 0, NoTtl)))
             /\ UNCHANGED sent
    /\ task' = [task EXCEPT ![c] = "awaiting"]
    /\ UNCHANGED <<server, data, replayed, appended, oneshot, log, now, faults, history>>

(* The reply reaches the client: what it shows is promised from now on, unless
   it was not logged, or no client ever set it.                               *)
WriteReply(c) ==
    /\ oneshot[c].ready
    /\ LET k == oneshot[c].key
           n == oneshot[c].set
       IN  seen' = IF n \in volatile \/ n = Garbled \/ n <= seen[k] THEN seen ELSE [seen EXCEPT ![k] = n]
    /\ oneshot' = [oneshot EXCEPT ![c] = NoReply]
    /\ task' = [task EXCEPT ![c] = "idle"]
    /\ UNCHANGED <<server, data, replayed, appended, inbox, world, volatile, due>>

(* mutant: a client is not told that the store task is gone *)
NeverTold(c) == FALSE
(* The reply channel of a client was dropped with the store task. *)
Abandoned(c) == server = "dead" /\ task[c] = "awaiting" /\ ~oneshot[c].ready

(* The client task panics, and the connection is closed. *)
PanicUnanswered(c) ==
    /\ Abandoned(c)
    /\ task' = [task EXCEPT ![c] = "idle"]
    /\ UNCHANGED <<server, data, replayed, appended, inbox, oneshot, world, history>>

-----------------------------------------------------------------------------
(* The store task.                                                         *)

Takes(op) ==
    /\ server = "serving"
    /\ inbox # << >>
    /\ Head(inbox).command.op = op

AppendSet ==
    /\ Takes("set")
    /\ ~appended
    /\ log' = Append(log, Head(inbox).command)
    /\ appended' = TRUE
    /\ UNCHANGED <<server, data, replayed, inbox, oneshot, task, now, sent, faults, history>>

(* The write fails, with nothing or a piece of the command in the file.  The
   error shows when the file is flushed, and is ignored there.              *)
AppendFails ==
    /\ faults < MaxFaults
    /\ Takes("set")
    /\ ~appended
    /\ log' \in {log, Append(log, Piece(Head(inbox).command))}
    /\ appended' = TRUE
    /\ volatile' = volatile \cup {Head(inbox).command.set}
    /\ faults' = faults + 1
    /\ UNCHANGED <<server, data, replayed, inbox, oneshot, task, now, sent, seen, due>>

(* Leaves the request and answers it in one step, without an await. *)
AnswerHead(k, n) ==
    /\ oneshot' = [oneshot EXCEPT ![Head(inbox).client] = Reply(k, n)]
    /\ inbox' = Tail(inbox)

(* mutant: the command is executed whether or not it is on the file *)
AnyTime == TRUE
Logged == appended

ExecSet ==
    /\ Takes("set")
    /\ Logged
    /\ Set(Head(inbox).command)
    /\ Remember(Head(inbox).command)
    /\ AnswerHead(Head(inbox).command.key, Head(inbox).command.set)
    /\ appended' = FALSE
    /\ UNCHANGED <<server, replayed, task, world, seen, volatile>>

(* MULTI, SET, EXEC: the EXEC is not a command that is logged. *)
ExecTxSet ==
    /\ Takes("txset")
    /\ Set(Head(inbox).command)
    /\ Remember(Head(inbox).command)
    /\ AnswerHead(Head(inbox).command.key, Head(inbox).command.set)
    /\ volatile' = volatile \cup {Head(inbox).command.set}
    /\ UNCHANGED <<server, replayed, appended, task, world, seen>>

(* mutant: INCR counts down *)
Decrement(v) == [v EXCEPT !.incrs = @ - 1]
(* mutant: INCR stores a new value, without the deadline of the old *)
FreshIncrement(v) == Value(v.set, v.incrs + 1, Never)
(* INCR keeps the deadline, and counts on from a value that has expired. *)
Increment(v) == [v EXCEPT !.incrs = @ + 1]
(* A garbled value counts from the digits it begins with.  When there are none,
   the answer is an error.                                                    *)
Incremented(v) ==
    {Increment(v)} \cup (IF v.set = Garbled /\ v.incrs = 0 THEN {v} ELSE {})

ExecIncr ==
    /\ Takes("incr")
    /\ LET k == Head(inbox).command.key IN
          /\ \E v \in Incremented(data[k]) : data' = [data EXCEPT ![k] = v]
          /\ AnswerHead(k, data[k].set)
    /\ UNCHANGED <<server, replayed, appended, task, world, history>>

Expired(v) == v.expire # Never /\ v.expire < now

(* A value past its deadline stays where it is and is not shown. *)
ExecGet ==
    /\ Takes("get")
    /\ LET k == Head(inbox).command.key IN
          AnswerHead(k, IF Expired(data[k]) THEN NoSet ELSE data[k].set)
    /\ UNCHANGED <<server, data, replayed, appended, task, world, history>>

-----------------------------------------------------------------------------
(* Time and faults.                                                        *)

Tick ==
    /\ now < MaxTime
    /\ now' = now + 1
    /\ UNCHANGED <<process, log, sent, faults, history>>

StopProcess ==
    /\ server # "down"
    /\ faults < MaxFaults
    /\ server' = "down" /\ data' = Nothing /\ replayed' = 0 /\ appended' = FALSE
    /\ inbox' = << >>
    /\ oneshot' = [c \in Clients |-> NoReply]
    /\ task' = [c \in Clients |-> "idle"]
    /\ faults' = faults + 1
    /\ UNCHANGED <<now, sent, volatile, due>>

(* The process is killed: what was written to the file is in the file. *)
Crash ==
    /\ StopProcess
    /\ UNCHANGED <<log, seen>>

(* The machine goes down.  Nothing ever asks for the file to be synced: any
   end of it may be missing, and its last command may be there in part.     *)
PowerLoss ==
    /\ StopProcess
    /\ \E n \in 0..Len(log) :
          LET kept == SubSeq(log, 1, n) IN
             \/ log' = kept
             \/ n < Len(log) /\ log' = Append(kept, Piece(log[n + 1]))
    /\ LosesPromises

-----------------------------------------------------------------------------
StoreStep ==
    \/ Misread \/ GetInitialCommands \/ Replay \/ Serve
    \/ AppendSet \/ ExecSet \/ ExecTxSet \/ ExecIncr \/ ExecGet

Next ==
    \/ Start \/ StoreStep \/ AppendFails
    \/ \E c \in Clients : Send(c) \/ WriteReply(c) \/ PanicUnanswered(c)
    \/ Tick \/ Crash \/ PowerLoss

(* The store task runs on, and so does a client task that can.  Nobody has
   to start the server again, and the clock may stand still.                *)
Fairness ==
    /\ WF_vars(StoreStep)
    /\ \A c \in Clients : WF_vars(WriteReply(c) \/ PanicUnanswered(c))

Spec == Init /\ [][Next]_vars
FairSpec == Spec /\ Fairness

-----------------------------------------------------------------------------
(* Properties                                                              *)

TypeOK ==
    /\ server \in {"down", "loading", "replaying", "serving", "dead"}
    /\ data \in [Keys -> Values \cup {Absent}]
    /\ replayed \in Nat
    /\ appended \in BOOLEAN
    /\ inbox \in Seq([client : Clients, command : Commands])
    /\ oneshot \in [Clients -> {NoReply} \cup [ready : {TRUE}, key : Keys, set : Nat \cup {NoSet, Garbled}]]
    /\ task \in [Clients -> {"idle", "awaiting"}]
    /\ log \in Seq(Entries)
    /\ now \in Nat /\ faults \in Nat
    /\ sent \in [set : Nat, incr : Nat]
    /\ seen \in [Keys -> Nat \cup {NoSet}]
    /\ volatile \subseteq Nat
    /\ DOMAIN due \subseteq Nat /\ due \in [DOMAIN due -> Nat \cup {Never}]

(* A server that serves never takes back what it has shown: whatever logged SET
   some client knows of, from its own reply or from a GET of another client,
   the key holds that SET or a later one, also after any number of crashes at
   any point between the append, the execution and the reply, and with other
   SETs around it whose writes failed.  Two things take from the promise, and no
   more than they take from the file (StillPromised): a power loss what it cuts
   off, and a piece of a failed write that the parser accepts (Misread) what it
   takes in and what it overwrites.                                          *)
NothingSeenIsLost ==
    server = "serving" => \A k \in Keys : data[k].set >= seen[k]

(* A key lives at least for as long as its SET said when it was first
   executed, in that run of the server and in later ones: a replay starts the
   time to live again, so it may live longer, but never shorter or forever.   *)
LivesItsTtl ==
    \A k \in Keys :
        LET v == data[k] IN
          v.set > 0 =>
            /\ v.expire = Never <=> due[v.set] = Never
            /\ v.expire # Never => v.expire >= due[v.set]

(* While the server runs, a key that has expired stays expired until a SET: no
   increment and no passing of time brings its value back.                  *)
NothingRevives ==
    [][\A k \in Keys :
          server = "serving" /\ Expired(data[k]) /\ ~Expired(data[k])'
             => data'[k].set # data[k].set]_vars

(* A client is not left waiting: its command is answered, or its connection is
   closed, also when the store task has died on a file that does not parse.   *)
NobodyHangs == \A c \in Clients : (task[c] = "awaiting") ~> (task[c] = "idle")

(* A server that finds a file of whole commands, or an empty one, gets to serve
   unless it is stopped again.                                                *)
Whole(file) == \A i \in 1..Len(file) : file[i].op # "piece"

ComesBack == (server = "loading" /\ Whole(log)) ~> (server \in {"serving", "down"})
=============================================================================
