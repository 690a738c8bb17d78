------------------------------- MODULE Streams -------------------------------
(***************************************************************************)
(* The streams of the store: XADD with its three ways of naming an entry,   *)
(* XREAD with and without BLOCK, the table of blocked readers and their     *)
(* timers, and clients that follow streams by reading on from the last      *)
(* entry they were given.                                                   *)
(*                                                                         *)
(* Of an entry the model keeps its id.  XRANGE and TYPE only read and are   *)
(* left out.  The store answers all readers that an XADD wakes before it    *)
(* does anything else, and none of the answers depends on another, so XADD  *)
(* is one step.  Each client has at most one command under way: the inbox   *)
(* (capacity 1024) never fills here.                                        *)
(***************************************************************************)
EXTENDS Integers, Sequences, FiniteSets

CONSTANTS
    Clients,
    Keys,
    Menu,        \* the shapes of the commands the clients may send
    Times,       \* what the wall clock may show, in ms; it may step back
    SeqLimit,    \* sequence numbers wrap here (2^64 in the code)
    MaxCmds      \* bound: commands the clients send altogether

VARIABLES
    kind,        \* store.data: "none", "stream" or "other" for each key
    entries,     \* the ids in the key's stream
    clock,       \* SystemTime::now(), in ms
    inbox,       \* the mpsc channel to the store
    waiters,     \* store.stream_xread_waiters
    waiter_id,   \* store.waiter_id
    timers,      \* ids of the sleeping timeout tasks
    task,        \* a client task awaits a reply or not
    oneshot,     \* its reply channel
    request,     \* the command a client last sent
    cursor,      \* per client and key: the last id it was given
    sent,        \* how many commands were sent
    \* history, read by no action
    start,       \* the id from which a client follows a key
    seen,        \* the ids it was given since
    added        \* all ids ever added to a key

store   == <<kind, entries, waiters, waiter_id>>
peers   == <<task, oneshot, request, cursor, sent>>
history == <<start, seen, added>>
vars    == <<store, clock, inbox, timers, peers, history>>

-----------------------------------------------------------------------------
(* Entry ids: milliseconds and a sequence number.                          *)

Ids == Nat \X Nat

Less(p, q) == p[1] < q[1] \/ (p[1] = q[1] /\ p[2] < q[2])

Latest(ids) == CHOOSE m \in ids : \A x \in ids : ~Less(m, x)

(* mutant: entries of the same millisecond are taken as read *)
BeyondTime(ids, id) == {x \in ids : id[1] < x[1]}
(* the entries after an id (stream.range from an excluded bound) *)
Beyond(ids, id) == {x \in ids : Less(id, x)}

(* How XADD names an entry: in full, with the sequence number left to the
   store ("5-*"), or not at all ("*").                                      *)
Explicit(tid, sid) == [form |-> "explicit", tid |-> tid, sid |-> sid]
AutoGenSeq(tid)    == [form |-> "seq", tid |-> tid, sid |-> 0]
AutoGen            == [form |-> "auto", tid |-> 0, sid |-> 0]

(* The next id at the time tid of a stream that has some; none if tid lies
   behind the last.                                                         *)
NextAt(tid, ids) ==
    LET last == Latest(ids) IN
    IF last[1] < tid THEN {<<tid, 0>>}
    ELSE IF last[1] = tid THEN {<<tid, (last[2] + 1) % SeqLimit>>}
    ELSE {}

(* next_stream_id: the id of the new entry, as a set of at most one. *)
NextStreamId(input, ids, now) ==
    IF input.form = "explicit" THEN {<<input.tid, input.sid>>}
    ELSE IF ids # {} THEN NextAt(IF input.form = "seq" THEN input.tid ELSE now, ids)
    ELSE IF input.form = "seq" THEN {<<input.tid, IF input.tid = 0 THEN 1 ELSE 0>>}
    ELSE {<<now, 0>>}

(* mutant: an id is only compared with those that are there *)
AcceptsAnyNew(id, ids) == ~Less(id, <<0, 1>>) /\ id \notin ids
(* What XADD requires of the id. *)
Acceptable(id, ids) ==
    /\ ~Less(id, <<0, 1>>)
    /\ id \notin ids
    /\ ids # {} => ~Less(id, Latest(ids))

-----------------------------------------------------------------------------
(* The commands, and the shapes the clients fill in.  A reader asks for what
   comes after an id, after the last id it was given, or after whatever the
   stream holds by then ("$").                                               *)

DollarId == << >>
NotRead  == <<"not read">>    \* in the place of an id: the key is not asked for

AskedFor(from) == {k \in Keys : from[k] # NotRead}

XaddCommand(k, input)    == [op |-> "xadd", key |-> k, id |-> input]
XreadCommand(from, blk)  == [op |-> "xread", from |-> from, block |-> blk]
SetCommand(k)            == [op |-> "set", key |-> k]
NoCommand                == [op |-> "none"]

FollowShape(ks, blk)     == [op |-> "follow", keys |-> ks, block |-> blk]

Blocking == {"no", "finite", "forever"}     \* a BLOCK of 0 is u64::MAX ms

Inputs   == [form : {"explicit", "seq", "auto"}, tid : Nat, sid : Nat]
Froms    == [Keys -> Ids \cup {DollarId, NotRead}]
Resolved == [Keys -> Ids \cup {NotRead}]

Commands == [op : {"xadd"}, key : Keys, id : Inputs]
            \cup [op : {"xread"}, from : Froms, block : Blocking]
            \cup [op : {"set"}, key : Keys]

Shapes == Commands \cup [op : {"follow"}, keys : SUBSET Keys, block : Blocking]

ASSUME MenuAssumption == Menu \subseteq Shapes
ASSUME TimesAssumption == Times \subseteq Nat /\ Times # {}
ASSUME BoundsAssumption == SeqLimit \in Nat \ {0} /\ MaxCmds \in Nat

(* the command of a shape, for a client whose last ids are `cur` *)
Filled(shape, cur) ==
    IF shape.op = "follow"
    THEN XreadCommand([k \in Keys |-> IF k \in shape.keys THEN cur[k] ELSE NotRead],
                      shape.block)
    ELSE shape

WithReply(c, cmd) == [type |-> "WithReply", client |-> c, command |-> cmd]
TimeoutXread(id)  == [type |-> "TimeoutXread", waiter_id |-> id]

(* A reply: the entries of each key that was read, and the ids after which
   they were asked for.  Replies without entries are not told apart.         *)
Reply(from, rows) == [ready |-> TRUE, from |-> from, rows |-> rows]
Empty   == Reply([k \in Keys |-> NotRead], [k \in Keys |-> {}])
NoReply == [Empty EXCEPT !.ready = FALSE]

Init ==
    /\ kind = [k \in Keys |-> "none"]
    /\ entries = [k \in Keys |-> {}]
    /\ clock \in Times
    /\ inbox = << >>
    /\ waiters = {} /\ waiter_id = 0 /\ timers = {}
    /\ task = [c \in Clients |-> "reading"]
    /\ oneshot = [c \in Clients |-> NoReply]
    /\ request = [c \in Clients |-> NoCommand]
    /\ cursor = [c \in Clients |-> [k \in Keys |-> <<0, 0>>]]
    /\ sent = 0
    /\ start = cursor
    /\ seen = [c \in Clients |-> [k \in Keys |-> {}]]
    /\ added = entries

-----------------------------------------------------------------------------
(* The clients, their tasks, the timers and the clock.                     *)

Send(c) ==
    /\ task[c] = "reading"
    /\ sent < MaxCmds
    /\ \E shape \in Menu :
          LET cmd == Filled(shape, cursor[c]) IN
             /\ inbox' = Append(inbox, WithReply(c, cmd))
             /\ request' = [request EXCEPT ![c] = cmd]
    /\ task' = [task EXCEPT ![c] = "awaiting"]
    /\ sent' = sent + 1
    /\ UNCHANGED <<store, clock, timers, oneshot, cursor, history>>

(* The keys of a reply that bring entries move the cursor; a read from an id
   other than the cursor starts to follow from there.                       *)
WriteReply(c) ==
    /\ oneshot[c].ready
    /\ LET from == oneshot[c].from
           rows == oneshot[c].rows
           News == {k \in Keys : rows[k] # {}}
           On   == {k \in News : from[k] = cursor[c][k]}
       IN  /\ cursor' = [cursor EXCEPT ![c] =
                  [k \in Keys |-> IF k \in News THEN Latest(rows[k]) ELSE @[k]]]
           /\ start' = [start EXCEPT ![c] =
                  [k \in Keys |-> IF k \in News \ On THEN from[k] ELSE @[k]]]
           /\ seen' = [seen EXCEPT ![c] =
                  [k \in Keys |-> IF k \in On THEN @[k] \cup rows[k]
                                  ELSE IF k \in News THEN rows[k] ELSE @[k]]]
    /\ oneshot' = [oneshot EXCEPT ![c] = NoReply]
    /\ task' = [task EXCEPT ![c] = "reading"]
    /\ UNCHANGED <<store, clock, inbox, timers, request, sent, added>>

TimerFires(id) ==
    /\ id \in timers
    /\ timers' = timers \ {id}
    /\ inbox' = Append(inbox, TimeoutXread(id))
    /\ UNCHANGED <<store, clock, peers, history>>

Tick ==
    /\ clock' \in Times \ {clock}
    /\ UNCHANGED <<store, inbox, timers, peers, history>>

-----------------------------------------------------------------------------
(* The store task.                                                         *)

Receive(type) ==
    /\ inbox # << >>
    /\ Head(inbox).type = type
    /\ inbox' = Tail(inbox)

ReceiveCommand(op) ==
    /\ Receive("WithReply")
    /\ Head(inbox).command.op = op

(* fetch_xread, for the entries of the keys *)
FetchXread(ents, from) ==
    [k \in Keys |-> IF k \in AskedFor(from) THEN Beyond(ents[k], from[k]) ELSE {}]

IsEmpty(rows) == \A k \in Keys : rows[k] = {}

Answer(c, r) == oneshot' = [oneshot EXCEPT ![c] = r]

(* mutant: only the readers of that stream alone are woken *)
WakesSingleReaders(k) == {w \in waiters : AskedFor(w.from) = {k}}
(* notify_xread_waiters: every blocked reader that named the key *)
Woken(k) == {w \in waiters : k \in AskedFor(w.from)}

(* mutant: the readers that are woken stay in the table *)
KeepWoken(k) == waiters
WithoutWoken(k) == waiters \ Woken(k)

AddEntry ==
    /\ ReceiveCommand("xadd")
    /\ LET c == Head(inbox).client
           k == Head(inbox).command.key
       IN  /\ kind[k] # "other"
           /\ kind' = [kind EXCEPT ![k] = "stream"]
           /\ \E id \in NextStreamId(Head(inbox).command.id, entries[k], clock) :
                 /\ Acceptable(id, entries[k])
                 /\ entries' = [entries EXCEPT ![k] = @ \cup {id}]
                 /\ added' = [added EXCEPT ![k] = @ \cup {id}]
           /\ oneshot' = [d \in Clients |->
                 IF d = c THEN Empty
                 ELSE IF \E w \in Woken(k) : w.client = d
                 THEN LET w == CHOOSE w \in Woken(k) : w.client = d IN
                         Reply(w.from, FetchXread(entries', w.from))
                 ELSE oneshot[d]]
           /\ waiters' = WithoutWoken(k)
    /\ UNCHANGED <<waiter_id, clock, timers, task, request, cursor, sent, start, seen>>

(* An XADD that is refused has already created the stream; on a key with
   another kind of value it does nothing.                                    *)
RefuseEntry ==
    /\ ReceiveCommand("xadd")
    /\ LET k == Head(inbox).command.key IN
          \/ kind[k] = "other" /\ UNCHANGED kind
          \/ /\ kind[k] # "other"
             /\ \A id \in NextStreamId(Head(inbox).command.id, entries[k], clock) :
                    ~Acceptable(id, entries[k])
             /\ kind' = [kind EXCEPT ![k] = "stream"]
    /\ Answer(Head(inbox).client, Empty)
    /\ UNCHANGED <<entries, waiters, waiter_id, clock, timers,
                   task, request, cursor, sent, history>>

(* mutant: "$" stays unresolved where there is no entry *)
LastIdOrDollar(k) == IF entries[k] # {} THEN Latest(entries[k]) ELSE DollarId
(* "$" is the last id of the stream, and 0-1 if there is none. *)
LastId(k) == IF entries[k] # {} THEN Latest(entries[k]) ELSE <<0, 1>>
RealIds(from) ==
    [k \in Keys |-> IF from[k] = DollarId THEN LastId(k) ELSE from[k]]

ReadEntries ==
    /\ ReceiveCommand("xread")
    /\ LET cmd  == Head(inbox).command
           from == RealIds(cmd.from)
           rows == FetchXread(entries, from)
       IN  \/ ~IsEmpty(rows) /\ Answer(Head(inbox).client, Reply(from, rows))
           \/ IsEmpty(rows) /\ cmd.block = "no" /\ Answer(Head(inbox).client, Empty)
    /\ UNCHANGED <<store, clock, timers, task, request, cursor, sent, history>>

BlockXread ==
    /\ ReceiveCommand("xread")
    /\ LET cmd  == Head(inbox).command
           from == RealIds(cmd.from)
           id   == waiter_id + 1
       IN  /\ IsEmpty(FetchXread(entries, from))
           /\ cmd.block # "no"
           /\ waiters' = waiters \cup {[id |-> id, client |-> Head(inbox).client,
                                        from |-> from]}
           /\ waiter_id' = id
           /\ timers' = IF cmd.block = "finite" THEN timers \cup {id} ELSE timers
    /\ UNCHANGED <<kind, entries, clock, peers, history>>

(* mutant: a timeout removes the reader and answers nobody *)
DropsReader(w) == UNCHANGED oneshot
AnswersNull(w) == Answer(w.client, Empty)

(* The reader may have been answered since its timer fired. *)
ExecTimeout ==
    /\ Receive("TimeoutXread")
    /\ LET due == {w \in waiters : w.id = Head(inbox).waiter_id} IN
          /\ waiters' = waiters \ due
          /\ \/ \E w \in due : AnswersNull(w)
             \/ due = {} /\ UNCHANGED oneshot
    /\ UNCHANGED <<kind, entries, waiter_id, clock, timers,
                   task, request, cursor, sent, history>>

(* SET puts a string where the stream was; so do RPUSH and LPUSH with a list.
   Nothing makes a stream of the key again.                                  *)
ExecSet ==
    /\ ReceiveCommand("set")
    /\ LET k == Head(inbox).command.key IN
          /\ kind' = [kind EXCEPT ![k] = "other"]
          /\ entries' = [entries EXCEPT ![k] = {}]
    /\ Answer(Head(inbox).client, Empty)
    /\ UNCHANGED <<waiters, waiter_id, clock, timers,
                   task, request, cursor, sent, history>>

-----------------------------------------------------------------------------
StoreStep ==
    \/ AddEntry \/ RefuseEntry \/ ReadEntries \/ BlockXread
    \/ ExecTimeout \/ ExecSet

Next ==
    \/ \E c \in Clients : Send(c) \/ WriteReply(c)
    \/ \E id \in timers : TimerFires(id)
    \/ Tick
    \/ StoreStep

(* The store takes its next envelope, a reply that is there is written, a
   sleeping timeout task wakes.                                              *)
Fairness ==
    /\ WF_vars(StoreStep)
    /\ \A c \in Clients : WF_vars(WriteReply(c))
    /\ \A id \in 1..MaxCmds : WF_vars(TimerFires(id))

Spec == Init /\ [][Next]_vars
FairSpec == Spec /\ Fairness

-----------------------------------------------------------------------------
(* Properties                                                              *)

Replies == [ready : BOOLEAN, from : Resolved, rows : [Keys -> SUBSET Ids]]

TypeOK ==
    /\ kind \in [Keys -> {"none", "stream", "other"}]
    /\ entries \in [Keys -> SUBSET Ids]
    /\ clock \in Times
    /\ inbox \in Seq([type : {"WithReply"}, client : Clients, command : Commands]
                     \cup [type : {"TimeoutXread"}, waiter_id : Nat])
    /\ waiters \subseteq [id : Nat, client : Clients, from : Resolved]
    /\ waiter_id \in Nat
    /\ timers \subseteq Nat
    /\ task \in [Clients -> {"reading", "awaiting"}]
    /\ oneshot \in [Clients -> Replies]
    /\ request \in [Clients -> Commands \cup {NoCommand}]
    /\ cursor \in [Clients -> [Keys -> Ids]]
    /\ sent \in Nat
    /\ start \in [Clients -> [Keys -> Ids]]
    /\ seen \in [Clients -> [Keys -> SUBSET Ids]]
    /\ added \in [Keys -> SUBSET Ids]

(* A stream only ever grows at its end, whatever the clock does and wherever
   the sequence numbers wrap.                                                *)
EntriesAppended ==
    [][\A k \in Keys :
          kind[k] = "stream" /\ kind'[k] = "stream" =>
             /\ entries[k] \subseteq entries'[k]
             /\ \A x \in entries[k] : \A y \in entries'[k] \ entries[k] : Less(x, y)]_vars

(* A client that reads on from the last entry it was given is given every
   entry there ever was between the id it began at and the last it was given:
   none slips in behind it, none is passed over between a read that blocks and
   the XADD that wakes it, or between an answer and the next read.           *)
FollowersMissNothing ==
    \A c \in Clients : \A k \in Keys :
        seen[c][k] = {x \in added[k] : Less(start[c][k], x) /\ ~Less(cursor[c][k], x)}

(* No reader is blocked on a stream that holds an entry after its id. *)
NoStrandedReader ==
    \A w \in waiters : \A k \in AskedFor(w.from) : Beyond(entries[k], w.from[k]) = {}

(* Every client task that awaits a reply is owed exactly one, by its envelope
   in the inbox, by its entry in the table of readers or by its channel: an
   XADD and a timeout that meet never both answer a reader, nor neither.     *)
Debts(c) ==
    {<<"inbox", i>> : i \in {j \in 1..Len(inbox) :
                                /\ inbox[j].type = "WithReply"
                                /\ inbox[j].client = c}}
    \cup {<<"waiter", w.id>> : w \in {v \in waiters : v.client = c}}
    \cup {<<"oneshot", 0>> : d \in {r \in {oneshot[c].ready} : r}}

OwedExactlyOnce ==
    \A c \in Clients :
        Cardinality(Debts(c)) = IF task[c] = "awaiting" THEN 1 ELSE 0

(* Whoever did not ask to wait for ever is answered. *)
Waits(cmd) == cmd.op = "xread" /\ cmd.block = "forever"

AnsweredInTime ==
    \A c \in Clients :
        (task[c] = "awaiting" /\ ~Waits(request[c])) ~> (task[c] = "reading")

(* Blocking reads as the README announces them: an XADD that wakes a reader
   has an entry for it.                                                      *)
WokenReadersGetEntries ==
    [][\A w \in waiters :
          AddEntry /\ w \notin waiters' =>
             ~IsEmpty(FetchXread(entries', w.from))]_vars
=============================================================================
