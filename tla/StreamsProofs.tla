---------------------------- MODULE StreamsProofs ----------------------------
(***************************************************************************)
(* Theorems about Streams for any clients, keys, clock and sequence limit.  *)
(***************************************************************************)
EXTENDS Streams, FiniteSetTheorems, TLAPS

(* The order of the ids is strict and total. *)
LEMMA LessIsAnOrder ==
    /\ \A p \in Ids : ~Less(p, p)
    /\ \A p, q, r \in Ids : Less(p, q) /\ Less(q, r) => Less(p, r)
    /\ \A p, q \in Ids : Less(p, q) \/ Less(q, p) \/ p = q
<1>1. \A p \in Ids : p[1] \in Nat /\ p[2] \in Nat /\ p = <<p[1], p[2]>>
  BY DEF Ids
<1>2. \A p \in Ids : ~Less(p, p)
  BY <1>1 DEF Less
<1>3. \A p, q, r \in Ids : Less(p, q) /\ Less(q, r) => Less(p, r)
  BY <1>1 DEF Less
<1>4. \A p, q \in Ids : Less(p, q) \/ Less(q, p) \/ p = q
  BY <1>1 DEF Less
<1> QED BY <1>2, <1>3, <1>4

(* The facts about the order the proofs use most. *)
LEMMA LessFacts ==
    ASSUME NEW p \in Ids, NEW q \in Ids, NEW r \in Ids
    PROVE  /\ Less(p, q) => ~Less(q, p)
           /\ Less(p, q) /\ ~Less(r, q) => Less(p, r)
           /\ ~Less(q, p) /\ Less(q, r) => Less(p, r)
           /\ ~Less(q, p) /\ ~Less(r, q) => ~Less(r, p)
  BY LessIsAnOrder

-----------------------------------------------------------------------------
(* A set of ids that has a greatest one, if it has any: every stream does.  *)

HasLatest(ids) == ids # {} => \E m \in ids : \A x \in ids : ~Less(m, x)

(* What Latest picks. *)
LEMMA LatestIsGreatest ==
    ASSUME NEW ids, HasLatest(ids), ids # {}
    PROVE  Latest(ids) \in ids /\ \A x \in ids : ~Less(Latest(ids), x)
  BY DEF HasLatest, Latest

(* The ids after a bound have the greatest of all, and it is after the bound. *)
LEMMA BeyondHasLatest ==
    ASSUME NEW ids \in SUBSET Ids, HasLatest(ids), NEW from \in Ids
    PROVE  /\ HasLatest(Beyond(ids, from))
           /\ Beyond(ids, from) # {} =>
                 Beyond(ids, from) =
                    {x \in ids : Less(from, x) /\ ~Less(Latest(Beyond(ids, from)), x)}
<1> DEFINE after == Beyond(ids, from)
<1>1. HasLatest(after)
  <2> SUFFICES ASSUME after # {}
               PROVE  \E m \in after : \A x \in after : ~Less(m, x)
    BY DEF HasLatest
  <2>1. PICK y \in ids : Less(from, y)
    BY DEF Beyond
  <2>2. PICK m \in ids : \A x \in ids : ~Less(m, x)
    BY <2>1 DEF HasLatest
  <2>3. Less(from, m)
    BY <2>1, <2>2, LessFacts
  <2> QED BY <2>2, <2>3 DEF Beyond
<1>2. ASSUME after # {}
      PROVE  after = {x \in ids : Less(from, x) /\ ~Less(Latest(after), x)}
  <2>1. \A x \in after : ~Less(Latest(after), x)
    BY <1>1, <1>2, LatestIsGreatest
  <2> QED BY <2>1 DEF Beyond
<1> QED BY <1>1, <1>2

(* An id that XADD accepts is after every entry the stream has. *)
LEMMA AcceptableIsGreatest ==
    ASSUME NEW ids \in SUBSET Ids, HasLatest(ids), NEW id \in Ids, Acceptable(id, ids)
    PROVE  /\ \A x \in ids : Less(x, id)
           /\ HasLatest(ids \cup {id})
           /\ Less(<<0, 0>>, id)
<1>1. \A x \in ids : Less(x, id)
  <2> SUFFICES ASSUME NEW x \in ids PROVE Less(x, id)
    OBVIOUS
  <2>1. ~Less(Latest(ids), x) /\ Latest(ids) \in Ids
    BY LatestIsGreatest
  <2>2. ~Less(id, Latest(ids)) /\ x # id
    BY DEF Acceptable
  <2> QED BY <2>1, <2>2, LessFacts, LessIsAnOrder
<1>2. HasLatest(ids \cup {id})
  <2>1. \A x \in ids \cup {id} : ~Less(id, x)
    BY <1>1, LessFacts, LessIsAnOrder
  <2> QED BY <2>1 DEF HasLatest
<1>3. Less(<<0, 0>>, id)
  BY DEF Acceptable, Less, Ids
<1> QED BY <1>1, <1>2, <1>3

(* The id XADD computes is an id. *)
LEMMA NextStreamIdType ==
    ASSUME NEW ids \in SUBSET Ids, HasLatest(ids), NEW input \in Inputs, NEW now \in Nat
    PROVE  NextStreamId(input, ids, now) \subseteq Ids
<1>1. input.tid \in Nat /\ input.sid \in Nat
  BY DEF Inputs
<1>2. ASSUME NEW tid \in Nat, ids # {}
      PROVE  NextAt(tid, ids) \subseteq Ids
  <2>1. Latest(ids) \in Ids
    BY <1>2, LatestIsGreatest
  <2>2. Latest(ids)[2] \in Nat
    BY <2>1 DEF Ids
  <2>3. (Latest(ids)[2] + 1) % SeqLimit \in Nat
    BY <2>2, BoundsAssumption
  <2> QED BY <2>1, <2>3 DEF NextAt, Ids
<1>3. CASE input.form = "explicit"
  BY <1>1, <1>3 DEF NextStreamId, Ids
<1>4. CASE input.form # "explicit" /\ ids # {}
  BY <1>1, <1>2, <1>4 DEF NextStreamId
<1>5. CASE input.form # "explicit" /\ ids = {}
  BY <1>1, <1>5 DEF NextStreamId, Ids
<1> QED BY <1>3, <1>4, <1>5

-----------------------------------------------------------------------------
(* The inductive invariant.                                                *)

(* A stream holds all ids ever added to its key, until another value hides
   them for good; among them is a greatest.                                 *)
EntriesAreAdded ==
    \A k \in Keys :
        /\ entries[k] = {} \/ entries[k] = added[k]
        /\ kind[k] # "other" => entries[k] = added[k]
        /\ HasLatest(added[k])

(* The cursor is at an entry, or where it began, and never behind the start. *)
CursorsAreEntries ==
    \A c \in Clients : \A k \in Keys :
        /\ cursor[c][k] \in added[k] \cup {<<0, 0>>}
        /\ ~Less(cursor[c][k], start[c][k])

(* `rows` are all the ids from a bound up to the greatest of them. *)
IsRun(rows, from, ids) ==
    /\ from \in Ids
    /\ HasLatest(rows)
    /\ rows = {x \in ids : Less(from, x) /\ ~Less(Latest(rows), x)}

(* Of what was added, a reply passes nothing over. *)
RepliesAreRuns ==
    \A c \in Clients : \A k \in Keys :
        oneshot[c].rows[k] # {} =>
            IsRun(oneshot[c].rows[k], oneshot[c].from[k], added[k])

StreamInv ==
    /\ TypeOK
    /\ EntriesAreAdded
    /\ CursorsAreEntries
    /\ RepliesAreRuns
    /\ FollowersMissNothing
    /\ NoStrandedReader

(* A type-correct stream under the invariant has a last entry, if any. *)
LEMMA EntriesHaveLatest ==
    ASSUME TypeOK, EntriesAreAdded, NEW k \in Keys
    PROVE  entries[k] \in SUBSET Ids /\ HasLatest(entries[k])
  BY DEF TypeOK, EntriesAreAdded, HasLatest

-----------------------------------------------------------------------------
(* Type correctness.                                                       *)

Envelopes == [type : {"WithReply"}, client : Clients, command : Commands]
             \cup [type : {"TimeoutXread"}, waiter_id : Nat]

Readers == [id : Nat, client : Clients, from : Resolved]

(* What the commands of each kind carry. *)
LEMMA CommandTypes ==
    ASSUME NEW cmd \in Commands
    PROVE  /\ cmd.op = "xadd" => cmd.key \in Keys /\ cmd.id \in Inputs
           /\ cmd.op = "xread" => cmd.from \in Froms /\ cmd.block \in Blocking
           /\ cmd.op = "set" => cmd.key \in Keys
  BY DEF Commands

(* The envelope the store takes, and the inbox it leaves. *)
LEMMA ReceiveType ==
    ASSUME TypeOK, NEW type, Receive(type)
    PROVE  /\ Head(inbox) \in Envelopes
           /\ inbox' \in Seq(Envelopes)
           /\ Head(inbox).type = type
  BY DEF TypeOK, Receive, Envelopes

(* The same for a command. *)
LEMMA ReceiveCommandType ==
    ASSUME TypeOK, NEW op, ReceiveCommand(op)
    PROVE  /\ inbox' \in Seq(Envelopes)
           /\ Head(inbox).client \in Clients
           /\ Head(inbox).command \in Commands
           /\ Head(inbox).command.op = op
<1>1. /\ Head(inbox) \in Envelopes
      /\ inbox' \in Seq(Envelopes)
      /\ Head(inbox).type = "WithReply"
  BY ReceiveType DEF ReceiveCommand
<1> QED BY <1>1 DEF ReceiveCommand, Envelopes

(* A shape of the menu is filled in to a command. *)
LEMMA FilledType ==
    ASSUME NEW shape \in Menu, NEW cur \in [Keys -> Ids]
    PROVE  Filled(shape, cur) \in Commands
<1>1. shape \in Shapes
  BY MenuAssumption
<1>2. CASE shape.op = "follow"
  <2>1. shape.block \in Blocking
    BY <1>1, <1>2 DEF Shapes, Commands
  <2>2. [k \in Keys |-> IF k \in shape.keys THEN cur[k] ELSE NotRead] \in Froms
    BY DEF Froms
  <2> QED BY <1>2, <2>1, <2>2 DEF Filled, XreadCommand, Commands
<1>3. CASE shape.op # "follow"
  BY <1>1, <1>3 DEF Filled, Shapes
<1> QED BY <1>2, <1>3

(* The replies. *)
LEMMA ReplyType ==
    /\ \A from \in Resolved : \A rows \in [Keys -> SUBSET Ids] :
          Reply(from, rows) \in Replies
    /\ Empty \in Replies
    /\ NoReply \in Replies
<1>1. \A from \in Resolved : \A rows \in [Keys -> SUBSET Ids] :
          Reply(from, rows) \in Replies
  BY DEF Reply, Replies
<1>2. Empty \in Replies
  <2>1. [k \in Keys |-> NotRead] \in Resolved
    BY DEF Resolved
  <2> QED BY <1>1, <2>1 DEF Empty
<1>3. NoReply \in Replies
  BY <1>2 DEF NoReply, Replies
<1> QED BY <1>1, <1>2, <1>3

(* What is fetched for a reader are ids. *)
LEMMA FetchedType ==
    ASSUME NEW ents \in [Keys -> SUBSET Ids], NEW from
    PROVE  FetchXread(ents, from) \in [Keys -> SUBSET Ids]
  BY DEF FetchXread, Beyond

(* What was fetched for a reader is a run. *)
LEMMA FetchedIsRun ==
    ASSUME NEW ents \in [Keys -> SUBSET Ids], NEW adds \in [Keys -> SUBSET Ids],
           NEW from \in Resolved, NEW k \in Keys,
           ents[k] = {} \/ ents[k] = adds[k],
           HasLatest(adds[k]),
           FetchXread(ents, from)[k] # {}
    PROVE  IsRun(FetchXread(ents, from)[k], from[k], adds[k])
<1>1. k \in AskedFor(from) /\ FetchXread(ents, from)[k] = Beyond(ents[k], from[k])
  BY DEF FetchXread
<1>2. from[k] \in Ids
  BY <1>1 DEF AskedFor, Resolved
<1>3. ents[k] = adds[k]
  BY <1>1 DEF Beyond
<1>4. adds[k] \in SUBSET Ids
  OBVIOUS
<1> QED BY <1>1, <1>2, <1>3, <1>4, BeyondHasLatest DEF IsRun

(* "$" becomes an id. *)
LEMMA RealIdsType ==
    ASSUME TypeOK, EntriesAreAdded, NEW from \in Froms
    PROVE  RealIds(from) \in Resolved
<1>1. \A k \in Keys : LastId(k) \in Ids
  <2>1. <<0, 1>> \in Ids
    BY DEF Ids
  <2> QED BY <2>1, EntriesHaveLatest, LatestIsGreatest DEF LastId
<1>2. \A k \in Keys : from[k] # DollarId => from[k] \in Ids \cup {NotRead}
  BY DEF Froms
<1> QED BY <1>1, <1>2 DEF RealIds, Resolved

(* What an accepted XADD does to the streams. *)
LEMMA AddEntryEffect ==
    ASSUME TypeOK, EntriesAreAdded, AddEntry
    PROVE  \E k \in Keys : \E id \in Ids :
              /\ k = Head(inbox).command.key
              /\ entries[k] = added[k]
              /\ Acceptable(id, entries[k])
              /\ \A x \in added[k] : Less(x, id)
              /\ HasLatest(added[k] \cup {id})
              /\ Less(<<0, 0>>, id)
              /\ kind' = [kind EXCEPT ![k] = "stream"]
              /\ entries' = [entries EXCEPT ![k] = @ \cup {id}]
              /\ added' = [added EXCEPT ![k] = @ \cup {id}]
<1> DEFINE k == Head(inbox).command.key
           input == Head(inbox).command.id
<1>1. k \in Keys /\ input \in Inputs
  BY ReceiveCommandType, CommandTypes DEF AddEntry
<1>2. kind[k] # "other" /\ kind' = [kind EXCEPT ![k] = "stream"]
  BY DEF AddEntry
<1>3. PICK id \in NextStreamId(input, entries[k], clock) :
         /\ Acceptable(id, entries[k])
         /\ entries' = [entries EXCEPT ![k] = @ \cup {id}]
         /\ added' = [added EXCEPT ![k] = @ \cup {id}]
  BY DEF AddEntry
<1>4. entries[k] \in SUBSET Ids /\ HasLatest(entries[k]) /\ clock \in Nat
  BY <1>1, EntriesHaveLatest, TimesAssumption DEF TypeOK
<1>5. id \in Ids
  BY <1>1, <1>4, NextStreamIdType
<1>6. entries[k] = added[k]
  BY <1>1, <1>2 DEF EntriesAreAdded
<1>7. /\ \A x \in added[k] : Less(x, id)
      /\ HasLatest(added[k] \cup {id})
      /\ Less(<<0, 0>>, id)
  BY <1>3, <1>4, <1>5, <1>6, AcceptableIsGreatest
<1> QED BY <1>1, <1>2, <1>3, <1>5, <1>6, <1>7

(* The initial state is type-correct. *)
LEMMA InitType == Init => TypeOK
<1> SUFFICES ASSUME Init PROVE TypeOK
  OBVIOUS
<1> USE DEF Init, TypeOK
<1>1. <<0, 0>> \in Ids
  BY DEF Ids
<1>2. cursor \in [Clients -> [Keys -> Ids]] /\ start \in [Clients -> [Keys -> Ids]]
  BY <1>1
<1>3. oneshot \in [Clients -> Replies]
  BY ReplyType
<1>4. seen \in [Clients -> [Keys -> SUBSET Ids]] /\ entries \in [Keys -> SUBSET Ids]
  OBVIOUS
<1> QED BY <1>2, <1>3, <1>4

(* The client tasks keep the types. *)
LEMMA ClientStepType ==
    ASSUME TypeOK, RepliesAreRuns, NEW c \in Clients, Send(c) \/ WriteReply(c)
    PROVE  TypeOK'
<1> USE DEF TypeOK, store, history
<1>1. CASE Send(c)
  <2>1. PICK shape \in Menu :
           /\ inbox' = Append(inbox, WithReply(c, Filled(shape, cursor[c])))
           /\ request' = [request EXCEPT ![c] = Filled(shape, cursor[c])]
    BY <1>1 DEF Send
  <2>2. Filled(shape, cursor[c]) \in Commands
    BY FilledType
  <2>3. WithReply(c, Filled(shape, cursor[c])) \in Envelopes
    BY <2>2 DEF WithReply, Envelopes
  <2>4. inbox' \in Seq(Envelopes)
    BY <2>1, <2>3 DEF Envelopes
  <2> QED BY <1>1, <2>1, <2>2, <2>4 DEF Send, Envelopes
<1>2. CASE WriteReply(c)
  <2> DEFINE from == oneshot[c].from
             rows == oneshot[c].rows
             News == {k \in Keys : rows[k] # {}}
             On   == {k \in News : from[k] = cursor[c][k]}
  <2>1. rows \in [Keys -> SUBSET Ids]
    BY DEF Replies
  <2>2. \A k \in News : from[k] \in Ids /\ Latest(rows[k]) \in Ids
    BY <2>1, LatestIsGreatest DEF RepliesAreRuns, IsRun
  <2>3. cursor' \in [Clients -> [Keys -> Ids]]
    <3>1. cursor' = [cursor EXCEPT ![c] =
              [k \in Keys |-> IF k \in News THEN Latest(rows[k]) ELSE cursor[c][k]]]
      BY <1>2 DEF WriteReply
    <3>2. [k \in Keys |-> IF k \in News THEN Latest(rows[k]) ELSE cursor[c][k]]
              \in [Keys -> Ids]
      BY <2>2
    <3> QED BY <3>1, <3>2
  <2>4. start' \in [Clients -> [Keys -> Ids]]
    <3>1. start' = [start EXCEPT ![c] =
              [k \in Keys |-> IF k \in News \ On THEN from[k] ELSE start[c][k]]]
      BY <1>2 DEF WriteReply
    <3>2. [k \in Keys |-> IF k \in News \ On THEN from[k] ELSE start[c][k]]
              \in [Keys -> Ids]
      BY <2>2
    <3> QED BY <3>1, <3>2
  <2>5. seen' \in [Clients -> [Keys -> SUBSET Ids]]
    <3>1. seen' = [seen EXCEPT ![c] =
              [k \in Keys |-> IF k \in On THEN seen[c][k] \cup rows[k]
                              ELSE IF k \in News THEN rows[k] ELSE seen[c][k]]]
      BY <1>2 DEF WriteReply
    <3>2. [k \in Keys |-> IF k \in On THEN seen[c][k] \cup rows[k]
                          ELSE IF k \in News THEN rows[k] ELSE seen[c][k]]
              \in [Keys -> SUBSET Ids]
      BY <2>1
    <3> QED BY <3>1, <3>2
  <2>6. oneshot' \in [Clients -> Replies]
    BY <1>2, ReplyType DEF WriteReply
  <2> QED BY <1>2, <2>3, <2>4, <2>5, <2>6 DEF WriteReply
<1> QED BY <1>1, <1>2

(* The timers and the clock keep the types. *)
LEMMA TimeStepType ==
    ASSUME TypeOK, Tick \/ \E id \in timers : TimerFires(id)
    PROVE  TypeOK'
<1> USE DEF TypeOK, store, history, peers
<1>1. CASE Tick
  BY <1>1 DEF Tick
<1>2. ASSUME NEW id \in timers, TimerFires(id)
      PROVE  TypeOK'
  <2>1. TimeoutXread(id) \in Envelopes
    BY DEF TimeoutXread, Envelopes
  <2>2. inbox' \in Seq(Envelopes)
    BY <1>2, <2>1 DEF TimerFires, Envelopes
  <2> QED BY <1>2, <2>2 DEF TimerFires, Envelopes
<1> QED BY <1>1, <1>2

(* So does an XADD, with all its wake-ups. *)
LEMMA AddEntryType ==
    ASSUME TypeOK, EntriesAreAdded, AddEntry
    PROVE  TypeOK'
<1> DEFINE c == Head(inbox).client
           k == Head(inbox).command.key
<1>0. PICK id \in Ids :
         /\ k \in Keys
         /\ kind' = [kind EXCEPT ![k] = "stream"]
         /\ entries' = [entries EXCEPT ![k] = @ \cup {id}]
         /\ added' = [added EXCEPT ![k] = @ \cup {id}]
  BY AddEntryEffect
<1> USE DEF TypeOK
<1>1. /\ kind' \in [Keys -> {"none", "stream", "other"}]
      /\ entries' \in [Keys -> SUBSET Ids]
      /\ added' \in [Keys -> SUBSET Ids]
  BY <1>0
<1>2. c \in Clients /\ inbox' \in Seq(Envelopes)
  BY ReceiveCommandType DEF AddEntry
<1>3. oneshot' \in [Clients -> Replies]
  <2>1. ASSUME NEW w \in waiters
        PROVE  Reply(w.from, FetchXread(entries', w.from)) \in Replies
    BY <1>1, FetchedType, ReplyType DEF Readers
  <2>2. ASSUME NEW d \in Clients, \E w \in Woken(k) : w.client = d
        PROVE  (CHOOSE w \in Woken(k) : w.client = d) \in waiters
    BY <2>2 DEF Woken
  <2> QED BY <1>2, <2>1, <2>2, ReplyType DEF AddEntry
<1>4. waiters' \subseteq waiters
  BY DEF AddEntry, WithoutWoken
<1> QED BY <1>1, <1>2, <1>3, <1>4 DEF AddEntry, Envelopes

(* And the other steps of the store. *)
LEMMA StoreStepType ==
    ASSUME TypeOK, EntriesAreAdded,
           RefuseEntry \/ ReadEntries \/ BlockXread \/ ExecTimeout \/ ExecSet
    PROVE  TypeOK'
<1> USE DEF TypeOK, store, history, peers
<1> DEFINE c   == Head(inbox).client
           cmd == Head(inbox).command
<1>1. CASE RefuseEntry
  <2>1. c \in Clients /\ inbox' \in Seq(Envelopes) /\ cmd.key \in Keys
    BY <1>1, ReceiveCommandType, CommandTypes DEF RefuseEntry
  <2>2. oneshot' \in [Clients -> Replies]
    BY <1>1, <2>1, ReplyType DEF RefuseEntry, Answer
  <2>3. kind' \in [Keys -> {"none", "stream", "other"}]
    BY <1>1, <2>1 DEF RefuseEntry
  <2> QED BY <1>1, <2>1, <2>2, <2>3 DEF RefuseEntry, Envelopes
<1>2. CASE ReadEntries
  <2>1. c \in Clients /\ inbox' \in Seq(Envelopes) /\ cmd.from \in Froms
    BY <1>2, ReceiveCommandType, CommandTypes DEF ReadEntries
  <2>2. Reply(RealIds(cmd.from), FetchXread(entries, RealIds(cmd.from))) \in Replies
    BY <2>1, RealIdsType, FetchedType, ReplyType
  <2>3. oneshot' \in [Clients -> Replies]
    BY <1>2, <2>1, <2>2, ReplyType DEF ReadEntries, Answer
  <2> QED BY <1>2, <2>1, <2>3 DEF ReadEntries, Envelopes
<1>3. CASE BlockXread
  <2>1. c \in Clients /\ inbox' \in Seq(Envelopes) /\ cmd.from \in Froms
    BY <1>3, ReceiveCommandType, CommandTypes DEF BlockXread
  <2>2. [id |-> waiter_id + 1, client |-> c, from |-> RealIds(cmd.from)] \in Readers
    BY <2>1, RealIdsType DEF Readers
  <2>3. waiters' \subseteq Readers
    BY <1>3, <2>2 DEF BlockXread, Readers
  <2>4. timers' \subseteq Nat /\ waiter_id' \in Nat
    BY <1>3 DEF BlockXread
  <2> QED BY <1>3, <2>1, <2>3, <2>4 DEF BlockXread, Envelopes, Readers
<1>4. CASE ExecTimeout
  <2>1. inbox' \in Seq(Envelopes)
    BY <1>4, ReceiveType DEF ExecTimeout
  <2>2. oneshot' \in [Clients -> Replies]
    BY <1>4, ReplyType DEF ExecTimeout, AnswersNull, Answer
  <2>3. waiters' \subseteq waiters
    BY <1>4 DEF ExecTimeout
  <2> QED BY <1>4, <2>1, <2>2, <2>3 DEF ExecTimeout, Envelopes
<1>5. CASE ExecSet
  <2>1. c \in Clients /\ inbox' \in Seq(Envelopes) /\ cmd.key \in Keys
    BY <1>5, ReceiveCommandType, CommandTypes DEF ExecSet
  <2>2. oneshot' \in [Clients -> Replies]
    BY <1>5, <2>1, ReplyType DEF ExecSet, Answer
  <2>3. /\ kind' \in [Keys -> {"none", "stream", "other"}]
        /\ entries' \in [Keys -> SUBSET Ids]
    BY <1>5, <2>1 DEF ExecSet
  <2> QED BY <1>5, <2>1, <2>2, <2>3 DEF ExecSet, Envelopes
<1> QED BY <1>1, <1>2, <1>3, <1>4, <1>5

(* Every step keeps the types. *)
LEMMA NextType ==
    ASSUME StreamInv, [Next]_vars
    PROVE  TypeOK'
<1> USE DEF StreamInv
<1>1. CASE \E c \in Clients : Send(c) \/ WriteReply(c)
  BY <1>1, ClientStepType
<1>2. CASE Tick \/ \E id \in timers : TimerFires(id)
  BY <1>2, TimeStepType
<1>3. CASE StoreStep
  BY <1>3, AddEntryType, StoreStepType DEF StoreStep
<1>4. CASE UNCHANGED vars
  BY <1>4 DEF TypeOK, vars, store, peers, history
<1> QED BY <1>1, <1>2, <1>3, <1>4 DEF Next

-----------------------------------------------------------------------------
(* The other parts of the invariant.                                       *)

(* A run stays one when an id is added behind it. *)
LEMMA RunsStay ==
    ASSUME NEW ids \in SUBSET Ids, NEW rows, NEW from, NEW id \in Ids,
           IsRun(rows, from, ids), rows # {},
           \A x \in ids : Less(x, id)
    PROVE  IsRun(rows, from, ids \cup {id})
<1>1. Latest(rows) \in rows
  BY LatestIsGreatest DEF IsRun
<1>2. Latest(rows) \in ids
  BY <1>1 DEF IsRun
<1> QED BY <1>2 DEF IsRun

(* Replies that bring nothing. *)
LEMMA EmptyReplies ==
    \A k \in Keys : Empty.rows[k] = {} /\ NoReply.rows[k] = {}
  BY DEF Empty, NoReply, Reply

(* The invariant holds initially. *)
LEMMA InitInv == Init => StreamInv
<1> SUFFICES ASSUME Init PROVE StreamInv
  OBVIOUS
<1>1. TypeOK
  BY InitType
<1>2. EntriesAreAdded
  BY DEF Init, EntriesAreAdded, HasLatest
<1>3. <<0, 0>> \in Ids
  BY DEF Ids
<1>4. CursorsAreEntries
  BY <1>3, LessIsAnOrder DEF Init, CursorsAreEntries
<1>5. RepliesAreRuns
  BY EmptyReplies DEF Init, RepliesAreRuns
<1>6. FollowersMissNothing
  BY DEF Init, FollowersMissNothing
<1>7. NoStrandedReader
  BY DEF Init, NoStrandedReader
<1> QED BY <1>1, <1>2, <1>4, <1>5, <1>6, <1>7 DEF StreamInv

(* A client that takes its reply reads on where it stopped, or begins anew. *)
LEMMA WriteReplyInv ==
    ASSUME StreamInv, NEW c \in Clients, WriteReply(c)
    PROVE  CursorsAreEntries' /\ FollowersMissNothing' /\ RepliesAreRuns'
<1> USE DEF StreamInv
<1> DEFINE from == oneshot[c].from
           rows == oneshot[c].rows
           News == {k \in Keys : rows[k] # {}}
           On   == {k \in News : from[k] = cursor[c][k]}
<1>1. ASSUME NEW k \in Keys
      PROVE  /\ cursor'[c][k] = IF k \in News THEN Latest(rows[k]) ELSE cursor[c][k]
             /\ start'[c][k] = IF k \in News \ On THEN from[k] ELSE start[c][k]
             /\ seen'[c][k] = IF k \in On THEN seen[c][k] \cup rows[k]
                              ELSE IF k \in News THEN rows[k] ELSE seen[c][k]
  <2>1. cursor' = [cursor EXCEPT ![c] =
            [j \in Keys |-> IF j \in News THEN Latest(rows[j]) ELSE cursor[c][j]]]
    BY DEF WriteReply
  <2>2. start' = [start EXCEPT ![c] =
            [j \in Keys |-> IF j \in News \ On THEN from[j] ELSE start[c][j]]]
    BY DEF WriteReply
  <2>3. seen' = [seen EXCEPT ![c] =
            [j \in Keys |-> IF j \in On THEN seen[c][j] \cup rows[j]
                            ELSE IF j \in News THEN rows[j] ELSE seen[c][j]]]
    BY DEF WriteReply
  <2>4. cursor \in [Clients -> [Keys -> Ids]] /\ start \in [Clients -> [Keys -> Ids]]
        /\ seen \in [Clients -> [Keys -> SUBSET Ids]]
    BY DEF TypeOK
  <2> QED BY <2>1, <2>2, <2>3, <2>4
<1>2. ASSUME NEW d \in Clients, d # c
      PROVE  cursor'[d] = cursor[d] /\ start'[d] = start[d] /\ seen'[d] = seen[d]
  BY <1>2 DEF WriteReply, TypeOK
<1>3. added' = added
  BY DEF WriteReply
<1>4. ASSUME NEW k \in News
      PROVE  /\ from[k] \in Ids
             /\ Latest(rows[k]) \in added[k]
             /\ Latest(rows[k]) \in Ids
             /\ Less(from[k], Latest(rows[k]))
             /\ rows[k] = {x \in added[k] : Less(from[k], x) /\ ~Less(Latest(rows[k]), x)}
  <2>1. IsRun(rows[k], from[k], added[k]) /\ rows[k] # {}
    BY DEF RepliesAreRuns
  <2>2. Latest(rows[k]) \in rows[k]
    BY <2>1, LatestIsGreatest DEF IsRun
  <2>3. added[k] \in SUBSET Ids
    BY DEF TypeOK
  <2> QED BY <2>1, <2>2, <2>3 DEF IsRun
<1>5. ASSUME NEW k \in Keys
      PROVE  /\ cursor'[c][k] \in added[k] \cup {<<0, 0>>}
             /\ ~Less(cursor'[c][k], start'[c][k])
             /\ seen'[c][k] = {x \in added[k] : /\ Less(start'[c][k], x)
                                                /\ ~Less(cursor'[c][k], x)}
  <2>1. /\ cursor[c][k] \in added[k] \cup {<<0, 0>>}
        /\ ~Less(cursor[c][k], start[c][k])
        /\ seen[c][k] = {x \in added[k] : Less(start[c][k], x) /\ ~Less(cursor[c][k], x)}
    BY DEF CursorsAreEntries, FollowersMissNothing
  <2>2. /\ cursor[c][k] \in Ids /\ start[c][k] \in Ids
        /\ \A x \in added[k] : x \in Ids
    BY DEF TypeOK
  <2>3. CASE k \notin News
    BY <1>1, <2>1, <2>3
  <2>4. CASE k \in News \ On
    <3>1. ~Less(Latest(rows[k]), from[k])
      BY <1>4, <2>4, LessFacts
    <3>2. /\ cursor'[c][k] = Latest(rows[k])
          /\ start'[c][k] = from[k]
          /\ seen'[c][k] = rows[k]
      <4>1. k \in News /\ k \notin On
        BY <2>4
      <4> HIDE DEF News, On
      <4> QED BY <1>1, <4>1
    <3>3. /\ Latest(rows[k]) \in added[k]
          /\ rows[k] = {x \in added[k] : Less(from[k], x) /\ ~Less(Latest(rows[k]), x)}
      BY <1>4, <2>4
    <3> HIDE DEF from, rows, News, On
    <3> QED BY <3>1, <3>2, <3>3
  <2>5. CASE k \in On
    <3> DEFINE last == Latest(rows[k])
    <3>1. from[k] = cursor[c][k] /\ last \in Ids /\ Less(cursor[c][k], last)
      BY <1>4, <2>5
    <3>2. ~Less(last, start[c][k])
      BY <2>1, <2>2, <3>1, LessFacts
    <3>3. ASSUME NEW x \in added[k]
          PROVE  (\/ Less(start[c][k], x) /\ ~Less(cursor[c][k], x)
                  \/ Less(cursor[c][k], x) /\ ~Less(last, x))
                 <=> Less(start[c][k], x) /\ ~Less(last, x)
      BY <2>1, <2>2, <3>1, LessFacts
    <3>4. seen[c][k] \cup rows[k]
              = {x \in added[k] : Less(start[c][k], x) /\ ~Less(last, x)}
      BY <1>4, <2>1, <2>5, <3>1, <3>3
    <3> QED BY <1>1, <1>4, <2>5, <3>2, <3>4
  <2> QED BY <2>3, <2>4, <2>5
<1>6. CursorsAreEntries'
  BY <1>2, <1>3, <1>5 DEF CursorsAreEntries
<1>7. FollowersMissNothing'
  BY <1>2, <1>3, <1>5 DEF FollowersMissNothing
<1>8. RepliesAreRuns'
  <2>1. oneshot' = [oneshot EXCEPT ![c] = NoReply] /\ oneshot \in [Clients -> Replies]
    BY DEF WriteReply, TypeOK
  <2> QED BY <1>3, <2>1, EmptyReplies DEF RepliesAreRuns
<1> QED BY <1>6, <1>7, <1>8

(* XADD puts an entry behind every cursor and every reply, and wakes the
   readers that could be waiting for it.                                     *)
LEMMA AddEntryInv ==
    ASSUME StreamInv, AddEntry
    PROVE  /\ EntriesAreAdded'
           /\ CursorsAreEntries'
           /\ RepliesAreRuns'
           /\ FollowersMissNothing'
           /\ NoStrandedReader'
<1> USE DEF StreamInv
<1>1. PICK k \in Keys, id \in Ids :
         /\ k = Head(inbox).command.key
         /\ entries[k] = added[k]
         /\ \A x \in added[k] : Less(x, id)
         /\ HasLatest(added[k] \cup {id})
         /\ Less(<<0, 0>>, id)
         /\ kind' = [kind EXCEPT ![k] = "stream"]
         /\ entries' = [entries EXCEPT ![k] = @ \cup {id}]
         /\ added' = [added EXCEPT ![k] = @ \cup {id}]
  BY AddEntryEffect
<1>2. /\ kind \in [Keys -> {"none", "stream", "other"}]
      /\ entries \in [Keys -> SUBSET Ids]
      /\ added \in [Keys -> SUBSET Ids]
      /\ oneshot \in [Clients -> Replies]
      /\ cursor \in [Clients -> [Keys -> Ids]]
      /\ start \in [Clients -> [Keys -> Ids]]
      /\ waiters \subseteq Readers
  BY DEF TypeOK, Readers
<1>3. /\ entries'[k] = entries[k] \cup {id} /\ added'[k] = added[k] \cup {id}
      /\ kind'[k] = "stream"
      /\ \A j \in Keys : j # k => /\ entries'[j] = entries[j]
                                  /\ added'[j] = added[j]
                                  /\ kind'[j] = kind[j]
  BY <1>1, <1>2
<1>4. entries' \in [Keys -> SUBSET Ids] /\ added' \in [Keys -> SUBSET Ids]
  BY <1>1, <1>2
<1>5. cursor' = cursor /\ start' = start /\ seen' = seen
  BY DEF AddEntry
<1>6. EntriesAreAdded'
  <2> SUFFICES ASSUME NEW j \in Keys
               PROVE  /\ entries'[j] = {} \/ entries'[j] = added'[j]
                      /\ kind'[j] # "other" => entries'[j] = added'[j]
                      /\ HasLatest(added'[j])
    BY DEF EntriesAreAdded
  <2>1. CASE j = k
    BY <2>1, <1>1, <1>3
  <2>2. CASE j # k
    BY <2>2, <1>3 DEF EntriesAreAdded
  <2> QED BY <2>1, <2>2
<1>7. CursorsAreEntries'
  BY <1>3, <1>5 DEF CursorsAreEntries
<1>8. FollowersMissNothing'
  <2> SUFFICES ASSUME NEW d \in Clients, NEW j \in Keys
               PROVE  seen[d][j] = {x \in added'[j] : /\ Less(start[d][j], x)
                                                      /\ ~Less(cursor[d][j], x)}
    BY <1>5 DEF FollowersMissNothing
  <2>1. seen[d][j] = {x \in added[j] : Less(start[d][j], x) /\ ~Less(cursor[d][j], x)}
    BY DEF FollowersMissNothing
  <2>2. CASE j # k
    BY <1>3, <2>1, <2>2
  <2>3. CASE j = k
    <3>1. Less(cursor[d][k], id)
      BY <1>1, <2>3 DEF CursorsAreEntries
    <3> QED BY <1>3, <2>1, <2>3, <3>1
  <2> QED BY <2>2, <2>3
<1>9. RepliesAreRuns'
  <2> SUFFICES ASSUME NEW d \in Clients, NEW j \in Keys, oneshot'[d].rows[j] # {}
               PROVE  IsRun(oneshot'[d].rows[j], oneshot'[d].from[j], added'[j])
    BY DEF RepliesAreRuns, IsRun
  <2> DEFINE c == Head(inbox).client
  <2>1. oneshot'[d] = IF d = c THEN Empty
                      ELSE IF \E w \in Woken(k) : w.client = d
                      THEN LET w == CHOOSE w \in Woken(k) : w.client = d IN
                              Reply(w.from, FetchXread(entries', w.from))
                      ELSE oneshot[d]
    BY <1>1 DEF AddEntry
  <2>2. CASE oneshot'[d] = Empty
    BY <2>2, EmptyReplies
  <2>3. ASSUME NEW w \in Woken(k), oneshot'[d] = Reply(w.from, FetchXread(entries', w.from))
        PROVE  IsRun(oneshot'[d].rows[j], oneshot'[d].from[j], added'[j])
    <3>1. w.from \in Resolved
      BY <1>2 DEF Woken, Readers
    <3>2. oneshot'[d].rows = FetchXread(entries', w.from) /\ oneshot'[d].from = w.from
      BY <2>3 DEF Reply
    <3>3. (entries'[j] = {} \/ entries'[j] = added'[j]) /\ HasLatest(added'[j])
      BY <1>6 DEF EntriesAreAdded, HasLatest
    <3> QED BY <1>4, <3>1, <3>2, <3>3, FetchedIsRun
  <2>4. CASE oneshot'[d] = oneshot[d]
    <3>1. IsRun(oneshot[d].rows[j], oneshot[d].from[j], added[j]) /\ oneshot[d].rows[j] # {}
      BY <2>4 DEF RepliesAreRuns
    <3>2. CASE j # k
      BY <1>3, <2>4, <3>1, <3>2
    <3>3. CASE j = k
      <4>1. added[k] \in SUBSET Ids
        BY <1>2
      <4>2. IsRun(oneshot[d].rows[k], oneshot[d].from[k], added[k] \cup {id})
        BY <1>1, <3>1, <3>3, <4>1, RunsStay
      <4> QED BY <1>3, <2>4, <3>3, <4>2
    <3> QED BY <3>2, <3>3
  <2> QED BY <2>1, <2>2, <2>3, <2>4
<1>10. NoStrandedReader'
  <2> SUFFICES ASSUME NEW w \in waiters', NEW j \in AskedFor(w.from)
               PROVE  Beyond(entries'[j], w.from[j]) = {}
    BY DEF NoStrandedReader, AskedFor, Beyond
  <2>1. w \in waiters /\ w \notin Woken(k)
    BY <1>1 DEF AddEntry, WithoutWoken
  <2>2. j \in Keys /\ j # k
    BY <2>1 DEF Woken, AskedFor
  <2> QED BY <1>3, <2>1, <2>2 DEF NoStrandedReader
<1> QED BY <1>6, <1>7, <1>8, <1>9, <1>10

(* An answer without entries, or with what was just fetched, leaves runs. *)
LEMMA AnswerKeepsRuns ==
    ASSUME TypeOK, EntriesAreAdded, RepliesAreRuns, added' = added,
           NEW c, NEW r, Answer(c, r),
           \/ r = Empty
           \/ \E from \in Resolved : r = Reply(from, FetchXread(entries, from))
    PROVE  RepliesAreRuns'
<1> SUFFICES ASSUME NEW d \in Clients, NEW k \in Keys, oneshot'[d].rows[k] # {}
             PROVE  IsRun(oneshot'[d].rows[k], oneshot'[d].from[k], added[k])
  BY DEF RepliesAreRuns, IsRun
<1>1. oneshot'[d] = oneshot[d] \/ oneshot'[d] = r
  BY DEF Answer, TypeOK
<1>2. CASE oneshot'[d] = oneshot[d]
  BY <1>2 DEF RepliesAreRuns
<1>3. CASE oneshot'[d] = r /\ r = Empty
  BY <1>3, EmptyReplies
<1>4. ASSUME NEW from \in Resolved, oneshot'[d] = Reply(from, FetchXread(entries, from))
      PROVE  IsRun(oneshot'[d].rows[k], oneshot'[d].from[k], added[k])
  <2>1. oneshot'[d].rows = FetchXread(entries, from) /\ oneshot'[d].from = from
    BY <1>4 DEF Reply
  <2>2. (entries[k] = {} \/ entries[k] = added[k]) /\ HasLatest(added[k])
    BY DEF EntriesAreAdded
  <2>3. entries \in [Keys -> SUBSET Ids] /\ added \in [Keys -> SUBSET Ids]
    BY DEF TypeOK
  <2> QED BY <2>1, <2>2, <2>3, FetchedIsRun
<1> QED BY <1>1, <1>2, <1>3, <1>4

(* The other steps of the store add nothing to a stream. *)
LEMMA StoreStepInv ==
    ASSUME StreamInv,
           RefuseEntry \/ ReadEntries \/ BlockXread \/ ExecTimeout \/ ExecSet
    PROVE  EntriesAreAdded' /\ RepliesAreRuns' /\ NoStrandedReader'
<1> USE DEF StreamInv
<1> DEFINE c   == Head(inbox).client
           cmd == Head(inbox).command
<1>1. CASE RefuseEntry
  <2>1. /\ \A k \in Keys : \/ kind'[k] = kind[k]
                           \/ kind[k] # "other" /\ kind'[k] = "stream"
        /\ UNCHANGED <<entries, added, waiters>>
    <3>1. cmd.key \in Keys /\ kind \in [Keys -> {"none", "stream", "other"}]
      BY <1>1, ReceiveCommandType, CommandTypes DEF RefuseEntry, TypeOK
    <3>2. \/ kind' = kind
          \/ kind[cmd.key] # "other" /\ kind' = [kind EXCEPT ![cmd.key] = "stream"]
      BY <1>1 DEF RefuseEntry
    <3>3. UNCHANGED <<entries, added, waiters>>
      BY <1>1 DEF RefuseEntry, history
    <3> HIDE DEF cmd
    <3> QED BY <3>1, <3>2, <3>3
  <2>2. EntriesAreAdded'
    BY <2>1 DEF EntriesAreAdded
  <2>3. RepliesAreRuns'
    BY <1>1, AnswerKeepsRuns DEF RefuseEntry, history
  <2>4. NoStrandedReader'
    BY <2>1 DEF NoStrandedReader
  <2> QED BY <2>2, <2>3, <2>4
<1>2. CASE ReadEntries
  <2>1. UNCHANGED <<kind, entries, added, waiters>>
    BY <1>2 DEF ReadEntries, store, history
  <2>2. RealIds(cmd.from) \in Resolved
    BY <1>2, ReceiveCommandType, CommandTypes, RealIdsType DEF ReadEntries
  <2>3. RepliesAreRuns'
    BY <1>2, <2>1, <2>2, AnswerKeepsRuns DEF ReadEntries
  <2>4. EntriesAreAdded' /\ NoStrandedReader'
    BY <2>1 DEF EntriesAreAdded, NoStrandedReader
  <2> QED BY <2>3, <2>4
<1>3. CASE BlockXread
  <2> DEFINE new == [id |-> waiter_id + 1, client |-> c, from |-> RealIds(cmd.from)]
  <2>1. /\ UNCHANGED <<kind, entries, added, oneshot>>
        /\ waiters' = waiters \cup {new}
        /\ IsEmpty(FetchXread(entries, new.from))
    BY <1>3 DEF BlockXread, peers, history
  <2>2. \A k \in AskedFor(new.from) : Beyond(entries[k], new.from[k]) = {}
    BY <2>1 DEF IsEmpty, FetchXread, AskedFor
  <2>3. NoStrandedReader'
    BY <2>1, <2>2 DEF NoStrandedReader
  <2>4. EntriesAreAdded' /\ RepliesAreRuns'
    BY <2>1 DEF EntriesAreAdded, RepliesAreRuns
  <2> QED BY <2>3, <2>4
<1>4. CASE ExecTimeout
  <2>1. UNCHANGED <<kind, entries, added>> /\ waiters' \subseteq waiters
    BY <1>4 DEF ExecTimeout, history
  <2>2. RepliesAreRuns'
    BY <1>4, <2>1, AnswerKeepsRuns DEF ExecTimeout, AnswersNull, RepliesAreRuns
  <2>3. EntriesAreAdded' /\ NoStrandedReader'
    BY <2>1 DEF EntriesAreAdded, NoStrandedReader
  <2> QED BY <2>2, <2>3
<1>5. CASE ExecSet
  <2>1. cmd.key \in Keys
    BY <1>5, ReceiveCommandType, CommandTypes DEF ExecSet
  <2>2. /\ kind' = [kind EXCEPT ![cmd.key] = "other"]
        /\ entries' = [entries EXCEPT ![cmd.key] = {}]
        /\ UNCHANGED <<added, waiters>>
    BY <1>5 DEF ExecSet, history
  <2>3. /\ entries'[cmd.key] = {} /\ kind'[cmd.key] = "other"
        /\ \A k \in Keys : k # cmd.key => entries'[k] = entries[k] /\ kind'[k] = kind[k]
    BY <2>1, <2>2 DEF TypeOK
  <2>4. EntriesAreAdded'
    BY <2>2, <2>3 DEF EntriesAreAdded
  <2>5. NoStrandedReader'
    <3> SUFFICES ASSUME NEW w \in waiters, NEW k \in AskedFor(w.from)
                 PROVE  Beyond(entries'[k], w.from[k]) = {}
      BY <2>2 DEF NoStrandedReader
    <3>1. k \in Keys /\ Beyond(entries[k], w.from[k]) = {}
      BY DEF AskedFor, NoStrandedReader
    <3> QED BY <2>3, <3>1 DEF Beyond
  <2>6. RepliesAreRuns'
    BY <1>5, <2>2, AnswerKeepsRuns DEF ExecSet
  <2> QED BY <2>4, <2>5, <2>6
<1> QED BY <1>1, <1>2, <1>3, <1>4, <1>5

(* The whole invariant is inductive. *)
LEMMA NextInv ==
    ASSUME StreamInv, [Next]_vars
    PROVE  StreamInv'
<1>1. TypeOK'
  BY NextType
<1>2. CASE UNCHANGED <<kind, entries, added, cursor, start, seen, oneshot, waiters>>
  BY <1>1, <1>2 DEF StreamInv, EntriesAreAdded, CursorsAreEntries, RepliesAreRuns,
                    FollowersMissNothing, NoStrandedReader
<1>3. ASSUME NEW c \in Clients, WriteReply(c)
      PROVE  StreamInv'
  <2>1. UNCHANGED <<kind, entries, added, waiters>>
    BY <1>3 DEF WriteReply, store
  <2>2. EntriesAreAdded' /\ NoStrandedReader'
    BY <2>1 DEF StreamInv, EntriesAreAdded, NoStrandedReader
  <2> QED BY <1>1, <1>3, <2>2, WriteReplyInv DEF StreamInv
<1>4. CASE AddEntry
  BY <1>1, <1>4, AddEntryInv DEF StreamInv
<1>5. CASE RefuseEntry \/ ReadEntries \/ BlockXread \/ ExecTimeout \/ ExecSet
  <2>1. UNCHANGED <<added, cursor, start, seen>>
    BY <1>5 DEF RefuseEntry, ReadEntries, BlockXread, ExecTimeout, ExecSet, peers, history
  <2>2. CursorsAreEntries' /\ FollowersMissNothing'
    BY <2>1 DEF StreamInv, CursorsAreEntries, FollowersMissNothing
  <2> QED BY <1>1, <1>5, <2>2, StoreStepInv DEF StreamInv
<1>6. ASSUME NEW c \in Clients, Send(c)
      PROVE  StreamInv'
  BY <1>2, <1>6 DEF Send, store, history
<1>7. CASE Tick \/ \E id \in timers : TimerFires(id)
  BY <1>2, <1>7 DEF Tick, TimerFires, store, peers, history
<1>8. CASE UNCHANGED vars
  BY <1>2, <1>8 DEF vars, store, peers, history
<1> QED BY <1>3, <1>4, <1>5, <1>6, <1>7, <1>8 DEF Next, StoreStep

-----------------------------------------------------------------------------
(* The theorems.                                                           *)

(* The invariant holds in every reachable state. *)
THEOREM Invariance == Spec => []StreamInv
<1>1. Init => StreamInv
  BY InitInv
<1>2. StreamInv /\ [Next]_vars => StreamInv'
  BY NextInv
<1> QED BY <1>1, <1>2, PTL DEF Spec

(* Every variable keeps its type: in particular every id that XADD computes,
   that "$" stands for or that a reply ends with is an id.                   *)
THEOREM TypeCorrect == Spec => []TypeOK
<1>1. StreamInv => TypeOK
  BY DEF StreamInv
<1> QED BY <1>1, Invariance, PTL

(* A client that reads on from the last entry it was given is given all there
   is: blocked or not, woken by whichever stream, timed out or not.          *)
THEOREM FollowersAreComplete == Spec => []FollowersMissNothing
<1>1. StreamInv => FollowersMissNothing
  BY DEF StreamInv
<1> QED BY <1>1, Invariance, PTL

(* notify_xread_waiters wakes enough: nobody is blocked on a stream that holds
   what it asked for.                                                        *)
THEOREM ReadersNotStranded == Spec => []NoStrandedReader
<1>1. StreamInv => NoStrandedReader
  BY DEF StreamInv
<1> QED BY <1>1, Invariance, PTL

(* A stream grows at its end alone, whatever ids are asked for, whatever the
   clock does and wherever the sequence numbers wrap.                        *)
THEOREM EntriesGrowAtTheEnd == Spec => EntriesAppended
<1> DEFINE Appends ==
        \A k \in Keys :
            kind[k] = "stream" /\ kind'[k] = "stream" =>
               /\ entries[k] \subseteq entries'[k]
               /\ \A x \in entries[k] : \A y \in entries'[k] \ entries[k] : Less(x, y)
<1>1. StreamInv /\ [Next]_vars => [Appends]_vars
  <2> SUFFICES ASSUME StreamInv, [Next]_vars PROVE [Appends]_vars
    OBVIOUS
  <2>1. CASE entries' = entries
    BY <2>1
  <2>2. CASE AddEntry
    <3>1. PICK k \in Keys, id \in Ids :
             /\ entries[k] = added[k]
             /\ \A x \in added[k] : Less(x, id)
             /\ entries' = [entries EXCEPT ![k] = @ \cup {id}]
      BY <2>2, AddEntryEffect DEF StreamInv
    <3> QED BY <3>1 DEF StreamInv, TypeOK
  <2>3. CASE ExecSet
    <3>1. Head(inbox).command.key \in Keys
      BY <2>3, ReceiveCommandType, CommandTypes DEF ExecSet, StreamInv
    <3> QED BY <2>3, <3>1 DEF ExecSet, StreamInv, TypeOK
  <2>4. CASE RefuseEntry \/ ReadEntries \/ BlockXread \/ ExecTimeout
    BY <2>1, <2>4 DEF RefuseEntry, ReadEntries, BlockXread, ExecTimeout, store
  <2>5. CASE \E c \in Clients : Send(c) \/ WriteReply(c)
    BY <2>1, <2>5 DEF Send, WriteReply, store
  <2>6. CASE Tick \/ \E id \in timers : TimerFires(id)
    BY <2>1, <2>6 DEF Tick, TimerFires, store
  <2>7. CASE UNCHANGED vars
    BY <2>1, <2>7 DEF vars, store
  <2> QED BY <2>2, <2>3, <2>4, <2>5, <2>6, <2>7 DEF Next, StoreStep
<1> QED BY <1>1, Invariance, PTL DEF Spec, EntriesAppended


-----------------------------------------------------------------------------
(* Every command is answered once.                                         *)

(* The inductive form: a client has at most one command in the inbox and at
   most one entry in the table of readers, no two readers have the same id,
   and a task that awaits a reply is owed it by just one of the places.      *)
Asked(c)   == \E i \in 1..Len(inbox) : inbox[i].type = "WithReply" /\ inbox[i].client = c
Waiting(c) == \E w \in waiters : w.client = c

OneAsked ==
    \A i, j \in 1..Len(inbox) :
        /\ inbox[i].type = "WithReply" /\ inbox[j].type = "WithReply"
        /\ inbox[i].client = inbox[j].client
        => i = j

OneWaiter ==
    /\ \A v, w \in waiters : v.client = w.client => v = w
    /\ \A v, w \in waiters : v.id = w.id => v = w
    /\ \A w \in waiters : w.id <= waiter_id

OneDebt(c) ==
    /\ task[c] = "awaiting" <=> Asked(c) \/ Waiting(c) \/ oneshot[c].ready
    /\ ~(Asked(c) /\ (Waiting(c) \/ oneshot[c].ready))
    /\ ~(Waiting(c) /\ oneshot[c].ready)

DebtInv == OneAsked /\ OneWaiter /\ \A c \in Clients : OneDebt(c)

(* The inbox that the store leaves, and the one that a task leaves. *)
LEMMA InboxTail ==
    ASSUME TypeOK, NEW type, Receive(type)
    PROVE  /\ Head(inbox) = inbox[1] /\ Len(inbox) \in Nat /\ 1 \in 1..Len(inbox)
           /\ inbox[1].type = type /\ Len(inbox') = Len(inbox) - 1
           /\ \A i \in 1..Len(inbox') : i + 1 \in 1..Len(inbox) /\ inbox'[i] = inbox[i + 1]
<1>1. inbox \in Seq(Envelopes) /\ inbox # << >> /\ inbox' = Tail(inbox) /\ Head(inbox).type = type
  BY DEF TypeOK, Receive, Envelopes
<1>2. ASSUME NEW S, NEW s \in Seq(S), s # << >>
      PROVE  /\ Head(s) = s[1] /\ Len(s) \in Nat /\ 1 \in 1..Len(s)
             /\ Len(Tail(s)) = Len(s) - 1
             /\ \A i \in 1..(Len(s) - 1) : i + 1 \in 1..Len(s) /\ Tail(s)[i] = s[i + 1]
  BY <1>2
<1>3. /\ Head(inbox) = inbox[1] /\ Len(inbox) \in Nat /\ 1 \in 1..Len(inbox)
      /\ Len(Tail(inbox)) = Len(inbox) - 1
      /\ \A i \in 1..(Len(inbox) - 1) : i + 1 \in 1..Len(inbox) /\ Tail(inbox)[i] = inbox[i + 1]
  BY <1>1, <1>2, Zenon
<1> QED BY <1>1, <1>3

LEMMA InboxGrows ==
    ASSUME TypeOK, NEW e \in Envelopes, inbox' = Append(inbox, e)
    PROVE  /\ Len(inbox) \in Nat /\ Len(inbox') = Len(inbox) + 1
           /\ \A i \in 1..Len(inbox) : inbox'[i] = inbox[i]
           /\ inbox'[Len(inbox) + 1] = e
<1>1. inbox \in Seq(Envelopes)
  BY DEF TypeOK, Envelopes
<1>2. ASSUME NEW S, NEW s \in Seq(S), NEW x \in S
      PROVE  /\ Len(s) \in Nat /\ Len(Append(s, x)) = Len(s) + 1
             /\ \A i \in 1..Len(s) : Append(s, x)[i] = s[i]
             /\ Append(s, x)[Len(s) + 1] = x
  BY <1>2
<1>3. /\ Len(inbox) \in Nat /\ Len(Append(inbox, e)) = Len(inbox) + 1
      /\ \A i \in 1..Len(inbox) : Append(inbox, e)[i] = inbox[i]
      /\ Append(inbox, e)[Len(inbox) + 1] = e
  BY <1>1, <1>2, Zenon
<1> QED BY <1>3

(* The store takes a command, or another envelope. *)
LEMMA TakesCommand ==
    ASSUME TypeOK, OneAsked, NEW op, ReceiveCommand(op)
    PROVE  /\ OneAsked'
           /\ Asked(Head(inbox).client)
           /\ \A d : Asked(d)' <=> Asked(d) /\ d # Head(inbox).client
<1>1. /\ Head(inbox) = inbox[1] /\ Len(inbox) \in Nat /\ 1 \in 1..Len(inbox)
      /\ inbox[1].type = "WithReply" /\ Len(inbox') = Len(inbox) - 1
      /\ \A i \in 1..Len(inbox') : i + 1 \in 1..Len(inbox) /\ inbox'[i] = inbox[i + 1]
  BY InboxTail DEF ReceiveCommand
<1>2. OneAsked'
  <2> SUFFICES ASSUME NEW i \in 1..Len(inbox'), NEW j \in 1..Len(inbox'),
                      inbox'[i].type = "WithReply", inbox'[j].type = "WithReply",
                      inbox'[i].client = inbox'[j].client
               PROVE  i = j
    BY DEF OneAsked
  <2>1. i + 1 = j + 1
    BY <1>1 DEF OneAsked
  <2> QED BY <1>1, <2>1
<1>3. ASSUME NEW d, Asked(d), d # Head(inbox).client PROVE Asked(d)'
  <2>1. PICK i \in 1..Len(inbox) : inbox[i].type = "WithReply" /\ inbox[i].client = d
    BY <1>3 DEF Asked
  <2>2. i - 1 \in 1..Len(inbox') /\ inbox'[i - 1] = inbox[i]
    BY <1>1, <1>3, <2>1
  <2> QED BY <2>1, <2>2 DEF Asked
<1>4. ASSUME NEW d, Asked(d)' PROVE Asked(d) /\ d # Head(inbox).client
  <2>1. PICK i \in 1..Len(inbox') : inbox'[i].type = "WithReply" /\ inbox'[i].client = d
    BY <1>4 DEF Asked
  <2>2. /\ i + 1 \in 1..Len(inbox) /\ i + 1 # 1
        /\ inbox[i + 1].type = "WithReply" /\ inbox[i + 1].client = d
    BY <1>1, <2>1
  <2> QED BY <1>1, <2>2 DEF Asked, OneAsked
<1> QED BY <1>1, <1>2, <1>3, <1>4 DEF Asked

LEMMA TakesOther ==
    ASSUME TypeOK, OneAsked, NEW type, type # "WithReply", Receive(type)
    PROVE  OneAsked' /\ \A d : Asked(d)' <=> Asked(d)
<1>1. /\ Len(inbox) \in Nat /\ inbox[1].type = type /\ Len(inbox') = Len(inbox) - 1
      /\ \A i \in 1..Len(inbox') : i + 1 \in 1..Len(inbox) /\ inbox'[i] = inbox[i + 1]
  BY InboxTail
<1>2. OneAsked'
  <2> SUFFICES ASSUME NEW i \in 1..Len(inbox'), NEW j \in 1..Len(inbox'),
                      inbox'[i].type = "WithReply", inbox'[j].type = "WithReply",
                      inbox'[i].client = inbox'[j].client
               PROVE  i = j
    BY DEF OneAsked
  <2>1. i + 1 = j + 1
    BY <1>1 DEF OneAsked
  <2> QED BY <1>1, <2>1
<1>3. ASSUME NEW d, Asked(d) PROVE Asked(d)'
  <2>1. PICK i \in 1..Len(inbox) : inbox[i].type = "WithReply" /\ inbox[i].client = d
    BY <1>3 DEF Asked
  <2>2. i - 1 \in 1..Len(inbox') /\ inbox'[i - 1] = inbox[i]
    BY <1>1, <2>1
  <2> QED BY <2>1, <2>2 DEF Asked
<1>4. ASSUME NEW d, Asked(d)' PROVE Asked(d)
  <2>1. PICK i \in 1..Len(inbox') : inbox'[i].type = "WithReply" /\ inbox'[i].client = d
    BY <1>4 DEF Asked
  <2> QED BY <1>1, <2>1 DEF Asked
<1> QED BY <1>2, <1>3, <1>4

(* A task sends a command, or something else is sent. *)
LEMMA SendsCommand ==
    ASSUME TypeOK, OneAsked, NEW e \in Envelopes, e.type = "WithReply", ~Asked(e.client),
           inbox' = Append(inbox, e)
    PROVE  OneAsked' /\ \A d : Asked(d)' <=> Asked(d) \/ d = e.client
<1>1. /\ Len(inbox) \in Nat /\ Len(inbox') = Len(inbox) + 1
      /\ \A i \in 1..Len(inbox) : inbox'[i] = inbox[i]
      /\ inbox'[Len(inbox) + 1] = e
  BY InboxGrows
<1>2. \A i \in 1..Len(inbox') : i \in 1..Len(inbox) \/ i = Len(inbox) + 1
  BY <1>1
<1>3. \A i \in 1..Len(inbox) : i \in 1..Len(inbox') /\ Len(inbox) + 1 \in 1..Len(inbox')
  BY <1>1
<1>4. \A i \in 1..Len(inbox) : ~(inbox[i].type = "WithReply" /\ inbox[i].client = e.client)
  BY DEF Asked
<1>5. OneAsked'
  BY <1>1, <1>2, <1>4 DEF OneAsked
<1>6. ASSUME NEW d PROVE Asked(d)' <=> Asked(d) \/ d = e.client
  <2>1. Asked(d)' => Asked(d) \/ d = e.client
    BY <1>1, <1>2 DEF Asked
  <2>2. Asked(d) => Asked(d)'
    BY <1>1, <1>3 DEF Asked
  <2>3. d = e.client => Asked(d)'
    <3>1. Len(inbox) + 1 \in 1..Len(inbox')
      BY <1>1
    <3> QED BY <1>1, <3>1 DEF Asked
  <2> QED BY <2>1, <2>2, <2>3
<1> QED BY <1>5, <1>6

LEMMA SendsOther ==
    ASSUME TypeOK, OneAsked, NEW e \in Envelopes, e.type # "WithReply",
           inbox' = Append(inbox, e)
    PROVE  OneAsked' /\ \A d : Asked(d)' <=> Asked(d)
<1>1. /\ Len(inbox) \in Nat /\ Len(inbox') = Len(inbox) + 1
      /\ \A i \in 1..Len(inbox) : inbox'[i] = inbox[i]
      /\ inbox'[Len(inbox) + 1] = e
  BY InboxGrows
<1>2. \A i \in 1..Len(inbox') : i \in 1..Len(inbox) \/ i = Len(inbox) + 1
  BY <1>1
<1>3. \A i \in 1..Len(inbox) : i \in 1..Len(inbox')
  BY <1>1
<1>4. OneAsked'
  BY <1>1, <1>2 DEF OneAsked
<1>5. ASSUME NEW d PROVE Asked(d)' <=> Asked(d)
  BY <1>1, <1>2, <1>3 DEF Asked
<1> QED BY <1>4, <1>5

(* The store answers the command that it takes. *)
LEMMA AnswersCommand ==
    ASSUME TypeOK, DebtInv, NEW op, ReceiveCommand(op), NEW r, r.ready,
           Answer(Head(inbox).client, r), UNCHANGED <<task, waiters, waiter_id>>
    PROVE  DebtInv'
<1>1. PICK c \in Clients : c = Head(inbox).client
  BY ReceiveCommandType
<1>2. OneAsked' /\ Asked(c) /\ \A d : Asked(d)' <=> Asked(d) /\ d # c
  BY <1>1, TakesCommand DEF DebtInv
<1>3. \A d \in Clients : oneshot'[d].ready <=> oneshot[d].ready \/ d = c
  BY <1>1 DEF Answer, TypeOK, Replies
<1>4. OneWaiter' /\ \A d : Waiting(d)' <=> Waiting(d)
  BY DEF DebtInv, OneWaiter, Waiting
<1>5. ASSUME NEW d \in Clients PROVE OneDebt(d)'
  BY <1>2, <1>3, <1>4 DEF DebtInv, OneDebt
<1> QED BY <1>2, <1>4, <1>5 DEF DebtInv

(* An XADD answers its own client and every reader that it wakes. *)
LEMMA AddEntryDebts ==
    ASSUME TypeOK, DebtInv, AddEntry
    PROVE  DebtInv'
<1>1. PICK c \in Clients : c = Head(inbox).client
  BY ReceiveCommandType DEF AddEntry
<1>2. OneAsked' /\ Asked(c) /\ \A d : Asked(d)' <=> Asked(d) /\ d # c
  BY <1>1, TakesCommand DEF DebtInv, AddEntry
<1>3. PICK woken \in SUBSET waiters :
        /\ waiters' = waiters \ woken
        /\ \A d \in Clients :
              IF d = c THEN oneshot'[d] = Empty
              ELSE IF \E w \in woken : w.client = d
              THEN \E from, rows : oneshot'[d] = Reply(from, rows)
              ELSE oneshot'[d] = oneshot[d]
  <2> DEFINE k == Head(inbox).command.key
  <2>1. Woken(k) \in SUBSET waiters /\ waiters' = waiters \ Woken(k)
    BY DEF AddEntry, Woken, WithoutWoken
  <2>2. oneshot' = [d \in Clients |->
                 IF d = c THEN Empty
                 ELSE IF \E w \in Woken(k) : w.client = d
                 THEN LET w == CHOOSE w \in Woken(k) : w.client = d IN
                         Reply(w.from, FetchXread(entries', w.from))
                 ELSE oneshot[d]]
    BY <1>1 DEF AddEntry
  <2> HIDE DEF k
  <2> QED BY <2>1, <2>2
<1>4. \A d \in Clients : oneshot'[d].ready <=>
           oneshot[d].ready \/ d = c \/ \E w \in woken : w.client = d
  <2>1. Empty.ready /\ \A from, rows : Reply(from, rows).ready
    BY DEF Empty, Reply
  <2> SUFFICES ASSUME NEW d \in Clients
               PROVE  oneshot'[d].ready <=>
                         oneshot[d].ready \/ d = c \/ \E w \in woken : w.client = d
    OBVIOUS
  <2>2. CASE d = c
    BY <1>3, <2>1, <2>2
  <2>3. CASE d # c /\ \E w \in woken : w.client = d
    <3>1. \E from, rows : oneshot'[d] = Reply(from, rows)
      BY <1>3, <2>3
    <3> QED BY <2>1, <2>3, <3>1
  <2>4. CASE d # c /\ ~\E w \in woken : w.client = d
    BY <1>3, <2>4
  <2> QED BY <2>2, <2>3, <2>4
<1>5. \A d : Waiting(d)' <=> Waiting(d) /\ ~\E w \in woken : w.client = d
  BY <1>3 DEF DebtInv, OneWaiter, Waiting
<1>6. UNCHANGED <<task, waiter_id>>
  BY DEF AddEntry
<1>7. OneWaiter'
  BY <1>3, <1>6 DEF DebtInv, OneWaiter
<1>8. ASSUME NEW d \in Clients PROVE OneDebt(d)'
  <2>1. (\E w \in woken : w.client = d) => Waiting(d)
    BY <1>3 DEF Waiting
  <2> QED BY <1>2, <1>4, <1>5, <1>6, <2>1 DEF DebtInv, OneDebt
<1> QED BY <1>2, <1>7, <1>8 DEF DebtInv

(* A timeout answers the reader it concerns if that one is still there. *)
LEMMA TimeoutDebts ==
    ASSUME TypeOK, DebtInv, ExecTimeout
    PROVE  DebtInv'
<1>1. OneAsked' /\ \A d : Asked(d)' <=> Asked(d)
  BY TakesOther DEF ExecTimeout, DebtInv
<1>2. PICK due : due = {w \in waiters : w.id = Head(inbox).waiter_id}
  OBVIOUS
<1>3. /\ waiters' = waiters \ due /\ UNCHANGED <<task, waiter_id>>
      /\ (\E w \in due : AnswersNull(w)) \/ (due = {} /\ UNCHANGED oneshot)
  BY <1>2 DEF ExecTimeout
<1>4. \A v, w \in due : v = w
  BY <1>2 DEF DebtInv, OneWaiter
<1>5. due \subseteq waiters
  BY <1>2
<1>6. OneWaiter'
  BY <1>3 DEF DebtInv, OneWaiter
<1>7. CASE due = {} /\ UNCHANGED oneshot
  <2>1. waiters' = waiters
    BY <1>3, <1>7
  <2> QED BY <1>1, <1>3, <1>6, <1>7, <2>1 DEF DebtInv, OneDebt, Waiting
<1>8. ASSUME NEW w \in due, AnswersNull(w) PROVE DebtInv'
  <2>1. PICK c \in Clients : c = w.client
    BY <1>5 DEF TypeOK
  <2>2. \A d \in Clients : oneshot'[d].ready <=> oneshot[d].ready \/ d = c
    BY <1>8, <2>1 DEF AnswersNull, Answer, TypeOK, Empty, Reply
  <2>3. waiters' = waiters \ {w}
    BY <1>3, <1>4
  <2>4. Waiting(c) /\ \A d : Waiting(d)' <=> Waiting(d) /\ d # c
    BY <1>5, <2>1, <2>3 DEF DebtInv, OneWaiter, Waiting
  <2>5. ASSUME NEW d \in Clients PROVE OneDebt(d)'
    BY <1>1, <1>3, <2>2, <2>4 DEF DebtInv, OneDebt
  <2> QED BY <1>1, <1>6, <2>5 DEF DebtInv
<1> QED BY <1>3, <1>7, <1>8

LEMMA BlockDebts ==
    ASSUME TypeOK, DebtInv, BlockXread
    PROVE  DebtInv'
<1>1. PICK c \in Clients : c = Head(inbox).client
  BY ReceiveCommandType DEF BlockXread
<1>2. OneAsked' /\ Asked(c) /\ \A d : Asked(d)' <=> Asked(d) /\ d # c
  BY <1>1, TakesCommand DEF DebtInv, BlockXread
<1>3. PICK w : /\ w.id = waiter_id + 1 /\ w.client = c
               /\ waiters' = waiters \cup {w} /\ waiter_id' = waiter_id + 1
  BY <1>1 DEF BlockXread
<1>4. UNCHANGED <<task, oneshot>>
  BY DEF BlockXread, peers
<1>5. ~Waiting(c)
  BY <1>2 DEF DebtInv, OneDebt
<1>6. \A d : Waiting(d)' <=> Waiting(d) \/ d = c
  BY <1>3 DEF Waiting
<1>7. OneWaiter'
  <2>1. waiter_id \in Nat /\ \A v \in waiters : v.id \in Nat /\ v.id <= waiter_id
    BY DEF TypeOK, DebtInv, OneWaiter
  <2>2. \A v \in waiters : v.client # c
    BY <1>5 DEF Waiting
  <2> QED BY <1>3, <2>1, <2>2 DEF DebtInv, OneWaiter
<1>8. ASSUME NEW d \in Clients PROVE OneDebt(d)'
  BY <1>2, <1>4, <1>6 DEF DebtInv, OneDebt
<1> QED BY <1>2, <1>7, <1>8 DEF DebtInv

LEMMA ClientStepDebts ==
    ASSUME TypeOK, DebtInv, NEW c \in Clients, Send(c) \/ WriteReply(c)
    PROVE  DebtInv'
<1> USE DEF store, history
<1>1. UNCHANGED <<waiters, waiter_id>>
  BY DEF Send, WriteReply
<1>2. OneWaiter' /\ \A d : Waiting(d)' <=> Waiting(d)
  BY <1>1 DEF DebtInv, OneWaiter, Waiting
<1>3. CASE Send(c)
  <2>1. PICK shape \in Menu :
          inbox' = Append(inbox, WithReply(c, Filled(shape, cursor[c])))
    BY <1>3 DEF Send
  <2>2. PICK e \in Envelopes : e = WithReply(c, Filled(shape, cursor[c]))
    <3>1. Filled(shape, cursor[c]) \in Commands
      BY FilledType DEF TypeOK
    <3> QED BY <3>1 DEF WithReply, Envelopes
  <2>3. e.type = "WithReply" /\ e.client = c
    BY <2>2 DEF WithReply
  <2>4. ~Asked(c)
    BY <1>3 DEF Send, DebtInv, OneDebt
  <2>5. OneAsked' /\ \A d : Asked(d)' <=> Asked(d) \/ d = c
    BY <2>1, <2>2, <2>3, <2>4, SendsCommand DEF DebtInv
  <2>6. \A d \in Clients : task'[d] = IF d = c THEN "awaiting" ELSE task[d]
    BY <1>3 DEF Send, TypeOK
  <2>7. oneshot' = oneshot /\ task[c] = "reading"
    BY <1>3 DEF Send
  <2>8. ASSUME NEW d \in Clients PROVE OneDebt(d)'
    BY <1>2, <2>5, <2>6, <2>7 DEF DebtInv, OneDebt
  <2> QED BY <1>2, <2>5, <2>8 DEF DebtInv
<1>4. CASE WriteReply(c)
  <2>1. \A d \in Clients : /\ task'[d] = IF d = c THEN "reading" ELSE task[d]
                           /\ oneshot'[d] = IF d = c THEN NoReply ELSE oneshot[d]
    BY <1>4 DEF WriteReply, TypeOK
  <2>2. oneshot[c].ready /\ ~NoReply.ready
    BY <1>4 DEF WriteReply, NoReply, Empty, Reply
  <2>3. OneAsked' /\ \A d : Asked(d)' <=> Asked(d)
    BY <1>4 DEF WriteReply, DebtInv, OneAsked, Asked
  <2>4. ASSUME NEW d \in Clients PROVE OneDebt(d)'
    BY <1>2, <2>1, <2>2, <2>3 DEF DebtInv, OneDebt
  <2> QED BY <1>2, <2>3, <2>4 DEF DebtInv
<1> QED BY <1>3, <1>4

LEMMA NextDebts ==
    ASSUME TypeOK, DebtInv, [Next]_vars
    PROVE  DebtInv'
<1> USE DEF store, peers, history
<1>1. CASE RefuseEntry
  BY <1>1, AnswersCommand DEF RefuseEntry, Empty, Reply
<1>2. CASE ReadEntries
  <2>1. \E r : r.ready /\ Answer(Head(inbox).client, r)
    BY <1>2 DEF ReadEntries, Empty, Reply
  <2> QED BY <1>2, <2>1, AnswersCommand DEF ReadEntries
<1>3. CASE ExecSet
  BY <1>3, AnswersCommand DEF ExecSet, Empty, Reply
<1>4. ASSUME NEW id \in timers, TimerFires(id) PROVE DebtInv'
  <2>1. TimeoutXread(id) \in Envelopes /\ TimeoutXread(id).type # "WithReply"
    BY DEF TimeoutXread, Envelopes, TypeOK
  <2>2. OneAsked' /\ \A d : Asked(d)' <=> Asked(d)
    BY <1>4, <2>1, SendsOther DEF TimerFires, DebtInv
  <2>3. UNCHANGED <<task, oneshot, waiters, waiter_id>>
    BY <1>4 DEF TimerFires
  <2> QED BY <2>2, <2>3 DEF DebtInv, OneWaiter, OneDebt, Waiting
<1>5. CASE Tick \/ UNCHANGED vars
  BY <1>5 DEF Tick, vars, DebtInv, OneAsked, OneWaiter, OneDebt, Asked, Waiting
<1> QED BY <1>1, <1>2, <1>3, <1>4, <1>5, AddEntryDebts, BlockDebts, TimeoutDebts,
           ClientStepDebts DEF Next, StoreStep

LEMMA InitDebts == Init => DebtInv
<1> SUFFICES ASSUME Init PROVE DebtInv
  OBVIOUS
<1>1. Len(inbox) = 0
  BY DEF Init
<1>2. ASSUME NEW c \in Clients PROVE OneDebt(c)
  BY <1>1 DEF Init, OneDebt, Asked, Waiting, NoReply, Empty, Reply
<1> QED BY <1>1, <1>2 DEF Init, DebtInv, OneAsked, OneWaiter

(* An XADD and a timeout that meet never both answer a reader, nor neither:
   every client task that awaits a reply is owed exactly one, and a task that
   awaits nothing is owed none.                                              *)
THEOREM RepliesOwedOnce == Spec => []OwedExactlyOnce
<1>1. ASSUME TypeOK, DebtInv PROVE OwedExactlyOnce
  <2> SUFFICES ASSUME NEW c \in Clients
               PROVE  Cardinality(Debts(c)) = IF task[c] = "awaiting" THEN 1 ELSE 0
    BY DEF OwedExactlyOnce
  <2>1. PICK envelopes, mine :
          /\ envelopes = {j \in 1..Len(inbox) : /\ inbox[j].type = "WithReply"
                                               /\ inbox[j].client = c}
          /\ mine = {v \in waiters : v.client = c}
    OBVIOUS
  <2> DEFINE asked    == {<<"inbox", i>> : i \in envelopes}
             waiting  == {<<"waiter", w.id>> : w \in mine}
             answered == {<<"oneshot", 0>> : d \in {r \in {oneshot[c].ready} : r}}
  <2>2. Debts(c) = asked \cup waiting \cup answered
    BY <2>1 DEF Debts
  <2>3. IF Asked(c) THEN \E x : asked = {x} ELSE asked = {}
    <3>1. CASE Asked(c)
      <4>1. PICK i \in 1..Len(inbox) : inbox[i].type = "WithReply" /\ inbox[i].client = c
        BY <3>1 DEF Asked
      <4>2. envelopes = {i}
        BY <1>1, <2>1, <4>1 DEF DebtInv, OneAsked
      <4> QED BY <3>1, <4>2
    <3>2. CASE ~Asked(c)
      <4>1. envelopes = {}
        BY <2>1, <3>2 DEF Asked
      <4> QED BY <3>2, <4>1
    <3> QED BY <3>1, <3>2
  <2>4. IF Waiting(c) THEN \E x : waiting = {x} ELSE waiting = {}
    <3>1. CASE Waiting(c)
      <4>1. PICK w \in waiters : w.client = c
        BY <3>1 DEF Waiting
      <4>2. mine = {w}
        BY <1>1, <2>1, <4>1 DEF DebtInv, OneWaiter
      <4> QED BY <3>1, <4>2
    <3>2. CASE ~Waiting(c)
      <4>1. mine = {}
        BY <2>1, <3>2 DEF Waiting
      <4> QED BY <3>2, <4>1
    <3> QED BY <3>1, <3>2
  <2>5. IF oneshot[c].ready THEN \E x : answered = {x} ELSE answered = {}
    OBVIOUS
  <2>6. OneDebt(c)
    BY <1>1 DEF DebtInv
  <2> HIDE DEF asked, waiting, answered
  <2>7. IF task[c] = "awaiting" THEN \E x : Debts(c) = {x} ELSE Debts(c) = {}
    BY <2>2, <2>3, <2>4, <2>5, <2>6 DEF OneDebt
  <2> QED BY <2>7, FS_EmptySet, FS_Singleton
<1> QED BY <1>1, TypeCorrect, InitDebts, NextDebts, PTL DEF Spec
=============================================================================
