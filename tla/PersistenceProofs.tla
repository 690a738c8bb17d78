-------------------------- MODULE PersistenceProofs --------------------------
(***************************************************************************)
(* Theorems about Persistence for any clients, keys, times to live, RDB     *)
(* file and bounds: what a server has shown survives its crashes.           *)
(***************************************************************************)
EXTENDS Persistence, WellFoundedInduction, TLAPS

(* A sequence with one element more. *)
LEMMA Appended ==
    ASSUME NEW S, NEW s \in Seq(S), NEW e \in S
    PROVE  /\ Append(s, e) \in Seq(S) /\ Len(Append(s, e)) = Len(s) + 1 /\ Len(s) \in Nat
           /\ \A i \in 1..Len(s) : Append(s, e)[i] = s[i]
           /\ Append(s, e)[Len(s) + 1] = e
  OBVIOUS

(* A sequence without its first element. *)
LEMMA Taken ==
    ASSUME NEW S, NEW s \in Seq(S), s # << >>
    PROVE  /\ Head(s) \in S /\ Head(s) = s[1] /\ Len(s) \in Nat /\ Len(s) > 0
           /\ Tail(s) \in Seq(S) /\ Len(Tail(s)) = Len(s) - 1
           /\ \A i \in 1..(Len(s) - 1) : Tail(s)[i] = s[i + 1]
  OBVIOUS

(* A sequence without elements. *)
LEMMA EmptyType ==
    ASSUME NEW S
    PROVE  << >> \in Seq(S)
  OBVIOUS

(* The elements of a sequence. *)
LEMMA ElementOf ==
    ASSUME NEW S, NEW s \in Seq(S), NEW i \in 1..Len(s)
    PROVE  s[i] \in S
  OBVIOUS

(* The beginning of a sequence. *)
LEMMA Cut ==
    ASSUME NEW S, NEW s \in Seq(S), NEW n \in 0..Len(s)
    PROVE  /\ SubSeq(s, 1, n) \in Seq(S) /\ Len(SubSeq(s, 1, n)) = n
           /\ \A i \in 1..n : SubSeq(s, 1, n)[i] = s[i]
  OBVIOUS

(* Two sequences, one behind the other. *)
LEMMA Joined ==
    ASSUME NEW S, NEW s \in Seq(S), NEW t \in Seq(S)
    PROVE  /\ s \o t \in Seq(S) /\ Len(s \o t) = Len(s) + Len(t)
           /\ Len(s) \in Nat /\ Len(t) \in Nat
           /\ \A i \in 1..Len(s) : (s \o t)[i] = s[i]
           /\ \A i \in 1..Len(t) : (s \o t)[Len(s) + i] = t[i]
  OBVIOUS

(* The end of a sequence. *)
LEMMA Rest ==
    ASSUME NEW S, NEW s \in Seq(S), NEW n \in 1..Len(s)
    PROVE  /\ SubSeq(s, n + 1, Len(s)) \in Seq(S) /\ Len(SubSeq(s, n + 1, Len(s))) = Len(s) - n
           /\ \A i \in 1..(Len(s) - n) : SubSeq(s, n + 1, Len(s))[i] = s[n + i]
  OBVIOUS

(* A set of integers that has a bound has a greatest element. *)
LEMMA GreatestExists ==
    ASSUME NEW S \in SUBSET Int, S # {}, NEW n \in Int, \A m \in S : m <= n
    PROVE  \E m \in S : \A other \in S : other <= m
<1> DEFINE Below == {p \in Nat \X Nat : p[1] < p[2]}
           Gaps  == {n - m : m \in S}
<1>1. IsWellFoundedOn(Below, Nat)
  BY NatLessThanWellFounded, Zenon DEF OpToRel
<1>2. Gaps \in SUBSET Nat /\ Gaps # {}
  <2>1. \A m \in S : n - m \in Nat
    OBVIOUS
  <2> QED BY <2>1
<1>3. PICK gap \in Gaps : \A other \in Gaps : ~ (<<other, gap>> \in Below)
  <2> HIDE DEF Below, Gaps
  <2> QED BY <1>1, <1>2, WFMin, Zenon
<1>4. PICK m \in S : gap = n - m
  BY <1>3
<1>5. ASSUME NEW other \in S PROVE other <= m
  <2>1. n - other \in Gaps /\ n - other \in Nat /\ n - m \in Nat
    BY <1>2
  <2>2. ~ (n - other < n - m)
    BY <1>3, <1>4, <2>1
  <2> QED BY <2>1, <2>2
<1> QED BY <1>5

-----------------------------------------------------------------------------
(* Type correctness.                                                       *)

(* What clients send, and what is in the file. *)
LEMMA CommandTypes ==
    ASSUME NEW cmd \in Commands
    PROVE  /\ cmd.op \in {"set", "txset", "incr", "get"} /\ cmd.key \in Keys
           /\ cmd.set \in Nat /\ cmd.ttl \in Nat \cup {NoTtl}
<1>1. /\ cmd.op \in {"set", "txset", "incr", "get"} /\ cmd.key \in Keys
      /\ cmd.set \in Nat /\ cmd.ttl \in Ttls \cup {NoTtl}
  BY DEF Commands
<1>2. cmd.ttl \in Nat \cup {NoTtl}
  BY <1>1, TtlsAssumption
<1> QED BY <1>1, <1>2

LEMMA InInbox ==
    ASSUME TypeOK, NEW j \in 1..Len(inbox)
    PROVE  /\ inbox[j].client \in Clients /\ inbox[j].command \in Commands
           /\ inbox[j].command.key \in Keys /\ inbox[j].command.set \in Nat
<1>1. inbox \in Seq([client : Clients, command : Commands])
  BY DEF TypeOK
<1>2. inbox[j] \in [client : Clients, command : Commands]
  BY <1>1, ElementOf, Zenon
<1>3. inbox[j].client \in Clients /\ inbox[j].command \in Commands
  BY <1>2
<1> QED BY <1>3, CommandTypes

(* A SET in the inbox may be in the file, whole or as a piece. *)
LEMMA SetEntry ==
    ASSUME NEW cmd \in Commands, cmd.op = "set"
    PROVE  cmd \in Entries /\ Piece(cmd) \in Entries /\ Piece(cmd).op = "piece"
  BY DEF Commands, Entries, Piece

(* What entries are. *)
LEMMA EntryTypes ==
    ASSUME NEW e \in Entries
    PROVE  /\ e.op \in {"set", "piece", "garbled"} /\ e.key \in Keys \cup {OtherKey}
           /\ e.set \in Nat \cup {Garbled} /\ e.ttl \in Ttls \cup {NoTtl}
           /\ e.ttl \in Nat \cup {NoTtl}
           /\ e.op = "set" => e \in Commands
           /\ e.op = "garbled" => e.set = Garbled
           /\ Piece(e) \in Entries /\ Piece(e).op = "piece"
<1>1. /\ e.op \in {"set", "piece", "garbled"} /\ e.key \in Keys \cup {OtherKey}
      /\ e.set \in Nat \cup {Garbled} /\ e.ttl \in Ttls \cup {NoTtl}
  BY DEF Entries
<1>2. e.ttl \in Nat \cup {NoTtl}
  BY <1>1, TtlsAssumption
<1>3. /\ e.op = "set" => e \in Commands
      /\ e.op = "garbled" => e.set = Garbled
  BY DEF Entries, Commands
<1>4. Piece(e) \in Entries /\ Piece(e).op = "piece"
  BY DEF Piece, Entries
<1> QED BY <1>1, <1>2, <1>3, <1>4

(* Entry i of the file is a SET, and a SET that nobody sent, for key k. *)
Entry(i) == i \in 1..Len(log) /\ log[i].op = "set"
Garbles(i, k) == log[i].op = "garbled" /\ log[i].key = k

LEMMA InFile ==
    ASSUME TypeOK, NEW i \in 1..Len(log), Entry(i)
    PROVE  /\ log[i] \in Commands /\ log[i].key \in Keys /\ log[i].set \in Nat
           /\ log[i].ttl \in Nat \cup {NoTtl}
<1>1. log \in Seq(Entries)
  BY DEF TypeOK
<1>2. log[i] \in Entries
  BY <1>1, ElementOf
<1>3. log[i] \in Commands
  BY <1>2, EntryTypes DEF Entry
<1> QED BY <1>3, CommandTypes

LEMMA DataTypes ==
    ASSUME TypeOK, NEW k \in Keys
    PROVE  /\ data[k] \in Values
           /\ data[k].set \in Nat \cup {NoSet, Garbled}
           /\ data[k].incrs \in Nat
           /\ data[k].expire \in Nat \cup {Never}
<1>1. Absent \in Values
  BY DEF Absent, Value, Values, NoSet, Never
<1>2. data[k] \in Values
  BY <1>1 DEF TypeOK
<1> QED BY <1>2 DEF Values

(* The request at the head of the inbox is a client's command. *)
LEMMA HeadTypes ==
    ASSUME TypeOK, NEW op, Takes(op)
    PROVE  /\ Head(inbox).client \in Clients /\ Head(inbox).command \in Commands
           /\ Head(inbox).command.key \in Keys /\ Head(inbox).command.set \in Nat
           /\ Head(inbox).command.ttl \in Nat \cup {NoTtl}
           /\ Head(inbox) = inbox[1] /\ 1 \in 1..Len(inbox) /\ Len(inbox) \in Nat
           /\ Head(inbox).command.op = op /\ server = "serving"
<1>1. inbox \in Seq([client : Clients, command : Commands]) /\ inbox # << >>
  BY DEF TypeOK, Takes
<1>2. /\ Head(inbox) \in [client : Clients, command : Commands]
      /\ Head(inbox) = inbox[1] /\ Len(inbox) \in Nat /\ Len(inbox) > 0
  BY <1>1, Taken
<1>3. Head(inbox).client \in Clients /\ Head(inbox).command \in Commands
  BY <1>2
<1> QED BY <1>2, <1>3, CommandTypes DEF Takes

(* A SET leaves a value, also when nobody sent it. *)
LEMMA SetData ==
    ASSUME TypeOK, NEW cmd, cmd.set \in Nat \cup {Garbled}, cmd.ttl \in Nat \cup {NoTtl}, Set(cmd)
    PROVE  data' \in [Keys -> Values \cup {Absent}]
<1>1. now \in Nat
  BY DEF TypeOK
<1>2. Deadline(cmd.ttl) \in Nat \cup {Never}
  BY <1>1 DEF Deadline
<1>3. Value(cmd.set, 0, Deadline(cmd.ttl)) \in Values
  BY <1>2 DEF Value, Values
<1> QED BY <1>3 DEF Set, TypeOK

(* A SET that a client sent has a deadline that is remembered. *)
LEMMA SetTypes ==
    ASSUME TypeOK, NEW cmd \in Commands, Set(cmd), Remember(cmd)
    PROVE  /\ data' \in [Keys -> Values \cup {Absent}]
           /\ DOMAIN due' \subseteq Nat /\ due' \in [DOMAIN due' -> Nat \cup {Never}]
<1>1. now \in Nat /\ cmd.set \in Nat /\ cmd.ttl \in Nat \cup {NoTtl}
  BY CommandTypes DEF TypeOK
<1>2. FirstDeadline(cmd) \in Nat \cup {Never}
  BY <1>1 DEF FirstDeadline
<1>3. data' \in [Keys -> Values \cup {Absent}]
  BY <1>1, SetData
<1>4. DOMAIN due \subseteq Nat /\ \A n \in DOMAIN due : due[n] \in Nat \cup {Never}
  BY DEF TypeOK
<1>5. /\ DOMAIN due' = DOMAIN due \cup {cmd.set}
      /\ \A n \in DOMAIN due' : due'[n] \in Nat \cup {Never}
      /\ due' = [n \in DOMAIN due' |-> due'[n]]
  BY <1>2, <1>4 DEF Remember
<1> QED BY <1>1, <1>3, <1>4, <1>5

(* The store answers the head of the inbox and takes it away. *)
LEMMA AnswerTypes ==
    ASSUME TypeOK, NEW op, Takes(op), NEW k \in Keys, NEW n \in Nat \cup {NoSet, Garbled}, AnswerHead(k, n)
    PROVE  /\ inbox' \in Seq([client : Clients, command : Commands])
           /\ oneshot' \in [Clients -> {NoReply} \cup [ready : {TRUE}, key : Keys, set : Nat \cup {NoSet, Garbled}]]
<1>1. inbox \in Seq([client : Clients, command : Commands]) /\ inbox # << >>
  BY DEF TypeOK, Takes
<1>2. inbox' \in Seq([client : Clients, command : Commands])
  BY <1>1, Taken DEF AnswerHead
<1>3. Reply(k, n) \in [ready : {TRUE}, key : Keys, set : Nat \cup {NoSet, Garbled}]
  BY DEF Reply
<1> QED BY <1>2, <1>3 DEF AnswerHead, TypeOK

(* What is kept of the promise about a key: nothing, or something that is still
   in a file, and nothing later than before.                                  *)
LEMMA StillPromisedIs ==
    ASSUME NEW file \in Seq(Entries), NEW k \in Keys, NEW n \in Nat \cup {NoSet}
    PROVE  /\ StillPromised(file, k, n) \in {NoSet} \cup Survivors(file, k)
           /\ StillPromised(file, k, n) \in Nat \cup {NoSet}
<1> DEFINE left == {NoSet} \cup {m \in Survivors(file, k) : m <= n}
<1>1. Survivors(file, k) \subseteq Nat \cup {NoSet}
  <2>1. ASSUME NEW i \in 1..Len(file), file[i].op = "set" PROVE file[i].set \in Nat
    <3>1. file[i] \in Commands
      BY <2>1, ElementOf, EntryTypes
    <3> QED BY <3>1, CommandTypes
  <2>2. RdbFile[k].set \in Nat \cup {NoSet}
    BY RdbFileAssumption DEF FromFile, Absent, Value
  <2> QED BY <2>1, <2>2 DEF Survivors
<1>2. left \in SUBSET Int /\ left # {} /\ (\A m \in left : m <= n) /\ n \in Int
  BY <1>1 DEF NoSet, Garbled
<1>3. \E m \in left : \A other \in left : other <= m
  <2> HIDE DEF left
  <2> QED BY <1>2, GreatestExists, Zenon
<1>4. StillPromised(file, k, n) \in left
  <2>1. StillPromised(file, k, n) = CHOOSE m \in left : \A other \in left : other <= m
    BY DEF StillPromised
  <2> HIDE DEF left
  <2> QED BY <1>3, <2>1
<1> QED BY <1>1, <1>4

LEMMA PromiseTypes ==
    ASSUME TypeOK, log' \in Seq(Entries), LosesPromises
    PROVE  /\ seen' \in [Keys -> Nat \cup {NoSet}]
           /\ \A k \in Keys : seen'[k] \in {NoSet} \cup Survivors(log', k)
<1>1. ASSUME NEW k \in Keys
      PROVE  /\ seen'[k] = StillPromised(log', k, seen[k])
             /\ StillPromised(log', k, seen[k]) \in {NoSet} \cup Survivors(log', k)
             /\ StillPromised(log', k, seen[k]) \in Nat \cup {NoSet}
  <2>1. seen[k] \in Nat \cup {NoSet} /\ seen'[k] = StillPromised(log', k, seen[k])
    BY DEF TypeOK, LosesPromises
  <2> QED BY <2>1, StillPromisedIs
<1> QED BY <1>1 DEF LosesPromises

(* While a file is replayed there is no piece in it, and nobody writes to it. *)
Replaying ==
    /\ server = "replaying" =>
          /\ replayed <= Len(log)
          /\ \A i \in 1..Len(log) : log[i].op # "piece"
    /\ server \in {"down", "loading"} => replayed = 0
    /\ server = "loading" => data = RdbFile

TypeInv == TypeOK /\ Replaying

(* What is replayed is a SET, or one that nobody sent. *)
LEMMA ReplayTypes ==
    ASSUME TypeInv, Replay
    PROVE  /\ replayed + 1 \in 1..Len(log) /\ replayed \in Nat
           /\ \/ /\ Entry(replayed + 1) /\ log[replayed + 1] \in Commands
                 /\ Set(log[replayed + 1]) /\ Remember(log[replayed + 1])
              \/ /\ Garbles(replayed + 1, log[replayed + 1].key)
                 /\ log[replayed + 1].key \in Keys /\ log[replayed + 1].ttl \in Nat \cup {NoTtl}
                 /\ Set(log[replayed + 1]) /\ UNCHANGED due
              \/ /\ Garbles(replayed + 1, OtherKey)
                 /\ UNCHANGED <<data, due>>
           /\ log[replayed + 1].set \in Nat \cup {Garbled}
<1>1. replayed \in Nat /\ Len(log) \in Nat /\ replayed < Len(log) /\ server = "replaying"
  BY DEF TypeInv, TypeOK, Replay
<1>2. replayed + 1 \in 1..Len(log)
  BY <1>1
<1>3. log[replayed + 1] \in Entries
  BY <1>2, ElementOf DEF TypeInv, TypeOK
<1>4. /\ log[replayed + 1].op = "set" => log[replayed + 1] \in Commands
      /\ log[replayed + 1].set \in Nat \cup {Garbled}
      /\ log[replayed + 1].ttl \in Nat \cup {NoTtl}
  BY <1>3, EntryTypes
<1> QED BY <1>1, <1>2, <1>4 DEF Replay, Entry, Garbles

LEMMA TypeInit == Init => TypeInv
<1> SUFFICES ASSUME Init PROVE TypeInv
  OBVIOUS
<1>1. data \in [Keys -> Values \cup {Absent}] /\ seen \in [Keys -> Nat \cup {NoSet}]
  BY DEF Init, Nothing
<1>2. /\ inbox \in Seq([client : Clients, command : Commands])
      /\ log \in Seq(Entries)
  BY EmptyType DEF Init
<1>3. /\ oneshot \in [Clients -> {NoReply} \cup [ready : {TRUE}, key : Keys, set : Nat \cup {NoSet, Garbled}]]
      /\ task \in [Clients -> {"idle", "awaiting"}]
  BY DEF Init
<1>4. /\ sent \in [set : Nat, incr : Nat] /\ volatile \subseteq Nat
      /\ DOMAIN due \subseteq Nat /\ due \in [DOMAIN due -> Nat \cup {Never}]
  BY DEF Init
<1>5. server = "down" /\ replayed = 0 /\ appended = FALSE /\ now = 0 /\ faults = 0
  BY DEF Init
<1> QED BY <1>1, <1>2, <1>3, <1>4, <1>5 DEF TypeInv, TypeOK, Replaying

LEMMA SendTypes ==
    ASSUME TypeOK, NEW c \in Clients, Send(c)
    PROVE  TypeOK'
<1>1. PICK k \in Keys :
          \/ /\ \E ttl \in Ttls, op \in {"set", "txset"} :
                   Enqueue(Request(c, Command(op, k, sent.set + 1, ttl)))
             /\ sent' = [sent EXCEPT !.set = @ + 1]
          \/ /\ Enqueue(Request(c, Command("incr", k, 0, NoTtl)))
             /\ sent' = [sent EXCEPT !.incr = @ + 1]
          \/ /\ Enqueue(Request(c, Command("get", k, 0, NoTtl)))
             /\ UNCHANGED sent
  BY DEF Send
<1>2. sent \in [set : Nat, incr : Nat] /\ sent' \in [set : Nat, incr : Nat]
  BY <1>1 DEF TypeOK
<1>3. PICK r : r \in [client : Clients, command : Commands] /\ Enqueue(r)
  <2>1. \A op \in {"set", "txset", "incr", "get"}, ttl \in Ttls \cup {NoTtl}, n \in Nat :
           Request(c, Command(op, k, n, ttl)) \in [client : Clients, command : Commands]
    BY DEF Request, Command, Commands
  <2>2. sent.set + 1 \in Nat
    BY <1>2
  <2> QED BY <1>1, <2>1, <2>2
<1>4. inbox' \in Seq([client : Clients, command : Commands])
  BY <1>3, Appended DEF Enqueue, TypeOK
<1>5. task' \in [Clients -> {"idle", "awaiting"}]
  BY DEF Send, TypeOK
<1>6. UNCHANGED <<server, data, replayed, appended, oneshot, log, now, faults, history>>
  BY DEF Send
<1> QED BY <1>2, <1>4, <1>5, <1>6 DEF TypeOK, history

LEMMA StopTypes ==
    ASSUME TypeOK, StopProcess,
           log' \in Seq(Entries), seen' \in [Keys -> Nat \cup {NoSet}]
    PROVE  TypeOK'
<1>1. data' \in [Keys -> Values \cup {Absent}]
  BY DEF StopProcess, Nothing
<1>2. /\ server' = "down" /\ replayed' = 0 /\ appended' = FALSE
      /\ faults' = faults + 1 /\ UNCHANGED <<now, sent, volatile, due>>
  BY DEF StopProcess
<1>3. inbox' \in Seq([client : Clients, command : Commands])
  BY EmptyType DEF StopProcess
<1>4. /\ oneshot' \in [Clients -> {NoReply} \cup [ready : {TRUE}, key : Keys, set : Nat \cup {NoSet, Garbled}]]
      /\ task' \in [Clients -> {"idle", "awaiting"}]
  BY DEF StopProcess
<1>5. now' \in Nat /\ faults' \in Nat /\ sent' \in [set : Nat, incr : Nat]
  BY <1>2 DEF TypeOK
<1>6. /\ volatile' \subseteq Nat
      /\ DOMAIN due' \subseteq Nat /\ due' \in [DOMAIN due' -> Nat \cup {Never}]
  BY <1>2 DEF TypeOK
<1>7. /\ server' \in {"down", "loading", "replaying", "serving", "dead"}
      /\ replayed' \in Nat /\ appended' \in BOOLEAN
  BY <1>2
<1> QED BY <1>1, <1>3, <1>4, <1>5, <1>6, <1>7, Zenon DEF TypeOK

(* A power loss leaves the beginning of the file, and maybe a piece. *)
LEMMA KeptTypes ==
    ASSUME TypeOK, PowerLoss
    PROVE  /\ log' \in Seq(Entries)
           /\ \A i \in 1..Len(log') :
                 log'[i].op = "piece" \/ (i \in 1..Len(log) /\ log'[i] = log[i])
<1>1. log \in Seq(Entries) /\ Len(log) \in Nat
  BY DEF TypeOK
<1>2. PICK n \in 0..Len(log) :
          \/ log' = SubSeq(log, 1, n)
          \/ n < Len(log) /\ log' = Append(SubSeq(log, 1, n), Piece(log[n + 1]))
  BY DEF PowerLoss
<1>3. PICK kept : kept = SubSeq(log, 1, n)
  OBVIOUS
<1>4. /\ kept \in Seq(Entries) /\ Len(kept) = n
      /\ \A i \in 1..n : kept[i] = log[i]
  BY <1>1, <1>3, Cut
<1>5. CASE log' = kept
  BY <1>1, <1>4, <1>5
<1>6. CASE n < Len(log) /\ log' = Append(kept, Piece(log[n + 1]))
  <2>1. Piece(log[n + 1]) \in Entries /\ Piece(log[n + 1]).op = "piece"
    <3>1. n + 1 \in 1..Len(log)
      BY <1>1, <1>6
    <3> QED BY <1>1, <3>1, ElementOf, EntryTypes
  <2>2. /\ log' \in Seq(Entries) /\ Len(log') = n + 1
        /\ \A i \in 1..n : log'[i] = kept[i]
        /\ log'[n + 1].op = "piece"
    BY <1>4, <1>6, <2>1, Appended
  <2> QED BY <1>1, <1>4, <2>2
<1> QED BY <1>2, <1>3, <1>5, <1>6

(* A piece that is misread stands for itself and for what follows it. *)
LEMMA MisreadTypes ==
    ASSUME TypeOK, Misread
    PROVE  /\ log' \in Seq(Entries)
           /\ \E i \in 1..Len(log), d \in Nat :
                 /\ \A p \in 1..Len(log') :
                       /\ p < i => p \in 1..Len(log) /\ log'[p] = log[p]
                       /\ p > i => p + d \in 1..Len(log) /\ log'[p] = log[p + d]
                 /\ log'[i].op = "garbled"
<1>1. log \in Seq(Entries) /\ Len(log) \in Nat
  BY DEF TypeOK
<1>2. PICK i \in 1..Len(log) : \E j \in (i + 1)..Len(log) : \E g \in MisreadAs(i, j) :
          log' = ReadAsOne(log, i, j, g)
  BY DEF Misread
<1>3. PICK j \in (i + 1)..Len(log) : \E g \in MisreadAs(i, j) :
          log' = ReadAsOne(log, i, j, g)
  BY <1>2
<1>4. PICK g \in MisreadAs(i, j) :
          log' = ReadAsOne(log, i, j, g)
  BY <1>3
<1>5. g \in Entries /\ g.op = "garbled"
  <2>1. log[i].key \in Keys \cup {OtherKey}
    BY <1>1, ElementOf, EntryTypes
  <2>2. ASSUME NEW m \in (i + 1)..j PROVE log[m].ttl \in Ttls \cup {NoTtl}
    <3>1. m \in 1..Len(log)
      BY <1>1
    <3> QED BY <1>1, <3>1, ElementOf, EntryTypes
  <2> QED BY <1>4, <2>1, <2>2 DEF MisreadAs, Entries
<1>6. PICK d \in Nat : d = j - i
  BY <1>1
<1>7. /\ log' \in Seq(Entries) /\ Len(log') = Len(log) - d
      /\ \A p \in 1..(i - 1) : log'[p] = log[p]
      /\ log'[i] = g
      /\ \A p \in (i + 1)..Len(log') : log'[p] = log[p + d]
  <2> DEFINE a == SubSeq(log, 1, i - 1)
             b == SubSeq(log, j + 1, Len(log))
             ag == a \o <<g>>
  <2>1. i \in Nat /\ j \in Nat /\ Len(log) \in Nat /\ i - 1 \in 0..Len(log) /\ j \in 1..Len(log)
    BY <1>1
  <2>2. a \in Seq(Entries) /\ Len(a) = i - 1 /\ \A p \in 1..(i - 1) : a[p] = log[p]
    BY <1>1, <2>1, Cut
  <2>3. /\ b \in Seq(Entries) /\ Len(b) = Len(log) - j
        /\ \A p \in 1..(Len(log) - j) : b[p] = log[j + p]
    BY <1>1, <2>1, Rest
  <2>4. <<g>> \in Seq(Entries) /\ Len(<<g>>) = 1 /\ <<g>>[1] = g
    BY <1>5
  <2> HIDE DEF a, b
  <2>5. /\ ag \in Seq(Entries) /\ Len(ag) = i /\ \A p \in 1..(i - 1) : ag[p] = log[p]
        /\ ag[i] = g
    BY <2>1, <2>2, <2>4, Joined
  <2> HIDE DEF ag
  <2>6. /\ log' \in Seq(Entries) /\ Len(log') = i + Len(b)
        /\ \A p \in 1..i : log'[p] = ag[p]
        /\ \A p \in 1..Len(b) : log'[i + p] = b[p]
    <3>1. log' = ag \o b
      BY <1>4 DEF ReadAsOne, ag, a, b
    <3>2. ag \in Seq(Entries) /\ b \in Seq(Entries) /\ Len(ag) = i
      BY <2>3, <2>5
    <3>3. ag \o b \in Seq(Entries) /\ Len(ag \o b) = Len(ag) + Len(b)
      BY <3>2
    <3>4. \A p \in 1..Len(ag) : (ag \o b)[p] = ag[p]
      BY <3>2
    <3>5. \A p \in 1..Len(b) : (ag \o b)[Len(ag) + p] = b[p]
      BY <3>2
    <3> QED BY <3>1, <3>2, <3>3, <3>4, <3>5
  <2>7. Len(log') = Len(log) - d /\ Len(b) = Len(log) - j
    BY <1>6, <2>1, <2>3, <2>6
  <2>8. (\A p \in 1..(i - 1) : log'[p] = log[p]) /\ log'[i] = g
    BY <2>1, <2>5, <2>6
  <2>9. ASSUME NEW p \in (i + 1)..Len(log') PROVE log'[p] = log[p + d]
    <3>1. PICK q \in Nat : q = p - i
      BY <2>1, <2>7
    <3>2. q \in 1..Len(b) /\ q \in 1..(Len(log) - j) /\ p = i + q /\ j + q = p + d
      BY <1>6, <2>1, <2>7, <3>1
    <3> QED BY <2>3, <2>6, <3>2
  <2> QED BY <2>6, <2>7, <2>8, <2>9
<1>8. ASSUME NEW p \in 1..Len(log')
      PROVE  /\ p < i => p \in 1..Len(log) /\ log'[p] = log[p]
             /\ p > i => p + d \in 1..Len(log) /\ log'[p] = log[p + d]
  <2>1. i \in Nat /\ Len(log) \in Nat /\ Len(log') = Len(log) - d /\ i <= Len(log)
    BY <1>1, <1>7
  <2>2. CASE p < i
    <3>1. p \in 1..(i - 1) /\ p \in 1..Len(log)
      BY <2>1, <2>2
    <3> QED BY <1>7, <2>2, <3>1
  <2>3. CASE p > i
    <3>1. p \in (i + 1)..Len(log') /\ p + d \in 1..Len(log)
      BY <2>1, <2>3
    <3> QED BY <1>7, <2>1, <2>3, <3>1
  <2>4. CASE p = i
    BY <2>1, <2>4
  <2> QED BY <2>1, <2>2, <2>3, <2>4
<1> QED BY <1>5, <1>7, <1>8

LEMMA TypeStep ==
    ASSUME TypeInv, [Next]_vars
    PROVE  TypeInv'
<1> USE DEF process, world, history
<1>1. TypeOK /\ Replaying
  BY DEF TypeInv
<1>2. CASE Start
  <2>1. RdbFile \in [Keys -> Values \cup {Absent}]
    BY RdbFileAssumption
  <2> QED BY <1>1, <1>2, <2>1 DEF Start, TypeInv, TypeOK, Replaying, Entry
<1>3. CASE GetInitialCommands
  <2>1. TypeOK'
    <3>1. inbox' \in Seq([client : Clients, command : Commands])
      BY <1>1, <1>3, EmptyType DEF GetInitialCommands, TypeOK
    <3>2. /\ server' \in {"replaying", "dead"} /\ replayed' = 0
          /\ UNCHANGED <<data, appended, oneshot, task, world, history>>
      BY <1>3 DEF GetInitialCommands
    <3> QED BY <1>1, <3>1, <3>2 DEF TypeOK
  <2>2. /\ log' = log /\ replayed' = 0 /\ Len(log) \in Nat
        /\ server' \in {"replaying", "dead"} /\ (server' = "replaying" => Parses(log))
    BY <1>1, <1>3 DEF GetInitialCommands, TypeOK
  <2>3. Replaying'
    BY <2>2 DEF Replaying, Parses
  <2> QED BY <2>1, <2>3 DEF TypeInv
<1>4. CASE Replay
  <2>1. /\ replayed + 1 \in 1..Len(log) /\ server = "replaying"
        /\ UNCHANGED <<server, appended, inbox, oneshot, task, world, seen, volatile>>
        /\ replayed' = replayed + 1
    BY <1>4, ReplayTypes DEF Replay
  <2>2. /\ data' \in [Keys -> Values \cup {Absent}]
        /\ DOMAIN due' \subseteq Nat /\ due' \in [DOMAIN due' -> Nat \cup {Never}]
    <3>1. CASE /\ log[replayed + 1] \in Commands
               /\ Set(log[replayed + 1]) /\ Remember(log[replayed + 1])
      BY <1>1, <3>1, SetTypes
    <3>2. CASE /\ Set(log[replayed + 1]) /\ UNCHANGED due
               /\ log[replayed + 1].ttl \in Nat \cup {NoTtl}
      <4>1. data' \in [Keys -> Values \cup {Absent}]
        BY <1>1, <1>4, <3>2, ReplayTypes, SetData
      <4> QED BY <1>1, <3>2, <4>1 DEF TypeOK
    <3>3. CASE UNCHANGED <<data, due>>
      BY <1>1, <3>3 DEF TypeOK
    <3> QED BY <1>4, <3>1, <3>2, <3>3, ReplayTypes
  <2>3. replayed' \in Nat /\ replayed' <= Len(log)
    BY <1>1, <2>1 DEF TypeOK
  <2>4. TypeOK'
    BY <1>1, <2>1, <2>2, <2>3 DEF TypeOK
  <2> QED BY <1>1, <2>1, <2>3, <2>4 DEF TypeInv, Replaying
<1>5. CASE Serve
  BY <1>1, <1>5 DEF Serve, TypeInv, TypeOK, Replaying
<1>6. CASE AppendSet
  <2>1. log' \in Seq(Entries) /\ server = "serving"
    <3>1. log \in Seq(Entries) /\ log' = Append(log, Head(inbox).command)
      BY <1>1, <1>6 DEF AppendSet, TypeOK
    <3>2. Head(inbox).command \in Entries /\ server = "serving"
      BY <1>1, <1>6, HeadTypes, SetEntry DEF AppendSet
    <3> QED BY <3>1, <3>2, Appended
  <2> QED BY <1>1, <1>6, <2>1 DEF AppendSet, TypeInv, TypeOK, Replaying
<1>7. CASE AppendFails
  <2>1. log' \in Seq(Entries)
    <3>1. log' \in {log, Append(log, Piece(Head(inbox).command))} /\ log \in Seq(Entries)
      BY <1>1, <1>7 DEF AppendFails, TypeOK
    <3>2. Piece(Head(inbox).command) \in Entries
      BY <1>1, <1>7, HeadTypes, SetEntry DEF AppendFails
    <3> QED BY <3>1, <3>2, Appended
  <2>2. server = "serving" /\ Head(inbox).command.set \in Nat
    BY <1>1, <1>7, HeadTypes DEF AppendFails
  <2>3. volatile' \subseteq Nat /\ faults' \in Nat /\ appended' = TRUE
    BY <1>1, <1>7, <2>2 DEF AppendFails, TypeOK
  <2>4. UNCHANGED <<server, data, replayed, inbox, oneshot, task, now, sent, seen, due>>
    BY <1>7 DEF AppendFails
  <2> QED BY <1>1, <2>1, <2>2, <2>3, <2>4 DEF TypeInv, TypeOK, Replaying
<1>8. CASE ExecSet
  <2>1. Takes("set") /\ server = "serving"
    BY <1>8 DEF ExecSet, Takes
  <2>2. /\ data' \in [Keys -> Values \cup {Absent}]
        /\ DOMAIN due' \subseteq Nat /\ due' \in [DOMAIN due' -> Nat \cup {Never}]
    BY <1>1, <1>8, <2>1, HeadTypes, SetTypes DEF ExecSet
  <2>3. /\ inbox' \in Seq([client : Clients, command : Commands])
        /\ oneshot' \in [Clients -> {NoReply} \cup [ready : {TRUE}, key : Keys, set : Nat \cup {NoSet, Garbled}]]
    BY <1>1, <1>8, <2>1, HeadTypes, AnswerTypes DEF ExecSet
  <2> QED BY <1>1, <1>8, <2>1, <2>2, <2>3 DEF ExecSet, TypeInv, TypeOK, Replaying
<1>9. CASE ExecTxSet
  <2>1. Takes("txset") /\ server = "serving" /\ Head(inbox).command.set \in Nat
    BY <1>1, <1>9, HeadTypes DEF ExecTxSet, Takes
  <2>2. /\ data' \in [Keys -> Values \cup {Absent}]
        /\ DOMAIN due' \subseteq Nat /\ due' \in [DOMAIN due' -> Nat \cup {Never}]
    BY <1>1, <1>9, <2>1, HeadTypes, SetTypes DEF ExecTxSet
  <2>3. /\ inbox' \in Seq([client : Clients, command : Commands])
        /\ oneshot' \in [Clients -> {NoReply} \cup [ready : {TRUE}, key : Keys, set : Nat \cup {NoSet, Garbled}]]
    BY <1>1, <1>9, <2>1, HeadTypes, AnswerTypes DEF ExecTxSet
  <2> QED BY <1>1, <1>9, <2>1, <2>2, <2>3 DEF ExecTxSet, TypeInv, TypeOK, Replaying
<1>10. CASE ExecIncr
  <2> DEFINE k == Head(inbox).command.key
  <2>1. Takes("incr") /\ server = "serving" /\ k \in Keys
    BY <1>1, <1>10, HeadTypes DEF ExecIncr, Takes
  <2>2. data[k] \in Values /\ data[k].set \in Nat \cup {NoSet, Garbled} /\ data[k].incrs \in Nat
    BY <1>1, <2>1, DataTypes
  <2>3. Incremented(data[k]) \subseteq Values
    BY <2>2 DEF Incremented, Increment, Values
  <2>4. data' \in [Keys -> Values \cup {Absent}]
    BY <1>1, <1>10, <2>3 DEF ExecIncr, TypeOK
  <2>5. /\ inbox' \in Seq([client : Clients, command : Commands])
        /\ oneshot' \in [Clients -> {NoReply} \cup [ready : {TRUE}, key : Keys, set : Nat \cup {NoSet, Garbled}]]
    BY <1>1, <1>10, <2>1, <2>2, AnswerTypes DEF ExecIncr
  <2> QED BY <1>1, <1>10, <2>1, <2>4, <2>5 DEF ExecIncr, TypeInv, TypeOK, Replaying
<1>11. CASE ExecGet
  <2> DEFINE k == Head(inbox).command.key
  <2>1. Takes("get") /\ server = "serving" /\ k \in Keys
    BY <1>1, <1>11, HeadTypes DEF ExecGet, Takes
  <2>2. (IF Expired(data[k]) THEN NoSet ELSE data[k].set) \in Nat \cup {NoSet, Garbled}
    BY <1>1, <2>1, DataTypes
  <2>3. /\ inbox' \in Seq([client : Clients, command : Commands])
        /\ oneshot' \in [Clients -> {NoReply} \cup [ready : {TRUE}, key : Keys, set : Nat \cup {NoSet, Garbled}]]
    BY <1>1, <1>11, <2>1, <2>2, AnswerTypes DEF ExecGet
  <2> QED BY <1>1, <1>11, <2>1, <2>3 DEF ExecGet, TypeInv, TypeOK, Replaying
<1>12. CASE \E c \in Clients : Send(c)
  <2>1. PICK c \in Clients : Send(c)
    BY <1>12
  <2>2. TypeOK'
    BY <1>1, <2>1, SendTypes
  <2>3. UNCHANGED <<server, data, replayed, log>>
    BY <2>1 DEF Send
  <2> QED BY <1>1, <2>2, <2>3 DEF TypeInv, Replaying, Entry
<1>13. CASE \E c \in Clients : WriteReply(c)
  <2>1. PICK c \in Clients : WriteReply(c)
    BY <1>13
  <2>2. oneshot[c] \in [ready : {TRUE}, key : Keys, set : Nat \cup {NoSet, Garbled}]
    <3>1. oneshot[c] \in {NoReply} \cup [ready : {TRUE}, key : Keys, set : Nat \cup {NoSet, Garbled}]
      BY <1>1 DEF TypeOK
    <3>2. oneshot[c] # NoReply
      BY <2>1 DEF WriteReply, NoReply
    <3> QED BY <3>1, <3>2
  <2>3. seen' \in [Keys -> Nat \cup {NoSet}]
    BY <1>1, <2>1, <2>2 DEF WriteReply, TypeOK
  <2>4. /\ oneshot' = [oneshot EXCEPT ![c] = NoReply] /\ task' = [task EXCEPT ![c] = "idle"]
        /\ UNCHANGED <<server, data, replayed, appended, inbox, world, volatile, due>>
    BY <2>1 DEF WriteReply
  <2> QED BY <1>1, <2>3, <2>4 DEF TypeInv, TypeOK, Replaying, Entry
<1>14. CASE \E c \in Clients : PanicUnanswered(c)
  <2>1. PICK c \in Clients : PanicUnanswered(c)
    BY <1>14
  <2>2. task' \in [Clients -> {"idle", "awaiting"}]
    BY <1>1, <2>1 DEF PanicUnanswered, TypeOK
  <2>3. UNCHANGED <<server, data, replayed, appended, inbox, oneshot, world, history>>
    BY <2>1 DEF PanicUnanswered
  <2>4. TypeOK'
    BY <1>1, <2>2, <2>3 DEF TypeOK
  <2> QED BY <1>1, <2>3, <2>4 DEF TypeInv, Replaying, Entry
<1>15. CASE Tick
  <2>1. now' \in Nat /\ UNCHANGED <<process, log, sent, faults, history>>
    BY <1>1, <1>15 DEF Tick, TypeOK
  <2>2. TypeOK'
    BY <1>1, <2>1 DEF TypeOK
  <2> QED BY <1>1, <2>1, <2>2 DEF TypeInv, Replaying, Entry
<1>16. CASE Crash
  <2>1. TypeOK'
    BY <1>1, <1>16, StopTypes DEF Crash, TypeOK
  <2> QED BY <1>16, <2>1 DEF Crash, StopProcess, TypeInv, Replaying
<1>17. CASE PowerLoss
  <2>1. log' \in Seq(Entries)
    BY <1>1, <1>17, KeptTypes
  <2>3. seen' \in [Keys -> Nat \cup {NoSet}]
    BY <1>1, <1>17, <2>1, PromiseTypes DEF PowerLoss
  <2>4. StopProcess
    BY <1>17 DEF PowerLoss
  <2>5. TypeOK'
    BY <1>1, <2>1, <2>3, <2>4, StopTypes
  <2> QED BY <2>4, <2>5 DEF StopProcess, TypeInv, Replaying
<1>18. CASE Misread
  <2>1. /\ log' \in Seq(Entries) /\ server = "loading"
        /\ UNCHANGED <<process, now, sent, faults, volatile, due>>
    BY <1>1, <1>18, MisreadTypes DEF Misread
  <2>2. seen' \in [Keys -> Nat \cup {NoSet}]
    BY <1>1, <1>18, <2>1, PromiseTypes DEF Misread
  <2>3. TypeOK'
    BY <1>1, <2>1, <2>2 DEF TypeOK
  <2> QED BY <1>1, <2>1, <2>3 DEF TypeInv, Replaying
<1>19. CASE UNCHANGED vars
  BY <1>1, <1>19 DEF vars, TypeInv, TypeOK, Replaying
<1> QED
  BY <1>2, <1>3, <1>4, <1>5, <1>6, <1>7, <1>8, <1>9, <1>10, <1>11, <1>12, <1>13, <1>14,
     <1>15, <1>16, <1>17, <1>18, <1>19 DEF Next, StoreStep

LEMMA TypesHold == Spec => []TypeInv
<1>1. TypeInv /\ [Next]_vars => TypeInv'
  BY TypeStep
<1> QED BY TypeInit, <1>1, PTL DEF Spec

(* The variables keep their types, in particular the numbers of SETs. *)
THEOREM TypeCorrect == Spec => []TypeOK
<1>1. TypeInv => TypeOK
  BY DEF TypeInv
<1> QED BY TypesHold, <1>1, PTL

-----------------------------------------------------------------------------
(* The order of SETs in the file and in the inbox.                          *)

(* Commands that write, and that carry the number of their SET. *)
Writes(cmd) == cmd.op \in {"set", "txset"}

(* SETs are numbered as they are sent, and the file and the inbox keep that
   order: what is in the file was sent before what is in the inbox, but for
   the head of the inbox between its append and its execution.               *)
NumbersSent ==
    /\ \A i \in 1..Len(log) : Entry(i) => log[i].set \in 1..sent.set
    /\ \A j \in 1..Len(inbox) : Writes(inbox[j].command) => inbox[j].command.set \in 1..sent.set
    /\ \A k \in Keys : data[k].set <= sent.set
    /\ \A n \in DOMAIN due : n <= sent.set

LogOrdered ==
    \A i, j \in 1..Len(log) : Entry(i) /\ Entry(j) /\ i < j => log[i].set < log[j].set

InboxOrdered ==
    \A i, j \in 1..Len(inbox) :
        Writes(inbox[i].command) /\ Writes(inbox[j].command) /\ i < j
            => inbox[i].command.set < inbox[j].command.set

LogBeforeInbox ==
    \A i \in 1..Len(log), j \in 1..Len(inbox) :
        Entry(i) /\ Writes(inbox[j].command) =>
            \/ log[i].set < inbox[j].command.set
            \/ j = 1 /\ appended /\ log[i] = inbox[j].command

ExecutedBeforeInbox ==
    \A j \in 1..Len(inbox) : Writes(inbox[j].command) =>
        /\ \A k \in Keys : data[k].set < inbox[j].command.set
        /\ \A n \in DOMAIN due : n < inbox[j].command.set

OrderInv == NumbersSent /\ LogOrdered /\ InboxOrdered /\ LogBeforeInbox /\ ExecutedBeforeInbox

(* The head of the inbox is on its way between its append and its execution. *)
HeadAppended ==
    appended => server = "serving" /\ inbox # << >> /\ inbox[1].command.op = "set"

(* A failed write adds at most a piece. *)
LEMMA FailedEntry ==
    ASSUME TypeOK, AppendFails
    PROVE  /\ \A i \in 1..Len(log) : i \in 1..Len(log') /\ log'[i] = log[i]
           /\ \A i \in 1..Len(log') :
                 log'[i].op = "piece" \/ (i \in 1..Len(log) /\ log'[i] = log[i])
<1>1. log \in Seq(Entries) /\ Len(log) \in Nat
  BY DEF TypeOK
<1>2. log' \in {log, Append(log, Piece(Head(inbox).command))}
  BY DEF AppendFails
<1>3. Piece(Head(inbox).command) \in Entries /\ Piece(Head(inbox).command).op = "piece"
  BY HeadTypes, SetEntry DEF AppendFails
<1>4. CASE log' = Append(log, Piece(Head(inbox).command))
  <2>1. /\ Len(log') = Len(log) + 1 /\ log'[Len(log) + 1].op = "piece"
        /\ \A i \in 1..Len(log) : log'[i] = log[i]
    BY <1>1, <1>3, <1>4, Appended
  <2> QED BY <1>1, <2>1
<1>5. CASE log' = log
  BY <1>5
<1> QED BY <1>2, <1>4, <1>5

(* A failed write, and a power loss, leave no SETs that were not there. *)
LEMMA FewerEntries ==
    ASSUME TypeOK, AppendFails \/ PowerLoss
    PROVE  \A i \in 1..Len(log') : log'[i].op = "set" => Entry(i) /\ log'[i] = log[i]
  BY FailedEntry, KeptTypes DEF Entry

(* Nor does a piece that is misread, and the others stay in their order. *)
LEMMA MisreadEntries ==
    ASSUME TypeOK, Misread
    PROVE  \E i \in 1..Len(log), d \in Nat :
              \A p \in 1..Len(log') : log'[p].op = "set" =>
                  /\ p # i
                  /\ p < i => Entry(p) /\ log'[p] = log[p]
                  /\ p > i => Entry(p + d) /\ log'[p] = log[p + d]
<1>1. PICK i \in 1..Len(log), d \in Nat :
          /\ \A p \in 1..Len(log') :
                /\ p < i => p \in 1..Len(log) /\ log'[p] = log[p]
                /\ p > i => p + d \in 1..Len(log) /\ log'[p] = log[p + d]
          /\ log'[i].op = "garbled"
  BY MisreadTypes
<1>2. ASSUME NEW p \in 1..Len(log'), log'[p].op = "set"
      PROVE  /\ p # i
             /\ p < i => Entry(p) /\ log'[p] = log[p]
             /\ p > i => Entry(p + d) /\ log'[p] = log[p + d]
  BY <1>1, <1>2 DEF Entry
<1> QED BY <1>2

(* An append leaves the entries that were there and the head of the inbox. *)
LEMMA AppendedEntry ==
    ASSUME TypeOK, AppendSet
    PROVE  /\ \A i \in 1..Len(log) : i \in 1..Len(log') /\ log'[i] = log[i]
           /\ \A i \in 1..Len(log') :
                 \/ i \in 1..Len(log) /\ log'[i] = log[i]
                 \/ i = Len(log) + 1 /\ log'[i] = inbox[1].command
           /\ Len(log) + 1 \in 1..Len(log') /\ log'[Len(log) + 1] = inbox[1].command
           /\ Len(log) \in Nat
<1>1. log \in Seq(Entries) /\ Len(log) \in Nat
  BY DEF TypeOK
<1>2. /\ Head(inbox).command \in Commands /\ Head(inbox) = inbox[1]
      /\ log' = Append(log, Head(inbox).command)
  BY HeadTypes DEF AppendSet
<1>3. /\ Len(log') = Len(log) + 1 /\ log'[Len(log) + 1] = Head(inbox).command
      /\ \A i \in 1..Len(log) : log'[i] = log[i]
  <2>1. Head(inbox).command \in Entries
    BY <1>2, HeadTypes, SetEntry DEF AppendSet
  <2> QED BY <1>1, <1>2, <2>1, Appended
<1> QED BY <1>1, <1>2, <1>3

(* After a command the next one is the head of the inbox. *)
LEMMA TakenInbox ==
    ASSUME TypeOK, NEW op, Takes(op), NEW k, NEW n, AnswerHead(k, n)
    PROVE  \A j \in 1..Len(inbox') :
              j + 1 \in 1..Len(inbox) /\ inbox'[j] = inbox[j + 1] /\ 1 < j + 1
<1>1. inbox \in Seq([client : Clients, command : Commands]) /\ inbox # << >> /\ inbox' = Tail(inbox)
  BY DEF TypeOK, Takes, AnswerHead
<1> QED BY <1>1, Taken

(* A request is sent behind those in the inbox, and a SET has the next number. *)
LEMMA SentInbox ==
    ASSUME TypeOK, NEW c \in Clients, Send(c)
    PROVE  /\ \A j \in 1..Len(inbox) : j \in 1..Len(inbox') /\ inbox'[j] = inbox[j]
           /\ \A j \in 1..Len(inbox') :
                 \/ j \in 1..Len(inbox) /\ inbox'[j] = inbox[j]
                 \/ /\ j = Len(inbox) + 1
                    /\ Writes(inbox'[j].command) =>
                          inbox'[j].command.set = sent.set + 1 /\ sent'.set = sent.set + 1
           /\ sent'.set \in {sent.set, sent.set + 1}
           /\ sent.set \in Nat /\ Len(inbox) \in Nat
<1>1. PICK k \in Keys :
          \/ /\ \E ttl \in Ttls, op \in {"set", "txset"} :
                   Enqueue(Request(c, Command(op, k, sent.set + 1, ttl)))
             /\ sent' = [sent EXCEPT !.set = @ + 1]
          \/ /\ Enqueue(Request(c, Command("incr", k, 0, NoTtl)))
             /\ sent' = [sent EXCEPT !.incr = @ + 1]
          \/ /\ Enqueue(Request(c, Command("get", k, 0, NoTtl)))
             /\ UNCHANGED sent
  BY DEF Send
<1>2. /\ sent \in [set : Nat, incr : Nat] /\ sent.set \in Nat
      /\ inbox \in Seq([client : Clients, command : Commands]) /\ Len(inbox) \in Nat
  BY DEF TypeOK
<1>3. sent'.set \in {sent.set, sent.set + 1}
  BY <1>1, <1>2
<1>4. PICK r : /\ Enqueue(r)
               /\ r \in [client : Clients, command : Commands]
               /\ Writes(r.command) => r.command.set = sent.set + 1 /\ sent'.set = sent.set + 1
  <2>1. \A op \in {"set", "txset", "incr", "get"}, ttl \in Ttls \cup {NoTtl}, n \in Nat :
           /\ Request(c, Command(op, k, n, ttl)) \in [client : Clients, command : Commands]
           /\ Request(c, Command(op, k, n, ttl)).command.set = n
           /\ Writes(Request(c, Command(op, k, n, ttl)).command) => op \in {"set", "txset"}
    BY DEF Request, Command, Commands, Writes
  <2>2. sent.set + 1 \in Nat
    BY <1>2
  <2>3. CASE /\ \E ttl \in Ttls, op \in {"set", "txset"} :
                   Enqueue(Request(c, Command(op, k, sent.set + 1, ttl)))
             /\ sent' = [sent EXCEPT !.set = @ + 1]
    <3>1. sent'.set = sent.set + 1
      BY <1>2, <2>3
    <3> QED BY <2>1, <2>2, <2>3, <3>1
  <2>4. CASE Enqueue(Request(c, Command("incr", k, 0, NoTtl)))
    BY <2>1, <2>4
  <2>5. CASE Enqueue(Request(c, Command("get", k, 0, NoTtl)))
    BY <2>1, <2>5
  <2> QED BY <1>1, <2>3, <2>4, <2>5
<1>5. CASE inbox' = inbox
  BY <1>2, <1>3, <1>5
<1>6. CASE inbox' = Append(inbox, r)
  <2>1. /\ Len(inbox') = Len(inbox) + 1 /\ inbox'[Len(inbox) + 1] = r
        /\ \A j \in 1..Len(inbox) : inbox'[j] = inbox[j]
    BY <1>2, <1>4, <1>6, Appended
  <2> QED BY <1>2, <1>3, <1>4, <2>1
<1> QED BY <1>4, <1>5, <1>6 DEF Enqueue

(* A SET gives its key its number, and remembers a deadline. *)
LEMMA SetGives ==
    ASSUME TypeOK, NEW cmd, cmd.key \in Keys, Set(cmd)
    PROVE  /\ data'[cmd.key] = Value(cmd.set, 0, Deadline(cmd.ttl)) /\ data'[cmd.key].set = cmd.set
           /\ data'[cmd.key].expire = Deadline(cmd.ttl)
           /\ \A k \in Keys : k # cmd.key => data'[k] = data[k]
  BY DEF Set, TypeOK, Value

LEMMA SetNumbers ==
    ASSUME TypeOK, NEW cmd \in Commands, Set(cmd), Remember(cmd)
    PROVE  /\ data'[cmd.key] = Value(cmd.set, 0, Deadline(cmd.ttl)) /\ data'[cmd.key].set = cmd.set
           /\ \A k \in Keys : k # cmd.key => data'[k] = data[k]
           /\ DOMAIN due' = DOMAIN due \cup {cmd.set}
           /\ \A n \in DOMAIN due : due'[n] = due[n]
           /\ cmd.set \notin DOMAIN due => due'[cmd.set] = FirstDeadline(cmd)
<1>1. cmd.key \in Keys
  BY CommandTypes
<1>2. /\ data'[cmd.key] = Value(cmd.set, 0, Deadline(cmd.ttl)) /\ data'[cmd.key].set = cmd.set
      /\ \A k \in Keys : k # cmd.key => data'[k] = data[k]
  BY <1>1, SetGives
<1> QED BY <1>2 DEF Remember, TypeOK

(* What a replay of an entry does to the data, and to the deadlines. *)
LEMMA ReplayGives ==
    ASSUME TypeInv, Replay
    PROVE  LET e == replayed + 1 IN
           /\ e \in 1..Len(log) /\ replayed \in Nat
           /\ \/ /\ Entry(e) /\ log[e] \in Commands /\ log[e].key \in Keys
                 /\ Set(log[e]) /\ Remember(log[e])
                 /\ data'[log[e].key].set = log[e].set
                 /\ \A k \in Keys : k # log[e].key => data'[k] = data[k]
                 /\ \A k \in Keys : ~Garbles(e, k)
                 /\ DOMAIN due' = DOMAIN due \cup {log[e].set}
              \/ /\ log[e].op = "garbled" /\ due' = due
                 /\ \A k \in Keys : \/ data'[k] = data[k] /\ ~Garbles(e, k)
                                    \/ data'[k].set = Garbled /\ Garbles(e, k)
<1> DEFINE e == replayed + 1
<1>1. /\ TypeOK /\ e \in 1..Len(log) /\ replayed \in Nat
      /\ \/ /\ Entry(e) /\ log[e] \in Commands /\ Set(log[e]) /\ Remember(log[e])
         \/ /\ Garbles(e, log[e].key) /\ log[e].key \in Keys /\ log[e].ttl \in Nat \cup {NoTtl}
            /\ Set(log[e]) /\ UNCHANGED due
         \/ /\ Garbles(e, OtherKey) /\ UNCHANGED <<data, due>>
      /\ log[e] \in Entries
  BY ReplayTypes, ElementOf DEF TypeInv, TypeOK
<1> HIDE DEF e
<1>2. CASE Entry(e) /\ log[e] \in Commands /\ Set(log[e]) /\ Remember(log[e])
  <2>1. /\ log[e].key \in Keys /\ data'[log[e].key].set = log[e].set
        /\ \A k \in Keys : k # log[e].key => data'[k] = data[k]
        /\ DOMAIN due' = DOMAIN due \cup {log[e].set}
    BY <1>1, <1>2, SetNumbers, CommandTypes
  <2>2. \A k \in Keys : ~Garbles(e, k)
    BY <1>2 DEF Entry, Garbles
  <2> QED BY <1>1, <1>2, <2>1, <2>2 DEF e
<1>3. CASE Garbles(e, log[e].key) /\ log[e].key \in Keys /\ Set(log[e]) /\ UNCHANGED due
  <2>1. /\ data'[log[e].key].set = log[e].set
        /\ \A k \in Keys : k # log[e].key => data'[k] = data[k]
    BY <1>1, <1>3, SetGives
  <2>2. log[e].set = Garbled
    BY <1>1, <1>3, EntryTypes DEF Garbles
  <2> QED BY <1>1, <1>3, <2>1, <2>2 DEF Garbles, e
<1>4. CASE Garbles(e, OtherKey) /\ UNCHANGED <<data, due>>
  BY <1>1, <1>4, OtherKeyAssumption DEF Garbles, e
<1> QED BY <1>1, <1>2, <1>3, <1>4

(* The numbers of entries and of requests that write. *)
LEMMA Numbers ==
    ASSUME TypeOK, NumbersSent
    PROVE  /\ sent.set \in Nat
           /\ \A i \in 1..Len(log) : Entry(i) => log[i].set \in Nat /\ log[i].set \in 1..sent.set
           /\ \A j \in 1..Len(inbox) :
                 Writes(inbox[j].command) =>
                     inbox[j].command.set \in Nat /\ inbox[j].command.set \in 1..sent.set
           /\ \A k \in Keys : data[k].set \in Nat \cup {NoSet, Garbled}
           /\ \A n \in DOMAIN due : n \in Nat
<1>1. sent.set \in Nat /\ \A n \in DOMAIN due : n \in Nat
  BY DEF TypeOK
<1>2. \A i \in 1..Len(log) : Entry(i) => log[i].set \in Nat /\ log[i].set \in 1..sent.set
  BY InFile DEF NumbersSent
<1>3. \A j \in 1..Len(inbox) :
         Writes(inbox[j].command) =>
             inbox[j].command.set \in Nat /\ inbox[j].command.set \in 1..sent.set
  BY InInbox DEF NumbersSent
<1>4. \A k \in Keys : data[k].set \in Nat \cup {NoSet, Garbled}
  BY DataTypes
<1> QED BY <1>1, <1>2, <1>3, <1>4

(* Steps that touch neither the file nor the inbox, and set no new number. *)
LEMMA OrderKept ==
    ASSUME TypeOK, OrderInv, UNCHANGED <<log, inbox, sent, due, appended>>,
           \A k \in Keys : data'[k].set \in {data[k].set, NoSet, Garbled, FromFile}
    PROVE  OrderInv'
<1>1. NumbersSent' /\ ExecutedBeforeInbox'
  <2>1. \A k \in Keys : data'[k].set <= sent.set
    BY Numbers DEF OrderInv, NumbersSent, NoSet, Garbled, FromFile
  <2>2. NumbersSent'
    BY <2>1 DEF OrderInv, NumbersSent, Entry
  <2>3. ASSUME NEW j \in 1..Len(inbox), Writes(inbox[j].command), NEW k \in Keys
        PROVE  data'[k].set < inbox[j].command.set
    BY <2>3, Numbers DEF OrderInv, ExecutedBeforeInbox, NoSet, Garbled, FromFile
  <2>4. ExecutedBeforeInbox'
    BY <2>3 DEF OrderInv, ExecutedBeforeInbox
  <2> QED BY <2>2, <2>4
<1>2. LogOrdered' /\ InboxOrdered' /\ LogBeforeInbox'
  BY DEF OrderInv, LogOrdered, InboxOrdered, LogBeforeInbox, Entry
<1> QED BY <1>1, <1>2 DEF OrderInv

(* Steps that empty the inbox. *)
LEMMA OrderEmptied ==
    ASSUME TypeOK, OrderInv, inbox' = << >>, UNCHANGED <<sent, due>>,
           \A i \in 1..Len(log') : log'[i].op = "set" => Entry(i) /\ log'[i] = log[i],
           \A k \in Keys : data'[k].set \in {data[k].set, NoSet}
    PROVE  OrderInv'
<1>1. NumbersSent'
  <2>1. \A k \in Keys : data'[k].set <= sent.set
    BY Numbers DEF OrderInv, NumbersSent, NoSet
  <2>2. \A i \in 1..Len(log') : log'[i].op = "set" => log'[i].set \in 1..sent.set
    BY DEF OrderInv, NumbersSent, Entry
  <2> QED BY <2>1, <2>2 DEF OrderInv, NumbersSent, Entry
<1>2. LogOrdered'
  BY DEF OrderInv, LogOrdered, Entry
<1>3. InboxOrdered' /\ LogBeforeInbox' /\ ExecutedBeforeInbox'
  BY DEF InboxOrdered, LogBeforeInbox, ExecutedBeforeInbox
<1> QED BY <1>1, <1>2, <1>3 DEF OrderInv

(* A piece that is misread takes SETs away. *)
LEMMA OrderMisread ==
    ASSUME TypeOK, OrderInv, Misread
    PROVE  OrderInv'
<1>1. UNCHANGED <<inbox, sent, due, data, appended>>
  BY DEF Misread, process
<1>2. PICK i \in 1..Len(log), d \in Nat :
          \A p \in 1..Len(log') : log'[p].op = "set" =>
              /\ p # i
              /\ p < i => Entry(p) /\ log'[p] = log[p]
              /\ p > i => Entry(p + d) /\ log'[p] = log[p + d]
  BY MisreadEntries
<1>3. ASSUME NEW p \in 1..Len(log'), log'[p].op = "set"
      PROVE  \E q \in 1..Len(log) : /\ Entry(q) /\ log'[p] = log[q]
                                    /\ p < i => q = p
                                    /\ p > i => q = p + d
  BY <1>2, <1>3 DEF Entry
<1>4. NumbersSent'
  <2>1. \A p \in 1..Len(log') : log'[p].op = "set" => log'[p].set \in 1..sent.set
    BY <1>3 DEF OrderInv, NumbersSent
  <2> QED BY <1>1, <2>1 DEF OrderInv, NumbersSent, Entry
<1>5. LogOrdered'
  <2>1. SUFFICES ASSUME NEW p \in 1..Len(log'), NEW q \in 1..Len(log'),
                        log'[p].op = "set", log'[q].op = "set", p < q
                 PROVE  log'[p].set < log'[q].set
    BY DEF LogOrdered, Entry
  <2>2. PICK x \in 1..Len(log) : /\ Entry(x) /\ log'[p] = log[x]
                                 /\ p < i => x = p
                                 /\ p > i => x = p + d
    BY <1>3, <2>1
  <2>3. PICK y \in 1..Len(log) : /\ Entry(y) /\ log'[q] = log[y]
                                 /\ q < i => y = q
                                 /\ q > i => y = q + d
    BY <1>3, <2>1
  <2>4. x < y
    BY <1>2, <2>1, <2>2, <2>3
  <2> QED BY <2>2, <2>3, <2>4 DEF OrderInv, LogOrdered
<1>6. InboxOrdered' /\ ExecutedBeforeInbox'
  BY <1>1 DEF OrderInv, InboxOrdered, ExecutedBeforeInbox
<1>7. LogBeforeInbox'
  <2>1. SUFFICES ASSUME NEW p \in 1..Len(log'), NEW j \in 1..Len(inbox),
                        log'[p].op = "set", Writes(inbox[j].command)
                 PROVE  \/ log'[p].set < inbox[j].command.set
                        \/ j = 1 /\ appended /\ log'[p] = inbox[j].command
    BY <1>1 DEF LogBeforeInbox, Entry
  <2>2. PICK x \in 1..Len(log) : Entry(x) /\ log'[p] = log[x]
    BY <1>3, <2>1
  <2> QED BY <2>1, <2>2 DEF OrderInv, LogBeforeInbox
<1> QED BY <1>4, <1>5, <1>6, <1>7 DEF OrderInv

(* Steps that execute the head of the inbox. *)
LEMMA OrderTaken ==
    ASSUME TypeOK, OrderInv, NEW op, Takes(op), NEW key, NEW num, AnswerHead(key, num),
           UNCHANGED <<log, sent>>,
           \A k \in Keys : \/ data'[k].set = data[k].set
                           \/ Writes(inbox[1].command) /\ data'[k].set = inbox[1].command.set,
           \A n \in DOMAIN due' : \/ n \in DOMAIN due
                                  \/ Writes(inbox[1].command) /\ n = inbox[1].command.set
    PROVE  OrderInv'
<1>1. 1 \in 1..Len(inbox)
  BY HeadTypes
<1>2. \A j \in 1..Len(inbox') : j + 1 \in 1..Len(inbox) /\ inbox'[j] = inbox[j + 1] /\ 1 < j + 1
  BY TakenInbox
<1>3. NumbersSent'
  <2>1. \A k \in Keys : data'[k].set <= sent.set
    BY <1>1, Numbers DEF OrderInv, NumbersSent
  <2>2. \A n \in DOMAIN due' : n <= sent.set
    BY <1>1, Numbers DEF OrderInv, NumbersSent
  <2>3. \A j \in 1..Len(inbox') : Writes(inbox'[j].command) => inbox'[j].command.set \in 1..sent.set
    BY <1>2 DEF OrderInv, NumbersSent
  <2> QED BY <2>1, <2>2, <2>3 DEF OrderInv, NumbersSent, Entry
<1>4. LogOrdered'
  BY DEF OrderInv, LogOrdered, Entry
<1>5. InboxOrdered'
  <2>1. SUFFICES ASSUME NEW i \in 1..Len(inbox'), NEW j \in 1..Len(inbox'),
                        Writes(inbox'[i].command), Writes(inbox'[j].command), i < j
                 PROVE  inbox'[i].command.set < inbox'[j].command.set
    BY DEF InboxOrdered
  <2>2. /\ i + 1 \in 1..Len(inbox) /\ inbox'[i] = inbox[i + 1]
        /\ j + 1 \in 1..Len(inbox) /\ inbox'[j] = inbox[j + 1] /\ i + 1 < j + 1
    BY <1>2, <2>1
  <2> QED BY <2>1, <2>2 DEF OrderInv, InboxOrdered
<1>6. LogBeforeInbox'
  <2>1. SUFFICES ASSUME NEW i \in 1..Len(log), NEW j \in 1..Len(inbox'),
                        Entry(i), Writes(inbox'[j].command)
                 PROVE  log[i].set < inbox'[j].command.set
    BY DEF LogBeforeInbox, Entry
  <2>2. j + 1 \in 1..Len(inbox) /\ inbox'[j] = inbox[j + 1] /\ j + 1 # 1
    BY <1>2
  <2> QED BY <2>1, <2>2 DEF OrderInv, LogBeforeInbox
<1>7. ExecutedBeforeInbox'
  <2>1. SUFFICES ASSUME NEW j \in 1..Len(inbox'), Writes(inbox'[j].command)
                 PROVE  /\ \A k \in Keys : data'[k].set < inbox'[j].command.set
                        /\ \A n \in DOMAIN due' : n < inbox'[j].command.set
    BY DEF ExecutedBeforeInbox
  <2>2. j + 1 \in 1..Len(inbox) /\ inbox'[j] = inbox[j + 1] /\ 1 < j + 1
    BY <1>2
  <2>3. Writes(inbox[1].command) => inbox[1].command.set < inbox'[j].command.set
    BY <1>1, <2>1, <2>2 DEF OrderInv, InboxOrdered
  <2>4. /\ \A k \in Keys : data[k].set < inbox'[j].command.set
        /\ \A n \in DOMAIN due : n < inbox'[j].command.set
    BY <2>1, <2>2 DEF OrderInv, ExecutedBeforeInbox
  <2> QED BY <2>3, <2>4
<1> QED BY <1>3, <1>4, <1>5, <1>6, <1>7 DEF OrderInv

LEMMA OrderSend ==
    ASSUME TypeOK, OrderInv, HeadAppended, NEW c \in Clients, Send(c)
    PROVE  OrderInv'
<1>1. UNCHANGED <<log, data, due, appended>>
  BY DEF Send, history
<1>2. /\ \A j \in 1..Len(inbox') :
            \/ j \in 1..Len(inbox) /\ inbox'[j] = inbox[j]
            \/ /\ j = Len(inbox) + 1
               /\ Writes(inbox'[j].command) =>
                     inbox'[j].command.set = sent.set + 1 /\ sent'.set = sent.set + 1
      /\ sent'.set \in {sent.set, sent.set + 1}
      /\ sent.set \in Nat /\ Len(inbox) \in Nat
  BY SentInbox
<1>3. /\ \A i \in 1..Len(log) : Entry(i) => log[i].set <= sent.set
      /\ \A j \in 1..Len(inbox) : Writes(inbox[j].command) =>
            inbox[j].command.set \in Nat /\ inbox[j].command.set <= sent.set
      /\ \A k \in Keys : data[k].set \in Nat \cup {NoSet, Garbled} /\ data[k].set <= sent.set
      /\ \A n \in DOMAIN due : n \in Nat /\ n <= sent.set
  BY Numbers DEF OrderInv, NumbersSent
<1>4. NumbersSent'
  <2>1. \A j \in 1..Len(inbox') : Writes(inbox'[j].command) => inbox'[j].command.set \in 1..sent'.set
    BY <1>2, Numbers DEF OrderInv
  <2>2. \A i \in 1..Len(log) : Entry(i) => log[i].set \in 1..sent'.set
    BY <1>2, Numbers DEF OrderInv
  <2>3. /\ \A k \in Keys : data[k].set <= sent'.set
        /\ \A n \in DOMAIN due : n <= sent'.set
    <3>1. sent.set \in Nat /\ sent'.set \in {sent.set, sent.set + 1}
      BY <1>2
    <3>2. /\ \A k \in Keys : data[k].set \in Int /\ data[k].set <= sent.set
          /\ \A n \in DOMAIN due : n \in Nat /\ n <= sent.set
      BY <1>3 DEF NoSet, Garbled
    <3> QED BY <3>1, <3>2
  <2> QED BY <1>1, <2>1, <2>2, <2>3 DEF NumbersSent, Entry
<1>5. LogOrdered'
  BY <1>1 DEF OrderInv, LogOrdered, Entry
<1>6. InboxOrdered'
  <2>1. SUFFICES ASSUME NEW i \in 1..Len(inbox'), NEW j \in 1..Len(inbox'),
                        Writes(inbox'[i].command), Writes(inbox'[j].command), i < j
                 PROVE  inbox'[i].command.set < inbox'[j].command.set
    BY DEF InboxOrdered
  <2>2. i \in 1..Len(inbox) /\ inbox'[i] = inbox[i]
    BY <1>2, <2>1
  <2>3. CASE j \in 1..Len(inbox) /\ inbox'[j] = inbox[j]
    BY <2>1, <2>2, <2>3 DEF OrderInv, InboxOrdered
  <2>4. CASE inbox'[j].command.set = sent.set + 1
    BY <1>2, <1>3, <2>1, <2>2, <2>4
  <2> QED BY <1>2, <2>1, <2>3, <2>4
<1>7. LogBeforeInbox'
  <2>1. SUFFICES ASSUME NEW i \in 1..Len(log), NEW j \in 1..Len(inbox'),
                        Entry(i), Writes(inbox'[j].command)
                 PROVE  \/ log[i].set < inbox'[j].command.set
                        \/ j = 1 /\ appended /\ log[i] = inbox'[j].command
    BY <1>1 DEF LogBeforeInbox, Entry
  <2>2. CASE j \in 1..Len(inbox) /\ inbox'[j] = inbox[j]
    BY <2>1, <2>2 DEF OrderInv, LogBeforeInbox
  <2>3. CASE inbox'[j].command.set = sent.set + 1
    BY <1>2, <1>3, <2>1, <2>3, Numbers DEF OrderInv
  <2> QED BY <1>2, <2>1, <2>2, <2>3
<1>8. ExecutedBeforeInbox'
  <2>1. SUFFICES ASSUME NEW j \in 1..Len(inbox'), Writes(inbox'[j].command)
                 PROVE  /\ \A k \in Keys : data[k].set < inbox'[j].command.set
                        /\ \A n \in DOMAIN due : n < inbox'[j].command.set
    BY <1>1 DEF ExecutedBeforeInbox
  <2>2. CASE j \in 1..Len(inbox) /\ inbox'[j] = inbox[j]
    BY <2>1, <2>2 DEF OrderInv, ExecutedBeforeInbox
  <2>3. CASE inbox'[j].command.set = sent.set + 1
    <3>1. /\ sent.set \in Nat
          /\ \A k \in Keys : data[k].set \in Int /\ data[k].set <= sent.set
          /\ \A n \in DOMAIN due : n \in Nat /\ n <= sent.set
      BY <1>2, <1>3 DEF NoSet, Garbled
    <3> QED BY <2>3, <3>1
  <2> QED BY <1>2, <2>1, <2>2, <2>3
<1> QED BY <1>4, <1>5, <1>6, <1>7, <1>8 DEF OrderInv

LEMMA OrderAppend ==
    ASSUME TypeOK, OrderInv, AppendSet
    PROVE  OrderInv'
<1>1. /\ UNCHANGED <<data, inbox, sent, due>> /\ ~appended /\ appended' = TRUE
      /\ inbox[1].command.op = "set" /\ 1 \in 1..Len(inbox)
  BY HeadTypes DEF AppendSet, history
<1>2. /\ \A i \in 1..Len(log') : \/ i \in 1..Len(log) /\ log'[i] = log[i]
                                 \/ i = Len(log) + 1 /\ log'[i] = inbox[1].command
      /\ Len(log) \in Nat
  BY AppendedEntry
<1>3. Writes(inbox[1].command) /\ inbox[1].command.set \in 1..sent.set
  BY <1>1 DEF Writes, OrderInv, NumbersSent
<1>4. NumbersSent'
  <2>1. \A i \in 1..Len(log') : log'[i].op = "set" => log'[i].set \in 1..sent.set
    BY <1>2, <1>3 DEF OrderInv, NumbersSent, Entry
  <2> QED BY <1>1, <2>1 DEF OrderInv, NumbersSent, Entry
<1>5. LogOrdered'
  <2>1. SUFFICES ASSUME NEW i \in 1..Len(log'), NEW j \in 1..Len(log'),
                        log'[i].op = "set", log'[j].op = "set", i < j
                 PROVE  log'[i].set < log'[j].set
    BY DEF LogOrdered, Entry
  <2>2. i \in 1..Len(log) /\ log'[i] = log[i] /\ Entry(i)
    BY <1>2, <2>1 DEF Entry
  <2>3. CASE j \in 1..Len(log) /\ log'[j] = log[j]
    BY <2>1, <2>2, <2>3 DEF OrderInv, LogOrdered, Entry
  <2>4. CASE log'[j] = inbox[1].command
    BY <1>1, <1>3, <2>2, <2>4 DEF OrderInv, LogBeforeInbox
  <2> QED BY <1>2, <2>3, <2>4
<1>6. InboxOrdered' /\ ExecutedBeforeInbox'
  BY <1>1 DEF OrderInv, InboxOrdered, ExecutedBeforeInbox
<1>7. LogBeforeInbox'
  <2>1. SUFFICES ASSUME NEW i \in 1..Len(log'), NEW j \in 1..Len(inbox),
                        log'[i].op = "set", Writes(inbox[j].command)
                 PROVE  \/ log'[i].set < inbox[j].command.set
                        \/ j = 1 /\ log'[i] = inbox[j].command
    BY <1>1 DEF LogBeforeInbox, Entry
  <2>2. CASE i \in 1..Len(log) /\ log'[i] = log[i]
    BY <1>1, <2>1, <2>2 DEF OrderInv, LogBeforeInbox, Entry
  <2>3. CASE log'[i] = inbox[1].command
    <3>1. j # 1 => inbox[1].command.set < inbox[j].command.set
      BY <1>1, <1>3, <2>1 DEF OrderInv, InboxOrdered
    <3> QED BY <2>3, <3>1
  <2> QED BY <1>2, <2>2, <2>3
<1> QED BY <1>4, <1>5, <1>6, <1>7 DEF OrderInv

LEMMA OrderFails ==
    ASSUME TypeOK, OrderInv, AppendFails
    PROVE  OrderInv'
<1>1. UNCHANGED <<data, inbox, sent, due>> /\ ~appended /\ appended' = TRUE
  BY DEF AppendFails
<1>2. \A i \in 1..Len(log') : log'[i].op = "set" => Entry(i) /\ log'[i] = log[i]
  BY FewerEntries
<1>3. NumbersSent'
  BY <1>1, <1>2 DEF OrderInv, NumbersSent, Entry
<1>4. LogOrdered'
  BY <1>2 DEF OrderInv, LogOrdered, Entry
<1>5. InboxOrdered' /\ ExecutedBeforeInbox'
  BY <1>1 DEF OrderInv, InboxOrdered, ExecutedBeforeInbox
<1>6. LogBeforeInbox'
  BY <1>1, <1>2 DEF OrderInv, LogBeforeInbox, Entry
<1> QED BY <1>3, <1>4, <1>5, <1>6 DEF OrderInv

LEMMA OrderReplay ==
    ASSUME TypeInv, OrderInv, HeadAppended, Replay
    PROVE  OrderInv'
<1> DEFINE e == replayed + 1
<1>1. e \in 1..Len(log) /\ TypeOK
  BY ReplayTypes DEF TypeInv
<1>2. UNCHANGED <<log, inbox, sent, appended>> /\ ~appended
  BY DEF Replay, world, HeadAppended
<1>3. CASE log[e].op = "garbled"
  <2>1. due' = due /\ \A k \in Keys : data'[k].set \in {data[k].set, Garbled}
    BY <1>3, ReplayGives DEF Entry
  <2> QED BY <1>1, <1>2, <2>1, OrderKept
<1>4. CASE Entry(e)
  <2>1. /\ \A k \in Keys : data'[k].set \in {data[k].set, log[e].set}
        /\ DOMAIN due' = DOMAIN due \cup {log[e].set}
    BY <1>4, ReplayGives DEF Entry
  <2> HIDE DEF e
  <2>2. NumbersSent'
    <3>1. \A k \in Keys : data'[k].set <= sent.set
      BY <1>1, <1>4, <2>1, Numbers DEF OrderInv, NumbersSent
    <3>2. \A n \in DOMAIN due' : n <= sent.set
      BY <1>1, <1>4, <2>1, Numbers DEF OrderInv, NumbersSent
    <3> QED BY <1>2, <3>1, <3>2 DEF OrderInv, NumbersSent, Entry
  <2>3. LogOrdered' /\ InboxOrdered' /\ LogBeforeInbox'
    BY <1>2 DEF OrderInv, LogOrdered, InboxOrdered, LogBeforeInbox, Entry
  <2>4. ExecutedBeforeInbox'
    <3>1. SUFFICES ASSUME NEW j \in 1..Len(inbox), Writes(inbox[j].command)
                   PROVE  /\ \A k \in Keys : data'[k].set < inbox[j].command.set
                          /\ \A n \in DOMAIN due' : n < inbox[j].command.set
      BY <1>2 DEF ExecutedBeforeInbox
    <3>2. log[e].set < inbox[j].command.set
      BY <1>1, <1>2, <1>4, <3>1 DEF OrderInv, LogBeforeInbox
    <3>3. /\ \A k \in Keys : data[k].set < inbox[j].command.set
          /\ \A n \in DOMAIN due : n < inbox[j].command.set
      BY <3>1 DEF OrderInv, ExecutedBeforeInbox
    <3> QED BY <2>1, <3>2, <3>3
  <2> QED BY <2>2, <2>3, <2>4 DEF OrderInv
<1> QED BY <1>3, <1>4, ReplayGives

(* What INCR does to the data. *)
LEMMA IncrNumbers ==
    ASSUME TypeOK, ExecIncr
    PROVE  \A k \in Keys : data'[k].set = data[k].set /\ data'[k].expire = data[k].expire
<1> DEFINE key == Head(inbox).command.key
<1>1. PICK v \in Incremented(data[key]) : data' = [data EXCEPT ![key] = v]
  BY DEF ExecIncr
<1>2. SUFFICES ASSUME NEW k \in Keys
               PROVE  data'[k].set = data[k].set /\ data'[k].expire = data[k].expire
  OBVIOUS
<1>3. CASE k = key
  <2>1. data[k] \in Values /\ data'[k] = v
    BY <1>1, <1>3, DataTypes DEF TypeOK
  <2> QED BY <1>1, <1>3, <2>1 DEF Incremented, Increment, Values
<1>4. CASE k # key
  BY <1>1, <1>4 DEF TypeOK
<1> QED BY <1>3, <1>4

LEMMA FileNumbers == \A k \in Keys : RdbFile[k].set \in {NoSet, FromFile}
  BY RdbFileAssumption DEF Absent, Value

QueueInv == OrderInv /\ HeadAppended

LEMMA QueueInit == Init => QueueInv
<1> SUFFICES ASSUME Init PROVE QueueInv
  OBVIOUS
<1>1. \A k \in Keys : data[k].set = NoSet
  BY DEF Init, Nothing, Absent, Value
<1>2. log = << >> /\ inbox = << >> /\ due = << >> /\ sent.set = 0 /\ appended = FALSE
  BY DEF Init
<1> QED
  BY <1>1, <1>2 DEF QueueInv, OrderInv, HeadAppended, NumbersSent, LogOrdered, InboxOrdered,
                    LogBeforeInbox, ExecutedBeforeInbox, NoSet

LEMMA OrderStep ==
    ASSUME TypeInv, QueueInv, [Next]_vars
    PROVE  OrderInv'
<1>1. TypeOK /\ OrderInv /\ HeadAppended
  BY DEF TypeInv, QueueInv
<1>2. CASE Start
  <2>1. UNCHANGED <<log, inbox, sent, due, appended>> /\ data' = RdbFile
    BY <1>2 DEF Start, world, history
  <2> QED BY <1>1, <2>1, OrderKept, FileNumbers
<1>3. CASE GetInitialCommands
  <2>1. UNCHANGED <<data, log, sent, due, appended>> /\ inbox' \in {inbox, << >>}
    BY <1>3 DEF GetInitialCommands, world, history
  <2>2. CASE inbox' = inbox
    BY <1>1, <2>1, <2>2, OrderKept
  <2>3. CASE inbox' = << >>
    BY <1>1, <2>1, <2>3, OrderEmptied DEF Entry
  <2> QED BY <2>1, <2>2, <2>3
<1>4. CASE Replay
  BY <1>1, <1>4, OrderReplay
<1>5. CASE Serve
  BY <1>1, <1>5, OrderKept DEF Serve, world, history
<1>6. CASE AppendSet
  BY <1>1, <1>6, OrderAppend
<1>7. CASE AppendFails
  BY <1>1, <1>7, OrderFails
<1>8. CASE ExecSet \/ ExecTxSet
  <2>1. PICK op : op \in {"set", "txset"} /\ Takes(op)
    BY <1>8 DEF ExecSet, ExecTxSet
  <2>2. /\ Head(inbox) = inbox[1] /\ inbox[1].command \in Commands
        /\ Writes(inbox[1].command)
    BY <1>1, <2>1, HeadTypes DEF Writes
  <2>3. /\ Set(inbox[1].command) /\ Remember(inbox[1].command)
        /\ \E k, n : AnswerHead(k, n)
        /\ UNCHANGED <<log, sent>>
    BY <1>8, <2>2 DEF ExecSet, ExecTxSet, world
  <2>4. /\ \A k \in Keys : data'[k].set = data[k].set \/ data'[k].set = inbox[1].command.set
        /\ DOMAIN due' = DOMAIN due \cup {inbox[1].command.set}
    BY <1>1, <2>2, <2>3, SetNumbers
  <2> QED BY <1>1, <2>1, <2>2, <2>3, <2>4, OrderTaken
<1>9. CASE ExecIncr \/ ExecGet
  <2>1. /\ \E op : Takes(op)
        /\ \E k, n : AnswerHead(k, n)
        /\ UNCHANGED <<log, sent, due>>
    BY <1>9 DEF ExecIncr, ExecGet, world, history
  <2>2. \A k \in Keys : data'[k].set = data[k].set
    BY <1>1, <1>9, IncrNumbers DEF ExecGet
  <2> QED BY <1>1, <2>1, <2>2, OrderTaken
<1>10. CASE \E c \in Clients : Send(c)
  BY <1>1, <1>10, OrderSend
<1>11. CASE \E c \in Clients : WriteReply(c) \/ PanicUnanswered(c)
  BY <1>1, <1>11, OrderKept DEF WriteReply, PanicUnanswered, world, history
<1>12. CASE Tick
  BY <1>1, <1>12, OrderKept DEF Tick, process, history
<1>13. CASE Crash \/ PowerLoss
  <2>1. inbox' = << >> /\ UNCHANGED <<sent, due>> /\ \A k \in Keys : data'[k].set = NoSet
    BY <1>13 DEF Crash, PowerLoss, StopProcess, Nothing, Absent, Value
  <2>2. \A i \in 1..Len(log') : log'[i].op = "set" => Entry(i) /\ log'[i] = log[i]
    BY <1>1, <1>13, FewerEntries DEF Crash, Entry
  <2> QED BY <1>1, <2>1, <2>2, OrderEmptied
<1>14. CASE Misread
  BY <1>1, <1>14, OrderMisread
<1>15. CASE UNCHANGED vars
  BY <1>1, <1>15, OrderKept DEF vars, process, world, history
<1> QED
  BY <1>2, <1>3, <1>4, <1>5, <1>6, <1>7, <1>8, <1>9, <1>10, <1>11, <1>12, <1>13, <1>14, <1>15
     DEF Next, StoreStep

LEMMA HeadAppendedStep ==
    ASSUME TypeInv, HeadAppended, [Next]_vars
    PROVE  HeadAppended'
<1> USE DEF process, world, history
<1>1. TypeOK
  BY DEF TypeInv
<1>2. CASE Start \/ Serve \/ Replay \/ GetInitialCommands \/ Misread
  BY <1>2 DEF Start, Serve, Replay, GetInitialCommands, Misread, HeadAppended
<1>3. CASE AppendSet \/ AppendFails
  <2>1. Takes("set") /\ UNCHANGED <<server, inbox>>
    BY <1>3 DEF AppendSet, AppendFails
  <2>2. Head(inbox) = inbox[1]
    BY <1>1, <2>1, HeadTypes
  <2> QED BY <2>1, <2>2 DEF HeadAppended, Takes
<1>4. CASE ExecSet
  BY <1>4 DEF ExecSet, HeadAppended
<1>5. CASE ExecTxSet \/ ExecIncr \/ ExecGet
  <2>1. PICK op \in {"txset", "incr", "get"} : Takes(op) /\ appended' = appended
    BY <1>5 DEF ExecTxSet, ExecIncr, ExecGet
  <2>2. inbox[1].command.op = op
    BY <1>1, <2>1, HeadTypes
  <2> QED BY <2>1, <2>2 DEF HeadAppended
<1>6. CASE \E c \in Clients : Send(c)
  <2>1. PICK c \in Clients : Send(c)
    BY <1>6
  <2>2. appended' = appended /\ server' = server
    BY <2>1 DEF Send
  <2>3. ASSUME inbox # << >>
        PROVE  inbox' # << >> /\ inbox'[1] = inbox[1]
    <3>1. 1 \in 1..Len(inbox)
      BY <1>1, <2>3 DEF TypeOK
    <3>2. 1 \in 1..Len(inbox') /\ inbox'[1] = inbox[1]
      BY <1>1, <2>1, <3>1, SentInbox
    <3> QED BY <3>2
  <2> QED BY <2>2, <2>3 DEF HeadAppended
<1>7. CASE \E c \in Clients : WriteReply(c) \/ PanicUnanswered(c)
  BY <1>7 DEF WriteReply, PanicUnanswered, HeadAppended
<1>8. CASE Tick
  BY <1>8 DEF Tick, HeadAppended
<1>9. CASE Crash \/ PowerLoss
  BY <1>9 DEF Crash, PowerLoss, StopProcess, HeadAppended
<1>10. CASE UNCHANGED vars
  BY <1>10 DEF vars, HeadAppended
<1> QED
  BY <1>2, <1>3, <1>4, <1>5, <1>6, <1>7, <1>8, <1>9, <1>10 DEF Next, StoreStep

-----------------------------------------------------------------------------
(* What was shown is there, and can be brought back.                        *)

(* Among the entries up to m that follow i, one is a SET of k that nobody sent. *)
GarbledIn(i, m, k) == \E j \in (i + 1)..m : Garbles(j, k)

(* SET n of key k can be brought back: it is in the file, or was in the RDB
   file, and nothing garbled follows, or there is none that a client sent.    *)
InLog(k, n) ==
    \E i \in 1..Len(log) :
        Entry(i) /\ log[i].key = k /\ log[i].set = n /\ ~GarbledIn(i, Len(log), k)

Recoverable(k, n) ==
    /\ n > FromFile => InLog(k, n)
    /\ n = FromFile => RdbFile[k].set = FromFile /\ ~GarbledIn(0, Len(log), k)

(* ... or is known not to be logged. *)
Shown(k, n) == n \in volatile \/ Recoverable(k, n)

HeadShown == appended => Shown(inbox[1].command.key, inbox[1].command.set)

DataShown == server = "serving" => \A k \in Keys : Shown(k, data[k].set)

RepliesShown ==
    \A c \in Clients : oneshot[c].ready =>
        /\ server = "serving"
        /\ data[oneshot[c].key].set >= oneshot[c].set
        /\ Shown(oneshot[c].key, oneshot[c].set)

SeenRecoverable == \A k \in Keys : Recoverable(k, seen[k])

(* What the replay of m entries has brought back: each key has a value of theirs
   that is not overwritten, or that of the RDB file ...                       *)
Gives(m, k, n) ==
    \/ \E i \in 1..m : Entry(i) /\ log[i].key = k /\ log[i].set = n /\ ~GarbledIn(i, m, k)
    \/ n = RdbFile[k].set /\ ~GarbledIn(0, m, k)
    \/ n \in {NoSet, Garbled}

(* ... and the latest of these. *)
BroughtBack ==
    server = "replaying" =>
        /\ \A k \in Keys : Gives(replayed, k, data[k].set)
        /\ \A k \in Keys : ~GarbledIn(0, replayed, k) => data[k].set >= RdbFile[k].set
        /\ \A i \in 1..replayed :
              Entry(i) /\ ~GarbledIn(i, replayed, log[i].key) => data[log[i].key].set >= log[i].set

ShownInv ==
    HeadShown /\ DataShown /\ RepliesShown /\ SeenRecoverable /\ BroughtBack /\ NothingSeenIsLost

(* All of it, with the order of the SETs. *)
RecoveryInv == TypeInv /\ QueueInv /\ ShownInv

(* Unless the process stops, or reads the file wrongly, what can be brought back
   stays so.                                                                  *)
LEMMA StillShown ==
    ASSUME TypeOK, [Next]_vars, ~Crash, ~PowerLoss, ~Misread
    PROVE  \A k, n : /\ Recoverable(k, n) => Recoverable(k, n)'
                     /\ Shown(k, n) => Shown(k, n)'
<1>1. Len(log) \in Nat
  BY DEF TypeOK
<1>2. CASE AppendSet \/ AppendFails
  <2>1. /\ \A i \in 1..Len(log) : i \in 1..Len(log') /\ log'[i] = log[i]
        /\ \A i \in 1..Len(log') : log'[i].op = "garbled" => i \in 1..Len(log) /\ log'[i] = log[i]
    <3>1. CASE AppendSet
      <4>1. inbox[1].command.op = "set"
        BY <3>1, HeadTypes DEF AppendSet
      <4> QED BY <3>1, <4>1, AppendedEntry
    <3>2. CASE AppendFails
      BY <3>2, FailedEntry
    <3> QED BY <1>2, <3>1, <3>2
  <2>2. volatile \subseteq volatile'
    BY <1>2 DEF AppendSet, AppendFails, history
  <2>3. ASSUME NEW k, NEW i \in 0..Len(log), GarbledIn(i, Len(log), k)'
        PROVE  GarbledIn(i, Len(log), k)
    <3>1. PICK j \in (i + 1)..Len(log') : log'[j].op = "garbled" /\ log'[j].key = k
      BY <2>3 DEF GarbledIn, Garbles
    <3>2. j \in 1..Len(log')
      BY <1>1, <3>1
    <3>3. j \in 1..Len(log) /\ log'[j] = log[j]
      BY <2>1, <3>1, <3>2
    <3> QED BY <1>1, <3>1, <3>3 DEF GarbledIn, Garbles
  <2>4. ASSUME NEW k, NEW n, InLog(k, n) PROVE InLog(k, n)'
    <3>1. PICK i \in 1..Len(log) :
             Entry(i) /\ log[i].key = k /\ log[i].set = n /\ ~GarbledIn(i, Len(log), k)
      BY <2>4 DEF InLog
    <3>2. i \in 1..Len(log') /\ log'[i] = log[i] /\ ~GarbledIn(i, Len(log), k)'
      BY <1>1, <2>1, <2>3, <3>1
    <3> QED BY <3>1, <3>2 DEF InLog, Entry
  <2>5. ASSUME NEW k, ~GarbledIn(0, Len(log), k) PROVE ~GarbledIn(0, Len(log), k)'
    BY <1>1, <2>3, <2>5
  <2> QED BY <2>2, <2>4, <2>5 DEF Recoverable, Shown
<1>3. CASE ~AppendSet /\ ~AppendFails
  <2>1. log' = log /\ volatile \subseteq volatile'
    <3> USE DEF process, world, history
    <3>1. CASE Start \/ GetInitialCommands \/ Replay \/ Serve
      BY <3>1 DEF Start, GetInitialCommands, Replay, Serve
    <3>2. CASE ExecSet \/ ExecTxSet \/ ExecIncr \/ ExecGet
      BY <3>2 DEF ExecSet, ExecTxSet, ExecIncr, ExecGet
    <3>3. CASE \E c \in Clients : Send(c) \/ WriteReply(c) \/ PanicUnanswered(c)
      BY <3>3 DEF Send, WriteReply, PanicUnanswered
    <3>4. CASE Tick \/ UNCHANGED vars
      BY <3>4 DEF Tick, vars
    <3> QED BY <1>3, <3>1, <3>2, <3>3, <3>4 DEF Next, StoreStep
  <2>2. \A k, i : GarbledIn(i, Len(log), k)' <=> GarbledIn(i, Len(log), k)
    BY <2>1 DEF GarbledIn, Garbles
  <2>3. \A k, n : InLog(k, n) => InLog(k, n)'
    BY <2>1, <2>2 DEF InLog, Entry
  <2> QED BY <2>1, <2>2, <2>3 DEF Recoverable, Shown
<1> QED BY <1>2, <1>3

(* A server that goes on to serve was serving, or has just replayed its file. *)
LEMMA StillServing ==
    ASSUME [Next]_vars, server' = "serving", ~Serve
    PROVE  /\ server = "serving" /\ ~StopProcess
           /\ ~Start /\ ~GetInitialCommands /\ ~Replay /\ ~Misread /\ ~Crash /\ ~PowerLoss
<1> USE DEF process, world, history
<1>1. ~Start /\ ~GetInitialCommands /\ ~Replay /\ ~Misread /\ ~StopProcess /\ ~Crash /\ ~PowerLoss
  BY DEF Start, GetInitialCommands, Replay, Misread, StopProcess, Crash, PowerLoss
<1>2. CASE \E op : Takes(op)
  BY <1>1, <1>2 DEF Takes
<1>3. CASE \E c \in Clients : Send(c) \/ WriteReply(c) \/ PanicUnanswered(c)
  BY <1>1, <1>3 DEF Send, WriteReply, PanicUnanswered
<1>4. CASE Tick \/ UNCHANGED vars
  BY <1>1, <1>4 DEF Tick, vars
<1>5. AppendSet \/ AppendFails \/ ExecSet \/ ExecTxSet \/ ExecIncr \/ ExecGet => \E op : Takes(op)
  BY DEF AppendSet, AppendFails, ExecSet, ExecTxSet, ExecIncr, ExecGet
<1> QED BY <1>1, <1>2, <1>3, <1>4, <1>5 DEF Next, StoreStep

(* A server that serves only goes on to later SETs. *)
LEMMA DataGrows ==
    ASSUME RecoveryInv, [Next]_vars, ~StopProcess, server = "serving"
    PROVE  server' = "serving" /\ \A k \in Keys : data'[k].set >= data[k].set
<1>1. TypeOK /\ OrderInv
  BY DEF RecoveryInv, TypeInv, QueueInv
<1>2. \A k \in Keys : data[k].set \in Nat \cup {NoSet, Garbled}
  BY <1>1, DataTypes
<1>3. CASE ExecSet \/ ExecTxSet
  <2>1. PICK op : op \in {"set", "txset"} /\ Takes(op)
    BY <1>3 DEF ExecSet, ExecTxSet
  <2>2. /\ Head(inbox) = inbox[1] /\ inbox[1].command \in Commands /\ 1 \in 1..Len(inbox)
        /\ Writes(inbox[1].command) /\ inbox[1].command.set \in Nat
    BY <1>1, <2>1, HeadTypes DEF Writes
  <2>3. Set(inbox[1].command) /\ Remember(inbox[1].command) /\ server' = server
    BY <1>3, <2>2 DEF ExecSet, ExecTxSet
  <2>4. \A k \in Keys : data'[k].set = data[k].set \/ data'[k].set = inbox[1].command.set
    BY <1>1, <2>2, <2>3, SetNumbers
  <2>5. \A k \in Keys : data[k].set < inbox[1].command.set
    BY <1>1, <2>2 DEF OrderInv, ExecutedBeforeInbox
  <2> QED BY <1>2, <2>2, <2>3, <2>4, <2>5 DEF NoSet, Garbled
<1>4. CASE ExecIncr
  <2>1. server' = server /\ \A k \in Keys : data'[k].set = data[k].set
    BY <1>1, <1>4, IncrNumbers DEF ExecIncr
  <2> QED BY <1>2, <2>1 DEF NoSet, Garbled
<1>5. CASE ExecGet \/ AppendSet \/ AppendFails
  BY <1>2, <1>5 DEF ExecGet, AppendSet, AppendFails, NoSet, Garbled
<1>6. CASE \E c \in Clients : Send(c) \/ WriteReply(c) \/ PanicUnanswered(c)
  BY <1>2, <1>6 DEF Send, WriteReply, PanicUnanswered, NoSet, Garbled
<1>7. CASE Tick \/ UNCHANGED vars
  BY <1>2, <1>7 DEF Tick, vars, process, NoSet, Garbled
<1>8. ~Start /\ ~GetInitialCommands /\ ~Misread /\ ~Replay /\ ~Serve /\ ~Crash /\ ~PowerLoss
  BY DEF Start, GetInitialCommands, Misread, Replay, Serve, Crash, PowerLoss
<1> QED BY <1>3, <1>4, <1>5, <1>6, <1>7, <1>8 DEF Next, StoreStep

LEMMA HeadShownStep ==
    ASSUME RecoveryInv, [Next]_vars
    PROVE  HeadShown'
<1> USE DEF process, world, history
<1>1. TypeOK /\ HeadAppended /\ HeadShown
  BY DEF RecoveryInv, TypeInv, QueueInv, ShownInv
<1>2. CASE AppendSet
  <2>1. /\ Len(log) + 1 \in 1..Len(log') /\ log'[Len(log) + 1] = inbox[1].command
        /\ inbox' = inbox
    BY <1>1, <1>2, AppendedEntry DEF AppendSet
  <2>2. inbox[1].command.op = "set" /\ Len(log') = Len(log) + 1
    <3>1. Head(inbox).command \in Entries /\ log' = Append(log, Head(inbox).command)
      BY <1>1, <1>2, HeadTypes, SetEntry DEF AppendSet
    <3>2. log \in Seq(Entries)
      BY <1>1 DEF TypeOK
    <3> QED BY <1>1, <1>2, <3>1, <3>2, Appended, HeadTypes DEF AppendSet
  <2>3. InLog(inbox[1].command.key, inbox[1].command.set)'
    <3>1. Len(log) \in Nat
      BY <1>1 DEF TypeOK
    <3>2. \A k : ~GarbledIn(Len(log), Len(log), k)'
      BY <2>2, <3>1 DEF GarbledIn
    <3> QED BY <2>1, <2>2, <3>2 DEF InLog, Entry, GarbledIn, Garbles
  <2>4. inbox[1].command.set # FromFile
    <3>1. 1 \in 1..Len(inbox) /\ Writes(inbox[1].command)
      BY <1>1, <1>2, HeadTypes DEF AppendSet, Writes
    <3> QED BY <1>1, <3>1, Numbers DEF RecoveryInv, QueueInv, OrderInv, FromFile
  <2> QED BY <2>1, <2>3, <2>4 DEF HeadShown, Shown, Recoverable
<1>3. CASE AppendFails
  <2>1. inbox[1].command.set \in volatile' /\ inbox' = inbox
    BY <1>1, <1>3, HeadTypes DEF AppendFails
  <2> QED BY <2>1 DEF HeadShown, Shown
<1>4. CASE ~AppendSet /\ ~AppendFails
  <2>1. SUFFICES ASSUME appended' = TRUE
                 PROVE  Shown(inbox[1].command.key, inbox[1].command.set)' /\ inbox'[1] = inbox[1]
    <3>1. appended' \in BOOLEAN
      BY <1>1, TypeStep DEF RecoveryInv, TypeInv, TypeOK
    <3> QED BY <2>1, <3>1 DEF HeadShown, Shown, Recoverable, InLog, Entry, GarbledIn, Garbles
  <2>2. appended = TRUE /\ inbox'[1] = inbox[1] /\ ~StopProcess /\ ~Misread
    <3>1. ~ExecSet /\ ~StopProcess /\ ~Misread
      BY <1>1, <2>1 DEF ExecSet, StopProcess, Misread, HeadAppended
    <3>2. CASE Start \/ GetInitialCommands \/ Replay \/ Serve
      BY <1>1, <2>1, <3>2 DEF Start, GetInitialCommands, Replay, Serve, HeadAppended
    <3>3. ASSUME ExecTxSet \/ ExecIncr \/ ExecGet PROVE FALSE
      <4>1. PICK op \in {"txset", "incr", "get"} : Takes(op) /\ appended' = appended
        BY <3>3 DEF ExecTxSet, ExecIncr, ExecGet
      <4>2. inbox[1].command.op = op
        BY <1>1, <4>1, HeadTypes
      <4> QED BY <1>1, <2>1, <4>1, <4>2 DEF HeadAppended
    <3>4. CASE \E c \in Clients : Send(c)
      <4>1. PICK c \in Clients : Send(c)
        BY <3>4
      <4>2. appended' = appended
        BY <4>1 DEF Send
      <4>3. 1 \in 1..Len(inbox)
        BY <1>1, <2>1, <4>2 DEF HeadAppended, TypeOK
      <4> QED BY <1>1, <2>1, <3>1, <4>1, <4>2, <4>3, SentInbox
    <3>5. CASE \E c \in Clients : WriteReply(c) \/ PanicUnanswered(c)
      BY <2>1, <3>1, <3>5 DEF WriteReply, PanicUnanswered
    <3>6. CASE Tick \/ UNCHANGED vars
      BY <2>1, <3>1, <3>6 DEF Tick, vars
    <3> QED BY <1>4, <3>1, <3>2, <3>3, <3>4, <3>5, <3>6 DEF Next, StoreStep, Crash, PowerLoss
  <2>3. Shown(inbox[1].command.key, inbox[1].command.set)
    BY <1>1, <2>2 DEF HeadShown
  <2>4. Shown(inbox[1].command.key, inbox[1].command.set)'
    <3>1. PICK k, n : k = inbox[1].command.key /\ n = inbox[1].command.set
      OBVIOUS
    <3>2. Shown(k, n)'
      BY <1>1, <2>2, <2>3, <3>1, StillShown DEF Crash, PowerLoss
    <3> QED BY <2>2, <3>1, <3>2 DEF Shown, Recoverable, InLog, Entry, GarbledIn, Garbles
  <2> QED BY <2>2, <2>4
<1> QED BY <1>2, <1>3, <1>4

(* What is executed was logged, or is known not to be. *)
LEMMA DataShownStep ==
    ASSUME RecoveryInv, [Next]_vars
    PROVE  DataShown'
<1> USE DEF process, world, history
<1>1. TypeOK /\ OrderInv /\ HeadShown /\ DataShown /\ BroughtBack
  BY DEF RecoveryInv, TypeInv, QueueInv, ShownInv
<1>2. SUFFICES ASSUME server' = "serving", NEW k \in Keys
               PROVE  \E n : n = data'[k].set /\ Shown(k, n)'
  BY DEF DataShown, Shown, Recoverable, InLog, Entry, GarbledIn, Garbles
<1>3. CASE Serve
  <2>1. UNCHANGED <<data, log, volatile>> /\ server = "replaying" /\ replayed = Len(log)
    BY <1>3 DEF Serve
  <2>2. PICK n : n = data[k].set
    OBVIOUS
  <2>3. Gives(Len(log), k, n)
    BY <1>1, <2>1, <2>2 DEF BroughtBack
  <2>4. Recoverable(k, n)
    <3>1. CASE \E i \in 1..Len(log) :
                  Entry(i) /\ log[i].key = k /\ log[i].set = n /\ ~GarbledIn(i, Len(log), k)
      <4>1. n # FromFile
        BY <1>1, <3>1, Numbers DEF OrderInv, FromFile
      <4> QED BY <3>1, <4>1 DEF Recoverable, InLog
    <3>2. CASE n = RdbFile[k].set /\ ~GarbledIn(0, Len(log), k)
      BY <3>2, FileNumbers DEF Recoverable, NoSet, FromFile
    <3>3. CASE n \in {NoSet, Garbled}
      BY <3>3 DEF Recoverable, NoSet, Garbled, FromFile
    <3> QED BY <2>3, <3>1, <3>2, <3>3 DEF Gives
  <2> QED BY <2>1, <2>2, <2>4 DEF Shown, Recoverable, InLog, Entry, GarbledIn, Garbles
<1>4. CASE ~Serve
  <2>1. /\ server = "serving" /\ ~StopProcess
        /\ ~Start /\ ~GetInitialCommands /\ ~Replay /\ ~Misread /\ ~Crash /\ ~PowerLoss
    BY <1>2, <1>4, StillServing
  <2>2. \A x, n : Shown(x, n) => Shown(x, n)'
    BY <1>1, <2>1, StillShown
  <2>3. CASE data'[k].set = data[k].set
    BY <1>1, <2>1, <2>2, <2>3 DEF DataShown
  <2>4. CASE ExecSet \/ ExecTxSet
    <3>1. PICK op : op \in {"set", "txset"} /\ Takes(op)
      BY <2>4 DEF ExecSet, ExecTxSet
    <3>2. Head(inbox) = inbox[1] /\ inbox[1].command \in Commands
      BY <1>1, <3>1, HeadTypes
    <3>3. Set(inbox[1].command) /\ Remember(inbox[1].command)
      BY <2>4, <3>2 DEF ExecSet, ExecTxSet
    <3>4. /\ data'[inbox[1].command.key].set = inbox[1].command.set
          /\ k # inbox[1].command.key => data'[k] = data[k]
      BY <1>1, <3>2, <3>3, SetNumbers
    <3>5. PICK key, n : key = inbox[1].command.key /\ n = inbox[1].command.set
      OBVIOUS
    <3>6. Shown(key, n)'
      <4>1. CASE ExecSet
        <5>1. Shown(key, n)
          BY <1>1, <3>5, <4>1 DEF ExecSet, Logged, HeadShown
        <5> QED BY <2>2, <5>1
      <4>2. CASE ExecTxSet
        BY <3>2, <3>5, <4>2 DEF ExecTxSet, Shown
      <4> QED BY <2>4, <4>1, <4>2
    <3>7. CASE k = key
      BY <3>4, <3>5, <3>6, <3>7
    <3>8. CASE k # key
      BY <2>3, <3>4, <3>5, <3>8
    <3> QED BY <3>7, <3>8
  <2>5. CASE ExecIncr
    BY <1>1, <2>3, <2>5, IncrNumbers
  <2>6. CASE AppendSet \/ AppendFails \/ ExecGet \/ Tick \/ UNCHANGED vars
    BY <2>3, <2>6 DEF AppendSet, AppendFails, ExecGet, Tick, vars
  <2>7. CASE \E c \in Clients : Send(c) \/ WriteReply(c) \/ PanicUnanswered(c)
    BY <2>3, <2>7 DEF Send, WriteReply, PanicUnanswered
  <2> QED
    BY <1>4, <2>1, <2>4, <2>5, <2>6, <2>7 DEF Next, StoreStep
<1> QED BY <1>3, <1>4

LEMMA ReplyTypes ==
    ASSUME TypeOK, NEW c \in Clients, oneshot[c].ready
    PROVE  oneshot[c].key \in Keys /\ oneshot[c].set \in Nat \cup {NoSet, Garbled}
<1>1. oneshot[c] \in {NoReply} \cup [ready : {TRUE}, key : Keys, set : Nat \cup {NoSet, Garbled}]
  BY DEF TypeOK
<1>2. oneshot[c] # NoReply
  BY DEF NoReply
<1> QED BY <1>1, <1>2

(* A reply that shows what the store has. *)
LEMMA AnswerShown ==
    ASSUME TypeOK, RepliesShown, NEW op, Takes(op),
           NEW k \in Keys, NEW n \in Nat \cup {NoSet, Garbled}, AnswerHead(k, n),
           server' = "serving", data'[k].set >= n, Shown(k, n)',
           \A x \in Keys : /\ data[x].set \in Nat \cup {NoSet, Garbled} /\ data'[x].set \in Nat \cup {NoSet, Garbled}
                           /\ data'[x].set >= data[x].set,
           \A x, m : Shown(x, m) => Shown(x, m)'
    PROVE  RepliesShown'
<1>1. SUFFICES ASSUME NEW c \in Clients, oneshot'[c].ready
               PROVE  \E x, m : /\ x = oneshot'[c].key /\ m = oneshot'[c].set
                                /\ data'[x].set >= m /\ Shown(x, m)'
  BY DEF RepliesShown, Shown, Recoverable, InLog, Entry, GarbledIn, Garbles
<1>2. oneshot'[c] = oneshot[c] \/ oneshot'[c] = Reply(k, n)
  BY DEF AnswerHead, TypeOK
<1>3. CASE oneshot'[c] = oneshot[c]
  <2>1. PICK x, m : x = oneshot[c].key /\ m = oneshot[c].set
    OBVIOUS
  <2>2. x \in Keys /\ m \in Nat \cup {NoSet, Garbled} /\ data[x].set >= m /\ Shown(x, m)
    BY <1>1, <1>3, <2>1, ReplyTypes DEF RepliesShown
  <2>3. data'[x].set >= m
    BY <2>2 DEF NoSet, Garbled
  <2>4. Shown(x, m)'
    BY <2>2
  <2> QED BY <1>3, <2>1, <2>3, <2>4
<1>4. CASE oneshot'[c] = Reply(k, n)
  BY <1>4 DEF Reply
<1> QED BY <1>2, <1>3, <1>4

LEMMA RepliesShownStep ==
    ASSUME RecoveryInv, [Next]_vars, TypeInv', DataShown'
    PROVE  RepliesShown'
<1> USE DEF process, world, history
<1>1. /\ TypeOK /\ OrderInv /\ HeadShown /\ DataShown /\ RepliesShown /\ TypeOK'
  BY DEF RecoveryInv, TypeInv, QueueInv, ShownInv
<1>2. CASE StopProcess
  BY <1>2 DEF StopProcess, RepliesShown, NoReply
<1>3. CASE Misread
  BY <1>1, <1>3 DEF Misread, RepliesShown
<1>4. CASE ~StopProcess /\ ~Misread
  <2>1. \A k, n : Shown(k, n) => Shown(k, n)'
    BY <1>1, <1>4, StillShown DEF Crash, PowerLoss
  <2>2. \A x \in Keys : data[x].set \in Nat \cup {NoSet, Garbled} /\ data'[x].set \in Nat \cup {NoSet, Garbled}
    <3>1. \A x \in Keys : data[x].set \in Nat \cup {NoSet, Garbled}
      BY <1>1, DataTypes
    <3>2. Absent \in Values
      BY DEF Absent, Value, Values, NoSet, Never
    <3>3. \A x \in Keys : data'[x] \in Values
      BY <1>1, <3>2 DEF TypeOK
    <3> QED BY <3>1, <3>3 DEF Values
  <2>3. ASSUME \E op : Takes(op)
        PROVE  server' = "serving" /\ \A x \in Keys : data'[x].set >= data[x].set
    BY <1>4, <2>3, DataGrows DEF Takes
  <2>4. CASE ExecSet \/ ExecTxSet
    <3>1. PICK op : op \in {"set", "txset"} /\ Takes(op)
      BY <2>4 DEF ExecSet, ExecTxSet
    <3>2. PICK k, n : k = inbox[1].command.key /\ n = inbox[1].command.set
      OBVIOUS
    <3>3. /\ Head(inbox) = inbox[1] /\ inbox[1].command \in Commands
          /\ k \in Keys /\ n \in Nat
      BY <1>1, <3>1, <3>2, HeadTypes
    <3>4. /\ Set(inbox[1].command) /\ Remember(inbox[1].command) /\ AnswerHead(k, n)
      BY <2>4, <3>2, <3>3 DEF ExecSet, ExecTxSet
    <3>5. data'[k].set = n
      BY <1>1, <3>2, <3>3, <3>4, SetNumbers
    <3>6. Shown(k, n)'
      BY <2>3, <3>1, <3>3, <3>5 DEF DataShown, Shown, Recoverable, InLog, Entry, GarbledIn, Garbles
    <3>7. data'[k].set >= n
      BY <3>3, <3>5
    <3> QED BY <1>1, <2>1, <2>2, <2>3, <3>1, <3>3, <3>4, <3>6, <3>7, AnswerShown
  <2>5. CASE ExecIncr \/ ExecGet
    <3>1. PICK op : op \in {"incr", "get"} /\ Takes(op)
      BY <2>5 DEF ExecIncr, ExecGet
    <3>2. PICK k, n : /\ k = Head(inbox).command.key
                      /\ n \in {data[k].set, NoSet} /\ AnswerHead(k, n)
      BY <2>5 DEF ExecIncr, ExecGet
    <3>3. k \in Keys /\ n \in Nat \cup {NoSet, Garbled} /\ data'[k].set >= n
      <4>1. k \in Keys
        BY <1>1, <3>1, <3>2, HeadTypes
      <4> QED BY <2>2, <2>3, <3>1, <3>2, <4>1 DEF NoSet, Garbled
    <3>4. Shown(k, n)
      <4>1. CASE n = data[k].set
        BY <1>1, <3>1, <3>3, <4>1 DEF DataShown, Takes
      <4>2. CASE n = NoSet
        BY <4>2 DEF Shown, Recoverable, NoSet, FromFile
      <4> QED BY <3>2, <4>1, <4>2
    <3>5. Shown(k, n)'
      BY <2>1, <3>4
    <3> QED BY <1>1, <2>1, <2>2, <2>3, <3>1, <3>2, <3>3, <3>5, AnswerShown
  <2>6. CASE oneshot' = oneshot \/ \E c \in Clients : oneshot' = [oneshot EXCEPT ![c] = NoReply]
    <3>1. SUFFICES ASSUME NEW c \in Clients, oneshot'[c].ready
                   PROVE  \E x, m : /\ x = oneshot'[c].key /\ m = oneshot'[c].set
                                    /\ server' = "serving" /\ data'[x].set >= m /\ Shown(x, m)'
      BY DEF RepliesShown, Shown, Recoverable, InLog, Entry, GarbledIn, Garbles
    <3>2. oneshot'[c] = oneshot[c]
      BY <1>1, <2>6, <3>1 DEF TypeOK, NoReply
    <3>3. PICK x, m : x = oneshot[c].key /\ m = oneshot[c].set
      OBVIOUS
    <3>4. /\ x \in Keys /\ m \in Nat \cup {NoSet, Garbled} /\ data[x].set >= m /\ Shown(x, m)
          /\ server = "serving"
      BY <1>1, <3>1, <3>2, <3>3, ReplyTypes DEF RepliesShown
    <3>5. server' = "serving" /\ data'[x].set >= data[x].set
      BY <1>4, <3>4, DataGrows
    <3>6. data'[x].set >= m
      BY <2>2, <3>4, <3>5 DEF NoSet, Garbled
    <3>7. Shown(x, m)'
      BY <2>1, <3>4
    <3> QED BY <3>2, <3>3, <3>5, <3>6, <3>7
  <2>7. CASE Start \/ GetInitialCommands \/ Replay \/ Serve \/ AppendSet \/ AppendFails
    BY <2>6, <2>7 DEF Start, GetInitialCommands, Replay, Serve, AppendSet, AppendFails
  <2>8. CASE \E c \in Clients : Send(c) \/ WriteReply(c) \/ PanicUnanswered(c)
    BY <2>6, <2>8 DEF Send, WriteReply, PanicUnanswered
  <2>9. CASE Tick \/ UNCHANGED vars
    BY <2>6, <2>9 DEF Tick, vars
  <2> QED
    BY <1>4, <2>4, <2>5, <2>7, <2>8, <2>9 DEF Next, StoreStep, Crash, PowerLoss
<1> QED BY <1>2, <1>3, <1>4

(* What a power loss, or a file that is read wrongly, leaves of the promises can
   be brought back.                                                           *)
LEMMA PromisesKept ==
    ASSUME TypeInv, LosesPromises, TypeInv', OrderInv', NEW k \in Keys
    PROVE  \E n : n = seen'[k] /\ Recoverable(k, n)'
<1>1. log' \in Seq(Entries) /\ seen'[k] \in {NoSet} \cup Survivors(log', k)
  <2>1. TypeOK /\ log' \in Seq(Entries)
    BY DEF TypeInv, TypeOK
  <2> QED BY <2>1, PromiseTypes
<1>2. PICK n : n = seen'[k]
  OBVIOUS
<1>3. \A i : GarbledIn(i, Len(log), k)' <=> GarbledAfter(log', i, k)
  BY DEF GarbledIn, GarbledAfter, Garbles
<1>4. CASE n \in {NoSet, RdbFile[k].set} /\ ~GarbledAfter(log', 0, k)
  <2>1. n \in {NoSet, FromFile} /\ (n = FromFile => RdbFile[k].set = FromFile)
    BY <1>4, FileNumbers DEF NoSet, FromFile
  <2> QED BY <1>2, <1>3, <1>4, <2>1 DEF Recoverable, NoSet, FromFile
<1>5. CASE n = NoSet
  BY <1>2, <1>5 DEF Recoverable, NoSet, FromFile
<1>6. CASE \E i \in 1..Len(log') : /\ log'[i].op = "set" /\ log'[i].key = k /\ n = log'[i].set
                                   /\ ~GarbledAfter(log', i, k)
  <2>1. PICK i \in 1..Len(log') : /\ log'[i].op = "set" /\ log'[i].key = k /\ n = log'[i].set
                                  /\ ~GarbledAfter(log', i, k)
    BY <1>6
  <2>2. InLog(k, n)'
    BY <1>3, <2>1 DEF InLog, Entry
  <2>3. n # FromFile
    BY <2>1 DEF OrderInv, NumbersSent, Entry, FromFile
  <2> QED BY <1>2, <2>2, <2>3 DEF Recoverable
<1>7. n = NoSet \/ n \in Survivors(log', k)
  BY <1>1, <1>2
<1> QED BY <1>4, <1>5, <1>6, <1>7 DEF Survivors

LEMMA SeenStep ==
    ASSUME RecoveryInv, [Next]_vars, TypeInv', OrderInv'
    PROVE  SeenRecoverable'
<1>1. TypeInv /\ TypeOK /\ OrderInv /\ RepliesShown /\ SeenRecoverable
  BY DEF RecoveryInv, TypeInv, QueueInv, ShownInv
<1>2. SUFFICES ASSUME NEW k \in Keys
               PROVE  \E n : n = seen'[k] /\ Recoverable(k, n)'
  BY DEF SeenRecoverable, Recoverable, InLog, Entry, GarbledIn, Garbles
<1>3. CASE Crash
  <2>1. UNCHANGED <<log, seen>>
    BY <1>3 DEF Crash
  <2>2. PICK n : n = seen[k]
    OBVIOUS
  <2>3. Recoverable(k, n)'
    BY <1>1, <2>1, <2>2 DEF SeenRecoverable, Recoverable, InLog, Entry, GarbledIn, Garbles
  <2> QED BY <2>1, <2>2, <2>3
<1>4. CASE PowerLoss \/ Misread
  BY <1>1, <1>4, PromisesKept DEF PowerLoss, Misread
<1>5. CASE ~Crash /\ ~PowerLoss /\ ~Misread
  <2>1. \A x, n : Recoverable(x, n) => Recoverable(x, n)'
    BY <1>1, <1>5, StillShown
  <2>2. CASE seen'[k] = seen[k]
    BY <1>1, <2>1, <2>2 DEF SeenRecoverable
  <2>3. CASE \E c \in Clients : WriteReply(c)
    <3>1. PICK c \in Clients : WriteReply(c)
      BY <2>3
    <3>2. PICK x, n : x = oneshot[c].key /\ n = oneshot[c].set
      OBVIOUS
    <3>3. seen' = IF n \in volatile \/ n = Garbled \/ n <= seen[x] THEN seen ELSE [seen EXCEPT ![x] = n]
      BY <3>1, <3>2 DEF WriteReply
    <3>4. Shown(x, n) /\ x \in Keys
      BY <1>1, <3>1, <3>2, ReplyTypes DEF WriteReply, RepliesShown
    <3>5. CASE seen'[k] # seen[k]
      <4>1. n \notin volatile /\ k = x /\ seen'[k] = n
        BY <1>1, <3>3, <3>4, <3>5 DEF TypeOK
      <4>2. Recoverable(x, n)
        BY <3>4, <4>1 DEF Shown
      <4> QED BY <2>1, <4>1, <4>2
    <3> QED BY <2>2, <3>5
  <2>4. CASE Start \/ GetInitialCommands \/ Replay \/ Serve \/ AppendSet \/ AppendFails
    BY <2>2, <2>4 DEF Start, GetInitialCommands, Replay, Serve, AppendSet, AppendFails, history
  <2>5. CASE ExecSet \/ ExecTxSet \/ ExecIncr \/ ExecGet
    BY <2>2, <2>5 DEF ExecSet, ExecTxSet, ExecIncr, ExecGet, history
  <2>6. CASE \E c \in Clients : Send(c) \/ PanicUnanswered(c)
    BY <2>2, <2>6 DEF Send, PanicUnanswered, history
  <2>7. CASE Tick \/ UNCHANGED vars
    BY <2>2, <2>7 DEF Tick, vars, history
  <2> QED
    BY <1>5, <2>3, <2>4, <2>5, <2>6, <2>7 DEF Next, StoreStep
<1> QED BY <1>3, <1>4, <1>5

(* The replay of one more entry. *)
LEMMA BroughtBackReplay ==
    ASSUME TypeInv, OrderInv, BroughtBack, Replay
    PROVE  BroughtBack'
<1> DEFINE e == replayed + 1
<1>1. /\ TypeOK /\ e \in 1..Len(log) /\ replayed \in Nat /\ server = "replaying"
      /\ log' = log /\ replayed' = e
  BY ReplayTypes DEF Replay, TypeInv, world
<1>2. /\ \A k \in Keys : Gives(replayed, k, data[k].set)
      /\ \A k \in Keys : ~GarbledIn(0, replayed, k) => data[k].set >= RdbFile[k].set
      /\ \A i \in 1..replayed :
            Entry(i) /\ ~GarbledIn(i, replayed, log[i].key) => data[log[i].key].set >= log[i].set
  BY <1>1 DEF BroughtBack
<1>3. \A k : /\ ~GarbledIn(e, e, k)
             /\ \A i \in 0..replayed :
                   GarbledIn(i, e, k) <=> GarbledIn(i, replayed, k) \/ Garbles(e, k)
  <2>1. \A i \in 0..replayed : (i + 1)..e = ((i + 1)..replayed) \cup {e}
    BY <1>1
  <2>2. (e + 1)..e = {}
    BY <1>1
  <2> HIDE DEF e
  <2> QED BY <2>1, <2>2 DEF GarbledIn
<1>4. \A i \in 1..e : i = e \/ (i \in 1..replayed /\ i \in 0..replayed /\ i < e)
  BY <1>1
<1>5. \/ /\ Entry(e) /\ log[e].key \in Keys /\ data'[log[e].key].set = log[e].set
         /\ \A k \in Keys : k # log[e].key => data'[k] = data[k]
         /\ \A k \in Keys : ~Garbles(e, k)
      \/ /\ log[e].op = "garbled"
         /\ \A k \in Keys : \/ data'[k] = data[k] /\ ~Garbles(e, k)
                            \/ data'[k].set = Garbled /\ Garbles(e, k)
  BY ReplayGives
<1>6. e \in 1..e /\ 0 \in 0..replayed /\ 1..replayed \subseteq 1..e /\ 1..replayed \subseteq 0..replayed
  BY <1>1
<1>7. \A i \in 1..e : Entry(i) => log[i].key \in Keys /\ log[i].set \in Nat /\ log[i].set > FromFile
  <2>1. \A i \in 1..e : i \in 1..Len(log)
    BY <1>1 DEF TypeOK
  <2> HIDE DEF e
  <2> QED BY <1>1, <2>1, InFile, Numbers DEF OrderInv, FromFile
<1> SUFFICES /\ \A k \in Keys : \E n : n = data'[k].set /\ Gives(e, k, n)
             /\ \A k \in Keys : ~GarbledIn(0, e, k) => data'[k].set >= RdbFile[k].set
             /\ \A i \in 1..e :
                   Entry(i) /\ ~GarbledIn(i, e, log[i].key) => data'[log[i].key].set >= log[i].set
  BY <1>1 DEF BroughtBack, Gives, GarbledIn, Garbles, Entry
<1> HIDE DEF e
<1>8. ASSUME NEW k \in Keys, data'[k] = data[k], ~Garbles(e, k)
      PROVE  \E n : n = data'[k].set /\ Gives(e, k, n)
  <2>1. PICK n : n = data[k].set
    OBVIOUS
  <2>2. Gives(replayed, k, n)
    BY <1>2, <2>1
  <2>3. Gives(e, k, n)
    BY <1>3, <1>6, <1>8, <2>2 DEF Gives
  <2> QED BY <1>8, <2>1, <2>3
<1>9. CASE log[e].op = "garbled"
  <2>1. \A k \in Keys : \/ data'[k] = data[k] /\ ~Garbles(e, k)
                        \/ data'[k].set = Garbled /\ Garbles(e, k)
    BY <1>5, <1>9 DEF Entry
  <2>2. \A k \in Keys : \E n : n = data'[k].set /\ Gives(e, k, n)
    BY <1>8, <2>1 DEF Gives
  <2>3. \A k \in Keys : ~GarbledIn(0, e, k) => data'[k].set >= RdbFile[k].set
    BY <1>2, <1>3, <1>6, <2>1
  <2>4. ASSUME NEW i \in 1..e, Entry(i), ~GarbledIn(i, e, log[i].key)
        PROVE  data'[log[i].key].set >= log[i].set
    <3>1. i # e
      BY <1>9, <2>4 DEF Entry
    <3>2. i \in 1..replayed /\ log[i].key \in Keys /\ ~Garbles(e, log[i].key)
          /\ ~GarbledIn(i, replayed, log[i].key)
      BY <1>3, <1>4, <1>7, <2>4, <3>1
    <3> QED BY <1>2, <2>1, <2>4, <3>2
  <2> QED BY <2>2, <2>3, <2>4
<1>10. CASE Entry(e)
  <2>1. /\ log[e].key \in Keys /\ data'[log[e].key].set = log[e].set
        /\ \A k \in Keys : k # log[e].key => data'[k] = data[k]
        /\ \A k \in Keys : ~Garbles(e, k)
    BY <1>5, <1>10 DEF Entry
  <2>2. ASSUME NEW k \in Keys PROVE \E n : n = data'[k].set /\ Gives(e, k, n)
    <3>1. CASE k = log[e].key
      BY <1>3, <1>6, <1>10, <2>1, <3>1 DEF Gives
    <3>2. CASE k # log[e].key
      BY <1>8, <2>1, <3>2
    <3> QED BY <3>1, <3>2
  <2>3. ASSUME NEW k \in Keys, ~GarbledIn(0, e, k) PROVE data'[k].set >= RdbFile[k].set
    <3>1. CASE k = log[e].key
      BY <1>6, <1>7, <1>10, <2>1, <3>1, FileNumbers DEF NoSet, FromFile
    <3>2. CASE k # log[e].key
      BY <1>2, <1>3, <1>6, <2>1, <2>3, <3>2
    <3> QED BY <3>1, <3>2
  <2>4. ASSUME NEW i \in 1..e, Entry(i), ~GarbledIn(i, e, log[i].key)
        PROVE  data'[log[i].key].set >= log[i].set
    <3>1. CASE i = e
      BY <1>6, <1>7, <1>10, <2>1, <3>1
    <3>2. CASE i # e
      <4>1. i \in 1..replayed /\ i < e /\ log[i].key \in Keys /\ ~GarbledIn(i, replayed, log[i].key)
        BY <1>3, <1>4, <1>7, <2>4, <3>2
      <4>2. data[log[i].key].set >= log[i].set
        BY <1>2, <2>4, <4>1
      <4>3. i \in 1..Len(log) /\ log[i].set < log[e].set /\ log[i].set \in Nat /\ log[e].set \in Nat
        <5>1. i \in 1..Len(log)
          BY <2>4 DEF Entry
        <5>2. log[i].set < log[e].set
          BY <1>1, <1>10, <2>4, <4>1, <5>1 DEF OrderInv, LogOrdered
        <5> QED BY <1>6, <1>7, <1>10, <2>4, <5>1, <5>2
      <4>4. CASE log[i].key = log[e].key
        BY <2>1, <4>3, <4>4
      <4>5. CASE log[i].key # log[e].key
        BY <2>1, <4>1, <4>2, <4>5
      <4> QED BY <4>4, <4>5
    <3> QED BY <3>1, <3>2
  <2> QED BY <2>2, <2>3, <2>4
<1> QED BY <1>5, <1>9, <1>10

LEMMA BroughtBackStep ==
    ASSUME RecoveryInv, [Next]_vars
    PROVE  BroughtBack'
<1> USE DEF process, world, history
<1>1. TypeInv /\ TypeOK /\ Replaying /\ OrderInv /\ BroughtBack
  BY DEF RecoveryInv, TypeInv, QueueInv, ShownInv
<1>2. CASE GetInitialCommands
  <2>1. data' = data /\ data = RdbFile /\ log' = log /\ replayed' = 0
    BY <1>1, <1>2 DEF GetInitialCommands, Replaying
  <2>2. \A k : ~GarbledIn(0, 0, k)'
    BY DEF GarbledIn
  <2>3. \A k \in Keys : RdbFile[k].set >= RdbFile[k].set
    BY FileNumbers DEF NoSet, FromFile
  <2>4. \A k \in Keys : Gives(0, k, RdbFile[k].set)'
    BY <2>2 DEF Gives
  <2> QED BY <2>1, <2>2, <2>3, <2>4 DEF BroughtBack, Gives, GarbledIn, Garbles, Entry
<1>3. CASE Replay
  BY <1>1, <1>3, BroughtBackReplay
<1>4. CASE server' # "replaying"
  BY <1>4 DEF BroughtBack
<1>5. CASE UNCHANGED <<server, data, log, replayed>>
  BY <1>1, <1>5 DEF BroughtBack, Gives, GarbledIn, Garbles, Entry
<1>6. CASE Start \/ Misread \/ Serve \/ Crash \/ PowerLoss
  BY <1>4, <1>6 DEF Start, Misread, Serve, Crash, PowerLoss, StopProcess
<1>7. CASE AppendSet \/ AppendFails \/ ExecSet \/ ExecTxSet \/ ExecIncr \/ ExecGet
  BY <1>4, <1>7 DEF AppendSet, AppendFails, ExecSet, ExecTxSet, ExecIncr, ExecGet, Takes
<1>8. CASE \E c \in Clients : Send(c) \/ WriteReply(c) \/ PanicUnanswered(c)
  BY <1>5, <1>8 DEF Send, WriteReply, PanicUnanswered
<1>9. CASE Tick \/ UNCHANGED vars
  BY <1>5, <1>9 DEF Tick, vars
<1> QED
  BY <1>2, <1>3, <1>6, <1>7, <1>8, <1>9 DEF Next, StoreStep

(* A server that gets to serve has what its clients know of. *)
LEMMA NothingLostStep ==
    ASSUME RecoveryInv, [Next]_vars, TypeInv'
    PROVE  NothingSeenIsLost'
<1> USE DEF process, world, history
<1>1. /\ TypeOK /\ OrderInv /\ RepliesShown /\ SeenRecoverable /\ BroughtBack /\ NothingSeenIsLost
      /\ TypeOK'
  BY DEF RecoveryInv, TypeInv, QueueInv, ShownInv
<1>2. SUFFICES ASSUME server' = "serving", NEW k \in Keys
               PROVE  data'[k].set >= seen'[k]
  BY DEF NothingSeenIsLost
<1>3. data[k].set \in Nat \cup {NoSet, Garbled} /\ seen[k] \in Nat \cup {NoSet}
  BY <1>1, DataTypes DEF TypeOK
<1>4. CASE Serve
  <2>1. data' = data /\ seen' = seen /\ server = "replaying" /\ replayed = Len(log)
    BY <1>4 DEF Serve
  <2>2. PICK n : n = seen[k]
    OBVIOUS
  <2>3. Recoverable(k, n)
    BY <1>1, <2>2 DEF SeenRecoverable
  <2>4. CASE n > FromFile
    <3>1. PICK i \in 1..Len(log) :
             Entry(i) /\ log[i].key = k /\ log[i].set = n /\ ~GarbledIn(i, Len(log), k)
      BY <2>3, <2>4 DEF Recoverable, InLog
    <3> QED BY <1>1, <2>1, <2>2, <3>1 DEF BroughtBack
  <2>5. CASE n = FromFile
    BY <1>1, <2>1, <2>2, <2>3, <2>5 DEF Recoverable, BroughtBack
  <2>6. CASE n = NoSet
    BY <1>3, <2>1, <2>2, <2>6 DEF NoSet, Garbled
  <2> QED BY <1>3, <2>2, <2>4, <2>5, <2>6 DEF FromFile
<1>5. CASE ~Serve
  <2>1. /\ server = "serving" /\ ~StopProcess
        /\ ~Start /\ ~GetInitialCommands /\ ~Replay /\ ~Misread /\ ~Crash /\ ~PowerLoss
    BY <1>2, <1>5, StillServing
  <2>2. data'[k].set >= data[k].set /\ data[k].set >= seen[k]
    BY <1>1, <2>1, DataGrows DEF NothingSeenIsLost
  <2>3. data'[k].set \in Nat \cup {NoSet, Garbled}
    <3>1. Absent \in Values
      BY DEF Absent, Value, Values, NoSet, Never
    <3>2. data'[k] \in Values
      BY <1>1, <3>1 DEF TypeOK
    <3> QED BY <3>2 DEF Values
  <2>4. CASE seen'[k] = seen[k]
    BY <1>3, <2>2, <2>3, <2>4 DEF NoSet, Garbled
  <2>5. CASE \E c \in Clients : WriteReply(c)
    <3>1. PICK c \in Clients : WriteReply(c)
      BY <2>5
    <3>2. PICK x, n : x = oneshot[c].key /\ n = oneshot[c].set
      OBVIOUS
    <3>3. /\ seen' = IF n \in volatile \/ n = Garbled \/ n <= seen[x] THEN seen ELSE [seen EXCEPT ![x] = n]
          /\ data' = data
      BY <3>1, <3>2 DEF WriteReply
    <3>4. data[x].set >= n /\ x \in Keys
      BY <1>1, <3>1, <3>2, ReplyTypes DEF WriteReply, RepliesShown
    <3>5. CASE seen'[k] # seen[k]
      <4>1. k = x /\ seen'[k] = n
        BY <1>1, <3>3, <3>4, <3>5 DEF TypeOK
      <4> QED BY <3>3, <3>4, <4>1
    <3> QED BY <2>4, <3>5
  <2>6. CASE AppendSet \/ AppendFails
    BY <2>4, <2>6 DEF AppendSet, AppendFails
  <2>7. CASE ExecSet \/ ExecTxSet \/ ExecIncr \/ ExecGet
    BY <2>4, <2>7 DEF ExecSet, ExecTxSet, ExecIncr, ExecGet
  <2>8. CASE \E c \in Clients : Send(c) \/ PanicUnanswered(c)
    BY <2>4, <2>8 DEF Send, PanicUnanswered
  <2>9. CASE Tick \/ UNCHANGED vars
    BY <2>4, <2>9 DEF Tick, vars
  <2> QED
    BY <1>5, <2>1, <2>5, <2>6, <2>7, <2>8, <2>9 DEF Next, StoreStep
<1> QED BY <1>4, <1>5

LEMMA RecoveryHolds == Spec => []RecoveryInv
<1>1. Init => RecoveryInv
  <2> SUFFICES ASSUME Init PROVE RecoveryInv
    OBVIOUS
  <2>1. \A k \in Keys : data[k].set = NoSet /\ seen[k] = NoSet
    BY DEF Init, Nothing, Absent, Value
  <2>2. /\ server = "down" /\ appended = FALSE
        /\ \A c \in Clients : oneshot[c].ready = FALSE
    BY DEF Init, NoReply
  <2>3. ShownInv
    BY <2>1, <2>2 DEF ShownInv, HeadShown, DataShown, RepliesShown, SeenRecoverable, BroughtBack,
                      NothingSeenIsLost, Recoverable, NoSet, FromFile
  <2> QED BY <2>3, TypeInit, QueueInit DEF RecoveryInv
<1>2. RecoveryInv /\ [Next]_vars => RecoveryInv'
  <2> SUFFICES ASSUME RecoveryInv, [Next]_vars PROVE RecoveryInv'
    OBVIOUS
  <2>1. TypeInv' /\ OrderInv' /\ HeadAppended'
    BY TypeStep, OrderStep, HeadAppendedStep DEF RecoveryInv, QueueInv
  <2>2. DataShown'
    BY DataShownStep
  <2>3. HeadShown' /\ RepliesShown' /\ SeenRecoverable' /\ BroughtBack' /\ NothingSeenIsLost'
    BY <2>1, <2>2, HeadShownStep, RepliesShownStep, SeenStep, BroughtBackStep, NothingLostStep
  <2> QED BY <2>1, <2>2, <2>3 DEF RecoveryInv, QueueInv, ShownInv
<1> QED BY <1>1, <1>2, PTL DEF Spec

(* A server that serves has every logged SET that some client knows of, or a
   later one, whenever it was killed before and wherever in a command, and
   whatever other writes failed.  After a power loss, and after a piece of a
   failed write was read as a SET, it is every one of them that the file still
   gives: no more is gone than what was cut off, taken in or overwritten.     *)
THEOREM SeenSurvives == Spec => []NothingSeenIsLost
<1>1. RecoveryInv => NothingSeenIsLost
  BY DEF RecoveryInv, ShownInv
<1> QED BY RecoveryHolds, <1>1, PTL

-----------------------------------------------------------------------------
(* Deadlines.                                                              *)

(* The deadline d of a SET, seen from the file: a replay now does not shorten it. *)
DeadlineFits(ttl, d) ==
    /\ ttl = NoTtl <=> d = Never
    /\ ttl # NoTtl => d <= now + ttl

LogFits ==
    \A i \in 1..Len(log) : log[i].op = "set" /\ log[i].set \in DOMAIN due =>
        DeadlineFits(log[i].ttl, due[log[i].set])

(* What was set was remembered, and what is made out of nothing never expires. *)
DataDue ==
    \A k \in Keys :
        /\ data[k].set > FromFile => data[k].set \in DOMAIN due
        /\ data[k].set = NoSet => data[k].expire = Never

DeadlineInv == LogFits /\ DataDue /\ LivesItsTtl

(* Steps that execute or replay the SET cmd, which is new, or fits what the
   file says of it.                                                          *)
LEMMA SetDeadlines ==
    ASSUME TypeOK, DataDue, LivesItsTtl, NEW cmd \in Commands, Set(cmd), Remember(cmd),
           cmd.set > FromFile,
           cmd.set \in DOMAIN due => DeadlineFits(cmd.ttl, due[cmd.set])
    PROVE  DataDue' /\ LivesItsTtl'
<1>1. cmd.ttl \in Nat \cup {NoTtl} /\ cmd.key \in Keys /\ cmd.set \in Nat /\ now \in Nat
  BY CommandTypes DEF TypeOK
<1>2. /\ data'[cmd.key] = Value(cmd.set, 0, Deadline(cmd.ttl)) /\ data'[cmd.key].set = cmd.set
      /\ \A k \in Keys : k # cmd.key => data'[k] = data[k]
      /\ DOMAIN due' = DOMAIN due \cup {cmd.set}
      /\ \A n \in DOMAIN due : due'[n] = due[n]
      /\ cmd.set \notin DOMAIN due => due'[cmd.set] = FirstDeadline(cmd)
  BY SetNumbers
<1>3. data'[cmd.key].expire = Deadline(cmd.ttl)
  BY <1>2 DEF Value
<1>4. /\ Deadline(cmd.ttl) = Never <=> due'[cmd.set] = Never
      /\ Deadline(cmd.ttl) # Never => Deadline(cmd.ttl) >= due'[cmd.set]
  <2>1. CASE cmd.set \in DOMAIN due
    BY <1>1, <1>2, <2>1 DEF DeadlineFits, Deadline, NoTtl, Never
  <2>2. CASE cmd.set \notin DOMAIN due
    BY <1>1, <1>2, <2>2 DEF FirstDeadline, Deadline, NoTtl, Never
  <2> QED BY <2>1, <2>2
<1>5. DataDue'
  BY <1>1, <1>2 DEF DataDue, NoSet, FromFile
<1>6. LivesItsTtl'
  <2>1. SUFFICES ASSUME NEW k \in Keys, data'[k].set > 0
                 PROVE  /\ data'[k].expire = Never <=> due'[data'[k].set] = Never
                        /\ data'[k].expire # Never => data'[k].expire >= due'[data'[k].set]
    BY DEF LivesItsTtl
  <2>2. CASE k = cmd.key
    BY <1>2, <1>3, <1>4, <2>2
  <2>3. CASE k # cmd.key
    <3>1. data'[k] = data[k] /\ data[k].set \in DOMAIN due
      BY <1>2, <2>1, <2>3 DEF DataDue, FromFile
    <3> QED BY <1>2, <2>1, <3>1 DEF LivesItsTtl
  <2> QED BY <2>2, <2>3
<1> QED BY <1>5, <1>6

(* Steps that leave the deadlines alone. *)
LEMMA SameDeadlines ==
    ASSUME TypeOK, DataDue, LivesItsTtl, due' = due,
           \A k \in Keys : \/ data'[k].set = data[k].set /\ data'[k].expire = data[k].expire
                           \/ data'[k].set \in {FromFile, Garbled}
                           \/ data'[k].set = NoSet /\ data'[k].expire = Never
    PROVE  DataDue' /\ LivesItsTtl'
  BY DEF DataDue, LivesItsTtl, FromFile, NoSet, Garbled

LEMMA DeadlineStep ==
    ASSUME RecoveryInv, DeadlineInv, [Next]_vars
    PROVE  DeadlineInv'
<1> USE DEF process, world, history
<1>1. /\ TypeOK /\ OrderInv /\ HeadAppended /\ LogFits /\ DataDue /\ LivesItsTtl
      /\ now \in Nat
  BY DEF RecoveryInv, TypeInv, QueueInv, DeadlineInv, TypeOK
<1>2. CASE Start
  <2>1. \A k \in Keys : \/ data'[k].set = FromFile
                        \/ data'[k].set = NoSet /\ data'[k].expire = Never
    BY <1>2, RdbFileAssumption DEF Start, Absent, Value
  <2>2. UNCHANGED <<log, due, now>>
    BY <1>2 DEF Start
  <2> QED BY <1>1, <2>1, <2>2, SameDeadlines DEF DeadlineInv, LogFits, DeadlineFits
<1>3. CASE Replay
  <2> DEFINE e == replayed + 1
  <2>1. e \in 1..Len(log) /\ log' = log /\ now' = now /\ TypeInv
    BY <1>3, ReplayTypes DEF Replay, RecoveryInv
  <2> HIDE DEF e
  <2>2. CASE log[e].op = "garbled"
    <3>1. due' = due /\ \A k \in Keys : data'[k] = data[k] \/ data'[k].set = Garbled
      BY <1>3, <2>1, <2>2, ReplayGives DEF Entry, e
    <3> QED BY <1>1, <2>1, <3>1, SameDeadlines DEF DeadlineInv, LogFits, DeadlineFits
  <2>3. CASE Entry(e)
    <3>1. log[e] \in Commands /\ Set(log[e]) /\ Remember(log[e])
      BY <1>3, <2>1, <2>3, ReplayGives DEF Entry, e
    <3>2. log[e].set > FromFile
      BY <1>1, <2>1, <2>3, Numbers DEF OrderInv, FromFile
    <3>3. DataDue' /\ LivesItsTtl'
      BY <1>1, <2>1, <2>3, <3>1, <3>2, SetDeadlines DEF LogFits, Entry
    <3>4. ASSUME NEW i \in 1..Len(log), Entry(i), log[i].set \in DOMAIN due'
          PROVE  DeadlineFits(log[i].ttl, due'[log[i].set])
      <4>1. /\ DOMAIN due' = DOMAIN due \cup {log[e].set}
            /\ \A n \in DOMAIN due : due'[n] = due[n]
            /\ log[e].set \notin DOMAIN due => due'[log[e].set] = FirstDeadline(log[e])
        BY <1>1, <3>1, SetNumbers
      <4>2. CASE log[i].set \in DOMAIN due
        BY <1>1, <3>4, <4>1, <4>2 DEF LogFits, Entry
      <4>3. CASE log[i].set \notin DOMAIN due
        <5>1. log[i].set = log[e].set /\ log[i].set \in Nat
          BY <1>1, <3>4, <4>1, <4>3, InFile
        <5>2. i = e
          BY <1>1, <2>1, <2>3, <3>4, <5>1 DEF OrderInv, LogOrdered
        <5>3. due'[log[i].set] = FirstDeadline(log[i]) /\ log[i].ttl \in Nat \cup {NoTtl}
          BY <1>1, <3>4, <4>1, <4>3, <5>2, InFile
        <5> QED BY <1>1, <5>3 DEF FirstDeadline, DeadlineFits, NoTtl, Never
      <4> QED BY <4>2, <4>3
    <3>5. LogFits'
      BY <2>1, <3>4 DEF LogFits, Entry, DeadlineFits
    <3> QED BY <3>3, <3>5 DEF DeadlineInv
  <2> QED BY <1>3, <2>2, <2>3, ReplayGives DEF RecoveryInv, e
<1>4. CASE AppendSet
  <2>1. /\ UNCHANGED <<data, due, now>> /\ 1 \in 1..Len(inbox) /\ Writes(inbox[1].command)
    BY <1>1, <1>4, HeadTypes DEF AppendSet, Writes
  <2>2. inbox[1].command.set \notin DOMAIN due
    BY <1>1, <2>1, Numbers DEF OrderInv, ExecutedBeforeInbox
  <2>3. \A i \in 1..Len(log') : \/ i \in 1..Len(log) /\ log'[i] = log[i]
                                \/ log'[i] = inbox[1].command
    BY <1>1, <1>4, AppendedEntry
  <2>4. LogFits'
    BY <1>1, <2>1, <2>2, <2>3 DEF LogFits, DeadlineFits
  <2> QED BY <1>1, <2>1, <2>4, SameDeadlines DEF DeadlineInv
<1>5. CASE AppendFails
  <2>1. UNCHANGED <<data, due, now>>
    BY <1>5 DEF AppendFails
  <2>2. \A i \in 1..Len(log') : log'[i].op = "set" => Entry(i) /\ log'[i] = log[i]
    BY <1>1, <1>5, FewerEntries
  <2>3. LogFits'
    BY <1>1, <2>1, <2>2 DEF LogFits, DeadlineFits, Entry
  <2> QED BY <1>1, <2>1, <2>3, SameDeadlines DEF DeadlineInv
<1>6. CASE ExecSet \/ ExecTxSet
  <2>1. PICK op : op \in {"set", "txset"} /\ Takes(op)
    BY <1>6 DEF ExecSet, ExecTxSet
  <2>2. /\ Head(inbox) = inbox[1] /\ inbox[1].command \in Commands /\ 1 \in 1..Len(inbox)
        /\ inbox[1].command.op = op /\ Writes(inbox[1].command)
        /\ inbox[1].command.set \in Nat /\ inbox[1].command.ttl \in Nat \cup {NoTtl}
    BY <1>1, <2>1, HeadTypes DEF Writes
  <2>3. /\ Set(inbox[1].command) /\ Remember(inbox[1].command) /\ log' = log /\ now' = now
        /\ appended => ExecSet
    <3>1. appended => op = "set"
      BY <1>1, <2>2 DEF HeadAppended
    <3> QED BY <1>6, <2>1, <2>2, <3>1 DEF ExecSet, ExecTxSet, Takes
  <2>4. inbox[1].command.set \notin DOMAIN due /\ inbox[1].command.set > FromFile
    BY <1>1, <2>2, Numbers DEF OrderInv, ExecutedBeforeInbox, FromFile
  <2>5. DataDue' /\ LivesItsTtl'
    BY <1>1, <2>2, <2>3, <2>4, SetDeadlines
  <2>6. /\ DOMAIN due' = DOMAIN due \cup {inbox[1].command.set}
        /\ \A n \in DOMAIN due : due'[n] = due[n]
        /\ due'[inbox[1].command.set] = FirstDeadline(inbox[1].command)
    BY <1>1, <2>2, <2>3, <2>4, SetNumbers
  <2>7. ASSUME NEW i \in 1..Len(log), Entry(i), log[i].set \in DOMAIN due'
        PROVE  DeadlineFits(log[i].ttl, due'[log[i].set])
    <3>1. CASE log[i].set \in DOMAIN due
      BY <1>1, <2>6, <2>7, <3>1 DEF LogFits, Entry
    <3>2. CASE log[i].set = inbox[1].command.set
      <4>1. log[i] = inbox[1].command
        BY <1>1, <2>2, <2>7, <3>2 DEF OrderInv, LogBeforeInbox
      <4> QED BY <1>1, <2>2, <2>6, <4>1 DEF FirstDeadline, DeadlineFits, NoTtl, Never
    <3> QED BY <2>6, <2>7, <3>1, <3>2
  <2>8. LogFits'
    BY <2>3, <2>7 DEF LogFits, Entry, DeadlineFits
  <2> QED BY <2>5, <2>8 DEF DeadlineInv
<1>7. CASE ExecIncr
  BY <1>1, <1>7, IncrNumbers, SameDeadlines DEF ExecIncr, DeadlineInv, LogFits, DeadlineFits
<1>8. CASE GetInitialCommands \/ Serve \/ ExecGet
  <2>1. UNCHANGED <<data, log, due, now>>
    BY <1>8 DEF GetInitialCommands, Serve, ExecGet
  <2> QED BY <1>1, <2>1, SameDeadlines DEF DeadlineInv, LogFits, DeadlineFits
<1>9. CASE \E c \in Clients : Send(c) \/ WriteReply(c) \/ PanicUnanswered(c)
  <2>1. UNCHANGED <<data, log, due, now>>
    BY <1>9 DEF Send, WriteReply, PanicUnanswered
  <2> QED BY <1>1, <2>1, SameDeadlines DEF DeadlineInv, LogFits, DeadlineFits
<1>10. CASE Tick
  <2>1. UNCHANGED <<data, log, due>> /\ now' = now + 1
    BY <1>10 DEF Tick
  <2>2. ASSUME NEW i \in 1..Len(log), Entry(i), log[i].set \in DOMAIN due
        PROVE  DeadlineFits(log[i].ttl, due[log[i].set])'
    <3>1. DeadlineFits(log[i].ttl, due[log[i].set])
      BY <1>1, <2>2 DEF LogFits, Entry
    <3>2. log[i].ttl \in Nat \cup {NoTtl} /\ due[log[i].set] \in Nat \cup {Never}
      BY <1>1, <2>2, InFile DEF TypeOK
    <3> QED BY <1>1, <2>1, <3>1, <3>2 DEF DeadlineFits, NoTtl, Never
  <2>3. LogFits'
    BY <2>1, <2>2 DEF LogFits, Entry
  <2> QED BY <1>1, <2>1, <2>3, SameDeadlines DEF DeadlineInv
<1>11. CASE Crash \/ PowerLoss
  <2>1. /\ UNCHANGED <<due, now>>
        /\ \A k \in Keys : data'[k].set = NoSet /\ data'[k].expire = Never
    BY <1>11 DEF Crash, PowerLoss, StopProcess, Nothing, Absent, Value
  <2>2. \A i \in 1..Len(log') : log'[i].op = "set" => Entry(i) /\ log'[i] = log[i]
    BY <1>1, <1>11, FewerEntries DEF Crash, Entry
  <2>3. LogFits'
    BY <1>1, <2>1, <2>2 DEF LogFits, DeadlineFits, Entry
  <2> QED BY <1>1, <2>1, <2>3, SameDeadlines DEF DeadlineInv
<1>12. CASE Misread
  <2>1. UNCHANGED <<data, due, now>>
    BY <1>12 DEF Misread
  <2>2. \A i \in 1..Len(log') : log'[i].op = "set" =>
            \E j \in 1..Len(log) : Entry(j) /\ log'[i] = log[j]
    BY <1>1, <1>12, MisreadEntries DEF Entry
  <2>3. LogFits'
    BY <1>1, <2>1, <2>2 DEF LogFits, DeadlineFits, Entry
  <2> QED BY <1>1, <2>1, <2>3, SameDeadlines DEF DeadlineInv
<1>13. CASE UNCHANGED vars
  <2>1. UNCHANGED <<data, log, due, now>>
    BY <1>13 DEF vars
  <2> QED BY <1>1, <2>1, SameDeadlines DEF DeadlineInv, LogFits, DeadlineFits
<1> QED
  BY <1>2, <1>3, <1>4, <1>5, <1>6, <1>7, <1>8, <1>9, <1>10, <1>11, <1>12, <1>13 DEF Next, StoreStep

LEMMA RestartHolds == Spec => [](RecoveryInv /\ DeadlineInv)
<1>1. Init => DeadlineInv
  <2> SUFFICES ASSUME Init PROVE DeadlineInv
    OBVIOUS
  <2>1. \A k \in Keys : data[k].set = NoSet /\ data[k].expire = Never
    BY DEF Init, Nothing, Absent, Value
  <2>2. log = << >>
    BY DEF Init
  <2> QED BY <2>1, <2>2 DEF DeadlineInv, LogFits, DataDue, LivesItsTtl, NoSet, FromFile
<1>2. RecoveryInv /\ DeadlineInv /\ [Next]_vars => DeadlineInv'
  BY DeadlineStep
<1> QED BY <1>1, <1>2, RecoveryHolds, PTL DEF Spec

(* A key keeps at least the deadline its SET was first given, in this run of the
   server and after every replay.                                             *)
THEOREM KeysLiveTheirTtl == Spec => []LivesItsTtl
<1>1. DeadlineInv => LivesItsTtl
  BY DEF DeadlineInv
<1> QED BY RestartHolds, <1>1, PTL

LEMMA RevivesStep ==
    ASSUME RecoveryInv, DeadlineInv, [Next]_vars, NEW k \in Keys,
           server = "serving", Expired(data[k]), ~Expired(data[k])'
    PROVE  data'[k].set # data[k].set
<1> USE DEF process, world, history
<1>1. TypeOK /\ OrderInv /\ DataDue /\ now \in Nat
  BY DEF RecoveryInv, TypeInv, QueueInv, DeadlineInv, TypeOK
<1>2. /\ data[k].set \in Nat \cup {NoSet, Garbled} /\ data[k].expire \in Nat \cup {Never}
      /\ data[k].expire # Never /\ data[k].expire < now
  BY <1>1, DataTypes DEF Expired
<1>3. ~ (data'[k].expire = data[k].expire /\ now' \in {now, now + 1})
  BY <1>1, <1>2 DEF Expired, Never
<1>4. CASE ExecSet \/ ExecTxSet
  <2>1. PICK op : op \in {"set", "txset"} /\ Takes(op)
    BY <1>4 DEF ExecSet, ExecTxSet
  <2>2. /\ Head(inbox) = inbox[1] /\ inbox[1].command \in Commands /\ 1 \in 1..Len(inbox)
        /\ Writes(inbox[1].command) /\ inbox[1].command.set \in Nat
    BY <1>1, <2>1, HeadTypes DEF Writes
  <2>3. Set(inbox[1].command) /\ Remember(inbox[1].command) /\ now' = now
    BY <1>4, <2>2 DEF ExecSet, ExecTxSet
  <2>4. k = inbox[1].command.key /\ data'[k].set = inbox[1].command.set
    BY <1>1, <1>3, <2>2, <2>3, SetNumbers
  <2>5. data[k].set < inbox[1].command.set
    BY <1>1, <2>2 DEF OrderInv, ExecutedBeforeInbox
  <2> QED BY <1>2, <2>2, <2>4, <2>5 DEF NoSet, Garbled
<1>5. CASE Crash \/ PowerLoss
  <2>1. data'[k].set = NoSet
    BY <1>5 DEF Crash, PowerLoss, StopProcess, Nothing, Absent, Value
  <2> QED BY <1>1, <1>2, <2>1 DEF DataDue
<1>6. ~ExecIncr
  BY <1>1, <1>3, IncrNumbers DEF ExecIncr
<1>7. ~ExecGet /\ ~AppendSet /\ ~AppendFails /\ ~Tick /\ ~UNCHANGED vars
  BY <1>3 DEF ExecGet, AppendSet, AppendFails, Tick, vars
<1>8. ~Start /\ ~Misread /\ ~GetInitialCommands /\ ~Replay /\ ~Serve
  BY DEF Start, Misread, GetInitialCommands, Replay, Serve
<1>9. ~ \E c \in Clients : Send(c) \/ WriteReply(c) \/ PanicUnanswered(c)
  BY <1>3 DEF Send, WriteReply, PanicUnanswered
<1> QED BY <1>4, <1>5, <1>6, <1>7, <1>8, <1>9 DEF Next, StoreStep

(* While the server runs, only a SET brings back a key that has expired. *)
THEOREM ExpiredStaysExpired == Spec => NothingRevives
<1>1. RecoveryInv /\ DeadlineInv /\ [Next]_vars =>
         [\A k \in Keys :
             server = "serving" /\ Expired(data[k]) /\ ~Expired(data[k])'
                => data'[k].set # data[k].set]_vars
  BY RevivesStep
<1> QED BY RestartHolds, <1>1, PTL DEF Spec, NothingRevives
=============================================================================
