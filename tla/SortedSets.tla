------------------------------ MODULE SortedSets ------------------------------
(***************************************************************************)
(* The sorted sets (SortedSets): per key a B-tree of pairs of a score and   *)
(* a member, ordered by score and then by member.                          *)
(*                                                                         *)
(* The tree is indexed by the pair, and the commands speak of members: ZADD *)
(* and ZREM first walk the tree for a pair of the member, and take the      *)
(* first they meet for its only one.  ZADD of a member that is there must   *)
(* take its old pair out, or the member is counted and ranked twice.        *)
(*                                                                         *)
(* Only the order of scores and of members matters: scores are integers in  *)
(* place of floats under total_cmp, members numbers in place of strings.    *)
(* A key without a tree and one with an empty tree are answered alike.      *)
(* GEOADD is a ZADD whose score encodes a position.                        *)
(***************************************************************************)
EXTENDS Integers, Sequences, FiniteSets

CONSTANTS Keys

Scores  == Int
Members == Nat

VARIABLES
    sets,     \* SortedSets.data: [Keys -> SUBSET Pairs]
    reply     \* the reply to the last command

vars == <<sets, reply>>

Pairs == Scores \X Members
Score(p)  == p[1]
Member(p) == p[2]

Before(p, q) ==
    \/ Score(p) < Score(q)
    \/ Score(p) = Score(q) /\ Member(p) < Member(q)

Number(n) == [nil |-> FALSE, number |-> n]
Nil       == [nil |-> TRUE, number |-> 0]

Init == sets = [k \in Keys |-> {}] /\ reply = Nil

-----------------------------------------------------------------------------
(* Walking the tree from its least pair.                                   *)

PairsOf(S, m)   == {p \in S : Member(p) = m}
FirstPair(S, m) == CHOOSE p \in PairsOf(S, m) :
                      \A q \in PairsOf(S, m) : q = p \/ Before(p, q)
Preceding(S, p) == {q \in S : Before(q, p)}

(* The pair at each place of the tree. *)
InOrder(S) == [i \in 1..Cardinality(S) |->
                  CHOOSE p \in S : Cardinality(Preceding(S, p)) = i - 1]

-----------------------------------------------------------------------------
(* Indices that count from the front, or from the end if they are negative
   (LRANGE and ZRANGE have the same arithmetic).                            *)

Counted(i, len)       == IF i < 0 THEN i + len ELSE i
StartIndex(i, len)    == IF Counted(i, len) < 0 THEN 0 ELSE Counted(i, len)
StopIndex(i, len)     == IF Counted(i, len) > len - 1 THEN len - 1 ELSE Counted(i, len)

\* no elements if the first index is behind the last
Slice(s, start, stop) == SubSeq(s, StartIndex(start, Len(s)) + 1, StopIndex(stop, Len(s)) + 1)

Lrange(list, start, stop) == Slice(list, start, stop)

Zrange(S, start, stop) ==
    LET found == Slice(InOrder(S), start, stop)
    IN  [i \in 1..Len(found) |-> Member(found[i])]

Zrank(S, m) == IF PairsOf(S, m) = {} THEN Nil
               ELSE Number(Cardinality(Preceding(S, FirstPair(S, m))))
Zscore(S, m) == IF PairsOf(S, m) = {} THEN Nil ELSE Number(Score(FirstPair(S, m)))
Zcard(S) == Number(Cardinality(S))

-----------------------------------------------------------------------------
(* The commands.                                                           *)

Zadd(k, s, m) ==
    /\ sets' = [sets EXCEPT ![k] =
                   (IF PairsOf(@, m) = {} THEN @ ELSE @ \ {FirstPair(@, m)}) \cup {<<s, m>>}]
    /\ reply' = Number(IF PairsOf(sets[k], m) = {} THEN 1 ELSE 0)

Zrem(k, m) ==
    IF PairsOf(sets[k], m) = {}
    THEN reply' = Number(0) /\ UNCHANGED sets
    ELSE /\ sets' = [sets EXCEPT ![k] = @ \ {FirstPair(@, m)}]
         /\ reply' = Number(1)

Ask(k, m) ==
    /\ reply' \in {Zscore(sets[k], m), Zrank(sets[k], m), Zcard(sets[k])}
    /\ UNCHANGED sets

Next ==
    \E k \in Keys, m \in Members :
        (\E s \in Scores : Zadd(k, s, m)) \/ Zrem(k, m) \/ Ask(k, m)

Spec == Init /\ [][Next]_vars

-----------------------------------------------------------------------------
(* A member is in a sorted set once: ZADD of a member that is there takes its
   old pair out, wherever in the tree it is.                                *)
Unique(S) == \A p, q \in S : Member(p) = Member(q) => p = q
MembersUnique == \A k \in Keys : Unique(sets[k])

(* What callers may take a sorted set for: a map from members to scores. *)
MemberSet(S) == {Member(p) : p \in S}
ScoreMap(S)  == [m \in MemberSet(S) |-> Score(FirstPair(S, m))]

Maps == INSTANCE ScoreMaps WITH scores <- [k \in Keys |-> ScoreMap(sets[k])], reply <- reply
IsAScoreMap == Maps!Spec
=============================================================================
