------------------------------ MODULE ScoreMaps ------------------------------
(***************************************************************************)
(* What the sorted set commands promise: per key a finite map from members  *)
(* to scores.  ZADD answers whether the member is new, ZREM whether it was  *)
(* there, ZSCORE its score; ZCARD counts the members, and ZRANK those that   *)
(* are behind it by score, or by name where the scores are the same.        *)
(***************************************************************************)
EXTENDS Integers, FiniteSets

CONSTANTS Keys

Scores  == Int
Members == Nat

VARIABLES
    scores,    \* [Keys -> maps from members to scores]
    reply      \* the reply to the last command

vars == <<scores, reply>>

Number(n) == [nil |-> FALSE, number |-> n]
Nil       == [nil |-> TRUE, number |-> 0]

Empty == [m \in {} |-> 0]

Init == scores = [k \in Keys |-> Empty] /\ reply = Nil

With(map, m, s) == [x \in DOMAIN map \cup {m} |-> IF x = m THEN s ELSE map[x]]
Without(map, m) == [x \in DOMAIN map \ {m} |-> map[x]]

Zadd(k, s, m) ==
    /\ scores' = [scores EXCEPT ![k] = With(@, m, s)]
    /\ reply' = Number(IF m \in DOMAIN scores[k] THEN 0 ELSE 1)

Zrem(k, m) ==
    /\ scores' = [scores EXCEPT ![k] = Without(@, m)]
    /\ reply' = Number(IF m \in DOMAIN scores[k] THEN 1 ELSE 0)

Lower(map, x, m) == map[x] < map[m] \/ (map[x] = map[m] /\ x < m)

Zscore(map, m) == IF m \in DOMAIN map THEN Number(map[m]) ELSE Nil
Zrank(map, m)  == IF m \in DOMAIN map
                  THEN Number(Cardinality({x \in DOMAIN map : Lower(map, x, m)})) ELSE Nil
Zcard(map)     == Number(Cardinality(DOMAIN map))

Ask(k, m) ==
    /\ reply' \in {Zscore(scores[k], m), Zrank(scores[k], m), Zcard(scores[k])}
    /\ UNCHANGED scores

Next ==
    \E k \in Keys, m \in Members :
        (\E s \in Scores : Zadd(k, s, m)) \/ Zrem(k, m) \/ Ask(k, m)

Spec == Init /\ [][Next]_vars
=============================================================================
