----------------------------- MODULE MoneyMoves -----------------------------
(***************************************************************************)
(* What the wallet promises its callers: a transaction's money movements   *)
(* appear on the ledgers all at once, in order and at most once, along the *)
(* main path or the fallback, and nothing else ever moves money.           *)
(***************************************************************************)
EXTENDS Integers, Sequences

CONSTANTS Owners, Movements,
  Transactions                          \* pairs [main, alt] of sequences of steps
VARIABLE ledgers                        \* per owner, the movements recorded

Recorded == UNION {{ledgers[u][i] : i \in DOMAIN ledgers[u]} : u \in Owners}

Init == ledgers = [u \in Owners |-> <<>>]

\* The movements of an owner among the first i steps of a path.
Among(path, u) ==
  LET among[i \in 0..Len(path)] ==
        IF i = 0 THEN <<>>
        ELSE IF path[i] \in Movements /\ path[i].user = u THEN Append(among[i - 1], path[i])
        ELSE among[i - 1]
  IN among
Of(path, u) == Among(path, u)[Len(path)]

Record(path) ==
  /\ \A i \in DOMAIN path : path[i] \notin Recorded
  /\ ledgers' = [u \in Owners |-> ledgers[u] \o Of(path, u)]

Next == \E t \in Transactions : Record(t.main) \/ (t.alt # <<>> /\ Record(t.alt))

Spec == Init /\ [][Next]_ledgers
=============================================================================
