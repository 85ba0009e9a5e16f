----------------------------- MODULE PoolRules ------------------------------
(***************************************************************************)
(* The rules of 8-ball: src/src/pool/rules/rules.ts, which turn the state  *)
(* of a game and the physical result of a shot into the next state.  A     *)
(* board is the set of object balls on the table; the physics is any       *)
(* result that such a board allows.                                        *)
(***************************************************************************)
EXTENDS Integers, FiniteSets

CONSTANTS
  Solids, Stripes,  \* the object balls of the two groups
  Eight,            \* the 8
  StrictCalls       \* strictCallShot

Object == Solids \cup Stripes \cup {Eight}
None == "none"

ASSUME RulesAssumption ==
  /\ Solids \cap Stripes = {} /\ Eight \notin Solids \cup Stripes /\ StrictCalls \in BOOLEAN

Seats == {"A", "B"}
otherSeat(s) == IF s = "A" THEN "B" ELSE "A"
Groups == {"solids", "stripes"}
Balls(group) == IF group = "solids" THEN Solids ELSE Stripes
OtherGroup(group) == IF group = "solids" THEN "stripes" ELSE "solids"

newGame(breaker) ==
  [board |-> Object, turn |-> breaker, groups |-> [s \in Seats |-> None], open |-> TRUE,
   phase |-> "break", winner |-> None]

\* runShot: what falls, whether the cue ball falls, what it meets first, whether enough
\* reaches a rail, and whether a pocket was called and what fell into it.
Shots(board) ==
  {r \in [pocketed : SUBSET board, scratch : BOOLEAN, first : board \cup {None}, rail : BOOLEAN,
          called : BOOLEAN, inCalled : SUBSET board] :
     /\ r.first = None => r.pocketed = {}
     /\ r.inCalled \subseteq r.pocketed /\ (r.inCalled # {} => r.called)}

Remaining(board, group) == IF group = None THEN {} ELSE board \cap Balls(group)
Pass(pre) == [pre EXCEPT !.turn = otherSeat(@)]

\* The break: the 8 is spotted again, the table stays open.  (Ball in hand only widens what the
\* next shot may be, and any shot is possible here.)
Break(pre, r) ==
  LET made == r.pocketed \ {Eight} # {}
      foul == r.scratch \/ ~(made \/ r.rail)
      after == [pre EXCEPT !.board = (@ \ r.pocketed) \cup {Eight}, !.open = TRUE, !.phase = "play"] IN
  IF foul \/ ~made THEN Pass(after) ELSE after

\* On an open table the 8 may not be hit first; later the own group must be, then the 8.
WrongFirst(pre, r) ==
  LET own == pre.groups[pre.turn] IN
  IF pre.open THEN r.first = Eight
  ELSE IF Remaining(pre.board, own) = {} THEN r.first # Eight ELSE r.first \notin Balls(own)

Foul(pre, r) ==
  r.scratch \/ r.first = None \/ WrongFirst(pre, r) \/ (r.pocketed = {} /\ ~r.rail)

\* The 8 falls: a win only for the seat whose group was down before the stroke, without
\* a foul, into the called pocket.
Cleared(pre, r) == Remaining(pre.board, pre.groups[pre.turn]) = {}
LegalEight(pre, r) == ~pre.open /\ Cleared(pre, r) /\ ~Foul(pre, r) /\ (r.called => Eight \in r.inCalled)

EightDown(pre, r) ==
  LET winner == IF LegalEight(pre, r) THEN pre.turn ELSE otherSeat(pre.turn) IN
  [pre EXCEPT !.board = @ \ r.pocketed, !.turn = winner, !.phase = "gameover", !.winner = winner]

Strict(r) == StrictCalls /\ r.called
Counting(r) == IF Strict(r) THEN r.inCalled ELSE r.pocketed

\* Groups are taken by a clean shot that makes balls of exactly one.
Assigned(pre, r) ==
  LET made == {g \in Groups : Counting(r) \cap Balls(g) # {}}
      own == CHOOSE g \in made : TRUE IN
  IF pre.open /\ ~Foul(pre, r) /\ Cardinality(made) = 1
  THEN [pre EXCEPT !.groups = [s \in Seats |-> IF s = pre.turn THEN own ELSE OtherGroup(own)], !.open = FALSE]
  ELSE pre

Continue(pre, r) ==
  LET after == Assigned(pre, r)
      own == after.groups[pre.turn]
      scored == Counting(r) \cap (IF own = None THEN Object ELSE Balls(own)) # {}
      next == [after EXCEPT !.board = @ \ r.pocketed, !.phase = "play", !.winner = None] IN
  IF Foul(pre, r) \/ ~scored THEN Pass(next) ELSE next

resolveShot(pre, r) ==
  IF pre.phase = "break" THEN Break(pre, r)
  ELSE IF Eight \in r.pocketed THEN EightDown(pre, r) ELSE Continue(pre, r)

\* The states a shot may lead to from the state of a game before it.
Groupings == {[s \in Seats |-> None], [A |-> "solids", B |-> "stripes"], [A |-> "stripes", B |-> "solids"]}
Games == [board : SUBSET Object, turn : Seats, groups : Groupings, open : BOOLEAN, phase : {"break", "play"},
          winner : {None}]
Outcomes == [pre \in Games |-> {resolveShot(pre, r) : r \in Shots(pre.board)}]
=============================================================================
