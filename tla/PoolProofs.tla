----------------------------- MODULE PoolProofs -----------------------------
(***************************************************************************)
(* Proofs about the matches and the bracket: who is paid for a match, who  *)
(* plays whom, and what the prizes add up to.                              *)
(***************************************************************************)
EXTENDS MCPool, SetSums

GameRecords == [board : SUBSET Object, turn : Seats, groups : Groupings, open : BOOLEAN,
                phase : {"break", "play", "gameover"}, winner : {"A", "B", None}]
Rows == [status : {"none", "active", "completed"}, mode : {None, "single", "two_player", "tournament"},
         seat : [Seats -> Users \cup {Bot, None}], game : GameRecords, shots : Nat, timeouts : [Seats -> Nat],
         deadline : {"none", "set", "due"}, settled : BOOLEAN]

\* A row is of its kind.
RowFits(m, row) ==
  /\ row \in Rows
  /\ row.status = "none" => row = NoMatch
  /\ row.status # "none" =>
       IF m = 0 THEN row.mode \in {"single", "two_player"} /\ row.seat \in [Seats -> Users \cup {Bot}]
       ELSE row.mode = "tournament"
RowsTyped == match \in [Matches -> Rows] /\ \A m \in Matches : RowFits(m, match[m])

\* The queue and the tournament hold users.
Tournaments == [status : {"registering", "active", "completed"}, players : Seq(Users), pool : Nat,
                eliminated : SUBSET (Users \cup {Bot, None}), winner : Users \cup {Bot, None}]
OthersTyped ==
  /\ queue \subseteq Users /\ overwritten \subseteq Matches
  /\ t \in Tournaments /\ Len(t.players) <= Size /\ IsInjective(t.players)

LaterRounds == Brackets \ FirstRound
Draws == {o \in [1..Size -> Users] : IsInjective(o)}

\* What a call carries from its reads.
Checked == [op : {"checked"}, m : Matches, seat : Seats]
ShotCalls == [op : {"shot"}, m : Matches, seat : Seats, index : Nat, turn : Seats, phase : {"break", "play"}, settled : BOOLEAN]
TimeoutCalls == [op : {"timeout"}, m : Matches, offender : Seats, prior : Nat, index : Nat, settled : BOOLEAN]
BotCalls == [op : {"bots"}, m : Matches]
CompletedCalls == [op : {"completed"}, m : Brackets]
SeedCalls == [op : {"seed"}, order : Draws]
SlotCalls == [op : {"slots"}, order : Draws, slot : 0..(Size \div 2 - 1)]
Seatings == [A : Users \cup {Bot, None}, B : Users \cup {Bot, None}]
NextCalls == [op : {"next"}, m : LaterRounds, pair : Seatings]
PayCalls == {c \in [op : {"pay"}, winner : Users \cup {Bot, None}, second : Users \cup {Bot, None},
                    beaten : Seq(Users \cup {Bot, None})] : IsInjective(c.beaten)}
CallRecords == {Idle} \cup Checked \cup ShotCalls \cup TimeoutCalls \cup BotCalls \cup CompletedCalls
               \cup [op : {"start"}] \cup SeedCalls \cup SlotCalls \cup NextCalls \cup PayCalls
CallsTyped == call \in [Sessions -> CallRecords]

\* A match that is not over has not been settled.
DuelFits == 0 \in overwritten \/ (WinnerPaid /\ (match[0].status # "completed" => match[0].settled = FALSE))

\* The call that creates the first slot goes on alone: the rows of the first round follow one draw.
Slot(m) == m - Size \div 2
Follows(row, o, i) == row.seat = [A |-> o[2 * i + 1], B |-> o[2 * i + 2]]
DrawnBy(o) ==
  /\ \A m \in FirstRound : match[m].status # "none" => Follows(match[m], o, Slot(m))
  /\ \A s \in Sessions : call[s].op = "slots" /\ call[s].slot # 0 => call[s].order = o
Undrawn ==
  /\ \A m \in FirstRound : match[m].status = "none"
  /\ \A s \in Sessions : call[s].op = "slots" => call[s].slot = 0
RoundFits == IF match[Size \div 2].status = "none" THEN Undrawn ELSE \E o \in Draws : DrawnBy(o)

\* What a later match, a call that creates one, or a call that pays knows of the matches before it.
Over(m) == match[m].status = "completed"
Kept(M) == overwritten \cap M = {}
Fed(m, seats) ==
  Kept({2 * m, 2 * m + 1}) =>
    /\ Over(2 * m) /\ Over(2 * m + 1)
    /\ seats = [A |-> WinnerOf(match[2 * m]), B |-> WinnerOf(match[2 * m + 1])]
Won(u) == Kept({1}) => Over(1) /\ u = WinnerOf(match[1])
LaterFits ==
  /\ \A m \in LaterRounds : match[m].status # "none" => Fed(m, match[m].seat)
  /\ t.status = "completed" => Won(t.winner)

\* What a call believes of the matches is still so, or the match was written over.
CallFits(c) ==
  /\ c.op \in {"checked", "shot", "timeout", "bots", "completed"} => match[c.m].status # "none"
  /\ c.op \in {"shot", "timeout"} /\ c.m = 0 => c.settled = FALSE \/ 0 \in overwritten \/ Over(0)
  /\ c.op = "completed" /\ Kept({c.m}) => Over(c.m)
  /\ c.op = "next" => Fed(c.m, c.pair)
  /\ c.op = "pay" => Won(c.winner)
CallsFit == \A s \in Sessions, c \in CallRecords : c = call[s] => CallFits(c)

PoolInv == RowsTyped /\ OthersTyped /\ CallsTyped /\ CallsFit /\ DuelFits /\ RoundFits /\ LaterFits

-----------------------------------------------------------------------------
\* The rules: a shot leads from a state of a game before it to another, or ends the game.
LEMMA SeatsOther == ASSUME NEW s \in Seats PROVE otherSeat(s) \in Seats /\ None \notin Seats
BY DEF Seats, otherSeat, None

LEMMA NewGameFits == ASSUME NEW turn \in Seats PROVE newGame(turn) \in Games
BY DEF newGame, Games, Groupings

LEMMA PassFits == ASSUME NEW g \in Games PROVE Pass(g) \in Games
<1>1. otherSeat(g.turn) \in Seats
  BY SeatsOther DEF Games
<1> QED BY <1>1 DEF Games, Pass

LEMMA BreakFits == ASSUME NEW pre \in Games, NEW r \in Shots(pre.board) PROVE Break(pre, r) \in Games
<1>1. (pre.board \ r.pocketed) \cup {Eight} \in SUBSET Object
  BY DEF Games, Object
<1> DEFINE after == [pre EXCEPT !.board = (@ \ r.pocketed) \cup {Eight}, !.open = TRUE, !.phase = "play"]
<1>2. after \in Games
  BY <1>1 DEF Games
<1>3. Pass(after) \in Games
  BY <1>2, PassFits
<1>4. Break(pre, r) = after \/ Break(pre, r) = Pass(after)
  BY DEF Break
<1> QED BY <1>2, <1>3, <1>4

LEMMA EightDownFits ==
  ASSUME NEW pre \in Games, NEW r
  PROVE  EightDown(pre, r) \in GameRecords /\ EightDown(pre, r).phase = "gameover" /\ EightDown(pre, r).winner \in Seats
<1>1. PICK w : w = IF LegalEight(pre, r) THEN pre.turn ELSE otherSeat(pre.turn)
  OBVIOUS
<1>2. w \in Seats
  BY <1>1, SeatsOther DEF Games
<1>3. EightDown(pre, r) = [pre EXCEPT !.board = @ \ r.pocketed, !.turn = w, !.phase = "gameover", !.winner = w]
  BY <1>1, Zenon DEF EightDown
<1> QED BY <1>2, <1>3 DEF Games, GameRecords, Seats

LEMMA AssignedFits == ASSUME NEW pre \in Games, NEW r PROVE Assigned(pre, r) \in Games
<1> DEFINE made == {g \in Groups : Counting(r) \cap Balls(g) # {}}
           own == CHOOSE g \in made : TRUE
           groups == [s \in Seats |-> IF s = pre.turn THEN own ELSE OtherGroup(own)]
<1>1. CASE pre.open /\ ~Foul(pre, r) /\ Cardinality(made) = 1
  <2>1. made # {}
    BY <1>1, FS_EmptySet
  <2>2. own \in Groups
    BY <2>1
  <2> HIDE DEF own
  <2>3. pre.turn \in Seats
    BY DEF Games
  <2>4. groups \in Groupings
    <3> DEFINE AB(a, b) == [A |-> a, B |-> b]
    <3>1. AB("solids", "stripes") = [s \in Seats |-> IF s = "A" THEN "solids" ELSE "stripes"]
      BY DEF Seats
    <3>2. AB("stripes", "solids") = [s \in Seats |-> IF s = "A" THEN "stripes" ELSE "solids"]
      BY DEF Seats
    <3>3. AB("solids", "stripes") \in Groupings /\ AB("stripes", "solids") \in Groupings
      BY DEF Groupings
    <3> HIDE DEF AB
    <3>4. groups = AB("solids", "stripes") \/ groups = AB("stripes", "solids")
      BY <2>2, <2>3, <3>1, <3>2 DEF Groups, OtherGroup, Seats
    <3> QED BY <3>3, <3>4
  <2> HIDE DEF groups
  <2>5. [pre EXCEPT !.groups = groups, !.open = FALSE] \in Games
    BY <2>4 DEF Games
  <2>6. Assigned(pre, r) = [pre EXCEPT !.groups = groups, !.open = FALSE]
    BY <1>1, Zenon DEF Assigned, own, groups
  <2> QED BY <2>5, <2>6
<1>2. CASE ~(pre.open /\ ~Foul(pre, r) /\ Cardinality(made) = 1)
  <2>1. Assigned(pre, r) = pre
    BY <1>2, Zenon DEF Assigned
  <2> QED BY <2>1
<1> QED BY <1>1, <1>2

LEMMA ContinueFits == ASSUME NEW pre \in Games, NEW r PROVE Continue(pre, r) \in Games
<1>1. PICK after : after = Assigned(pre, r) /\ after \in Games
  BY AssignedFits
<1> DEFINE next == [after EXCEPT !.board = @ \ r.pocketed, !.phase = "play", !.winner = None]
<1>2. next \in Games
  BY <1>1 DEF Games
<1>3. Pass(next) \in Games
  BY <1>2, PassFits
<1>4. Continue(pre, r) = next \/ Continue(pre, r) = Pass(next)
  BY <1>1, Zenon DEF Continue
<1> QED BY <1>2, <1>3, <1>4

LEMMA OutcomesFit ==
  ASSUME NEW pre \in Games, NEW g \in Outcomes[pre]
  PROVE  g \in GameRecords /\ (IF g.phase = "gameover" THEN g.winner \in Seats ELSE g.winner = None)
<1>1. Outcomes[pre] = {resolveShot(pre, r) : r \in Shots(pre.board)}
  BY Zenon DEF Outcomes
<1>2. PICK r \in Shots(pre.board) : g = resolveShot(pre, r)
  BY <1>1
<1>3. \A h \in Games : h \in GameRecords /\ h.phase # "gameover" /\ h.winner = None
  BY DEF Games, GameRecords
<1>4. g \in Games \/ (g \in GameRecords /\ g.phase = "gameover" /\ g.winner \in Seats)
  BY <1>2, BreakFits, EightDownFits, ContinueFits, Zenon DEF resolveShot
<1> QED BY <1>3, <1>4

-----------------------------------------------------------------------------
\* The bracket: match m is fed by 2m and 2m + 1, and its first round is the upper half.
LEMMA BracketShape ==
  /\ Size \in Nat /\ Size \div 2 \in Nat \ {0} /\ Size = 2 * (Size \div 2)
  /\ 0 \notin Brackets /\ Matches = Brackets \cup {0}
  /\ FirstRound = (Size \div 2)..(Size - 1) /\ LaterRounds = 1..(Size \div 2 - 1) /\ Brackets = 1..(Size - 1)
<1>1. Size \in Nat /\ Size \div 2 \in Nat /\ Size = 2 * (Size \div 2) /\ Size > 0
  <2>1. Cardinality(Brackets) \in Nat
    BY TournamentAssumption, FS_CardinalityType
  <2>2. PICK n \in Nat : n = Size /\ n > 0 /\ n % 2 = 0
    BY <2>1, TournamentAssumption DEF Size
  <2> QED BY <2>2
<1>2. Brackets = 1..(Size - 1)
  BY TournamentAssumption
<1> HIDE DEF Size
<1>3. PICK n \in Nat, h \in Nat : n = Size /\ h = Size \div 2 /\ n = 2 * h /\ h > 0
  BY <1>1
<1> QED BY <1>2, <1>3 DEF FirstRound, LaterRounds, Matches

LEMMA Halves ==
  ASSUME NEW m \in Brackets, m # 1
  PROVE  /\ Sibling(m) \in Brackets /\ m \div 2 \in LaterRounds
         /\ \/ m = 2 * (m \div 2) /\ Sibling(m) = m + 1 /\ m % 2 = 0
            \/ m = 2 * (m \div 2) + 1 /\ Sibling(m) = m - 1 /\ m % 2 = 1
<1>1. PICK n \in Nat, h \in Nat : n = Size /\ h = Size \div 2 /\ n = 2 * h /\ h > 0
  BY BracketShape
<1>2. m \in 2..(n - 1)
  <2>1. Brackets = 1..(n - 1)
    BY <1>1, BracketShape, Zenon
  <2> QED BY <1>1, <2>1
<1>3. PICK k \in Nat : k = m \div 2 /\ (m = 2 * k \/ m = 2 * k + 1) /\ k \in 1..(h - 1)
  BY <1>1, <1>2
<1> QED BY <1>1, <1>2, <1>3, BracketShape DEF Sibling

LEMMA NoMatchFits == ASSUME NEW m PROVE RowFits(m, NoMatch)
<1>1. newGame("A") \in GameRecords
  BY NewGameFits DEF Seats, Games, GameRecords
<1> QED BY <1>1 DEF RowFits, NoMatch, Rows, None

Placed(m, mode, a, b) ==
  IF m = 0 THEN mode \in {"single", "two_player"} /\ a \in Users \cup {Bot} /\ b \in Users \cup {Bot} ELSE mode = "tournament"

Newly(row, a, b) == row.status = "active" /\ row.seat = [A |-> a, B |-> b] /\ row.settled = FALSE

LEMMA CreatedFits ==
  ASSUME NEW m \in Matches, NEW mode, NEW a \in Users \cup {Bot, None}, NEW b \in Users \cup {Bot, None}, NEW br \in Seats,
         Placed(m, mode, a, b), NEW row, row = Created(mode, a, b, br)
  PROVE  RowFits(m, row) /\ Newly(row, a, b)
<1>1. newGame(br) \in GameRecords
  BY NewGameFits DEF Seats, Games, GameRecords
<1>2. NoMatch \in Rows
  BY NoMatchFits DEF RowFits
<1>3. PICK seat : seat = [A |-> a, B |-> b]
  OBVIOUS
<1>4. seat \in [Seats -> Users \cup {Bot, None}] /\ (m = 0 => seat \in [Seats -> Users \cup {Bot}])
  BY <1>3 DEF Seats, Placed
<1>5. PICK g : g = newGame(br)
  OBVIOUS
<1>6. PICK r : r = [NoMatch EXCEPT !.status = "active", !.mode = mode, !.seat = seat, !.game = g, !.deadline = "set"]
  OBVIOUS
<1>7. Created(mode, a, b, br) = r
  BY <1>3, <1>5, <1>6, Zenon DEF Created
<1>8. r \in Rows /\ r.status = "active" /\ r.mode = mode /\ r.seat = seat /\ r.settled = FALSE
  <2>1. NoMatch.settled = FALSE
    BY DEF NoMatch
  <2> QED BY <1>1, <1>2, <1>4, <1>5, <1>6, <2>1 DEF Rows, Placed
<1> QED BY <1>3, <1>4, <1>7, <1>8 DEF RowFits, Placed, Newly

-----------------------------------------------------------------------------
\* What a step may do to a row: a row keeps its seats, and one that is over its result,
\* unless it is written over.
RowKept(m) ==
  match[m].status # "none" =>
    /\ match'[m].status # "none" /\ match'[m].seat = match[m].seat
    /\ Over(m) /\ m \notin overwritten' => match'[m].status = "completed" /\ match'[m].game = match[m].game
RowsKept == overwritten \subseteq overwritten' /\ \A m \in Matches : RowKept(m)
Only(m) == \A n \in Matches \ {m} : match'[n] = match[n]

LEMMA SameRows ==
  ASSUME RowsTyped, match' = match, overwritten \subseteq overwritten'
  PROVE  RowsTyped' /\ RowsKept
<1>1. RowsKept
  BY DEF RowsKept, RowKept, Over
<1> QED BY <1>1 DEF RowsTyped

LEMMA PutRow ==
  ASSUME RowsTyped, overwritten \subseteq overwritten', NEW m \in Matches, NEW row, RowFits(m, row), row.status # "none",
         match' = [match EXCEPT ![m] = row],
         match[m].status = "none" \/
           (row.seat = match[m].seat /\ (Over(m) => m \in overwritten' \/ (row.status = "completed" /\ row.game = match[m].game)))
  PROVE  RowsTyped' /\ RowsKept /\ Only(m) /\ match'[m] = row
<1>1. match \in [Matches -> Rows] /\ row \in Rows
  BY DEF RowsTyped, RowFits
<1>2. match'[m] = row /\ Only(m) /\ match' \in [Matches -> Rows]
  BY <1>1 DEF Only
<1>3. ASSUME NEW n \in Matches PROVE RowFits(n, match'[n]) /\ RowKept(n)
  <2>1. CASE n = m
    <3>1. RowKept(m)
      BY <1>2 DEF RowKept, Over
    <3> QED BY <1>2, <2>1, <3>1
  <2>2. CASE n # m
    <3>1. match'[n] = match[n]
      BY <1>2, <2>2 DEF Only
    <3>2. RowFits(n, match[n])
      BY DEF RowsTyped
    <3> QED BY <3>1, <3>2 DEF RowKept, Over
  <2> QED BY <2>1, <2>2
<1>4. RowsTyped'
  BY <1>2, <1>3 DEF RowsTyped
<1> QED BY <1>2, <1>3, <1>4 DEF RowsKept

LEMMA CreateRow ==
  ASSUME RowsTyped, overwritten \subseteq overwritten', NEW m \in Matches, NEW row, RowFits(m, row), row.status # "none",
         match' = [match EXCEPT ![m] = row], match[m] = NoMatch
  PROVE  RowsTyped' /\ RowsKept /\ Only(m) /\ match'[m] = row /\ match[m].status = "none"
<1>1. match[m].status = "none"
  BY DEF NoMatch
<1> QED BY <1>1, PutRow

\* A shot, and a time-out, write a row of the same match.
ShotRow(c, game) ==
  [Reset(match[c.m], c.seat) EXCEPT !.game = game, !.shots = c.index + 1,
     !.status = IF game.phase = "gameover" THEN "completed" ELSE "active",
     !.settled = Settles(c.m, game.winner, c.settled), !.deadline = IF game.phase = "gameover" THEN "none" ELSE "set"]
Before(c) == [match[c.m].game EXCEPT !.turn = c.turn, !.phase = c.phase, !.winner = None]

LEMMA ShotWrites ==
  ASSUME RowsTyped, NEW s, CommitShot(s), NEW c \in ShotCalls, c = call[s]
  PROVE  \E game \in Outcomes[Before(c)] :
           /\ match' = [match EXCEPT ![c.m] = ShotRow(c, game)]
           /\ ledger' = PaidIfSettled(c.m, game.winner, c.settled)
           /\ After(s, c.m, game.phase = "gameover", TRUE)
           /\ game \in GameRecords /\ IF game.phase = "gameover" THEN game.winner \in Seats ELSE game.winner = None
<1>1. Before(c) \in Games
  <2>1. match[c.m].game \in GameRecords
    BY DEF RowsTyped, Rows, ShotCalls
  <2> QED BY <2>1 DEF GameRecords, Games, Before, ShotCalls
<1>2. PICK game \in Outcomes[Before(c)] :
           /\ match' = [match EXCEPT ![c.m] = ShotRow(c, game)]
           /\ ledger' = PaidIfSettled(c.m, game.winner, c.settled)
           /\ After(s, c.m, game.phase = "gameover", TRUE)
  BY Zenon DEF CommitShot, Before, ShotRow
<1> QED BY <1>1, <1>2, OutcomesFit

LEMMA ShotRowFits ==
  ASSUME RowsTyped, NEW c \in ShotCalls, match[c.m].status # "none", NEW game \in GameRecords
  PROVE  /\ RowFits(c.m, ShotRow(c, game)) /\ ShotRow(c, game).seat = match[c.m].seat
         /\ ShotRow(c, game).status = (IF game.phase = "gameover" THEN "completed" ELSE "active")
         /\ ShotRow(c, game).game = game /\ ShotRow(c, game).shots = c.index + 1
         /\ ShotRow(c, game).settled = Settles(c.m, game.winner, c.settled)
<1>1. PICK row : row = match[c.m]
  OBVIOUS
<1>2. c.m \in Matches /\ c.seat \in Seats /\ c.index \in Nat /\ c.settled \in BOOLEAN
  BY DEF ShotCalls
<1>3. row \in Rows /\ RowFits(c.m, row)
  BY <1>1, <1>2 DEF RowsTyped
<1>4. PICK reset : reset = Reset(row, c.seat)
  OBVIOUS
<1>5. reset \in Rows /\ reset.seat = row.seat /\ reset.mode = row.mode
  BY <1>2, <1>3, <1>4 DEF Reset, Rows
<1>6. PICK paid \in BOOLEAN : paid = Settles(c.m, game.winner, c.settled)
  BY DEF Settles
<1>7. PICK status \in {"completed", "active"} : status = IF game.phase = "gameover" THEN "completed" ELSE "active"
  OBVIOUS
<1>8. PICK deadline \in {"none", "set"} : deadline = IF game.phase = "gameover" THEN "none" ELSE "set"
  OBVIOUS
<1>9. PICK r : r = [reset EXCEPT !.game = game, !.shots = c.index + 1, !.status = status, !.settled = paid, !.deadline = deadline]
  OBVIOUS
<1>10. ShotRow(c, game) = r
  BY <1>1, <1>4, <1>6, <1>7, <1>8, <1>9, Zenon DEF ShotRow
<1>11. r \in Rows /\ r.game = game /\ r.shots = c.index + 1 /\ r.status = status /\ r.settled = paid
       /\ r.seat = row.seat /\ r.mode = row.mode
  <2> DEFINE n == c.index + 1
  <2> HIDE DEF n
  <2>0. n \in Nat
    BY <1>2 DEF n
  <2>1. PICK r1 : r1 = [reset EXCEPT !.game = game]
    OBVIOUS
  <2>2. r1 \in Rows /\ r1.game = game /\ r1.seat = row.seat /\ r1.mode = row.mode
    BY <1>5, <2>1 DEF Rows
  <2>3. PICK r2 : r2 = [r1 EXCEPT !.shots = n]
    OBVIOUS
  <2>4. r2 \in Rows /\ r2.game = game /\ r2.shots = n /\ r2.seat = row.seat /\ r2.mode = row.mode
    BY <2>0, <2>2, <2>3 DEF Rows
  <2>5. r = [r2 EXCEPT !.status = status, !.settled = paid, !.deadline = deadline]
    BY <1>9, <2>1, <2>3, Zenon DEF n
  <2>6. r \in Rows /\ r.game = game /\ r.shots = n /\ r.status = status /\ r.settled = paid /\ r.seat = row.seat /\ r.mode = row.mode
    BY <2>4, <2>5 DEF Rows
  <2> QED BY <2>6 DEF n
<1>12. RowFits(c.m, r)
  BY <1>1, <1>3, <1>11 DEF RowFits
<1> QED BY <1>1, <1>6, <1>7, <1>10, <1>11, <1>12

ForfeitRow(c) ==
  [[match[c.m] EXCEPT !.timeouts[c.offender] = c.prior + 1]
     EXCEPT !.status = "completed", !.game = [@ EXCEPT !.phase = "gameover", !.winner = otherSeat(c.offender)],
            !.deadline = "none", !.settled = Settles(c.m, otherSeat(c.offender), c.settled)]
WarnedRow(c) ==
  [[match[c.m] EXCEPT !.timeouts[c.offender] = c.prior + 1]
     EXCEPT !.game = [@ EXCEPT !.turn = otherSeat(c.offender)], !.deadline = "set"]

LEMMA ChargedFits ==
  ASSUME RowsTyped, NEW c \in TimeoutCalls, match[c.m].status # "none"
  PROVE  LET r == [match[c.m] EXCEPT !.timeouts[c.offender] = c.prior + 1] IN
         /\ RowFits(c.m, match[c.m]) /\ RowFits(c.m, r)
         /\ r.seat = match[c.m].seat /\ r.game = match[c.m].game /\ r.status = match[c.m].status /\ r.mode = match[c.m].mode
         /\ r.settled = match[c.m].settled /\ r.shots = match[c.m].shots
<1>1. PICK row : row = match[c.m]
  OBVIOUS
<1>2. c.m \in Matches /\ c.offender \in Seats /\ c.prior + 1 \in Nat
  BY DEF TimeoutCalls
<1>3. row \in Rows /\ RowFits(c.m, row)
  BY <1>1, <1>2 DEF RowsTyped
<1>4. PICK timeouts : timeouts = [row.timeouts EXCEPT ![c.offender] = c.prior + 1]
  OBVIOUS
<1>5. timeouts \in [Seats -> Nat]
  <2>1. row.timeouts \in [Seats -> Nat]
    BY <1>3 DEF Rows
  <2> QED BY <1>2, <1>4, <2>1
<1>6. PICK r : r = [row EXCEPT !.timeouts = timeouts]
  OBVIOUS
<1>7. r \in Rows /\ r.seat = row.seat /\ r.game = row.game /\ r.status = row.status /\ r.mode = row.mode
      /\ r.settled = row.settled /\ r.shots = row.shots
  BY <1>3, <1>5, <1>6 DEF Rows
<1>8. RowFits(c.m, r)
  BY <1>1, <1>3, <1>7 DEF RowFits
<1>9. r = [match[c.m] EXCEPT !.timeouts[c.offender] = c.prior + 1]
  BY <1>1, <1>4, <1>6, Zenon
<1> QED BY <1>1, <1>3, <1>7, <1>8, <1>9, Zenon

LEMMA ForfeitFits ==
  ASSUME RowsTyped, NEW c \in TimeoutCalls, match[c.m].status # "none"
  PROVE  /\ RowFits(c.m, ForfeitRow(c)) /\ ForfeitRow(c).seat = match[c.m].seat /\ ForfeitRow(c).status = "completed"
         /\ ForfeitRow(c).game.winner = otherSeat(c.offender) /\ otherSeat(c.offender) \in Seats
         /\ ForfeitRow(c).settled = Settles(c.m, otherSeat(c.offender), c.settled) /\ ForfeitRow(c).shots = match[c.m].shots
<1>1. PICK r : r = [match[c.m] EXCEPT !.timeouts[c.offender] = c.prior + 1]
  OBVIOUS
<1>2. RowFits(c.m, match[c.m]) /\ RowFits(c.m, r) /\ r.seat = match[c.m].seat /\ r.game = match[c.m].game /\ r.status = match[c.m].status
      /\ r.mode = match[c.m].mode /\ r.shots = match[c.m].shots
  BY <1>1, ChargedFits
<1>3. PICK w : w = otherSeat(c.offender)
  OBVIOUS
<1>4. w \in Seats
  BY <1>3, SeatsOther DEF TimeoutCalls
<1>5. PICK paid \in BOOLEAN : paid = Settles(c.m, w, c.settled)
  BY DEF Settles
<1>6. PICK g : g = [r.game EXCEPT !.phase = "gameover", !.winner = w]
  OBVIOUS
<1>7. g \in GameRecords /\ g.winner = w
  BY <1>2, <1>4, <1>6 DEF GameRecords, RowFits, Rows, Seats
<1>8. PICK q : q = [r EXCEPT !.status = "completed", !.game = g, !.deadline = "none", !.settled = paid]
  OBVIOUS
<1>9. q \in Rows /\ q.seat = r.seat /\ q.status = "completed" /\ q.game = g /\ q.settled = paid /\ q.mode = r.mode /\ q.shots = r.shots
  BY <1>2, <1>7, <1>8 DEF RowFits, Rows
<1>10. RowFits(c.m, q)
  BY <1>2, <1>9 DEF RowFits
<1>11. ForfeitRow(c) = q
  BY <1>1, <1>3, <1>5, <1>6, <1>8, Zenon DEF ForfeitRow
<1> QED BY <1>2, <1>3, <1>4, <1>5, <1>7, <1>9, <1>10, <1>11

LEMMA WarnedFits ==
  ASSUME RowsTyped, NEW c \in TimeoutCalls, match[c.m].status # "none"
  PROVE  /\ RowFits(c.m, WarnedRow(c)) /\ WarnedRow(c).seat = match[c.m].seat /\ WarnedRow(c).status = match[c.m].status
         /\ WarnedRow(c).settled = match[c.m].settled /\ WarnedRow(c).shots = match[c.m].shots
<1>1. PICK r : r = [match[c.m] EXCEPT !.timeouts[c.offender] = c.prior + 1]
  OBVIOUS
<1>2. RowFits(c.m, match[c.m]) /\ RowFits(c.m, r) /\ r.seat = match[c.m].seat /\ r.game = match[c.m].game /\ r.status = match[c.m].status
      /\ r.mode = match[c.m].mode /\ r.settled = match[c.m].settled /\ r.shots = match[c.m].shots
  BY <1>1, ChargedFits
<1>3. PICK w : w = otherSeat(c.offender)
  OBVIOUS
<1>4. w \in Seats
  BY <1>3, SeatsOther DEF TimeoutCalls
<1>5. PICK g : g = [r.game EXCEPT !.turn = w]
  OBVIOUS
<1>6. g \in GameRecords
  BY <1>2, <1>4, <1>5 DEF GameRecords, RowFits, Rows
<1>7. PICK q : q = [r EXCEPT !.game = g, !.deadline = "set"]
  OBVIOUS
<1>8. q \in Rows /\ q.seat = r.seat /\ q.status = r.status /\ q.mode = r.mode /\ q.settled = r.settled /\ q.shots = r.shots
  BY <1>2, <1>6, <1>7 DEF RowFits, Rows
<1>9. RowFits(c.m, q)
  BY <1>2, <1>8 DEF RowFits
<1>10. WarnedRow(c) = q
  BY <1>1, <1>3, <1>5, <1>7, Zenon DEF WarnedRow
<1> QED BY <1>2, <1>8, <1>9, <1>10

LEMMA TimeoutWrites ==
  ASSUME NEW s, HandleShotTimeout(s), NEW c, c = call[s]
  PROVE  IF Forfeits(c)
         THEN match' = [match EXCEPT ![c.m] = ForfeitRow(c)] /\ ledger' = PaidIfSettled(c.m, otherSeat(c.offender), c.settled)
         ELSE match' = [match EXCEPT ![c.m] = WarnedRow(c)] /\ ledger' = ledger
BY Zenon DEF HandleShotTimeout, ForfeitRow, WarnedRow

DueRow(m) == [match[m] EXCEPT !.deadline = "due"]

LEMMA TickWrites ==
  ASSUME RowsTyped, NEW m \in Matches, Tick(m)
  PROVE  /\ match' = [match EXCEPT ![m] = DueRow(m)] /\ match[m].status # "none" /\ RowFits(m, DueRow(m))
         /\ DueRow(m).seat = match[m].seat /\ DueRow(m).status = match[m].status /\ DueRow(m).game = match[m].game
         /\ DueRow(m).settled = match[m].settled /\ DueRow(m).shots = match[m].shots
<1>1. match' = [match EXCEPT ![m] = DueRow(m)]
  BY Zenon DEF Tick, DueRow
<1>2. match[m].status # "none"
  BY DEF RowsTyped, RowFits, Tick, NoMatch
<1>3. PICK row : row = match[m]
  OBVIOUS
<1>4. row \in Rows /\ RowFits(m, row)
  BY <1>3 DEF RowsTyped
<1>5. PICK r : r = [row EXCEPT !.deadline = "due"]
  OBVIOUS
<1>6. r \in Rows /\ r.seat = row.seat /\ r.status = row.status /\ r.game = row.game /\ r.mode = row.mode
      /\ r.settled = row.settled /\ r.shots = row.shots
  BY <1>4, <1>5 DEF Rows
<1>7. RowFits(m, r)
  BY <1>2, <1>3, <1>4, <1>6 DEF RowFits
<1>8. DueRow(m) = r
  BY <1>3, <1>5, Zenon DEF DueRow
<1> QED BY <1>1, <1>2, <1>3, <1>6, <1>7, <1>8

-----------------------------------------------------------------------------
\* The parts of the next-state relation, each with the tournament it leaves alone.
Enters(u) == CreateSingleMatch(u) \/ JoinQueue(u) \/ JoinPaired(u) \/ Leave(u)
StepOf(s) ==
  \/ \E u \in Users : Register(s, u)
  \/ AdminStart(s) \/ StartRead(s) \/ SetActive(s) \/ CreateSlot(s)
  \/ OnMatchCompleted(s) \/ CreateNext(s) \/ CompleteTournament(s)
PlayOf(s) ==
  \/ \E u \in Users, m \in Matches : SubmitShot(s, u, m)
  \/ \E m \in Matches : TimeoutRead(s, m)
  \/ ReadShot(s) \/ CommitShot(s) \/ BotTurn(s) \/ HandleShotTimeout(s) \/ Conflict(s) \/ Die(s)

LEMMA StepsAre ==
  ASSUME MCNext
  PROVE  \/ \E u \in Users : Enters(u) /\ t' = t
         \/ \E s \in Sessions : StepOf(s)
         \/ \E s \in Sessions : PlayOf(s) /\ t' = t
         \/ \E m \in Matches : Tick(m) /\ t' = t
<1>1. CASE \E u \in Users : Duel(u)
  BY <1>1, Zenon DEF Duel, Enters
<1>2. CASE \E s \in Clients, u \in Users : Shoot(s, u) \/ Register(s, u)
  <2>1. PICK s \in Clients, u \in Users : Shoot(s, u) \/ Register(s, u)
    BY <1>2
  <2>2. s \in Sessions
    BY DEF Sessions
  <2> QED BY <2>1, <2>2, Zenon DEF Shoot, PlayOf, StepOf
<1>3. CASE \E s \in Admins : AdminStart(s)
  <2>1. PICK s \in Admins : AdminStart(s)
    BY <1>3
  <2>2. s \in Sessions
    BY DEF Sessions
  <2> QED BY <2>1, <2>2, Zenon DEF StepOf
<1>4. CASE \E s \in Schedulers : Scan(s)
  <2>1. PICK s \in Schedulers : Scan(s)
    BY <1>4
  <2>2. s \in Sessions
    BY DEF Sessions
  <2> QED BY <2>1, <2>2, Zenon DEF Scan, PlayOf
<1>5. CASE \E s \in Sessions : Work(s) \/ Crash(s)
  <2>1. PICK s \in Sessions : Work(s) \/ Crash(s)
    BY <1>5
  <2> QED BY <2>1, Zenon DEF Work, Crash, PlayStep, Start, Advance, PlayOf, StepOf
<1>6. CASE Clock
  BY <1>6, Zenon DEF Clock
<1> QED BY <1>1, <1>2, <1>3, <1>4, <1>5, <1>6, Zenon DEF MCNext, Next

LEMMA OverwrittenGrows == ASSUME MCNext PROVE overwritten \subseteq overwritten'
BY DEF MCNext

LEMMA OverwritesNow ==
  ASSUME MCNext, NEW m \in Matches, match[m].status = "completed", match'[m].shots # match[m].shots
  PROVE  m \in overwritten'
<1>1. m \in Overwrites
  BY DEF Overwrites
<1>2. overwritten' = overwritten \cup Overwrites
  BY DEF MCNext
<1> QED BY <1>1, <1>2

\* The seats that winners and losers come from.
Sitters == Users \cup {Bot, None}
LEMMA SittersFit ==
  ASSUME RowsTyped, NEW m \in Matches
  PROVE  /\ WinnerOf(match[m]) \in Sitters /\ LoserOf(match[m]) \in Sitters
         /\ \A s \in Seats : match[m].seat[s] \in Sitters
<1>1. PICK row : row = match[m]
  OBVIOUS
<1>2. row \in Rows
  BY <1>1 DEF RowsTyped
<1>3. row.seat \in [Seats -> Sitters] /\ row.game.winner \in {"A", "B", None}
  BY <1>2 DEF Rows, GameRecords, Sitters
<1>4. WinnerOf(row) \in Sitters /\ LoserOf(row) \in Sitters
  BY <1>3 DEF WinnerOf, LoserOf, UserOn, Seats, Sitters
<1> QED BY <1>1, <1>3, <1>4

LEMMA CallIs ==
  ASSUME NEW c \in CallRecords
  PROVE  /\ (c.op = "checked" => c \in Checked) /\ (c.op = "shot" => c \in ShotCalls) /\ (c.op = "timeout" => c \in TimeoutCalls)
         /\ (c.op = "bots" => c \in BotCalls) /\ (c.op = "completed" => c \in CompletedCalls) /\ (c.op = "seed" => c \in SeedCalls)
         /\ (c.op = "slots" => c \in SlotCalls) /\ (c.op = "next" => c \in NextCalls) /\ (c.op = "pay" => c \in PayCalls)
BY DEF CallRecords, Idle, Checked, ShotCalls, TimeoutCalls, BotCalls, CompletedCalls, SeedCalls, SlotCalls, NextCalls, PayCalls

LEMMA CallOf ==
  ASSUME PoolInv, NEW s \in Sessions, NEW c, c = call[s] PROVE c \in CallRecords /\ CallFits(c)
BY DEF PoolInv, CallsTyped, CallsFit

LEMMA DuelCreated ==
  ASSUME NEW mode \in {"single", "two_player"}, NEW a \in Users \cup {Bot}, NEW b \in Users \cup {Bot},
         NEW row, row = Created(mode, a, b, "A")
  PROVE  RowFits(0, row) /\ row.status = "active" /\ row.settled = FALSE
<1>1. PICK m : m = 0
  OBVIOUS
<1>2. PICK br \in Seats : br = "A"
  BY DEF Seats
<1>3. m \in Matches /\ a \in Users \cup {Bot, None} /\ b \in Users \cup {Bot, None}
  BY <1>1 DEF Matches
<1>4. Placed(m, mode, a, b)
  BY <1>1 DEF Placed
<1>5. RowFits(m, row) /\ Newly(row, a, b)
  BY <1>2, <1>3, <1>4, CreatedFits
<1> QED BY <1>1, <1>5 DEF Newly

LEMMA BracketCreated ==
  ASSUME NEW m \in Brackets, NEW a \in Sitters, NEW b \in Sitters, NEW br \in Seats, NEW row, row = Created("tournament", a, b, br)
  PROVE  RowFits(m, row) /\ row.status = "active" /\ row.seat = [A |-> a, B |-> b]
<1>1. PICK mode : mode = "tournament"
  OBVIOUS
<1>2. m \in Matches /\ m # 0 /\ a \in Users \cup {Bot, None} /\ b \in Users \cup {Bot, None}
  BY BracketShape DEF Sitters
<1>3. Placed(m, mode, a, b)
  BY <1>1, <1>2 DEF Placed
<1>4. RowFits(m, row) /\ Newly(row, a, b)
  BY <1>1, <1>2, <1>3, CreatedFits
<1> QED BY <1>4 DEF Newly

\* The slot of a call, the players of its draw and the match it is about to create.
LEMMA SlotOf ==
  ASSUME NEW c \in SlotCalls
  PROVE  /\ Size \div 2 + c.slot \in FirstRound /\ Size \div 2 + c.slot \in Brackets /\ Slot(Size \div 2 + c.slot) = c.slot
         /\ c.order[2 * c.slot + 1] \in Users /\ c.order[2 * c.slot + 2] \in Users
<1>1. PICK n \in Nat, h \in Nat : n = Size /\ h = Size \div 2 /\ n = 2 * h /\ h > 0
  BY BracketShape
<1>2. PICK k : k = c.slot
  OBVIOUS
<1>3. k \in 0..(h - 1)
  <2>1. c.slot \in 0..(Size \div 2 - 1)
    BY DEF SlotCalls
  <2> QED BY <1>1, <1>2, <2>1
<1>4. h + k \in h..(n - 1) /\ h + k \in 1..(n - 1) /\ h + k - h = k /\ 2 * k + 1 \in 1..n /\ 2 * k + 2 \in 1..n
  BY <1>1, <1>3
<1>5. c.order \in [1..n -> Users]
  BY <1>1 DEF SlotCalls, Draws
<1>6. FirstRound = h..(n - 1) /\ Brackets = 1..(n - 1)
  BY <1>1, BracketShape, Zenon
<1>7. Slot(h + k) = h + k - h
  BY <1>1, <1>3 DEF Slot
<1> QED BY <1>1, <1>2, <1>4, <1>5, <1>6, <1>7

LEMMA SlotWrites ==
  ASSUME PoolInv, NEW s \in Sessions, CreateSlot(s), NEW c, c = call[s]
  PROVE  /\ c \in SlotCalls
         /\ \/ match' = match /\ call' = [call EXCEPT ![s] = Idle] /\ match[Size \div 2 + c.slot].status # "none"
            \/ \E row : /\ match' = [match EXCEPT ![Size \div 2 + c.slot] = row] /\ match[Size \div 2 + c.slot] = NoMatch
                        /\ RowFits(Size \div 2 + c.slot, row) /\ row.status = "active" /\ Follows(row, c.order, c.slot)
                        /\ NextSlot(s)
<1>1. c \in CallRecords /\ c.op = "slots"
  BY CallOf DEF CreateSlot
<1>2. c \in SlotCalls
  BY <1>1, CallIs
<1>3. PICK m : m = Size \div 2 + c.slot
  OBVIOUS
<1>4. m \in Brackets /\ m \in Matches
  BY <1>2, <1>3, SlotOf DEF Matches
<1>5. CASE match[m] # NoMatch
  <2>1. match' = match /\ call' = [call EXCEPT ![s] = Idle]
    BY <1>3, <1>5, Zenon DEF CreateSlot, Duplicate, Return, Goto
  <2>2. match[m].status # "none"
    BY <1>4, <1>5 DEF PoolInv, RowsTyped, RowFits
  <2> QED BY <1>2, <1>3, <2>1, <2>2
<1>6. CASE match[m] = NoMatch
  <2>1. PICK a, b, br : a = c.order[2 * c.slot + 1] /\ b = c.order[2 * c.slot + 2] /\ br = IF c.slot % 2 = 0 THEN "A" ELSE "B"
    OBVIOUS
  <2>2. PICK row : row = Created("tournament", a, b, br)
    OBVIOUS
  <2>3. match' = [match EXCEPT ![m] = row] /\ NextSlot(s)
    BY <1>3, <1>6, <2>1, <2>2, Zenon DEF CreateSlot
  <2>4. a \in Sitters /\ b \in Sitters /\ br \in Seats
    BY <1>2, <2>1, SlotOf DEF Sitters, Seats
  <2>5. RowFits(m, row) /\ row.status = "active" /\ row.seat = [A |-> a, B |-> b]
    BY <1>4, <2>2, <2>4, BracketCreated
  <2>6. Follows(row, c.order, c.slot)
    BY <2>1, <2>5, Zenon DEF Follows
  <2> QED BY <1>2, <1>3, <1>6, <2>3, <2>5, <2>6
<1> QED BY <1>5, <1>6

LEMMA NextWrites ==
  ASSUME PoolInv, NEW s \in Sessions, CreateNext(s), NEW c, c = call[s]
  PROVE  /\ c \in NextCalls /\ CallFits(c) /\ c.op = "next"
         /\ \/ match' = match
            \/ \E row : /\ match' = [match EXCEPT ![c.m] = row] /\ match[c.m] = NoMatch
                        /\ RowFits(c.m, row) /\ row.status = "active" /\ row.seat = c.pair
<1>1. c \in CallRecords /\ c.op = "next" /\ CallFits(c)
  BY CallOf DEF CreateNext
<1>2. c \in NextCalls
  BY <1>1, CallIs
<1>3. CASE match[c.m] # NoMatch
  <2>1. match' = match
    BY <1>3, Zenon DEF CreateNext
  <2> QED BY <1>1, <1>2, <2>1
<1>4. CASE match[c.m] = NoMatch
  <2>1. PICK row : row = Created("tournament", c.pair["A"], c.pair["B"], "A")
    OBVIOUS
  <2>2. match' = [match EXCEPT ![c.m] = row]
    BY <1>4, <2>1, Zenon DEF CreateNext
  <2>3. c.m \in Brackets /\ c.pair["A"] \in Sitters /\ c.pair["B"] \in Sitters /\ "A" \in Seats /\ c.pair = [A |-> c.pair["A"], B |-> c.pair["B"]]
    BY <1>2 DEF NextCalls, Seatings, Sitters, Seats, LaterRounds
  <2>4. PICK a, b : a = c.pair["A"] /\ b = c.pair["B"]
    OBVIOUS
  <2>5. RowFits(c.m, row) /\ row.status = "active" /\ row.seat = [A |-> a, B |-> b]
    BY <2>1, <2>3, <2>4, BracketCreated
  <2> QED BY <1>1, <1>2, <1>4, <2>2, <2>3, <2>4, <2>5
<1> QED BY <1>3, <1>4

LEMMA RowsStep == ASSUME PoolInv, MCNext PROVE RowsTyped' /\ RowsKept
<1>0. RowsTyped /\ OthersTyped /\ CallsTyped /\ CallsFit /\ overwritten \subseteq overwritten'
  BY OverwrittenGrows DEF PoolInv
<1>1. ASSUME NEW u \in Users, Enters(u) PROVE RowsTyped' /\ RowsKept
  <2>0. 0 \in Matches /\ "A" \in Seats
    BY DEF Matches, Seats
  <2>1. CASE CreateSingleMatch(u)
    <3>0. PICK row : row = Created("single", u, Bot, "A")
      OBVIOUS
    <3>1. RowFits(0, row) /\ row.status = "active"
      BY <3>0, DuelCreated
    <3>2. match' = [match EXCEPT ![0] = row] /\ match[0] = NoMatch
      BY <2>1, <3>0 DEF CreateSingleMatch
    <3> QED BY <1>0, <2>0, <3>1, <3>2, CreateRow
  <2>2. CASE JoinPaired(u)
    <3>1. PICK w \in Without(u) : match' = [match EXCEPT ![0] = Created("two_player", w, u, "A")] /\ match[0] = NoMatch
      BY <2>2 DEF JoinPaired
    <3>2. w \in Users
      BY <1>0 DEF OthersTyped, Without
    <3>3. PICK row : row = Created("two_player", w, u, "A")
      OBVIOUS
    <3>4. RowFits(0, row) /\ row.status = "active"
      BY <3>2, <3>3, DuelCreated
    <3> QED BY <1>0, <2>0, <3>1, <3>3, <3>4, CreateRow
  <2>3. CASE JoinQueue(u) \/ Leave(u)
    <3>1. match' = match
      BY <2>3 DEF JoinQueue, Leave
    <3> QED BY <1>0, <3>1, SameRows
  <2> QED BY <1>1, <2>1, <2>2, <2>3 DEF Enters
<1>2. ASSUME NEW s \in Sessions, StepOf(s) PROVE RowsTyped' /\ RowsKept
  <2>1. CASE CreateSlot(s)
    <3>1. PICK c : c = call[s]
      OBVIOUS
    <3>2. CASE match' = match
      BY <1>0, <3>2, SameRows
    <3>3. CASE match' # match
      <4>1. PICK m : m = Size \div 2 + c.slot
        OBVIOUS
      <4>2. PICK row : /\ match' = [match EXCEPT ![m] = row] /\ match[m] = NoMatch
                       /\ RowFits(m, row) /\ row.status = "active"
        BY <2>1, <3>1, <3>3, <4>1, SlotWrites
      <4>3. m \in Matches
        <5>1. c \in SlotCalls
          BY <2>1, <3>1, SlotWrites
        <5> QED BY <4>1, <5>1, SlotOf DEF Matches
      <4> QED BY <1>0, <4>2, <4>3, CreateRow
    <3> QED BY <3>2, <3>3
  <2>2. CASE CreateNext(s)
    <3>1. PICK c : c = call[s]
      OBVIOUS
    <3>2. CASE match' = match
      BY <1>0, <3>2, SameRows
    <3>3. CASE match' # match
      <4>1. PICK row : /\ match' = [match EXCEPT ![c.m] = row] /\ match[c.m] = NoMatch
                       /\ RowFits(c.m, row) /\ row.status = "active"
        BY <2>2, <3>1, <3>3, NextWrites
      <4>2. c.m \in Matches
        <5>1. c \in NextCalls
          BY <2>2, <3>1, NextWrites
        <5> QED BY <5>1 DEF NextCalls, LaterRounds, Matches
      <4> QED BY <1>0, <4>1, <4>2, CreateRow
    <3> QED BY <3>2, <3>3
  <2>3. CASE ~CreateSlot(s) /\ ~CreateNext(s)
    <3>1. match' = match
      BY <1>2, <2>3 DEF StepOf, Register, AdminStart, StartRead, SetActive, OnMatchCompleted, CompleteTournament
    <3> QED BY <1>0, <3>1, SameRows
  <2> QED BY <2>1, <2>2, <2>3
<1>3. ASSUME NEW s \in Sessions, PlayOf(s) PROVE RowsTyped' /\ RowsKept
  <2>1. PICK c : c = call[s]
    OBVIOUS
  <2>2. c \in CallRecords /\ CallFits(c)
    BY <2>1, CallOf
  <2>3. CASE CommitShot(s)
    <3>1. c \in ShotCalls /\ match[c.m].shots = c.index /\ match[c.m].status # "none" /\ c.m \in Matches
      <4>1. c.op = "shot" /\ SameShot(c)
        BY <2>1, <2>3, Zenon DEF CommitShot
      <4>2. c \in ShotCalls
        BY <2>2, <4>1, CallIs
      <4>3. c.m \in Matches
        BY <4>2 DEF ShotCalls
      <4> QED BY <2>2, <4>1, <4>2, <4>3 DEF SameShot, CallFits
    <3>2. PICK game \in GameRecords : match' = [match EXCEPT ![c.m] = ShotRow(c, game)]
      <4>1. PICK game \in Outcomes[Before(c)] :
              match' = [match EXCEPT ![c.m] = ShotRow(c, game)] /\ game \in GameRecords
        BY <1>0, <2>1, <2>3, <3>1, ShotWrites, Zenon
      <4> QED BY <4>1
    <3>3. PICK row : row = ShotRow(c, game)
      OBVIOUS
    <3>4. RowFits(c.m, row) /\ row.seat = match[c.m].seat /\ row.status # "none" /\ row.shots = c.index + 1
      BY <1>0, <3>1, <3>3, ShotRowFits
    <3>5. Over(c.m) => c.m \in overwritten'
      <4>1. match'[c.m].shots # match[c.m].shots
        <5>1. match'[c.m] = row
          BY <1>0, <3>1, <3>2, <3>3 DEF RowsTyped
        <5>2. c.index \in Nat
          BY <3>1 DEF ShotCalls
        <5> QED BY <3>1, <3>4, <5>1, <5>2
      <4> QED BY <3>1, <4>1, OverwritesNow DEF Over
    <3> QED BY <1>0, <3>1, <3>2, <3>3, <3>4, <3>5, PutRow
  <2>4. CASE HandleShotTimeout(s)
    <3>1. c \in TimeoutCalls /\ match[c.m].status = "active" /\ c.m \in Matches
      <4>1. c.op = "timeout" /\ StillDue(c)
        BY <2>1, <2>4, Zenon DEF HandleShotTimeout
      <4>2. c \in TimeoutCalls
        BY <2>2, <4>1, CallIs
      <4>3. c.m \in Matches
        BY <4>2 DEF TimeoutCalls
      <4> QED BY <4>1, <4>2, <4>3 DEF StillDue
    <3>2. PICK row : /\ match' = [match EXCEPT ![c.m] = row] /\ RowFits(c.m, row)
                     /\ row.seat = match[c.m].seat /\ row.status # "none"
      BY <1>0, <2>1, <2>4, <3>1, TimeoutWrites, ForfeitFits, WarnedFits
    <3>3. ~Over(c.m)
      BY <3>1 DEF Over
    <3> QED BY <1>0, <3>1, <3>2, <3>3, PutRow
  <2>5. CASE ~CommitShot(s) /\ ~HandleShotTimeout(s)
    <3>1. match' = match
      BY <1>3, <2>5 DEF PlayOf, SubmitShot, TimeoutRead, ReadShot, BotTurn, Conflict, Die
    <3> QED BY <1>0, <3>1, SameRows
  <2> QED BY <2>3, <2>4, <2>5
<1>4. ASSUME NEW m \in Matches, Tick(m) PROVE RowsTyped' /\ RowsKept
  <2>1. PICK row : row = DueRow(m)
    OBVIOUS
  <2>2. /\ match' = [match EXCEPT ![m] = row] /\ RowFits(m, row) /\ match[m].status # "none"
        /\ row.seat = match[m].seat /\ row.status = match[m].status /\ row.game = match[m].game
    BY <1>0, <1>4, <2>1, TickWrites
  <2> QED BY <1>0, <2>2, PutRow DEF Over
<1> QED BY <1>1, <1>2, <1>3, <1>4, StepsAre

LEMMA Joined ==
  ASSUME NEW q \in Seq(Users), IsInjective(q), Len(q) < Size, NEW u \in Users, ~Contains(q, u)
  PROVE  Append(q, u) \in Seq(Users) /\ IsInjective(Append(q, u)) /\ Len(Append(q, u)) <= Size
<1>1. PICK n \in Nat : n = Len(q) /\ DOMAIN q = 1..n
  OBVIOUS
<1>2. \A i \in 1..n : q[i] # u
  BY <1>1 DEF Contains
<1>3. PICK r : r = Append(q, u)
  OBVIOUS
<1>4. r \in Seq(Users) /\ DOMAIN r = 1..(n + 1) /\ Len(r) = n + 1 /\ r[n + 1] = u /\ \A i \in 1..n : r[i] = q[i]
  BY <1>1, <1>3
<1>5. \A i, j \in 1..(n + 1) : r[i] = r[j] => i = j
  <2>1. \A i \in 1..(n + 1) : i = n + 1 \/ i \in 1..n
    OBVIOUS
  <2>2. \A i, j \in 1..n : q[i] = q[j] => i = j
    BY <1>1 DEF IsInjective
  <2> QED BY <1>2, <1>4, <2>1, <2>2
<1>6. n + 1 <= Size
  BY <1>1, BracketShape
<1> QED BY <1>3, <1>4, <1>5, <1>6 DEF IsInjective

LEMMA OthersStep == ASSUME PoolInv, MCNext PROVE OthersTyped'
<1>0. RowsTyped /\ OthersTyped
  BY DEF PoolInv
<1>1. overwritten' \subseteq Matches
  BY <1>0 DEF MCNext, Overwrites, OthersTyped
<1>2. queue' \subseteq Users
  <2>1. CASE \E u \in Users : Enters(u)
    BY <1>0, <2>1 DEF Enters, CreateSingleMatch, JoinQueue, JoinPaired, Leave, Without, OthersTyped
  <2>2. CASE queue' = queue
    BY <1>0, <2>2 DEF OthersTyped
  <2>3. ASSUME NEW s \in Sessions, StepOf(s) \/ PlayOf(s) PROVE queue' = queue
    BY <2>3 DEF StepOf, PlayOf, Register, AdminStart, StartRead, SetActive, CreateSlot, OnMatchCompleted, CreateNext, CompleteTournament,
       SubmitShot, TimeoutRead, ReadShot, CommitShot, BotTurn, HandleShotTimeout, Conflict, Die
  <2>4. ASSUME NEW m \in Matches, Tick(m) PROVE queue' = queue
    BY <2>4 DEF Tick
  <2> QED BY <2>1, <2>2, <2>3, <2>4, StepsAre
<1>3. t' \in Tournaments /\ Len(t'.players) <= Size /\ IsInjective(t'.players)
  <2>0. t \in Tournaments /\ Len(t.players) <= Size /\ IsInjective(t.players)
    BY <1>0 DEF OthersTyped, Tournaments
  <2>1. CASE t' = t
    BY <2>0, <2>1
  <2>2. ASSUME NEW s \in Sessions, NEW u \in Users, Register(s, u) PROVE <1>3!:
    <3>1. t' = [t EXCEPT !.players = Append(@, u), !.pool = @ + EntryFee] /\ Len(t.players) < Size /\ ~Contains(t.players, u)
      BY <2>2 DEF Register
    <3>2. PICK q : q = t.players
      OBVIOUS
    <3>3. q \in Seq(Users) /\ Len(q) < Size /\ IsInjective(q) /\ ~Contains(q, u)
      BY <2>0, <3>1, <3>2 DEF Tournaments
    <3>4. Append(q, u) \in Seq(Users) /\ IsInjective(Append(q, u)) /\ Len(Append(q, u)) <= Size
      BY <3>3, Joined
    <3>5. PICK r : r = Append(q, u)
      OBVIOUS
    <3>6. PICK n \in Nat : n = t.pool + EntryFee
      BY <2>0, TournamentAssumption DEF Tournaments
    <3>7. t' = [t EXCEPT !.players = r, !.pool = n]
      BY <3>1, <3>2, <3>5, <3>6, Zenon
    <3>8. t' \in Tournaments /\ t'.players = r
      BY <2>0, <3>4, <3>5, <3>7 DEF Tournaments
    <3> QED BY <3>4, <3>5, <3>8
  <2>3. ASSUME NEW s \in Sessions, SetActive(s) PROVE <1>3!:
    <3>1. t' = t \/ t' = [t EXCEPT !.status = "active"]
      BY <2>3 DEF SetActive
    <3>2. CASE t' = [t EXCEPT !.status = "active"]
      <4>1. t' \in Tournaments /\ t'.players = t.players
        BY <2>0, <3>2 DEF Tournaments
      <4> QED BY <2>0, <4>1
    <3> QED BY <2>1, <3>1, <3>2
  <2>4. ASSUME NEW s \in Sessions, OnMatchCompleted(s) PROVE <1>3!:
    <3>1. PICK row : row = match[call[s].m]
      OBVIOUS
    <3>2. t' = t \/ t' = [t EXCEPT !.eliminated = @ \cup {LoserOf(row)}]
      BY <2>4, <3>1 DEF OnMatchCompleted
    <3>3. LoserOf(row) \in Users \cup {Bot, None}
      <4>1. PICK c : c = call[s]
        OBVIOUS
      <4>2. c \in CompletedCalls
        BY <2>4, <4>1, CallOf, CallIs DEF OnMatchCompleted
      <4>3. c.m \in Matches
        BY <4>2 DEF CompletedCalls, Matches
      <4> QED BY <1>0, <3>1, <4>1, <4>3, SittersFit DEF Sitters
    <3>4. CASE t' = [t EXCEPT !.eliminated = @ \cup {LoserOf(row)}]
      <4>1. PICK e : e = t.eliminated \cup {LoserOf(row)}
        OBVIOUS
      <4>2. e \in SUBSET (Users \cup {Bot, None})
        BY <2>0, <3>3, <4>1 DEF Tournaments
      <4>3. t' = [t EXCEPT !.eliminated = e]
        BY <3>4, <4>1, Zenon
      <4>4. t' \in Tournaments /\ t'.players = t.players
        BY <2>0, <4>2, <4>3 DEF Tournaments
      <4> QED BY <2>0, <4>4
    <3> QED BY <2>1, <3>2, <3>4
  <2>5. ASSUME NEW s \in Sessions, CompleteTournament(s) PROVE <1>3!:
    <3>1. PICK c : c = call[s]
      OBVIOUS
    <3>2. c \in PayCalls
      BY <2>5, <3>1, CallOf, CallIs DEF CompleteTournament
    <3>3. c.winner \in Users \cup {Bot, None}
      BY <3>2 DEF PayCalls
    <3>4. t' = t \/ t' = [t EXCEPT !.status = "completed", !.winner = c.winner]
      BY <2>5, <3>1, Zenon DEF CompleteTournament
    <3>5. CASE t' = [t EXCEPT !.status = "completed", !.winner = c.winner]
      <4>1. t' \in Tournaments /\ t'.players = t.players
        BY <2>0, <3>3, <3>5 DEF Tournaments
      <4> QED BY <2>0, <4>1
    <3> QED BY <2>1, <3>4, <3>5
  <2>6. ASSUME NEW s \in Sessions, AdminStart(s) \/ StartRead(s) \/ CreateSlot(s) \/ CreateNext(s) PROVE t' = t
    BY <2>6 DEF AdminStart, StartRead, CreateSlot, CreateNext
  <2> QED BY <2>1, <2>2, <2>3, <2>4, <2>5, <2>6, StepsAre DEF StepOf
<1> QED BY <1>1, <1>2, <1>3 DEF OthersTyped, Tournaments

-----------------------------------------------------------------------------
\* The calls.
LEMMA SequenceOfSet ==
  ASSUME NEW S, IsFiniteSet(S) PROVE SetToSeq(S) \in Seq(S) /\ IsInjective(SetToSeq(S)) /\ Len(SetToSeq(S)) = Cardinality(S)
<1>1. PICK n \in Nat : n = Cardinality(S) /\ ExistsBijection(1..n, S)
  BY FS_CardinalityType
<1>2. PICK f \in [1..n -> S] : IsInjective(f)
  BY <1>1 DEF ExistsBijection, Bijection, Injection
<1>3. SetToSeq(S) \in [1..n -> S] /\ IsInjective(SetToSeq(S))
  BY <1>1, <1>2 DEF SetToSeq
<1>4. PICK q : q = SetToSeq(S)
  OBVIOUS
<1>5. q \in Seq(S) /\ Len(q) = n
  BY <1>3, <1>4
<1> QED BY <1>1, <1>3, <1>4, <1>5

LEMMA BeatenFits == ASSUME RowsTyped PROVE BeatenInSemis \in Seq(Users \cup {Bot, None}) /\ IsInjective(BeatenInSemis)
<1> DEFINE over == {m \in Semis : match[m].status = "completed"}
           S == {LoserOf(match[m]) : m \in over}
<1>1. over \subseteq {2, 3} /\ over \subseteq Matches
  BY BracketShape DEF Semis, Matches
<1>2. S \subseteq {LoserOf(match[2]), LoserOf(match[3])}
  BY <1>1
<1>3. IsFiniteSet({LoserOf(match[2]), LoserOf(match[3])})
  <2>1. PICK a, b : a = LoserOf(match[2]) /\ b = LoserOf(match[3])
    OBVIOUS
  <2>2. IsFiniteSet({a, b})
    <3>1. IsFiniteSet({}) /\ {a, b} = ({} \cup {a}) \cup {b}
      BY FS_EmptySet
    <3>2. IsFiniteSet({} \cup {a})
      BY <3>1, FS_AddElement
    <3>3. PICK A : A = {} \cup {a}
      OBVIOUS
    <3>4. IsFiniteSet(A \cup {b})
      BY <3>2, <3>3, FS_AddElement
    <3> QED BY <3>1, <3>3, <3>4
  <2> QED BY <2>1, <2>2
<1>4. IsFiniteSet(S)
  BY <1>2, <1>3, FS_Subset
<1>5. S \subseteq Users \cup {Bot, None}
  <2>1. \A m \in Matches : LoserOf(match[m]) \in Users \cup {Bot, None}
    BY SittersFit DEF Sitters
  <2> QED BY <1>1, <2>1
<1> HIDE DEF S
<1>6. SetToSeq(S) \in Seq(S) /\ IsInjective(SetToSeq(S))
  BY <1>4, SequenceOfSet
<1>7. PICK q : q = SetToSeq(S)
  OBVIOUS
<1>8. q \in Seq(Users \cup {Bot, None})
  BY <1>5, <1>6, <1>7
<1>9. BeatenInSemis = q
  BY <1>7, Zenon DEF BeatenInSemis, S
<1> QED BY <1>6, <1>7, <1>8, <1>9

LEMMA FedKept ==
  ASSUME RowsTyped, RowsKept, NEW m \in LaterRounds, NEW seats, Fed(m, seats) PROVE Fed(m, seats)'
<1>1. PICK a \in Matches, b \in Matches : a = 2 * m /\ b = 2 * m + 1
  <2>1. PICK n \in Nat, h \in Nat : n = Size /\ h = Size \div 2 /\ n = 2 * h /\ h > 0
    BY BracketShape
  <2>2. m \in 1..(h - 1)
    BY <2>1, BracketShape, Zenon
  <2>3. 2 * m \in 1..(n - 1) /\ 2 * m + 1 \in 1..(n - 1)
    BY <2>1, <2>2
  <2>4. Brackets = 1..(n - 1)
    BY <2>1, BracketShape, Zenon
  <2> QED BY <2>3, <2>4 DEF Matches
<1>2. ASSUME Kept({a, b})' PROVE Over(a)' /\ Over(b)' /\ seats = [A |-> WinnerOf(match'[a]), B |-> WinnerOf(match'[b])]
  <2>1. Kept({a, b}) /\ a \notin overwritten' /\ b \notin overwritten'
    BY <1>2 DEF Kept, RowsKept
  <2>2. Over(a) /\ Over(b) /\ seats = [A |-> WinnerOf(match[a]), B |-> WinnerOf(match[b])]
    BY <1>1, <2>1, Zenon DEF Fed
  <2>3. \A n \in {a, b} : match'[n].status = "completed" /\ match'[n].game = match[n].game /\ match'[n].seat = match[n].seat
    BY <2>1, <2>2 DEF RowsKept, RowKept, Over
  <2>4. WinnerOf(match'[a]) = WinnerOf(match[a]) /\ WinnerOf(match'[b]) = WinnerOf(match[b])
    BY <2>3 DEF WinnerOf, UserOn
  <2> QED BY <2>2, <2>3, <2>4 DEF Over
<1> QED BY <1>1, <1>2 DEF Fed

LEMMA WonKept ==
  ASSUME RowsTyped, RowsKept, NEW u, Won(u) PROVE Won(u)'
<1>1. 1 \in Matches
  BY BracketShape DEF Matches
<1>2. ASSUME Kept({1})' PROVE Over(1)' /\ u = WinnerOf(match'[1])
  <2>1. Kept({1}) /\ 1 \notin overwritten'
    BY <1>2 DEF Kept, RowsKept
  <2>2. Over(1) /\ u = WinnerOf(match[1])
    BY <2>1 DEF Won
  <2>3. match'[1].status = "completed" /\ match'[1].game = match[1].game /\ match'[1].seat = match[1].seat
    BY <1>1, <2>1, <2>2 DEF RowsKept, RowKept, Over
  <2> QED BY <2>2, <2>3 DEF WinnerOf, UserOn, Over
<1> QED BY <1>2 DEF Won

LEMMA CallKept ==
  ASSUME RowsTyped, RowsKept, NEW c \in CallRecords, CallFits(c) PROVE CallFits(c)'
<1>1. ASSUME NEW m \in Matches PROVE (match[m].status # "none" => match'[m].status # "none") /\ (Over(m) /\ m \notin overwritten' => Over(m)')
  BY DEF RowsKept, RowKept, Over
<1>2. overwritten \subseteq overwritten' /\ 0 \in Matches
  BY DEF RowsKept, Matches
<1>3. ASSUME c.op \in {"checked", "shot", "timeout", "bots", "completed"} PROVE c.m \in Matches
  BY <1>3, CallIs DEF Checked, ShotCalls, TimeoutCalls, BotCalls, CompletedCalls, Matches
<1>4. c.op \in {"checked", "shot", "timeout", "bots", "completed"} => match'[c.m].status # "none"
  BY <1>1, <1>3 DEF CallFits
<1>5. c.op \in {"shot", "timeout"} /\ c.m = 0 => c.settled = FALSE \/ 0 \in overwritten' \/ Over(0)'
  BY <1>1, <1>2 DEF CallFits
<1>6. ASSUME c.op = "completed", Kept({c.m})' PROVE Over(c.m)'
  <2>1. PICK m : m = c.m
    OBVIOUS
  <2>2. m \in Matches /\ m \notin overwritten' /\ Kept({m})
    BY <1>2, <1>3, <1>6, <2>1 DEF Kept
  <2>3. Over(m)
    BY <1>6, <2>1, <2>2 DEF CallFits
  <2>4. Over(m)'
    BY <1>1, <2>2, <2>3
  <2> QED BY <2>1, <2>4 DEF Over
<1>7. ASSUME c.op = "next" PROVE Fed(c.m, c.pair)'
  <2>1. PICK m, p : m = c.m /\ p = c.pair
    OBVIOUS
  <2>2. m \in LaterRounds
    BY <1>7, <2>1, CallIs DEF NextCalls
  <2>3. Fed(m, p)
    BY <1>7, <2>1 DEF CallFits
  <2>4. Fed(m, p)'
    BY <2>2, <2>3, FedKept
  <2> QED BY <2>1, <2>4 DEF Fed, Kept, Over
<1>8. ASSUME c.op = "pay" PROVE Won(c.winner)'
  <2>1. PICK u : u = c.winner
    OBVIOUS
  <2>2. Won(u)
    BY <1>8, <2>1 DEF CallFits
  <2>3. Won(u)'
    BY <2>2, WonKept
  <2> QED BY <2>1, <2>3 DEF Won
<1> QED BY <1>4, <1>5, <1>6, <1>7, <1>8 DEF CallFits

CallsStay == CallsTyped' /\ CallsFit'

LEMMA CallsFrom ==
  ASSUME PoolInv, RowsKept, NEW s \in Sessions, NEW c \in CallRecords, CallFits(c)', call' = [call EXCEPT ![s] = c]
  PROVE  CallsStay
<1>1. call \in [Sessions -> CallRecords] /\ RowsTyped
  BY DEF PoolInv, CallsTyped
<1>2. call' \in [Sessions -> CallRecords] /\ call'[s] = c /\ \A r \in Sessions \ {s} : call'[r] = call[r]
  BY <1>1
<1>3. ASSUME NEW r \in Sessions, NEW d \in CallRecords, d = call'[r] PROVE CallFits(d)'
  <2>1. CASE r = s
    <3>1. d = c
      BY <1>2, <1>3, <2>1
    <3> QED BY <3>1, Zenon
  <2>2. CASE r # s
    <3>1. d = call[r]
      BY <1>2, <1>3, <2>2
    <3>2. CallFits(d)
      BY <3>1, CallOf
    <3> QED BY <1>1, <3>2, CallKept
  <2> QED BY <2>1, <2>2
<1>4. CallsTyped'
  BY <1>2 DEF CallsTyped
<1>5. CallsFit'
  BY <1>3 DEF CallsFit
<1> QED BY <1>4, <1>5 DEF CallsStay

LEMMA CallsSame == ASSUME PoolInv, RowsKept, call' = call PROVE CallsStay
<1>1. RowsTyped /\ CallsTyped
  BY DEF PoolInv
<1>2. ASSUME NEW r \in Sessions, NEW d \in CallRecords, d = call'[r] PROVE CallFits(d)'
  <2>1. CallFits(d)
    BY <1>2, CallOf
  <2> QED BY <1>1, <2>1, CallKept
<1>3. CallsTyped'
  BY <1>1 DEF CallsTyped
<1>4. CallsFit'
  BY <1>2 DEF CallsFit
<1> QED BY <1>3, <1>4 DEF CallsStay

LEMMA CallsNow ==
  ASSUME PoolInv, RowsKept, NEW s \in Sessions, NEW c \in CallRecords, CallFits(c), call' = [call EXCEPT ![s] = c]
  PROVE  CallsStay
BY CallKept, CallsFrom DEF PoolInv

LEMMA Returned == ASSUME PoolInv, RowsKept, NEW s \in Sessions, call' = [call EXCEPT ![s] = Idle] PROVE CallsStay
<1>1. Idle \in CallRecords /\ CallFits(Idle)
  BY DEF CallRecords, CallFits, Idle
<1> QED BY <1>1, CallsNow

LEMMA Unsettled == ASSUME PoolInv PROVE 0 \in overwritten \/ Over(0) \/ match[0].settled = FALSE
BY DEF PoolInv, DuelFits, Over

\* After a shot or a time-out: the call of a finished match of the bracket, of the bot, or none.
LEMMA AfterFits ==
  ASSUME PoolInv, RowsKept, NEW s \in Sessions, NEW m \in Matches, NEW over \in BOOLEAN, NEW bots, After(s, m, over, bots),
         match[m].status # "none", over => match'[m].status = "completed"
  PROVE  CallsStay
<1>1. CASE over /\ match[m].mode = "tournament"
  <2>1. PICK c : c = [op |-> "completed", m |-> m]
    OBVIOUS
  <2>2. call' = [call EXCEPT ![s] = c]
    BY <1>1, <2>1 DEF After, Goto
  <2>3. m \in Brackets
    <3>1. RowFits(m, match[m])
      BY DEF PoolInv, RowsTyped
    <3> QED BY <1>1, <3>1 DEF RowFits, Matches
  <2>4. c \in CallRecords
    <3>1. c \in CompletedCalls
      BY <2>1, <2>3 DEF CompletedCalls
    <3> QED BY <3>1 DEF CallRecords
  <2>5. CallFits(c)'
    BY <1>1, <2>1 DEF CallFits, Over
  <2> QED BY <2>2, <2>4, <2>5, CallsFrom
<1>2. CASE ~(over /\ match[m].mode = "tournament") /\ bots /\ match[m].mode = "single"
  <2>1. PICK c : c = [op |-> "bots", m |-> m]
    OBVIOUS
  <2>2. call' = [call EXCEPT ![s] = c]
    BY <1>2, <2>1 DEF After, Goto
  <2>3. c \in CallRecords
    <3>1. c \in BotCalls
      BY <2>1 DEF BotCalls
    <3> QED BY <3>1 DEF CallRecords
  <2>4. CallFits(c)
    BY <2>1 DEF CallFits
  <2> QED BY <2>2, <2>3, <2>4, CallsNow
<1>3. CASE ~(over /\ match[m].mode = "tournament") /\ ~(bots /\ match[m].mode = "single")
  <2>1. call' = [call EXCEPT ![s] = Idle]
    BY <1>3 DEF After, Goto
  <2> QED BY <2>1, Returned
<1> QED BY <1>1, <1>2, <1>3

LEMMA PlayCalls == ASSUME PoolInv, MCNext, RowsKept, NEW s \in Sessions, PlayOf(s) PROVE CallsStay
<1>0. RowsTyped /\ OthersTyped /\ CallsTyped /\ CallsFit
  BY DEF PoolInv
<1>1. PICK c : c = call[s]
  OBVIOUS
<1>2. c \in CallRecords /\ CallFits(c)
  BY <1>1, CallOf
<1>3. ASSUME NEW u \in Users, NEW m \in Matches, SubmitShot(s, u, m) PROVE CallsStay
  <2>1. PICK seat \in Seats : match[m].status = "active" /\ call' = [call EXCEPT ![s] = [op |-> "checked", m |-> m, seat |-> seat]]
    BY <1>3 DEF SubmitShot, Call
  <2>2. PICK d : d = [op |-> "checked", m |-> m, seat |-> seat]
    OBVIOUS
  <2>3. d \in Checked
    BY <2>2 DEF Checked
  <2>4. d \in CallRecords /\ CallFits(d)
    BY <2>1, <2>2, <2>3 DEF CallRecords, CallFits
  <2> QED BY <2>1, <2>2, <2>4, CallsNow
<1>4. ASSUME NEW m \in Matches, TimeoutRead(s, m) PROVE CallsStay
  <2>1. PICK row : row = match[m]
    OBVIOUS
  <2>2. PICK turn : turn = row.game.turn
    OBVIOUS
  <2>3. PICK d : d = [op |-> "timeout", m |-> m, offender |-> turn, prior |-> row.timeouts[turn], index |-> row.shots, settled |-> row.settled]
    OBVIOUS
  <2>4. row.status = "active" /\ call' = [call EXCEPT ![s] = d]
    BY <1>4, <2>1, <2>2, <2>3, Zenon DEF TimeoutRead, Call
  <2>5. row \in Rows
    BY <1>0, <2>1 DEF RowsTyped
  <2>6. turn \in Seats /\ row.timeouts[turn] \in Nat /\ row.shots \in Nat /\ row.settled \in BOOLEAN
    BY <2>2, <2>5 DEF Rows, GameRecords
  <2>7. d \in TimeoutCalls
    BY <2>3, <2>6 DEF TimeoutCalls
  <2>8. d.op = "timeout" /\ d.m = m /\ d.settled = row.settled
    BY <2>3
  <2>9. d \in CallRecords /\ CallFits(d)
    <3>1. d.m = 0 => d.settled = FALSE \/ 0 \in overwritten \/ Over(0)
      BY <2>1, <2>8, Unsettled
    <3> QED BY <2>1, <2>4, <2>7, <2>8, <3>1 DEF CallRecords, CallFits
  <2> QED BY <2>4, <2>9, CallsNow
<1>5. ASSUME ReadShot(s) PROVE CallsStay
  <2>1. c.op = "checked" /\ c \in Checked
    BY <1>1, <1>2, <1>5, CallIs DEF ReadShot
  <2>2. PICK row : row = match[c.m]
    OBVIOUS
  <2>3. PICK phase \in {"break", "play"} : phase = IF row.game.phase = "break" THEN "break" ELSE "play"
    OBVIOUS
  <2>4. PICK d : d = [op |-> "shot", m |-> c.m, seat |-> c.seat, index |-> row.shots, turn |-> row.game.turn, phase |-> phase, settled |-> row.settled]
    OBVIOUS
  <2>5. call' = [call EXCEPT ![s] = d]
    BY <1>1, <1>5, <2>2, <2>3, <2>4, Zenon DEF ReadShot, Goto
  <2>6. c.m \in Matches /\ c.seat \in Seats
    BY <2>1 DEF Checked
  <2>7. row \in Rows /\ row.status # "none"
    BY <1>0, <1>2, <2>1, <2>2, <2>6 DEF RowsTyped, CallFits
  <2>8. row.game.turn \in Seats /\ row.shots \in Nat /\ row.settled \in BOOLEAN
    BY <2>7 DEF Rows, GameRecords
  <2>9. d \in ShotCalls
    BY <2>3, <2>4, <2>6, <2>8 DEF ShotCalls
  <2>10. d.op = "shot" /\ d.m = c.m /\ d.settled = row.settled
    BY <2>4
  <2>11. d \in CallRecords /\ CallFits(d)
    <3>1. d.m = 0 => d.settled = FALSE \/ 0 \in overwritten \/ Over(0)
      BY <2>2, <2>10, Unsettled
    <3> QED BY <2>2, <2>7, <2>9, <2>10, <3>1 DEF CallRecords, CallFits
  <2> QED BY <2>5, <2>11, CallsNow
<1>6. ASSUME CommitShot(s) PROVE CallsStay
  <2>1. c.op = "shot" /\ c \in ShotCalls
    BY <1>1, <1>2, <1>6, CallIs DEF CommitShot
  <2>2. c.m \in Matches /\ match[c.m].status # "none"
    BY <1>2, <2>1 DEF ShotCalls, CallFits
  <2>3. PICK game \in GameRecords : match' = [match EXCEPT ![c.m] = ShotRow(c, game)] /\ After(s, c.m, game.phase = "gameover", TRUE)
    BY <1>0, <1>1, <1>6, <2>1, ShotWrites
  <2>4. PICK m, over : m = c.m /\ over = (game.phase = "gameover") /\ over \in BOOLEAN
    OBVIOUS
  <2>5. over => match'[m].status = "completed"
    <3>1. ShotRow(c, game).status = IF game.phase = "gameover" THEN "completed" ELSE "active"
      BY <1>0, <2>1, <2>2, ShotRowFits
    <3>2. match'[m] = ShotRow(c, game)
      BY <1>0, <2>2, <2>3, <2>4 DEF RowsTyped
    <3> QED BY <2>4, <3>1, <3>2
  <2>6. After(s, m, over, TRUE)
    BY <2>3, <2>4, Zenon
  <2> QED BY <2>2, <2>4, <2>5, <2>6, AfterFits
<1>7. ASSUME HandleShotTimeout(s) PROVE CallsStay
  <2>1. c.op = "timeout" /\ c \in TimeoutCalls /\ match[c.m].status = "active"
    BY <1>1, <1>2, <1>7, CallIs DEF HandleShotTimeout, StillDue
  <2>2. c.m \in Matches /\ match[c.m].status # "none"
    BY <2>1 DEF TimeoutCalls
  <2>3. PICK m, over : m = c.m /\ over = Forfeits(c) /\ over \in BOOLEAN
    <3>1. Forfeits(c) \in BOOLEAN
      BY <2>1, MatchAssumption DEF Forfeits, TimeoutCalls
    <3> HIDE DEF Forfeits
    <3> QED BY <3>1
  <2>4. over => match'[m].status = "completed"
    <3>1. ASSUME over PROVE match'[m].status = "completed"
      <4>1. match' = [match EXCEPT ![c.m] = ForfeitRow(c)]
        BY <1>1, <1>7, <2>3, <3>1, TimeoutWrites
      <4>2. ForfeitRow(c).status = "completed"
        BY <1>0, <2>1, <2>2, ForfeitFits
      <4>3. match'[m] = ForfeitRow(c)
        BY <1>0, <2>2, <2>3, <4>1 DEF RowsTyped
      <4> QED BY <4>2, <4>3
    <3> QED BY <3>1
  <2>5. PICK bots : After(s, m, over, bots)
    BY <1>1, <1>7, <2>3, Zenon DEF HandleShotTimeout
  <2> QED BY <2>2, <2>3, <2>4, <2>5, AfterFits
<1>8. ASSUME BotTurn(s) PROVE CallsStay
  <2>1. c.op = "bots" /\ c \in BotCalls
    BY <1>1, <1>2, <1>8, CallIs DEF BotTurn
  <2>2. c.m \in Matches /\ match[c.m].status # "none"
    BY <1>2, <2>1 DEF BotCalls, CallFits
  <2>3. PICK turn : turn = match[c.m].game.turn
    OBVIOUS
  <2>4. PICK d : d = [op |-> "checked", m |-> c.m, seat |-> turn]
    OBVIOUS
  <2>5. call' = [call EXCEPT ![s] = d] \/ call' = [call EXCEPT ![s] = Idle]
    BY <1>1, <1>8, <2>3, <2>4, Zenon DEF BotTurn, Goto, Return
  <2>6. turn \in Seats
    BY <1>0, <2>2, <2>3 DEF RowsTyped, Rows, GameRecords
  <2>7. d \in Checked
    BY <2>2, <2>4, <2>6 DEF Checked
  <2>8. d \in CallRecords /\ CallFits(d)
    BY <2>2, <2>4, <2>7 DEF CallRecords, CallFits
  <2> QED BY <2>5, <2>8, CallsNow, Returned
<1>9. ASSUME Conflict(s) \/ Die(s) PROVE CallsStay
  <2>1. call' = [call EXCEPT ![s] = Idle]
    BY <1>9 DEF Conflict, Die, Return, Goto
  <2> QED BY <2>1, Returned
<1> QED BY <1>3, <1>4, <1>5, <1>6, <1>7, <1>8, <1>9 DEF PlayOf

LEMMA DrawFits ==
  ASSUME NEW q \in Seq(Users), IsInjective(q), Len(q) = Size, NEW order \in Orders
  PROVE  [i \in 1..Size |-> q[order[i]]] \in Draws
<1>1. PICK n \in Nat : n = Size
  BY BracketShape
<1>2. order \in [1..n -> 1..n] /\ IsInjective(order)
  BY <1>1, TournamentAssumption
<1>3. DOMAIN q = 1..n /\ \A i \in 1..n : q[i] \in Users
  BY <1>1
<1>4. PICK o : o = [i \in 1..n |-> q[order[i]]]
  OBVIOUS
<1>5. o \in [1..n -> Users]
  BY <1>2, <1>3, <1>4
<1>6. IsInjective(o)
  BY <1>2, <1>3, <1>4 DEF IsInjective
<1> QED BY <1>1, <1>4, <1>5, <1>6 DEF Draws

LEMMA PairingFits ==
  ASSUME PoolInv, NEW m \in Brackets, m # 1, FeedersOver(m), Kept({m}) => Over(m)
  PROVE  Pairing(m) \in Seatings /\ Fed(m \div 2, Pairing(m))
<1>1. PICK a, b, k : k = m \div 2 /\ a = 2 * k /\ b = 2 * k + 1
  OBVIOUS
<1>2. /\ Sibling(m) \in Brackets
      /\ \/ m = a /\ Sibling(m) = b /\ m % 2 = 0
         \/ m = b /\ Sibling(m) = a /\ m % 2 = 1
  <2>1. k \in Nat
    BY <1>1, BracketShape
  <2> QED BY <1>1, <2>1, Halves
<1>3. a \in Matches /\ b \in Matches
  BY <1>2 DEF Matches
<1>4. Sibling(a) = b
  <2>1. CASE m = a
    BY <1>2, <2>1
  <2>2. CASE m # a
    <3>1. k \in Nat
      BY <1>1, BracketShape
    <3> QED BY <1>1, <3>1 DEF Sibling
  <2> QED BY <2>1, <2>2
<1>5. Pairing(m) = [A |-> WinnerOf(match[a]), B |-> WinnerOf(match[b])]
  <2>1. (IF m % 2 = 0 THEN m ELSE Sibling(m)) = a
    BY <1>2
  <2> QED BY <1>4, <2>1, Zenon DEF Pairing
<1>6. Pairing(m) \in Seatings
  <2>1. WinnerOf(match[a]) \in Users \cup {Bot, None} /\ WinnerOf(match[b]) \in Users \cup {Bot, None}
    BY <1>3, SittersFit DEF Sitters, PoolInv
  <2> QED BY <1>5, <2>1 DEF Seatings
<1>7. ASSUME Kept({a, b}) PROVE Over(a) /\ Over(b)
  <2>1. Over(Sibling(m))
    BY DEF FeedersOver, Over
  <2>2. Kept({m})
    BY <1>2, <1>7 DEF Kept
  <2> QED BY <1>2, <2>1, <2>2
<1>8. Fed(k, Pairing(m))
  BY <1>1, <1>5, <1>7, Zenon DEF Fed
<1> QED BY <1>1, <1>6, <1>8

LEMMA StepCalls == ASSUME PoolInv, MCNext, RowsKept, NEW s \in Sessions, StepOf(s) PROVE CallsStay
<1>0. RowsTyped /\ OthersTyped /\ CallsTyped /\ CallsFit
  BY DEF PoolInv
<1>1. PICK c : c = call[s]
  OBVIOUS
<1>2. c \in CallRecords /\ CallFits(c)
  BY <1>1, CallOf
<1>3. ASSUME AdminStart(s) \/ \E u \in Users : Register(s, u) PROVE CallsStay
  <2>1. PICK d : d = [op |-> "start"]
    OBVIOUS
  <2>2. call' = call \/ call' = [call EXCEPT ![s] = d]
    BY <1>3, <2>1 DEF Register, AdminStart, Call
  <2>3. d \in CallRecords /\ CallFits(d)
    BY <2>1 DEF CallRecords, CallFits
  <2> QED BY <2>2, <2>3, CallsNow, CallsSame
<1>4. ASSUME StartRead(s) PROVE CallsStay
  <2>1. CASE call' = [call EXCEPT ![s] = Idle]
    BY <2>1, Returned
  <2>2. CASE call' # [call EXCEPT ![s] = Idle]
    <3>1. PICK order \in Orders : Len(t.players) = Size /\ call' = [call EXCEPT ![s] = [op |-> "seed", order |-> [i \in 1..Size |-> t.players[order[i]]]]]
      BY <1>4, <2>2, Zenon DEF StartRead, Goto, Return
    <3>2. PICK q : q = t.players
      OBVIOUS
    <3>3. q \in Seq(Users) /\ IsInjective(q) /\ Len(q) = Size
      BY <1>0, <3>1, <3>2 DEF OthersTyped, Tournaments
    <3>4. PICK o : o = [i \in 1..Size |-> q[order[i]]]
      OBVIOUS
    <3>5. o \in Draws
      BY <3>3, <3>4, DrawFits
    <3>6. PICK d : d = [op |-> "seed", order |-> o]
      OBVIOUS
    <3>7. d \in SeedCalls /\ call' = [call EXCEPT ![s] = d]
      BY <3>1, <3>2, <3>4, <3>5, <3>6 DEF SeedCalls
    <3>8. d \in CallRecords /\ CallFits(d)
      BY <3>6, <3>7 DEF CallRecords, CallFits
    <3> QED BY <3>7, <3>8, CallsNow
  <2> QED BY <2>1, <2>2
<1>5. ASSUME SetActive(s) PROVE CallsStay
  <2>1. c \in SeedCalls
    BY <1>1, <1>2, <1>5, CallIs DEF SetActive
  <2>2. PICK d : d = [op |-> "slots", order |-> c.order, slot |-> 0]
    OBVIOUS
  <2>3. call' = [call EXCEPT ![s] = d]
    BY <1>1, <1>5, <2>2 DEF SetActive, Goto
  <2>4. 0 \in 0..(Size \div 2 - 1)
    <3>1. PICK h \in Nat : h = Size \div 2 /\ h > 0
      BY BracketShape
    <3> QED BY <3>1
  <2>5. d \in SlotCalls
    BY <2>1, <2>2, <2>4 DEF SlotCalls, SeedCalls
  <2>6. d \in CallRecords /\ CallFits(d)
    BY <2>2, <2>5 DEF CallRecords, CallFits
  <2> QED BY <2>3, <2>6, CallsNow
<1>6. ASSUME CreateSlot(s) PROVE CallsStay
  <2>1. c \in SlotCalls
    BY <1>1, <1>6, SlotWrites
  <2>2. CASE call' = [call EXCEPT ![s] = Idle]
    BY <2>2, Returned
  <2>3. CASE call' # [call EXCEPT ![s] = Idle]
    <3>1. NextSlot(s)
      BY <1>1, <1>6, <2>3, SlotWrites
    <3>2. PICK d : d = [c EXCEPT !.slot = @ + 1]
      OBVIOUS
    <3>3. c.slot + 1 < Size \div 2 /\ call' = [call EXCEPT ![s] = d]
      BY <1>1, <2>3, <3>1, <3>2 DEF NextSlot, Goto, Return
    <3>4. c.slot + 1 \in 0..(Size \div 2 - 1)
      <4>1. PICK h \in Nat : h = Size \div 2 /\ h > 0
        BY BracketShape
      <4>2. c.slot \in 0..(h - 1)
        BY <2>1, <4>1 DEF SlotCalls
      <4> QED BY <3>3, <4>1, <4>2
    <3>5. d \in SlotCalls /\ d.op = "slots"
      BY <2>1, <3>2, <3>4 DEF SlotCalls
    <3>6. d \in CallRecords /\ CallFits(d)
      BY <3>5 DEF CallRecords, CallFits
    <3> QED BY <3>3, <3>6, CallsNow
  <2> QED BY <2>2, <2>3
<1>7. ASSUME OnMatchCompleted(s) PROVE CallsStay
  <2>1. c \in CompletedCalls /\ c.op = "completed"
    BY <1>1, <1>2, <1>7, CallIs DEF OnMatchCompleted
  <2>2. PICK m \in Brackets : m = c.m
    BY <2>1 DEF CompletedCalls
  <2>3. Kept({m}) => Over(m)
    BY <1>2, <2>1, <2>2 DEF CallFits
  <2>4. CASE call' = [call EXCEPT ![s] = Idle]
    BY <2>4, Returned
  <2>5. CASE call' # [call EXCEPT ![s] = Idle] /\ m = 1
    <3>1. PICK d : d = [op |-> "pay", winner |-> WinnerOf(match[m]), second |-> LoserOf(match[m]), beaten |-> BeatenInSemis]
      OBVIOUS
    <3>2. call' = [call EXCEPT ![s] = d]
      BY <1>1, <1>7, <2>2, <2>5, <3>1, Zenon DEF OnMatchCompleted, Goto, Return
    <3>3. m \in Matches
      BY DEF Matches
    <3>4. d \in PayCalls /\ d.op = "pay" /\ d.winner = WinnerOf(match[m])
      <4>1. WinnerOf(match[m]) \in Users \cup {Bot, None} /\ LoserOf(match[m]) \in Users \cup {Bot, None}
        BY <1>0, <3>3, SittersFit DEF Sitters
      <4>2. PICK q : q = BeatenInSemis /\ q \in Seq(Users \cup {Bot, None}) /\ IsInjective(q)
        BY <1>0, BeatenFits
      <4> QED BY <3>1, <4>1, <4>2 DEF PayCalls
    <3>5. Won(d.winner)
      BY <2>3, <2>5, <3>4 DEF Won
    <3>6. d \in CallRecords /\ CallFits(d)
      BY <3>4, <3>5 DEF CallRecords, CallFits
    <3> QED BY <3>2, <3>6, CallsNow
  <2>6. CASE call' # [call EXCEPT ![s] = Idle] /\ m # 1
    <3>1. PICK p : p = Pairing(m)
      OBVIOUS
    <3>2. PICK k : k = m \div 2
      OBVIOUS
    <3>3. PICK d : d = [op |-> "next", m |-> k, pair |-> p]
      OBVIOUS
    <3>4. call' = [call EXCEPT ![s] = d] /\ FeedersOver(m)
      BY <1>1, <1>7, <2>2, <2>6, <3>1, <3>2, <3>3, Zenon DEF OnMatchCompleted, Goto, Return
    <3>5. p \in Seatings /\ Fed(k, p)
      BY <2>3, <2>6, <3>1, <3>2, <3>4, PairingFits
    <3>6. k \in LaterRounds
      BY <2>6, <3>2, Halves
    <3>7. d \in NextCalls
      BY <3>3, <3>5, <3>6 DEF NextCalls
    <3>8. d \in CallRecords /\ CallFits(d)
      BY <3>3, <3>5, <3>7 DEF CallRecords, CallFits
    <3> QED BY <3>4, <3>8, CallsNow
  <2> QED BY <2>4, <2>5, <2>6
<1>8. ASSUME CreateNext(s) \/ CompleteTournament(s) PROVE CallsStay
  <2>1. call' = [call EXCEPT ![s] = Idle]
    BY <1>8 DEF CreateNext, CompleteTournament, Return, Goto
  <2> QED BY <2>1, Returned
<1> QED BY <1>3, <1>4, <1>5, <1>6, <1>7, <1>8 DEF StepOf

LEMMA CallsStep == ASSUME PoolInv, MCNext PROVE CallsTyped' /\ CallsFit'
<1>1. RowsKept
  BY RowsStep
<1>2. ASSUME NEW u \in Users, Enters(u) PROVE call' = call
  BY <1>2 DEF Enters, CreateSingleMatch, JoinQueue, JoinPaired, Leave
<1>3. ASSUME NEW m \in Matches, Tick(m) PROVE call' = call
  BY <1>3 DEF Tick
<1> QED BY <1>1, <1>2, <1>3, StepsAre, CallsSame, StepCalls, PlayCalls DEF CallsStay

-----------------------------------------------------------------------------
\* The duel and its payment.
LEMMA Keys ==
  /\ <<"stake", 0>> # <<"payout", 0>> /\ <<"entry">> # <<"payout", 0>> /\ <<"prize">> # <<"payout", 0>>
  /\ <<"stake", 0>> # <<"prize">> /\ <<"entry">> # <<"prize">> /\ \A m : <<"payout", m>> # <<"prize">>
OBVIOUS

LEMMA OtherMovements ==
  ASSUME NEW M, ledger' = ledger \cup M, \A e \in M : e.key # <<"payout", 0>> PROVE Payouts' = Payouts
BY DEF Payouts

\* What the winner of match 0 is due.
DuePayouts(row) ==
  IF Stake > 0 /\ row.status = "completed" /\ WinnerOf(row) \in Users THEN {Movement(<<"payout", 0>>, WinnerOf(row), Payout)} ELSE {}

LEMMA DuelFrom ==
  ASSUME 0 \in overwritten' \/ (Payouts' = DuePayouts(match'[0]) /\ (match'[0].status # "completed" => match'[0].settled = FALSE))
  PROVE  DuelFits'
BY Zenon DEF DuelFits, WinnerPaid, DuePayouts

LEMMA DuelNow == ASSUME PoolInv, 0 \notin overwritten
  PROVE Payouts = DuePayouts(match[0]) /\ (match[0].status # "completed" => match[0].settled = FALSE)
BY Zenon DEF PoolInv, DuelFits, WinnerPaid, DuePayouts

LEMMA DuelSame ==
  ASSUME PoolInv, RowsKept, Payouts' = Payouts, match'[0].status = match[0].status, match'[0].settled = match[0].settled,
         match'[0].seat = match[0].seat, match'[0].game = match[0].game
  PROVE  DuelFits'
<1>1. DuePayouts(match'[0]) = DuePayouts(match[0])
  BY Zenon DEF DuePayouts, WinnerOf, UserOn
<1>2. overwritten \subseteq overwritten'
  BY DEF RowsKept
<1> QED BY <1>1, <1>2, DuelNow, DuelFrom

LEMMA DuelOpens ==
  ASSUME PoolInv, RowsKept, match[0] = NoMatch, match'[0].status = "active", match'[0].settled = FALSE, Payouts' = Payouts
  PROVE  DuelFits'
<1>1. match[0].status = "none"
  BY DEF NoMatch
<1>2. DuePayouts(match'[0]) = {} /\ DuePayouts(match[0]) = {}
  BY <1>1 DEF DuePayouts
<1>3. overwritten \subseteq overwritten'
  BY DEF RowsKept
<1> QED BY <1>2, <1>3, DuelNow, DuelFrom

\* The payment that a write of match 0 brings with it, when it had not been settled.
LEMMA DuelPaid ==
  ASSUME PoolInv, RowsKept, match[0].status = "active", NEW settled, settled = FALSE \/ 0 \in overwritten, NEW winner,
         ledger' = PaidIfSettled(0, winner, settled), NEW row, match'[0] = row, row.seat = match[0].seat,
         winner \in Seats => row.status = "completed" /\ row.game.winner = winner,
         winner \notin Seats => winner = None /\ row.status = "active" /\ row.settled = FALSE
  PROVE  DuelFits'
<1>1. CASE 0 \in overwritten
  BY <1>1, DuelFrom DEF RowsKept
<1>2. CASE 0 \notin overwritten
  <2>1. Payouts = {}
    BY <1>2, DuelNow DEF DuePayouts
  <2>2. match[0].mode # "tournament" /\ match[0].seat \in [Seats -> Users \cup {Bot}]
    <3>1. 0 \in Matches
      BY DEF Matches
    <3>2. RowFits(0, match[0])
      BY <3>1 DEF PoolInv, RowsTyped
    <3>3. PICK r : r = match[0]
      OBVIOUS
    <3>4. PICK z : z = 0
      OBVIOUS
    <3>5. r.mode \in {"single", "two_player"} /\ r.seat \in [Seats -> Users \cup {Bot}]
      BY <3>2, <3>3 DEF RowFits
    <3> QED BY <3>3, <3>5
  <2>3. CASE winner \notin Seats
    <3>1. ledger' = ledger
      BY <2>3, Zenon DEF PaidIfSettled, Settles
    <3>2. Payouts' = {}
      BY <2>1, <3>1 DEF Payouts
    <3>3. DuePayouts(row) = {}
      BY <2>3 DEF DuePayouts
    <3> QED BY <2>3, <3>2, <3>3, DuelFrom
  <2>4. CASE winner \in Seats
    <3>1. PICK u : u = match[0].seat[winner]
      OBVIOUS
    <3>2. u \in Users \cup {Bot} /\ (u \in Users <=> u # Bot)
      BY <2>2, <2>4, <3>1, MatchAssumption
    <3>3. WinnerOf(row) = u
      BY <2>4, <3>1, SeatsOther DEF WinnerOf, UserOn
    <3>4. Settles(0, winner, settled) <=> Stake > 0 /\ u \in Users
      BY <1>2, <2>2, <2>4, <3>1, <3>2, SeatsOther DEF Settles
    <3>5. PICK e : e = Movement(<<"payout", 0>>, u, Payout)
      OBVIOUS
    <3>6. ledger' = ledger \cup (IF Stake > 0 /\ u \in Users THEN {e} ELSE {})
      BY <3>1, <3>4, <3>5, Zenon DEF PaidIfSettled
    <3>7. e.key = <<"payout", 0>>
      BY <3>5 DEF Movement
    <3>8. Payouts' = IF Stake > 0 /\ u \in Users THEN {e} ELSE {}
      BY <2>1, <3>6, <3>7 DEF Payouts
    <3>9. DuePayouts(row) = IF Stake > 0 /\ u \in Users THEN {e} ELSE {}
      BY <2>4, <3>3, <3>5 DEF DuePayouts
    <3> QED BY <2>4, <3>8, <3>9, DuelFrom
  <2> QED BY <2>3, <2>4
<1> QED BY <1>1, <1>2

LEMMA NotPaidElsewhere ==
  ASSUME PoolInv, NEW m \in Matches, m # 0, match[m].status # "none", NEW winner, NEW settled PROVE PaidIfSettled(m, winner, settled) = ledger
<1>1. RowFits(m, match[m])
  BY DEF PoolInv, RowsTyped
<1>2. match[m].mode = "tournament"
  BY <1>1 DEF RowFits
<1> QED BY <1>2 DEF PaidIfSettled, Settles

LEMMA DuelStep == ASSUME PoolInv, MCNext PROVE DuelFits'
<1>0. RowsTyped /\ CallsTyped /\ RowsKept /\ 0 \in Matches /\ overwritten \subseteq overwritten'
  BY RowsStep, OverwrittenGrows DEF PoolInv, Matches
<1>1. ASSUME NEW u \in Users, Enters(u) PROVE DuelFits'
  <2>1. ASSUME JoinQueue(u) \/ Leave(u) PROVE DuelFits'
    <3>1. match' = match /\ ledger' = ledger
      BY <2>1 DEF JoinQueue, Leave
    <3> QED BY <1>0, <3>1, DuelSame DEF Payouts
  <2>2. ASSUME CreateSingleMatch(u) PROVE DuelFits'
    <3>1. PICK row : row = Created("single", u, Bot, "A")
      OBVIOUS
    <3>2. match' = [match EXCEPT ![0] = row] /\ match[0] = NoMatch
      BY <2>2, <3>1 DEF CreateSingleMatch
    <3>3. row.status = "active" /\ row.settled = FALSE
      BY <3>1, DuelCreated
    <3>4. match'[0] = row
      BY <1>0, <3>2 DEF RowsTyped
    <3>5. Payouts' = Payouts
      <4>1. PICK M : M = {Movement(<<"stake", 0>>, u, -Stake)}
        OBVIOUS
      <4>2. \A e \in M : e.key = <<"stake", 0>>
        BY <4>1 DEF Movement
      <4>3. ledger' = ledger \cup M
        BY <2>2, <4>1, Zenon DEF CreateSingleMatch
      <4> QED BY <4>2, <4>3, Keys, OtherMovements
    <3> QED BY <1>0, <3>2, <3>3, <3>4, <3>5, DuelOpens
  <2>3. ASSUME JoinPaired(u) PROVE DuelFits'
    <3>1. PICK w \in Without(u) : /\ match' = [match EXCEPT ![0] = Created("two_player", w, u, "A")] /\ match[0] = NoMatch
                                  /\ ledger' = ledger \cup {Movement(<<"stake", 0>>, v, -Stake) : v \in {u, w}}
      BY <2>3 DEF JoinPaired
    <3>2. PICK row : row = Created("two_player", w, u, "A")
      OBVIOUS
    <3>3. row.status = "active" /\ row.settled = FALSE
      <4>1. w \in Users
        BY DEF OthersTyped, Without, PoolInv
      <4> QED BY <3>2, <4>1, DuelCreated
    <3>4. match'[0] = row
      BY <1>0, <3>1, <3>2 DEF RowsTyped
    <3>5. Payouts' = Payouts
      <4>1. PICK M : M = {Movement(<<"stake", 0>>, v, -Stake) : v \in {u, w}}
        OBVIOUS
      <4>2. \A e \in M : e.key = <<"stake", 0>>
        BY <4>1 DEF Movement
      <4> QED BY <3>1, <4>1, <4>2, Keys, OtherMovements
    <3> QED BY <1>0, <3>1, <3>3, <3>4, <3>5, DuelOpens
  <2> QED BY <1>1, <2>1, <2>2, <2>3 DEF Enters
<1>2. ASSUME NEW s \in Sessions, StepOf(s) PROVE DuelFits'
  <2>1. match'[0] = match[0]
    <3>1. ASSUME CreateSlot(s), match' # match PROVE match'[0] = match[0]
      <4>1. PICK c : c = call[s]
        OBVIOUS
      <4>2. PICK m : m = Size \div 2 + c.slot
        OBVIOUS
      <4>3. PICK row : match' = [match EXCEPT ![m] = row]
        BY <3>1, <4>1, <4>2, SlotWrites
      <4>4. m # 0
        BY <3>1, <4>1, <4>2, SlotWrites, SlotOf, BracketShape
      <4> QED BY <4>3, <4>4
    <3>2. ASSUME CreateNext(s), match' # match PROVE match'[0] = match[0]
      <4>1. PICK c : c = call[s]
        OBVIOUS
      <4>2. PICK row : match' = [match EXCEPT ![c.m] = row]
        BY <3>2, <4>1, NextWrites
      <4>3. c.m # 0
        BY <3>2, <4>1, NextWrites, BracketShape DEF NextCalls, LaterRounds
      <4> QED BY <4>2, <4>3
    <3>3. ASSUME ~CreateSlot(s), ~CreateNext(s) PROVE match' = match
      BY <1>2, <3>3 DEF StepOf, Register, AdminStart, StartRead, SetActive, OnMatchCompleted, CompleteTournament
    <3> QED BY <3>1, <3>2, <3>3
  <2>2. Payouts' = Payouts
    <3>1. ASSUME NEW u \in Users, Register(s, u) PROVE Payouts' = Payouts
      <4>1. PICK M : M = {Movement(<<"entry">>, u, -EntryFee)}
        OBVIOUS
      <4>2. \A e \in M : e.key = <<"entry">>
        BY <4>1 DEF Movement
      <4>3. ledger' = ledger \cup M
        BY <3>1, <4>1, Zenon DEF Register
      <4> QED BY <4>2, <4>3, Keys, OtherMovements
    <3>2. ASSUME CompleteTournament(s), ledger' # ledger PROVE Payouts' = Payouts
      <4>1. PICK P : P = Prizes(call[s])
        OBVIOUS
      <4>2. PICK M : M = {Movement(<<"prize">>, p.user, p.amount) : p \in P}
        OBVIOUS
      <4>3. ledger' = ledger \cup M
        BY <3>2, <4>1, <4>2, Zenon DEF CompleteTournament
      <4>4. \A e \in M : e.key = <<"prize">>
        BY <4>2 DEF Movement
      <4> QED BY <4>3, <4>4, Keys, OtherMovements
    <3>3. ASSUME AdminStart(s) \/ StartRead(s) \/ SetActive(s) \/ CreateSlot(s) \/ OnMatchCompleted(s) \/ CreateNext(s) PROVE ledger' = ledger
      BY <3>3 DEF AdminStart, StartRead, SetActive, CreateSlot, OnMatchCompleted, CreateNext
    <3>4. ledger' = ledger => Payouts' = Payouts
      BY DEF Payouts
    <3> QED BY <1>2, <3>1, <3>2, <3>3, <3>4 DEF StepOf
  <2> QED BY <1>0, <2>1, <2>2, DuelSame
<1>3. ASSUME NEW s \in Sessions, PlayOf(s) PROVE DuelFits'
  <2>1. PICK c : c = call[s]
    OBVIOUS
  <2>2. c \in CallRecords /\ CallFits(c)
    BY <2>1, CallOf
  <2>3. CASE CommitShot(s)
    <3>1. c.op = "shot" /\ c \in ShotCalls /\ match[c.m].shots = c.index
      BY <2>1, <2>2, <2>3, CallIs DEF CommitShot, SameShot
    <3>2. c.m \in Matches /\ match[c.m].status # "none" /\ c.index \in Nat
      BY <2>2, <3>1 DEF ShotCalls, CallFits
    <3>3. PICK game \in GameRecords : /\ match' = [match EXCEPT ![c.m] = ShotRow(c, game)]
                                     /\ ledger' = PaidIfSettled(c.m, game.winner, c.settled)
                                     /\ IF game.phase = "gameover" THEN game.winner \in Seats ELSE game.winner = None
      BY <1>0, <2>1, <2>3, <3>1, ShotWrites
    <3>4. PICK row : row = ShotRow(c, game)
      OBVIOUS
    <3>5. /\ row.seat = match[c.m].seat /\ row.status = (IF game.phase = "gameover" THEN "completed" ELSE "active")
          /\ row.game = game /\ row.shots = c.index + 1 /\ row.settled = Settles(c.m, game.winner, c.settled)
      BY <1>0, <3>1, <3>2, <3>4, ShotRowFits
    <3>6. CASE c.m # 0
      <4>1. match'[0] = match[0] /\ ledger' = ledger
        BY <3>2, <3>3, <3>6, NotPaidElsewhere
      <4> QED BY <1>0, <4>1, DuelSame DEF Payouts
    <3>7. CASE c.m = 0
      <4>1. match'[0] = row
        BY <1>0, <3>3, <3>4, <3>7 DEF RowsTyped
      <4>2. CASE match[0].status = "completed"
        <5>1. match'[0].shots # match[0].shots
          BY <3>1, <3>2, <3>5, <3>7, <4>1
        <5>2. 0 \in overwritten'
          BY <1>0, <4>2, <5>1, OverwritesNow
        <5> QED BY <5>2, DuelFrom
      <4>3. CASE match[0].status # "completed"
        <5>1. match[0].status = "active"
          BY <1>0, <3>2, <3>7, <4>3 DEF RowsTyped, Rows
        <5>2. c.settled = FALSE \/ 0 \in overwritten
          BY <2>2, <3>1, <3>7, <4>3 DEF CallFits, Over
        <5>3. game.winner \in Seats => row.status = "completed" /\ row.game.winner = game.winner
          BY <3>3, <3>5, SeatsOther
        <5>4. game.winner \notin Seats => game.winner = None /\ row.status = "active" /\ row.settled = FALSE
          BY <3>3, <3>5 DEF Settles
        <5>5. PICK w, f : w = game.winner /\ f = c.settled
          OBVIOUS
        <5> QED BY <1>0, <3>3, <3>5, <3>7, <4>1, <5>1, <5>2, <5>3, <5>4, <5>5, DuelPaid
      <4> QED BY <4>2, <4>3
    <3> QED BY <3>6, <3>7
  <2>4. CASE HandleShotTimeout(s)
    <3>1. c.op = "timeout" /\ c \in TimeoutCalls /\ match[c.m].status = "active"
      BY <2>1, <2>2, <2>4, CallIs DEF HandleShotTimeout, StillDue
    <3>2. c.m \in Matches /\ match[c.m].status # "none"
      BY <3>1 DEF TimeoutCalls
    <3>3. PICK w : w = otherSeat(c.offender)
      OBVIOUS
    <3>4. CASE Forfeits(c)
      <4>1. PICK row : row = ForfeitRow(c)
        OBVIOUS
      <4>2. match' = [match EXCEPT ![c.m] = row] /\ ledger' = PaidIfSettled(c.m, w, c.settled)
        BY <2>1, <2>4, <3>3, <3>4, <4>1, TimeoutWrites
      <4>3. row.seat = match[c.m].seat /\ row.status = "completed" /\ row.game.winner = w /\ w \in Seats
        BY <1>0, <3>1, <3>2, <3>3, <4>1, ForfeitFits
      <4>4. CASE c.m # 0
        <5>1. match'[0] = match[0] /\ ledger' = ledger
          BY <3>2, <4>2, <4>4, NotPaidElsewhere
        <5> QED BY <1>0, <5>1, DuelSame DEF Payouts
      <4>5. CASE c.m = 0
        <5>1. match'[0] = row
          BY <1>0, <4>2, <4>5 DEF RowsTyped
        <5>2. PICK f : f = c.settled
          OBVIOUS
        <5>3. f = FALSE \/ 0 \in overwritten
          BY <2>2, <3>1, <4>5, <5>2 DEF CallFits, Over
        <5>4. ledger' = PaidIfSettled(0, w, f)
          BY <4>2, <4>5, <5>2
        <5> QED BY <1>0, <3>1, <4>3, <4>5, <5>1, <5>3, <5>4, DuelPaid
      <4> QED BY <4>4, <4>5
    <3>5. CASE ~Forfeits(c)
      <4>1. PICK row : row = WarnedRow(c)
        OBVIOUS
      <4>2. match' = [match EXCEPT ![c.m] = row] /\ ledger' = ledger
        BY <2>1, <2>4, <3>5, <4>1, TimeoutWrites
      <4>3. row.seat = match[c.m].seat /\ row.status = "active" /\ row.settled = match[c.m].settled
        BY <1>0, <3>1, <3>2, <4>1, WarnedFits
      <4>4. CASE c.m # 0
        <5>1. match'[0] = match[0]
          BY <4>2, <4>4
        <5> QED BY <1>0, <4>2, <5>1, DuelSame DEF Payouts
      <4>5. CASE c.m = 0
        <5>1. match'[0] = row
          BY <1>0, <4>2, <4>5 DEF RowsTyped
        <5>2. Payouts' = Payouts
          BY <4>2 DEF Payouts
        <5>3. DuePayouts(row) = {} /\ DuePayouts(match[0]) = {}
          BY <3>1, <4>3, <4>5 DEF DuePayouts
        <5> QED BY <1>0, <3>1, <4>3, <4>5, <5>1, <5>2, <5>3, DuelNow, DuelFrom
      <4> QED BY <4>4, <4>5
    <3> QED BY <3>4, <3>5
  <2>5. CASE ~CommitShot(s) /\ ~HandleShotTimeout(s)
    <3>1. match' = match /\ ledger' = ledger
      BY <1>3, <2>5 DEF PlayOf, SubmitShot, TimeoutRead, ReadShot, BotTurn, Conflict, Die
    <3> QED BY <1>0, <3>1, DuelSame DEF Payouts
  <2> QED BY <2>3, <2>4, <2>5
<1>4. ASSUME NEW m \in Matches, Tick(m) PROVE DuelFits'
  <2>1. PICK row : row = DueRow(m)
    OBVIOUS
  <2>2. /\ match' = [match EXCEPT ![m] = row] /\ row.seat = match[m].seat /\ row.status = match[m].status
        /\ row.game = match[m].game /\ row.settled = match[m].settled
    BY <1>0, <1>4, <2>1, TickWrites
  <2>3. match'[0] = match[0] \/ (m = 0 /\ match'[0] = row)
    BY <1>0, <2>2 DEF RowsTyped
  <2>4. ledger' = ledger
    BY <1>4 DEF Tick
  <2> QED BY <1>0, <2>2, <2>3, <2>4, DuelSame DEF Payouts
<1> QED BY <1>1, <1>2, <1>3, <1>4, StepsAre

-----------------------------------------------------------------------------
\* Where a row of the bracket comes from.
NewRow(n) == match[n].status = "none" /\ match'[n].status # "none"

LEMMA Fresh ==
  ASSUME PoolInv, MCNext, NEW n \in Brackets, NewRow(n)
  PROVE  \/ \E s \in Sessions, c \in SlotCalls :
               /\ CreateSlot(s) /\ c = call[s] /\ n = Size \div 2 + c.slot /\ NextSlot(s)
               /\ match' = [match EXCEPT ![n] = match'[n]] /\ Follows(match'[n], c.order, c.slot)
         \/ n \in LaterRounds /\ \E c \in NextCalls : c.m = n /\ CallFits(c) /\ c.op = "next" /\ match'[n].seat = c.pair
<1>0. RowsTyped /\ n \in Matches /\ n # 0
  BY BracketShape DEF PoolInv, Matches
<1>1. ASSUME NEW u \in Users, Enters(u) PROVE FALSE
  <2>1. match' = match \/ \E row : match' = [match EXCEPT ![0] = row]
    BY <1>1, Zenon DEF Enters, CreateSingleMatch, JoinQueue, JoinPaired, Leave
  <2>2. match'[n] = match[n]
    BY <1>0, <2>1 DEF RowsTyped
  <2> QED BY <2>2 DEF NewRow
<1>2. ASSUME NEW s \in Sessions, PlayOf(s) PROVE FALSE
  <2>1. PICK c : c = call[s]
    OBVIOUS
  <2>2. c \in CallRecords /\ CallFits(c)
    BY <2>1, CallOf
  <2>3. ASSUME CommitShot(s) \/ HandleShotTimeout(s) PROVE FALSE
    <3>1. match[c.m].status # "none"
      BY <2>1, <2>2, <2>3 DEF CommitShot, HandleShotTimeout, CallFits
    <3>2. n # c.m
      BY <3>1 DEF NewRow
    <3>3. match' = match \/ \E row : match' = [match EXCEPT ![c.m] = row]
      BY <2>1, <2>3, Zenon DEF CommitShot, HandleShotTimeout
    <3>4. match'[n] = match[n]
      BY <1>0, <3>2, <3>3 DEF RowsTyped
    <3> QED BY <3>4 DEF NewRow
  <2>4. ASSUME ~CommitShot(s), ~HandleShotTimeout(s) PROVE FALSE
    <3>1. match' = match
      BY <1>2, <2>4 DEF PlayOf, SubmitShot, TimeoutRead, ReadShot, BotTurn, Conflict, Die
    <3> QED BY <3>1 DEF NewRow
  <2> QED BY <2>3, <2>4
<1>3. ASSUME NEW m \in Matches, Tick(m) PROVE FALSE
  <2>1. PICK row : row = DueRow(m)
    OBVIOUS
  <2>2. match' = [match EXCEPT ![m] = row] /\ row.status = match[m].status
    BY <1>0, <1>3, <2>1, TickWrites
  <2>3. match'[n] = match[n] \/ (n = m /\ match'[n] = row)
    BY <1>0, <2>2 DEF RowsTyped
  <2> QED BY <2>2, <2>3 DEF NewRow
<1>4. PICK s \in Sessions : StepOf(s)
  BY <1>1, <1>2, <1>3, StepsAre
<1>5. match' # match
  BY DEF NewRow
<1>6. PICK c : c = call[s]
  OBVIOUS
<1>7. CASE CreateSlot(s)
  <2>1. PICK m : m = Size \div 2 + c.slot
    OBVIOUS
  <2>2. PICK row : c \in SlotCalls /\ match' = [match EXCEPT ![m] = row] /\ Follows(row, c.order, c.slot) /\ NextSlot(s)
    BY <1>5, <1>6, <1>7, <2>1, SlotWrites
  <2>3. n = m
    BY <2>2 DEF NewRow
  <2>4. match'[n] = row
    BY <1>0, <2>2, <2>3 DEF RowsTyped
  <2>5. match' = [match EXCEPT ![n] = match'[n]] /\ Follows(match'[n], c.order, c.slot)
    BY <2>2, <2>3, <2>4, Zenon
  <2> QED BY <1>6, <1>7, <2>1, <2>2, <2>3, <2>5
<1>8. CASE CreateNext(s)
  <2>1. PICK row : c \in NextCalls /\ CallFits(c) /\ c.op = "next" /\ match' = [match EXCEPT ![c.m] = row] /\ row.seat = c.pair
    BY <1>5, <1>6, <1>8, NextWrites
  <2>2. n = c.m
    BY <2>1 DEF NewRow
  <2>3. match'[n].seat = c.pair
    BY <1>0, <2>1, <2>2 DEF RowsTyped
  <2>4. n \in LaterRounds
    BY <2>1, <2>2 DEF NextCalls
  <2> QED BY <2>1, <2>2, <2>3, <2>4
<1>9. CASE ~CreateSlot(s) /\ ~CreateNext(s)
  BY <1>4, <1>5, <1>9 DEF StepOf, Register, AdminStart, StartRead, SetActive, OnMatchCompleted, CompleteTournament
<1> QED BY <1>7, <1>8, <1>9

\* Where a call that has created a slot comes from.
LEMMA WentTo ==
  ASSUME CallsTyped, NEW s \in Sessions, NEW d, call' = [call EXCEPT ![s] = d], d.op # "slots", NEW r \in Sessions, call'[r].op = "slots"
  PROVE  call'[r] = call[r]
BY DEF CallsTyped

\* A call goes on with something else than the slots.
Elsewhere(s) == \E d : call' = [call EXCEPT ![s] = d] /\ d.op # "slots"
LEMMA Went == ASSUME NEW s, NEW d, call' = [call EXCEPT ![s] = d], d.op # "slots" PROVE Elsewhere(s)
BY DEF Elsewhere
LEMMA WentChecked ==
  ASSUME NEW s, NEW m, NEW seat, call' = [call EXCEPT ![s] = [op |-> "checked", m |-> m, seat |-> seat]] PROVE Elsewhere(s)
<1>1. PICK d : d = [op |-> "checked", m |-> m, seat |-> seat]
  OBVIOUS
<1>2. d.op # "slots"
  BY <1>1
<1> QED BY <1>1, <1>2, Went

LEMMA SlotsFrom ==
  ASSUME PoolInv, MCNext, NEW r \in Sessions, call'[r].op = "slots", call'[r].slot # 0, ~CreateSlot(r)
  PROVE  call'[r] = call[r]
<1>0. CallsTyped
  BY DEF PoolInv
<1>1. ASSUME NEW u \in Users, Enters(u) PROVE call' = call
  BY <1>1 DEF Enters, CreateSingleMatch, JoinQueue, JoinPaired, Leave
<1>2. ASSUME NEW m \in Matches, Tick(m) PROVE call' = call
  BY <1>2 DEF Tick
<1>3. ASSUME NEW s \in Sessions, PlayOf(s) PROVE call'[r] = call[r]
  <2>1. Elsewhere(s)
    <3>2. Idle.op # "slots"
      BY DEF Idle
    <3>3. ASSUME NEW m, NEW over, NEW bots, After(s, m, over, bots) PROVE Elsewhere(s)
      <4>1. PICK x : x = CASE over /\ match[m].mode = "tournament" -> [op |-> "completed", m |-> m]
                           [] bots /\ match[m].mode = "single" -> [op |-> "bots", m |-> m]
                           [] OTHER -> Idle
        OBVIOUS
      <4>2. x.op # "slots"
        BY <4>1 DEF Idle
      <4>3. call' = [call EXCEPT ![s] = x]
        BY <3>3, <4>1, Zenon DEF After, Goto
      <4> QED BY <4>2, <4>3, Went
    <3>4. ASSUME NEW u \in Users, NEW m \in Matches, SubmitShot(s, u, m) PROVE Elsewhere(s)
      <4>1. PICK seat : call' = [call EXCEPT ![s] = [op |-> "checked", m |-> m, seat |-> seat]]
        BY <3>4, Zenon DEF SubmitShot, Call
      <4> QED BY <4>1, WentChecked
    <3>5. ASSUME NEW m \in Matches, TimeoutRead(s, m) PROVE Elsewhere(s)
      <4>1. PICK x : x = [op |-> "timeout", m |-> m, offender |-> match[m].game.turn, prior |-> match[m].timeouts[match[m].game.turn],
                          index |-> match[m].shots, settled |-> match[m].settled]
        OBVIOUS
      <4>2. call' = [call EXCEPT ![s] = x]
        BY <3>5, <4>1, Zenon DEF TimeoutRead, Call
      <4>3. x.op = "timeout"
        BY <4>1
      <4> QED BY <4>2, <4>3, Went
    <3>6. ASSUME ReadShot(s) PROVE Elsewhere(s)
      <4>1. PICK x : x = [op |-> "shot", m |-> call[s].m, seat |-> call[s].seat, index |-> match[call[s].m].shots,
                          turn |-> match[call[s].m].game.turn,
                          phase |-> IF match[call[s].m].game.phase = "break" THEN "break" ELSE "play",
                          settled |-> match[call[s].m].settled]
        OBVIOUS
      <4>2. x.op = "shot"
        BY <4>1
      <4>3. call' = [call EXCEPT ![s] = x]
        BY <3>6, <4>1, Zenon DEF ReadShot, Goto
      <4> QED BY <4>2, <4>3, Went
    <3>7. ASSUME BotTurn(s) PROVE Elsewhere(s)
      <4>1. call' = [call EXCEPT ![s] = Idle] \/ \E m, seat : call' = [call EXCEPT ![s] = [op |-> "checked", m |-> m, seat |-> seat]]
        BY <3>7, Zenon DEF BotTurn, Return, Goto
      <4> QED BY <3>2, <4>1, Went, WentChecked
    <3>8. ASSUME Conflict(s) \/ Die(s) PROVE Elsewhere(s)
      <4>1. call' = [call EXCEPT ![s] = Idle]
        BY <3>8, Zenon DEF Conflict, Die, Return, Goto
      <4> QED BY <3>2, <4>1, Went
    <3>9. ASSUME CommitShot(s) \/ HandleShotTimeout(s) PROVE \E m, over, bots : After(s, m, over, bots)
      BY <3>9, Zenon DEF CommitShot, HandleShotTimeout
    <3> QED BY <1>3, <3>2, <3>3, <3>4, <3>5, <3>6, <3>7, <3>8, <3>9, Zenon DEF PlayOf
  <2> QED BY <1>0, <2>1, WentTo DEF Elsewhere
<1>4. ASSUME NEW s \in Sessions, StepOf(s) PROVE call'[r] = call[r]
  <2>1. CASE CreateSlot(s)
    <3>1. s # r
      BY <2>1
    <3>2. \E d : call' = [call EXCEPT ![s] = d]
      BY <2>1, Zenon DEF CreateSlot, Duplicate, NextSlot, Return, Goto
    <3> QED BY <1>0, <3>1, <3>2 DEF CallsTyped
  <2>2. CASE SetActive(s)
    <3>1. PICK d : d = [op |-> "slots", order |-> call[s].order, slot |-> 0]
      OBVIOUS
    <3>2. call' = [call EXCEPT ![s] = d] /\ d.slot = 0
      BY <2>2, <3>1 DEF SetActive, Goto
    <3> QED BY <1>0, <3>2 DEF CallsTyped
  <2>3. CASE \E u \in Users : Register(s, u)
    <3>1. PICK d : d = [op |-> "start"]
      OBVIOUS
    <3>2. (call' = call \/ call' = [call EXCEPT ![s] = d]) /\ d.op # "slots"
      BY <2>3, <3>1 DEF Register, Call
    <3> QED BY <1>0, <3>2, WentTo
  <2>4. CASE AdminStart(s) \/ StartRead(s)
    <3>1. call' = [call EXCEPT ![s] = Idle] \/ call' = [call EXCEPT ![s] = [op |-> "start"]]
          \/ \E o : call' = [call EXCEPT ![s] = [op |-> "seed", order |-> o]]
      BY <2>4, Zenon DEF AdminStart, StartRead, Call, Return, Goto
    <3>2. Idle.op # "slots" /\ [op |-> "start"].op # "slots" /\ \A o : [op |-> "seed", order |-> o].op # "slots"
      BY DEF Idle
    <3> QED BY <1>0, <3>1, <3>2, WentTo
  <2>5. CASE OnMatchCompleted(s)
    <3>1. \/ call' = [call EXCEPT ![s] = Idle]
          \/ \E w, l, b : call' = [call EXCEPT ![s] = [op |-> "pay", winner |-> w, second |-> l, beaten |-> b]]
          \/ \E m, p : call' = [call EXCEPT ![s] = [op |-> "next", m |-> m, pair |-> p]]
      <4>1. CASE t.status # "active" \/ WinnerOf(match[call[s].m]) = None
        BY <2>5, <4>1, Zenon DEF OnMatchCompleted, Return, Goto
      <4>2. CASE t.status = "active" /\ WinnerOf(match[call[s].m]) # None /\ call[s].m = 1
        <5>1. PICK row, b : row = match[call[s].m] /\ b = BeatenInSemis
          OBVIOUS
        <5>2. call' = [call EXCEPT ![s] = [op |-> "pay", winner |-> WinnerOf(row), second |-> LoserOf(row), beaten |-> b]]
          BY <2>5, <4>2, <5>1, Zenon DEF OnMatchCompleted, Return, Goto
        <5> QED BY <5>2
      <4>3. CASE t.status = "active" /\ WinnerOf(match[call[s].m]) # None /\ call[s].m # 1
        <5>1. PICK m, k, p : m = call[s].m /\ k = m \div 2 /\ p = Pairing(m)
          OBVIOUS
        <5>2. call' = [call EXCEPT ![s] = [op |-> "next", m |-> k, pair |-> p]] \/ call' = [call EXCEPT ![s] = Idle]
          BY <2>5, <4>3, <5>1, Zenon DEF OnMatchCompleted, Return, Goto
        <5> QED BY <5>2
      <4> QED BY <4>1, <4>2, <4>3, Zenon
    <3>2. /\ Idle.op # "slots" /\ \A m, p : [op |-> "next", m |-> m, pair |-> p].op # "slots"
          /\ \A w, l, b : [op |-> "pay", winner |-> w, second |-> l, beaten |-> b].op # "slots"
      BY DEF Idle
    <3> QED BY <1>0, <3>1, <3>2, WentTo
  <2>6. CASE CreateNext(s) \/ CompleteTournament(s)
    <3>1. PICK d : call' = [call EXCEPT ![s] = d] /\ d.op # "slots"
      BY <2>6 DEF CreateNext, CompleteTournament, Return, Goto, Idle
    <3> QED BY <1>0, <3>1, WentTo
  <2> QED BY <1>4, <2>1, <2>2, <2>3, <2>4, <2>5, <2>6, Zenon DEF StepOf
<1> QED BY <1>1, <1>2, <1>3, <1>4, StepsAre, Zenon

\* The first round follows one draw.
FreshSlot == \E n \in FirstRound : NewRow(n)

LEMMA RoundSame == ASSUME PoolInv, MCNext, RowsKept, ~FreshSlot PROVE RoundFits'
<1>1. PICK h \in FirstRound : h = Size \div 2
  <2>1. PICK n \in Nat, k \in Nat : n = Size /\ k = Size \div 2 /\ n = 2 * k /\ k > 0
    BY BracketShape
  <2> QED BY <2>1, BracketShape
<1>2. \A n \in FirstRound : n \in Matches
  BY DEF FirstRound, Matches
<1>3. ASSUME NEW n \in FirstRound
      PROVE (match'[n].status = "none" <=> match[n].status = "none") /\ (match[n].status # "none" => match'[n].seat = match[n].seat)
  BY <1>2 DEF FreshSlot, NewRow, RowsKept, RowKept
<1>4. ASSUME NEW r \in Sessions, call'[r].op = "slots", call'[r].slot # 0 PROVE call'[r] = call[r]
  <2>1. CASE CreateSlot(r)
    <3>1. PICK c : c = call[r]
      OBVIOUS
    <3>2. PICK m : m = Size \div 2 + c.slot
      OBVIOUS
    <3>3. c \in SlotCalls /\ m \in FirstRound
      BY <2>1, <3>1, <3>2, SlotWrites, SlotOf
    <3>4. m \in Matches
      BY <1>2, <3>3
    <3>5. CASE call' = [call EXCEPT ![r] = Idle]
      <4>1. call'[r] = Idle
        BY <3>5 DEF PoolInv, CallsTyped
      <4> QED BY <1>4, <4>1 DEF Idle
    <3>6. CASE call' # [call EXCEPT ![r] = Idle]
      <4>1. PICK row : match' = [match EXCEPT ![m] = row] /\ match[m] = NoMatch /\ row.status = "active"
        BY <2>1, <3>1, <3>2, <3>6, SlotWrites
      <4>2. match'[m].status = "active" /\ match[m].status = "none"
        BY <3>4, <4>1 DEF PoolInv, RowsTyped, NoMatch
      <4> QED BY <3>3, <4>2 DEF FreshSlot, NewRow
    <3> QED BY <3>5, <3>6
  <2>2. CASE ~CreateSlot(r)
    BY <1>4, <2>2, SlotsFrom
  <2> QED BY <2>1, <2>2
<1>5. CASE match[h].status = "none"
  <2>1. Undrawn
    BY <1>1, <1>5 DEF PoolInv, RoundFits
  <2>2. \A n \in FirstRound : match'[n].status = "none"
    BY <1>3, <2>1 DEF Undrawn
  <2>3. ASSUME NEW r \in Sessions, call'[r].op = "slots", call'[r].slot # 0 PROVE FALSE
    BY <1>4, <2>1, <2>3 DEF Undrawn
  <2>4. Undrawn'
    BY <2>2, <2>3 DEF Undrawn
  <2> QED BY <1>1, <1>3, <1>5, <2>4 DEF RoundFits
<1>6. CASE match[h].status # "none"
  <2>1. PICK o \in Draws : DrawnBy(o)
    BY <1>1, <1>6 DEF PoolInv, RoundFits
  <2>2. ASSUME NEW n \in FirstRound, match'[n].status # "none" PROVE match'[n].seat = [A |-> o[2 * Slot(n) + 1], B |-> o[2 * Slot(n) + 2]]
    BY <1>3, <2>1, <2>2 DEF DrawnBy, Follows
  <2>3. ASSUME NEW r \in Sessions, call'[r].op = "slots", call'[r].slot # 0 PROVE call'[r].order = o
    BY <1>4, <2>1, <2>3 DEF DrawnBy
  <2>4. DrawnBy(o)'
    BY <2>2, <2>3 DEF DrawnBy, Follows
  <2> QED BY <1>1, <1>3, <1>6, <2>1, <2>4 DEF RoundFits
<1> QED BY <1>5, <1>6

LEMMA RoundFresh == ASSUME PoolInv, MCNext, RowsKept, FreshSlot PROVE RoundFits'
<1>1. PICK h \in FirstRound : h = Size \div 2 /\ FirstRound \cap LaterRounds = {}
  <2>1. PICK n \in Nat, k \in Nat : n = Size /\ k = Size \div 2 /\ n = 2 * k /\ k > 0
    BY BracketShape
  <2> QED BY <2>1, BracketShape
<1>2. PICK m \in FirstRound : NewRow(m)
  BY DEF FreshSlot
<1>3. m \in Brackets
  BY DEF FirstRound
<1>4. PICK s \in Sessions, c \in SlotCalls :
        /\ CreateSlot(s) /\ c = call[s] /\ m = Size \div 2 + c.slot /\ NextSlot(s)
        /\ match' = [match EXCEPT ![m] = match'[m]] /\ Follows(match'[m], c.order, c.slot)
  BY <1>1, <1>2, <1>3, Fresh
<1>5. c.op = "slots" /\ c.order \in Draws /\ c.slot \in Nat /\ Slot(m) = c.slot
  BY <1>4, SlotOf DEF SlotCalls
<1>6. \A n \in FirstRound \ {m} : match'[n] = match[n]
  <2>1. PICK row : row = match'[m]
    OBVIOUS
  <2>2. match' = [match EXCEPT ![m] = row]
    BY <1>4, <2>1
  <2>3. \A n \in FirstRound : n \in Matches
    BY DEF FirstRound, Matches
  <2> QED BY <2>2, <2>3 DEF PoolInv, RowsTyped
<1>7. PICK o : o = c.order
  OBVIOUS
<1>8. /\ \A n \in FirstRound \ {m} : match[n].status # "none" => Follows(match[n], o, Slot(n))
      /\ \A r \in Sessions : call[r].op = "slots" /\ call[r].slot # 0 => call[r].order = o
      /\ match'[h].status # "none"
  <2>1. CASE match[h].status = "none"
    <3>1. Undrawn
      BY <1>1, <2>1 DEF PoolInv, RoundFits
    <3>2. c.slot = 0
      BY <1>4, <1>5, <3>1 DEF Undrawn
    <3>3. m = h
      <4>1. h \in Nat
        BY <1>1, BracketShape
      <4> QED BY <1>1, <1>4, <3>2, <4>1
    <3> QED BY <1>2, <3>1, <3>3 DEF Undrawn, NewRow
  <2>2. CASE match[h].status # "none"
    <3>1. PICK p \in Draws : DrawnBy(p)
      BY <1>1, <2>2 DEF PoolInv, RoundFits
    <3>2. m # h
      BY <1>2, <2>2 DEF NewRow
    <3>3. c.slot # 0
      <4>1. h \in Nat
        BY <1>1, BracketShape
      <4> QED BY <1>1, <1>4, <3>2, <4>1
    <3>4. p = o
      BY <1>4, <1>5, <1>7, <3>1, <3>3 DEF DrawnBy
    <3>5. match'[h] = match[h]
      BY <1>1, <1>6, <3>2
    <3> QED BY <2>2, <3>1, <3>4, <3>5 DEF DrawnBy
  <2> QED BY <2>1, <2>2
<1>9. ASSUME NEW n \in FirstRound, match'[n].status # "none" PROVE match'[n].seat = [A |-> o[2 * Slot(n) + 1], B |-> o[2 * Slot(n) + 2]]
  <2>1. CASE n = m
    BY <1>4, <1>5, <1>7, <2>1 DEF Follows
  <2>2. CASE n # m
    BY <1>6, <1>8, <1>9, <2>2 DEF Follows
  <2> QED BY <2>1, <2>2
<1>10. ASSUME NEW r \in Sessions, call'[r].op = "slots", call'[r].slot # 0 PROVE call'[r].order = o
  <2>1. CASE r = s
    <3>1. PICK d : d = [c EXCEPT !.slot = @ + 1]
      OBVIOUS
    <3>2. d.order = o
      BY <1>7, <3>1 DEF SlotCalls
    <3>3. call' = [call EXCEPT ![s] = d] \/ call' = [call EXCEPT ![s] = Idle]
      BY <1>4, <3>1, Zenon DEF NextSlot, Return, Goto
    <3>4. call'[s] = d \/ call'[s] = Idle
      BY <3>3 DEF PoolInv, CallsTyped
    <3> QED BY <1>10, <2>1, <3>2, <3>4 DEF Idle
  <2>2. CASE r # s
    <3>1. \E d : call' = [call EXCEPT ![s] = d]
      BY <1>4, Zenon DEF NextSlot, Return, Goto
    <3>2. call'[r] = call[r]
      BY <2>2, <3>1 DEF PoolInv, CallsTyped
    <3> QED BY <1>8, <1>10, <3>2
  <2> QED BY <2>1, <2>2
<1>11. DrawnBy(o)'
  BY <1>9, <1>10 DEF DrawnBy, Follows
<1> QED BY <1>1, <1>5, <1>7, <1>8, <1>11 DEF RoundFits

LEMMA RoundStep == ASSUME PoolInv, MCNext PROVE RoundFits'
BY RowsStep, RoundSame, RoundFresh

-----------------------------------------------------------------------------
\* The later rounds and the winner of the tournament.
LEMMA WinnerSet ==
  ASSUME PoolInv, MCNext, t'.status = "completed"
  PROVE  \/ t.status = "completed" /\ t'.winner = t.winner
         \/ \E c \in CallRecords : CallFits(c) /\ c.op = "pay" /\ t'.winner = c.winner
<1>0. t \in Tournaments
  BY DEF PoolInv, OthersTyped
<1>1. CASE t' = t
  BY <1>1
<1>2. CASE t' # t
  <2>1. PICK s \in Sessions : StepOf(s)
    BY <1>2, StepsAre
  <2>2. PICK c : c = call[s]
    OBVIOUS
  <2>3. c \in CallRecords /\ CallFits(c)
    BY <2>2, CallOf
  <2>4. CASE CompleteTournament(s)
    <3>1. c.op = "pay" /\ t' = [t EXCEPT !.status = "completed", !.winner = c.winner]
      BY <1>2, <2>2, <2>4, Zenon DEF CompleteTournament
    <3>2. t'.winner = c.winner
      BY <1>0, <3>1 DEF Tournaments
    <3> QED BY <2>3, <3>1, <3>2
  <2>5. CASE SetActive(s)
    <3>1. t' = [t EXCEPT !.status = "active"]
      BY <1>2, <2>5, Zenon DEF SetActive
    <3> QED BY <1>0, <3>1 DEF Tournaments
  <2>6. CASE OnMatchCompleted(s)
    <3>1. PICK l : l = LoserOf(match[call[s].m])
      OBVIOUS
    <3>2. t' = [t EXCEPT !.eliminated = @ \cup {l}] /\ t.status = "active"
      BY <1>2, <2>6, <3>1, Zenon DEF OnMatchCompleted
    <3> QED BY <1>0, <3>2 DEF Tournaments
  <2>7. CASE \E u \in Users : Register(s, u)
    <3>1. PICK u \in Users : t.status = "registering" /\ t' = [t EXCEPT !.players = Append(@, u), !.pool = @ + EntryFee]
      BY <2>7, Zenon DEF Register
    <3> QED BY <1>0, <3>1 DEF Tournaments
  <2>8. CASE AdminStart(s) \/ StartRead(s) \/ CreateSlot(s) \/ CreateNext(s)
    BY <1>2, <2>8, Zenon DEF AdminStart, StartRead, CreateSlot, CreateNext
  <2> QED BY <2>1, <2>4, <2>5, <2>6, <2>7, <2>8, Zenon DEF StepOf
<1> QED BY <1>1, <1>2

LEMMA LaterStep == ASSUME PoolInv, MCNext PROVE LaterFits'
<1>0. RowsTyped /\ RowsKept /\ LaterFits
  BY RowsStep DEF PoolInv
<1>1. ASSUME NEW n \in LaterRounds, match'[n].status # "none" PROVE Fed(n, match[n].seat)' 
  <2>1. PICK seats : seats = match'[n].seat /\ Fed(n, seats)
    <3>1. CASE match[n].status # "none"
      <4>1. n \in Matches
        BY DEF LaterRounds, Matches
      <4>2. match'[n].seat = match[n].seat
        BY <1>0, <3>1, <4>1 DEF RowsKept, RowKept
      <4>3. Fed(n, match[n].seat)
        BY <1>0, <3>1 DEF LaterFits
      <4> QED BY <4>2, <4>3
    <3>2. CASE match[n].status = "none"
      <4>1. n \in Brackets /\ n \notin FirstRound
        BY DEF LaterRounds
      <4>2. ASSUME NEW c \in SlotCalls PROVE n # Size \div 2 + c.slot
        BY <4>1, SlotOf
      <4>3. PICK c \in NextCalls : c.m = n /\ CallFits(c) /\ c.op = "next" /\ match'[n].seat = c.pair
        BY <1>1, <3>2, <4>1, <4>2, Fresh DEF NewRow
      <4>4. Fed(n, c.pair)
        BY <4>3 DEF CallFits
      <4> QED BY <4>3, <4>4
    <3> QED BY <3>1, <3>2
  <2>2. Fed(n, seats)'
    BY <1>0, <2>1, FedKept
  <2> QED BY <2>1, <2>2 DEF Fed, Kept, Over
<1>2. ASSUME t'.status = "completed" PROVE Won(t.winner)'
  <2>1. PICK u : u = t'.winner /\ Won(u)
    <3>1. CASE t.status = "completed" /\ t'.winner = t.winner
      BY <1>0, <3>1 DEF LaterFits
    <3>2. ASSUME NEW c \in CallRecords, CallFits(c), c.op = "pay", t'.winner = c.winner PROVE Won(t'.winner)
      BY <3>2 DEF CallFits
    <3> QED BY <1>2, <3>1, <3>2, WinnerSet
  <2>2. Won(u)'
    BY <1>0, <2>1, WonKept
  <2> QED BY <2>1, <2>2 DEF Won, Kept, Over
<1> QED BY <1>1, <1>2 DEF LaterFits

-----------------------------------------------------------------------------
LEMMA RegisteredFits ==
  ASSUME MCInit
  PROVE  Registered \in Seq(Users) /\ Len(Registered) \in Nat /\ Len(Registered) <= Size /\ IsInjective(Registered)
         /\ EntryFee * Len(Registered) \in Nat
<1>1. PICK n \in Nat : n = Size /\ n > 0
  <2>1. PICK k \in Nat, h \in Nat : k = Size /\ h = Size \div 2 /\ k = 2 * h /\ h > 0
    BY BracketShape
  <2> QED BY <2>1
<1>2. PICK q : q = Registered
  OBVIOUS
<1>3. CASE setup # "duel"
  <2>1. q = [i \in 1..(n - 1) |-> Entrant[i]]
    BY <1>1, <1>2, <1>3 DEF Registered
  <2>2. Entrant \in [1..n -> Users] /\ IsInjective(Entrant)
    BY <1>1, EntrantAssumption
  <2>3. q \in Seq(Users) /\ Len(q) = n - 1
    BY <1>1, <2>1, <2>2
  <2>4. IsInjective(q)
    BY <1>1, <2>1, <2>2 DEF IsInjective
  <2>5. EntryFee \in Nat
    BY TournamentAssumption
  <2> QED BY <1>1, <1>2, <2>3, <2>4, <2>5
<1>4. CASE setup = "duel"
  <2>1. q = <<>>
    BY <1>2, <1>4 DEF Registered
  <2>2. q \in Seq(Users) /\ Len(q) = 0
    BY <2>1
  <2>3. IsInjective(q)
    BY <2>1 DEF IsInjective
  <2>4. EntryFee \in Nat
    BY TournamentAssumption
  <2> QED BY <1>1, <1>2, <2>2, <2>3, <2>4
<1> QED BY <1>3, <1>4

LEMMA PoolInit == MCInit => PoolInv
<1> SUFFICES ASSUME MCInit PROVE PoolInv
  OBVIOUS
<1>1. \A m \in Matches : match[m] = NoMatch
  BY DEF MCInit
<1>2. NoMatch.status = "none" /\ NoMatch.settled = FALSE
  BY DEF NoMatch
<1>3. RowsTyped
  <2>1. \A m \in Matches : RowFits(m, match[m])
    BY <1>1, NoMatchFits
  <2>2. \A m \in Matches : match[m] \in Rows
    BY <2>1 DEF RowFits
  <2>3. match = [m \in Matches |-> NoMatch]
    BY DEF MCInit
  <2>4. match \in [Matches -> Rows]
    BY <1>1, <2>2, <2>3
  <2> QED BY <2>1, <2>4 DEF RowsTyped
<1>4. OthersTyped
  <2>1. PICK q : q = Registered /\ q \in Seq(Users) /\ Len(q) <= Size /\ IsInjective(q)
    BY RegisteredFits
  <2>2. PICK n \in Nat : n = EntryFee * Len(Registered)
    BY RegisteredFits
  <2>3. t = [status |-> "registering", players |-> q, pool |-> n, eliminated |-> {}, winner |-> None]
    BY <2>1, <2>2, Zenon DEF MCInit
  <2>4. queue = {} /\ overwritten = {}
    BY DEF MCInit
  <2> QED BY <2>1, <2>3, <2>4 DEF OthersTyped, Tournaments
<1>5. \A s \in Sessions : call[s] = Idle
  BY DEF MCInit
<1>6. CallsTyped
  <2>1. Idle \in CallRecords
    BY DEF CallRecords
  <2> QED BY <2>1 DEF CallsTyped, MCInit
<1>7. CallsFit
  BY <1>5 DEF CallsFit, CallFits, Idle
<1>8. DuelFits
  <2>1. \A e \in ledger : e.key = <<"entry">>
    BY DEF MCInit, Movement
  <2>2. Payouts = {}
    BY <2>1, Keys DEF Payouts
  <2>3. 0 \in Matches
    BY DEF Matches
  <2>4. match[0].status = "none" /\ match[0].settled = FALSE
    BY <1>1, <1>2, <2>3
  <2> QED BY <2>2, <2>4 DEF DuelFits, WinnerPaid
<1>9. RoundFits
  <2>1. Size \div 2 \in Matches /\ \A m \in FirstRound : m \in Matches
    <3>1. PICK n \in Nat, h \in Nat : n = Size /\ h = Size \div 2 /\ n = 2 * h /\ h > 0
      BY BracketShape
    <3>2. Brackets = 1..(n - 1)
      BY <3>1, BracketShape, Zenon
    <3> QED BY <3>1, <3>2 DEF FirstRound, Matches
  <2>2. \A m \in FirstRound : match[m].status = "none"
    BY <1>1, <1>2, <2>1
  <2>3. \A s \in Sessions : call[s].op # "slots"
    BY <1>5 DEF Idle
  <2>4. match[Size \div 2].status = "none"
    BY <1>1, <1>2, <2>1
  <2> QED BY <2>2, <2>3, <2>4 DEF RoundFits, Undrawn
<1>10. LaterFits
  <2>1. \A m \in LaterRounds : match[m].status = "none"
    BY <1>1, <1>2 DEF LaterRounds, Matches
  <2>2. t.status # "completed"
    BY DEF MCInit
  <2> QED BY <2>1, <2>2 DEF LaterFits
<1> QED BY <1>3, <1>4, <1>6, <1>7, <1>8, <1>9, <1>10 DEF PoolInv

LEMMA PoolStutter == ASSUME PoolInv, UNCHANGED mcvars PROVE PoolInv'
<1>1. match' = match /\ queue' = queue /\ ledger' = ledger /\ call' = call /\ t' = t /\ overwritten' = overwritten
  BY DEF mcvars, vars
<1>2. RowsTyped' /\ OthersTyped' /\ CallsTyped'
  BY <1>1 DEF PoolInv, RowsTyped, OthersTyped, CallsTyped
<1>3. RowsKept
  BY <1>1, <1>2, SameRows DEF PoolInv
<1>4. CallsFit'
  BY <1>1, <1>3, CallsSame DEF CallsStay
<1>5. DuelFits'
  BY <1>1, <1>3, DuelSame DEF Payouts
<1>6. RoundFits'
  BY <1>1 DEF PoolInv, RoundFits, Undrawn, DrawnBy, Follows
<1>7. LaterFits'
  BY <1>1 DEF PoolInv, LaterFits, Fed, Won, Kept, Over
<1> QED BY <1>2, <1>4, <1>5, <1>6, <1>7 DEF PoolInv

LEMMA PoolStep == ASSUME PoolInv, [MCNext]_mcvars PROVE PoolInv'
<1>1. CASE MCNext
  BY <1>1, RowsStep, OthersStep, CallsStep, DuelStep, RoundStep, LaterStep DEF PoolInv
<1>2. CASE UNCHANGED mcvars
  BY <1>2, PoolStutter
<1> QED BY <1>1, <1>2

\* The rows of matches fit their kind, the calls know of them what still holds, the duel
\* has paid what it owes, and the bracket is fed by one draw and by the winners (PoolInv), whatever interleaves.
THEOREM PoolInvariance == MCSpec => []PoolInv
<1>1. PoolInv /\ [MCNext]_mcvars => PoolInv'
  BY PoolStep
<1> QED BY <1>1, PoolInit, PTL DEF MCSpec

\* A duel for a stake pays its winner, once and nobody else (settleWithinTx, applyResolvedShot,
\* handleShotTimeout), for any number of users, sessions and shots, until it is written over.
THEOREM DuelIsPaid == MCSpec => []WinnerPaid
<1>1. PoolInv => WinnerPaid
  BY DEF PoolInv, DuelFits, WinnerPaid
<1> QED BY <1>1, PoolInvariance, PTL

LEMMA Disjoint ==
  ASSUME PoolInv, NEW m \in FirstRound, NEW n \in FirstRound, m # n, match[m] # NoMatch, match[n] # NoMatch
  PROVE  PlayersOf(m) \cap PlayersOf(n) = {}
<1>1. match[m].status # "none" /\ match[n].status # "none"
  BY DEF PoolInv, RowsTyped, RowFits, FirstRound, Matches
<1>2. PICK o \in Draws : DrawnBy(o)
  BY <1>1 DEF PoolInv, RoundFits, Undrawn
<1>3. PICK z \in Nat, h \in Nat : z = Size /\ h = Size \div 2 /\ z = 2 * h /\ h > 0
  BY BracketShape
<1>4. m \in h..(z - 1) /\ n \in h..(z - 1)
  BY <1>3, BracketShape, Zenon
<1>5. PICK i \in 0..(h - 1), j \in 0..(h - 1) : i = Slot(m) /\ j = Slot(n) /\ i # j
  BY <1>3, <1>4 DEF Slot
<1>6. match[m].seat = [A |-> o[2 * i + 1], B |-> o[2 * i + 2]] /\ match[n].seat = [A |-> o[2 * j + 1], B |-> o[2 * j + 2]]
  BY <1>1, <1>2, <1>5 DEF DrawnBy, Follows
<1>7. PlayersOf(m) = {o[2 * i + 1], o[2 * i + 2]} /\ PlayersOf(n) = {o[2 * j + 1], o[2 * j + 2]}
  BY <1>6 DEF PlayersOf, Seats
<1>8. \A a, b \in 1..z : o[a] = o[b] => a = b
  BY <1>2, <1>3 DEF Draws, IsInjective
<1>9. 2 * i + 1 \in 1..z /\ 2 * i + 2 \in 1..z /\ 2 * j + 1 \in 1..z /\ 2 * j + 2 \in 1..z
  BY <1>3
<1>10. {2 * i + 1, 2 * i + 2} \cap {2 * j + 1, 2 * j + 2} = {}
  BY <1>5
<1> QED BY <1>7, <1>8, <1>9, <1>10

\* Nobody plays in two matches of the first round, a later match is between the winners of the two
\* that feed it, and the winner of the tournament is the winner of the final (start, onMatchCompleted),
\* for every size of the bracket and every interleaving of the calls.
THEOREM BracketIsFollowed == MCSpec => []BracketFollows
<1>1. ASSUME PoolInv PROVE BracketFollows
  <2>1. ASSUME NEW m \in FirstRound, NEW n \in FirstRound, m # n /\ NoMatch \notin {match[m], match[n]}
        PROVE  PlayersOf(m) \cap PlayersOf(n) = {}
    BY <1>1, <2>1, Disjoint
  <2>2. ASSUME NEW m \in Brackets \ FirstRound, match[m] # NoMatch /\ overwritten \cap {2 * m, 2 * m + 1} = {}
        PROVE  match[m].seat = [A |-> WinnerOf(match[2 * m]), B |-> WinnerOf(match[2 * m + 1])]
    <3>1. m \in LaterRounds
      BY DEF LaterRounds
    <3>2. match[m].status # "none"
      BY <1>1, <2>2 DEF PoolInv, RowsTyped, RowFits, Matches
    <3>3. Fed(m, match[m].seat)
      BY <1>1, <3>1, <3>2 DEF PoolInv, LaterFits
    <3> QED BY <2>2, <3>3, Zenon DEF Fed, Kept
  <2>3. ASSUME t.status = "completed" /\ overwritten = {} PROVE t.winner = WinnerOf(match[1])
    <3>1. Won(t.winner)
      BY <1>1, <2>3 DEF PoolInv, LaterFits
    <3>2. Kept({1})
      BY <2>3 DEF Kept
    <3> QED BY <3>1, <3>2 DEF Won
  <2> QED BY <2>1, <2>2, <2>3 DEF BracketFollows
<1> QED BY <1>1, PoolInvariance, PTL

-----------------------------------------------------------------------------
\* What the prizes add up to.
Amounts(S) == [e \in S |-> e.amount]

LEMMA Floor == ASSUME NEW x \in Nat, NEW n \in Nat, n > 0 PROVE x \div n \in Nat /\ (x \div n) * n <= x
OBVIOUS

\* What one place is paid: the same for each who is on it, and one of them takes the rest.
PlacePaid(R, q, i, per, rest, n, f) ==
  /\ q \in Seq(Sitters) /\ IsInjective(q) /\ per \in Int /\ rest \in Int /\ n \in Nat /\ n = Len(q) /\ n > 0
  /\ R = {[user |-> q[j], place |-> i, amount |-> IF j = 1 THEN per + rest ELSE per] : j \in DOMAIN q}
  /\ \A e \in R : f[e] = e.amount
LEMMA PlaceSum ==
  ASSUME NEW R, NEW q, NEW i, NEW per, NEW rest, NEW n, NEW f, PlacePaid(R, q, i, per, rest, n, f)
  PROVE  IsFiniteSet(R) /\ SumFunctionOnSet(f, R) = per * n + rest
<1> DEFINE h == [j \in 1..n |-> [user |-> q[j], place |-> i, amount |-> IF j = 1 THEN per + rest ELSE per]]
           a == [j \in 1..n |-> IF j = 1 THEN per + rest ELSE per]
           b == [j \in 1..n |-> per]
<1>a. /\ q \in Seq(Sitters) /\ IsInjective(q) /\ per \in Int /\ rest \in Int /\ n \in Nat /\ n = Len(q) /\ n > 0
      /\ R = {[user |-> q[j], place |-> i, amount |-> IF j = 1 THEN per + rest ELSE per] : j \in DOMAIN q}
      /\ \A e \in R : f[e] = e.amount
  BY DEF PlacePaid
<1>0. DOMAIN q = 1..n /\ IsFiniteSet(1..n) /\ Cardinality(1..n) = n /\ 1 \in 1..n
  <2>1. DOMAIN q = 1..n /\ 1 \in 1..n
    BY <1>a
  <2> QED BY <1>a, <2>1, UpTo
<1>1. R = {h[j] : j \in 1..n}
  BY <1>a, <1>0
<1>2. \A j, k \in 1..n : h[j] = h[k] => j = k
  <2>1. \A j, k \in 1..n : q[j] = q[k] => j = k
    BY <1>a, <1>0 DEF IsInjective
  <2> QED BY <2>1
<1>3. \A j \in 1..n : f[h[j]] = a[j]
  <2>1. \A j \in 1..n : h[j] \in R /\ h[j].amount = a[j]
    BY <1>1
  <2> QED BY <1>a, <2>1
<1>4. \A j \in 1..n : a[j] \in Int /\ b[j] = per
  BY <1>a
<1>5. a[1] = per + rest /\ \A j \in (1..n) \ {1} : a[j] = b[j]
  BY <1>0
<1> HIDE DEF h, a, b
<1>6. IsFiniteSet(R) /\ SumFunctionOnSet(f, R) = SumFunctionOnSet(a, 1..n)
  <2>1. PICK D : D = 1..n /\ IsFiniteSet(D) /\ R = {h[j] : j \in D}
    BY <1>0, <1>1
  <2>2. \A j \in D : a[j] \in Int /\ f[h[j]] = a[j]
    BY <1>3, <1>4, <2>1
  <2>3. \A j, k \in D : h[j] = h[k] => j = k
    BY <1>2, <2>1
  <2>4. IsFiniteSet(R) /\ SumFunctionOnSet(f, R) = SumFunctionOnSet(a, D)
    <3>1. Carries(h, D, R, a, f)
      BY <2>1, <2>2, <2>3 DEF Carries
    <3> QED BY <2>1, <3>1, SumMapped
  <2> QED BY <2>1, <2>4, Zenon
<1>7. SumFunctionOnSet(b, 1..n) = per * n
  <2>1. PICK D : D = 1..n /\ IsFiniteSet(D) /\ Cardinality(D) = n /\ \A j \in D : b[j] = per
    BY <1>0, <1>4
  <2>2. per \in Int
    BY <1>a
  <2>3. SumFunctionOnSet(b, D) = per * Cardinality(D)
    BY <2>1, <2>2, SumConstant
  <2> QED BY <2>1, <2>3, Zenon
<1>8. SumFunctionOnSet(a, 1..n) = SumFunctionOnSet(b, 1..n) - b[1] + a[1]
  <2>1. PICK D : D = 1..n /\ IsFiniteSet(D) /\ 1 \in D
    BY <1>0
  <2>2. \A j \in D : b[j] \in Int /\ a[j] \in Int
    BY <1>a, <1>4, <2>1
  <2>3. \A j \in D \ {1} : a[j] = b[j]
    BY <1>5, <2>1
  <2>4. IsFiniteSet(D) /\ 1 \in D
    BY <2>1
  <2>5. SumFunctionOnSet(a, D) = SumFunctionOnSet(b, D) - b[1] + a[1]
    <3>1. PICK y \in D : y = 1
      BY <2>4
    <3>2. \A j \in D \ {y} : a[j] = b[j]
      BY <2>3, <3>1
    <3>3. SumFunctionOnSet(a, D) = SumFunctionOnSet(b, D) - b[y] + a[y]
      BY <2>2, <2>4, <3>2, SumChange
    <3> QED BY <3>1, <3>3
  <2> QED BY <2>1, <2>5
<1>9. PICK x \in Int : x = per * n
  BY <1>a
<1>10. SumFunctionOnSet(a, 1..n) = x - per + (per + rest)
  BY <1>0, <1>4, <1>5, <1>7, <1>8, <1>9
<1>11. x - per + (per + rest) = x + rest
  BY <1>a
<1> QED BY <1>6, <1>9, <1>10, <1>11

LEMMA PayoutsShared ==
  ASSUME NEW pool \in Nat, NEW places, DOMAIN places = 1..3,
         \A i \in 1..3 : places[i] \in Seq(Sitters) /\ IsInjective(places[i]),
         NEW P, P = computeTournamentPayouts(pool, places)
  PROVE  IsFiniteSet(P) /\ (\A p \in P : p.amount \in Nat) /\ SumFunctionOnSet(Amounts(P), P) = pool
<1> DEFINE active == {i \in DOMAIN places : Weights[i] > 0 /\ places[i] # <<>>}
           total == SumFunctionOnSet(Weights, active)
           per == [i \in active |-> ((pool * Weights[i]) \div total) \div Len(places[i])]
           part == [i \in active |-> per[i] * Len(places[i])]
           dust == pool - SumFunctionOnSet(part, active)
           first == Min(active)
           due(i, j) == IF i = first /\ j = 1 THEN per[i] + dust ELSE per[i]
           paid(i) == {[user |-> places[i][j], place |-> i, amount |-> due(i, j)] : j \in DOMAIN places[i]}
           R == [i \in active |-> paid(i)]
<1>1. P = IF total = 0 THEN {[user |-> Head(places[1]), place |-> 1, amount |-> pool]} 
          ELSE UNION {paid(i) : i \in active}
  BY DEF computeTournamentPayouts, Dust
<1> HIDE DEF active, total, per, part, dust, first, due, paid, R
<1>2. UNION {paid(i) : i \in active} = UNION {R[i] : i \in active}
  BY DEF R
<1>3. active \subseteq 1..3 /\ IsFiniteSet(active) /\ \A i \in active : Weights[i] > 0 /\ places[i] # <<>>
  <2>1. 1 \in Int /\ 3 \in Int
    OBVIOUS
  <2>2. IsFiniteSet(1..3)
    BY <2>1, FS_Interval
  <2> QED BY <2>2, FS_Subset DEF active
<1>4. \A i \in active : Weights[i] \in Nat /\ Len(places[i]) \in Nat /\ Len(places[i]) > 0
  BY <1>3, TournamentAssumption
<1>5. total \in Nat
  BY <1>3, <1>4, SumNat DEF total
<1>6. CASE total = 0
  <2>1. PICK e : e = [user |-> Head(places[1]), place |-> 1, amount |-> pool]
    OBVIOUS
  <2>2. P = {e} /\ e.amount = pool
    BY <1>1, <1>6, <2>1
  <2>3. Amounts(P)[e] = pool
    BY <2>2 DEF Amounts
  <2>a. PICK a : a = Amounts(P)
    OBVIOUS
  <2>b. a[e] \in Int
    BY <2>3, <2>a
  <2>4. SumFunctionOnSet(a, {e}) = a[e]
    BY <2>b, SumSingle, Zenon
  <2>5. IsFiniteSet({e})
    BY FS_Singleton
  <2> QED BY <2>2, <2>3, <2>a, <2>4, <2>5
<1>7. CASE total # 0
  <2>1. P = UNION {R[i] : i \in active}
    BY <1>1, <1>2, <1>7
  <2>2. first \in active
    <3>1. active # {}
      BY <1>7, SumEmpty DEF total
    <3>2. active \in SUBSET Nat
      BY <1>3
    <3>3. \E x \in active : \A y \in active : x <= y
      BY <3>1, <3>2, LeastNat
    <3> QED BY <3>3 DEF Min, first
  <2>3. ASSUME NEW i \in active PROVE per[i] \in Nat /\ part[i] \in Nat /\ part[i] * total <= pool * Weights[i]
    <3>1. PICK n \in Nat, w \in Nat, T \in Nat : n = Len(places[i]) /\ n > 0 /\ w = Weights[i] /\ T = total /\ T > 0
      BY <1>4, <1>5, <1>7
    <3>2. PICK x \in Nat : x = pool * w
      OBVIOUS
    <3>3. PICK y \in Nat : y = x \div T /\ y * T <= x
      BY <3>1, <3>2, Floor
    <3>4. PICK z \in Nat : z = y \div n /\ z * n <= y
      BY <3>1, <3>3, Floor
    <3>5. per[i] = z 
      BY <3>1, <3>2, <3>3, <3>4 DEF per
    <3>6. part[i] = z * n
      BY <3>1, <3>5 DEF part
    <3>7. PICK v \in Nat : v = z * n /\ v <= y
      BY <3>4
    <3>8. v * T <= y * T
      BY <3>7
    <3>9. v * T <= x
      <4>1. PICK a \in Nat, b \in Nat : a = v * T /\ b = y * T
        OBVIOUS
      <4> QED BY <3>3, <3>8, <4>1
    <3>10. part[i] = v /\ part[i] * total = v * T /\ pool * Weights[i] = x
      BY <3>1, <3>2, <3>6, <3>7
    <3> QED BY <3>5, <3>9, <3>10
  <2>4. SumFunctionOnSet(part, active) \in Nat /\ SumFunctionOnSet(part, active) * total <= pool * SumFunctionOnSet(Weights, active)
    BY <1>3, <1>4, <1>5, <2>3, SharesWithin
  <2>5. PICK x \in Nat, d \in Nat : x = SumFunctionOnSet(part, active) /\ d = pool - x /\ dust = d
    <3>1. PICK s \in Nat, T \in Nat : s = SumFunctionOnSet(part, active) /\ T = total /\ T > 0
      BY <1>5, <1>7, <2>4
    <3>2. s * T <= pool * T
      BY <2>4, <3>1, Zenon DEF total
    <3>3. s <= pool
      BY <3>1, <3>2
    <3> QED BY <3>1, <3>3 DEF dust
  <2> DEFINE s == [i \in active |-> IF i = first THEN part[i] + d ELSE part[i]]
  <2>s. \A i \in active : s[i] = IF i = first THEN part[i] + d ELSE part[i]
    OBVIOUS
  <2> HIDE DEF s
  <2>6. SumFunctionOnSet(s, active) = pool
    <3>1. \A i \in active : part[i] \in Int /\ s[i] \in Int
      BY <2>3, <2>5, <2>s
    <3>2. s[first] = part[first] + d /\ \A i \in active \ {first} : s[i] = part[i]
      BY <2>2, <2>s
    <3>3. SumFunctionOnSet(s, active) = SumFunctionOnSet(part, active) - part[first] + s[first]
      BY <1>3, <2>2, <3>1, <3>2, SumChange
    <3> QED BY <2>2, <2>5, <3>1, <3>2, <3>3
  <2>7. ASSUME NEW i \in active, NEW e \in R[i] PROVE e.amount \in Nat /\ e.place = i
    <3>1. e \in paid(i)
      BY <2>7 DEF R
    <3>2. PICK j : e = [user |-> places[i][j], place |-> i, amount |-> due(i, j)]
      BY <3>1 DEF paid
    <3>3. due(i, j) \in Nat
      BY <2>3, <2>5 DEF due
    <3> QED BY <3>2, <3>3
  <2>8. \A e \in P : e.amount \in Nat
    BY <2>1, <2>7
  <2>9. ASSUME NEW i \in active PROVE IsFiniteSet(R[i]) /\ s[i] = SumFunctionOnSet(Amounts(P), R[i])
    <3>1. PICK q : q = places[i] /\ q \in Seq(Sitters) /\ IsInjective(q)
      BY <1>3
    <3>2. PICK n \in Nat : n = Len(q) /\ n > 0
      BY <1>4, <3>1
    <3>3. PICK rest \in Int : rest = IF i = first THEN d ELSE 0
      BY <2>5
    <3>4. PICK z \in Int : z = per[i]
      BY <2>3
    <3>5. R[i] = {[user |-> q[j], place |-> i, amount |-> IF j = 1 THEN z + rest ELSE z] : j \in DOMAIN q}
      <4>1. \A j \in DOMAIN q : due(i, j) = IF j = 1 THEN z + rest ELSE z
        BY <2>5, <3>3, <3>4 DEF due
      <4>2. R[i] = paid(i)
        BY DEF R
      <4>3. paid(i) = {[user |-> q[j], place |-> i, amount |-> due(i, j)] : j \in DOMAIN q}
        BY <3>1 DEF paid
      <4> QED BY <4>1, <4>2, <4>3
    <3>6. \A e \in R[i] : Amounts(P)[e] = e.amount
      BY <2>1 DEF Amounts
    <3>7. s[i] = z * n + rest
      <4>1. PICK y \in Int : y = z * n
        OBVIOUS
      <4>2. part[i] = y
        BY <3>1, <3>2, <3>4, <4>1 DEF part
      <4>3. s[i] = y + rest
        BY <2>s, <2>5, <3>3, <4>2
      <4> QED BY <4>1, <4>3
    <3>8. PICK Q, a : Q = R[i] /\ a = Amounts(P)
      OBVIOUS
    <3>9. PlacePaid(Q, q, i, z, rest, n, a)
      BY <3>1, <3>2, <3>5, <3>6, <3>8 DEF PlacePaid
    <3>10. IsFiniteSet(Q) /\ SumFunctionOnSet(a, Q) = z * n + rest
      BY <3>9, PlaceSum
    <3> QED BY <3>7, <3>8, <3>10
  <2>10. Sums(active, R, Amounts(P), s)
    <3>1. \A i \in active : \A e \in R[i] : Amounts(P)[e] \in Int
      BY <2>1, <2>7 DEF Amounts
    <3> QED BY <2>9, <3>1 DEF Sums
  <2>11. Parts(active, R)
    BY <2>7 DEF Parts
  <2>12. IsFiniteSet(UNION {R[i] : i \in active}) /\ SumFunctionOnSet(Amounts(P), UNION {R[i] : i \in active}) = SumFunctionOnSet(s, active)
    BY <1>3, <2>10, <2>11, SumUnions
  <2> QED BY <2>1, <2>6, <2>8, <2>12
<1> QED BY <1>6, <1>7

LEMMA PrizesSum ==
  ASSUME OthersTyped, NEW c \in PayCalls, NEW P, P = Prizes(c)
  PROVE  IsFiniteSet(P) /\ (\A p \in P : p.amount \in Nat)
         /\ SumFunctionOnSet(Amounts(P), P) = (t.pool * (100 - PrizeRakePct)) \div 100
<1>1. PICK pool \in Nat : pool = (t.pool * (100 - PrizeRakePct)) \div 100
  <2>1. t.pool \in Nat
    BY DEF OthersTyped, Tournaments
  <2>2. PICK x \in Nat, k \in Nat : x = t.pool /\ k = 100 - PrizeRakePct
    BY <2>1, TournamentAssumption
  <2>3. PICK y \in Nat : y = x * k
    OBVIOUS
  <2>4. y \div 100 \in Nat
    OBVIOUS
  <2> QED BY <2>2, <2>3, <2>4
<1>2. c.winner \in Sitters /\ c.second \in Sitters /\ c.beaten \in Seq(Sitters) /\ IsInjective(c.beaten)
  BY DEF PayCalls, Sitters
<1>3. PICK places : places = <<<<c.winner>>, <<c.second>>, c.beaten>>
  OBVIOUS
<1>4. DOMAIN places = 1..3 /\ places[1] = <<c.winner>> /\ places[2] = <<c.second>> /\ places[3] = c.beaten
  BY <1>3
<1>5. \A i \in 1..3 : places[i] \in Seq(Sitters) /\ IsInjective(places[i])
  <2>1. \A u \in Sitters : <<u>> \in Seq(Sitters) /\ IsInjective(<<u>>)
    BY DEF IsInjective
  <2>2. \A i \in 1..3 : i = 1 \/ i = 2 \/ i = 3
    OBVIOUS
  <2> QED BY <1>2, <1>4, <2>1, <2>2
<1>6. PICK Q : Q = computeTournamentPayouts(pool, places)
  OBVIOUS
<1>7. IsFiniteSet(Q) /\ (\A p \in Q : p.amount \in Nat) /\ SumFunctionOnSet(Amounts(Q), Q) = pool
  BY <1>4, <1>5, <1>6, PayoutsShared
<1>8. P = {p \in Q : p.amount > 0}
  BY <1>1, <1>3, <1>6, Zenon DEF Prizes
<1>9. PICK a, b : a = Amounts(Q) /\ b = Amounts(P)
  OBVIOUS
<1>10. (\A p \in Q : a[p] = p.amount) /\ \A p \in P : b[p] = p.amount
  BY <1>9 DEF Amounts
<1>11. IsFiniteSet(P) /\ SumFunctionOnSet(a, Q) = SumFunctionOnSet(a, P)
  <2>1. P \in SUBSET Q /\ (\A p \in P : a[p] \in Int) /\ \A p \in Q \ P : a[p] = 0
    BY <1>7, <1>8, <1>10
  <2> QED BY <1>7, <2>1, SumOmit
<1>12. SumFunctionOnSet(a, P) = SumFunctionOnSet(b, P)
  <2>1. \A p \in P : a[p] = b[p]
    BY <1>8, <1>10
  <2> QED BY <1>11, <2>1, SumEqual
<1> QED BY <1>1, <1>7, <1>8, <1>9, <1>11, <1>12

LEMMA PrizesEntered ==
  ASSUME NEW P, IsFiniteSet(P), \A p \in P : p.amount \in Nat, \A p, q \in P : p.user = q.user => p = q,
         NEW M, M = {Movement(<<"prize">>, p.user, p.amount) : p \in P}
  PROVE  SumFunctionOnSet(Amounts(M), M) = SumFunctionOnSet(Amounts(P), P)
<1>1. PICK h : h = [p \in P |-> Movement(<<"prize">>, p.user, p.amount)]
  OBVIOUS
<1>2. PICK f, g : f = Amounts(P) /\ g = Amounts(M)
  OBVIOUS
<1>3. \A p \in P : h[p].user = p.user /\ h[p].amount = p.amount /\ h[p] \in M
  BY <1>1 DEF Movement
<1>4. Carries(h, P, M, f, g)
  <2>1. M = {h[p] : p \in P}
    BY <1>1
  <2>2. \A p, q \in P : h[p] = h[q] => p = q
    BY <1>3
  <2>3. \A p \in P : f[p] \in Int /\ g[h[p]] = f[p]
    BY <1>2, <1>3 DEF Amounts
  <2> QED BY <2>1, <2>2, <2>3 DEF Carries
<1>5. SumFunctionOnSet(g, M) = SumFunctionOnSet(f, P)
  BY <1>4, SumMapped
<1> QED BY <1>2, <1>5

\* Nothing is paid before the end, and what is paid then adds up.
PrizeFits == (t.status # "completed" => PrizeCredits = {}) /\ PrizesAddUp
PrizeInv == PoolInv /\ PrizeFits

LEMMA PrizesKept ==
  ASSUME PrizeFits, PrizeCredits' = PrizeCredits, t'.status = "completed" <=> t.status = "completed",
         t.status = "completed" => t'.pool = t.pool
  PROVE  PrizeFits'
BY DEF PrizeFits, PrizesAddUp

LEMMA NoPrizes ==
  ASSUME NEW M, ledger' = ledger \cup M, \A e \in M : e.key # <<"prize">> PROVE PrizeCredits' = PrizeCredits
BY DEF PrizeCredits

LEMMA PrizesStep == ASSUME PrizeInv, MCNext PROVE PrizeFits'
<1>0. PoolInv /\ PrizeFits /\ OthersTyped
  BY DEF PrizeInv, PoolInv
<1>1. ASSUME NEW M, ledger' = ledger \cup M, \A e \in M : e.key # <<"prize">>, t' = t PROVE PrizeFits'
  <2>1. PrizeCredits' = PrizeCredits
    BY <1>1, NoPrizes
  <2> QED BY <1>0, <1>1, <2>1, PrizesKept
<1>2. ASSUME ledger' = ledger, t' = t PROVE PrizeFits'
  <2>1. PrizeCredits' = PrizeCredits
    BY <1>2 DEF PrizeCredits
  <2> QED BY <1>0, <1>2, <2>1, PrizesKept
<1>3. ASSUME NEW u \in Users, Enters(u), t' = t PROVE PrizeFits'
  <2>1. CASE JoinQueue(u) \/ Leave(u)
    BY <1>2, <1>3, <2>1 DEF JoinQueue, Leave
  <2>2. CASE CreateSingleMatch(u)
    <3>1. PICK M : M = {Movement(<<"stake", 0>>, u, -Stake)}
      OBVIOUS
    <3>2. \A e \in M : e.key = <<"stake", 0>>
      BY <3>1 DEF Movement
    <3>3. ledger' = ledger \cup M
      BY <2>2, <3>1, Zenon DEF CreateSingleMatch
    <3> QED BY <1>1, <1>3, <3>2, <3>3, Keys
  <2>3. CASE JoinPaired(u)
    <3>1. PICK w : ledger' = ledger \cup {Movement(<<"stake", 0>>, v, -Stake) : v \in {u, w}}
      BY <2>3 DEF JoinPaired
    <3>2. PICK M : M = {Movement(<<"stake", 0>>, v, -Stake) : v \in {u, w}}
      OBVIOUS
    <3>3. \A e \in M : e.key = <<"stake", 0>>
      BY <3>2 DEF Movement
    <3> QED BY <1>1, <1>3, <3>1, <3>2, <3>3, Keys
  <2> QED BY <1>3, <2>1, <2>2, <2>3 DEF Enters
<1>4. ASSUME NEW s \in Sessions, StepOf(s) PROVE PrizeFits'
  <2>1. ASSUME NEW u \in Users, Register(s, u) PROVE PrizeFits'
    <3>1. PICK M : M = {Movement(<<"entry">>, u, -EntryFee)}
      OBVIOUS
    <3>2. \A e \in M : e.key = <<"entry">>
      BY <3>1 DEF Movement
    <3>3. ledger' = ledger \cup M
      BY <2>1, <3>1, Zenon DEF Register
    <3>4. PrizeCredits' = PrizeCredits
      BY <3>2, <3>3, Keys, NoPrizes
    <3>5. t.status = "registering" /\ t' = [t EXCEPT !.players = Append(@, u), !.pool = @ + EntryFee]
      BY <2>1 DEF Register
    <3>6. t'.status = "registering"
      BY <1>0, <3>5 DEF OthersTyped, Tournaments
    <3> QED BY <1>0, <3>4, <3>5, <3>6, PrizesKept
  <2>2. ASSUME SetActive(s) PROVE PrizeFits'
    <3>1. ledger' = ledger /\ (t' = t \/ (t.status = "registering" /\ t' = [t EXCEPT !.status = "active"]))
      BY <2>2 DEF SetActive
    <3>2. PrizeCredits' = PrizeCredits
      BY <3>1 DEF PrizeCredits
    <3>3. CASE t.status = "registering" /\ t' = [t EXCEPT !.status = "active"]
      <4>1. t'.status = "active"
        BY <1>0, <3>3 DEF OthersTyped, Tournaments
      <4> QED BY <1>0, <3>2, <3>3, <4>1, PrizesKept
    <3> QED BY <1>2, <3>1, <3>3
  <2>3. ASSUME OnMatchCompleted(s) PROVE PrizeFits'
    <3>1. PICK row : row = match[call[s].m]
      OBVIOUS
    <3>2. ledger' = ledger /\ (t' = t \/ (t.status = "active" /\ t' = [t EXCEPT !.eliminated = @ \cup {LoserOf(row)}]))
      BY <2>3, <3>1 DEF OnMatchCompleted
    <3>3. PrizeCredits' = PrizeCredits
      BY <3>2 DEF PrizeCredits
    <3>4. CASE t.status = "active" /\ t' = [t EXCEPT !.eliminated = @ \cup {LoserOf(row)}]
      <4>1. PICK e : t' = [t EXCEPT !.eliminated = e]
        BY <3>4
      <4>2. t'.status = t.status
        BY <1>0, <4>1 DEF OthersTyped, Tournaments
      <4> QED BY <1>0, <3>3, <3>4, <4>2, PrizesKept
    <3> QED BY <1>2, <3>2, <3>4
  <2>4. ASSUME CompleteTournament(s), t' # t PROVE PrizeFits'
    <3>1. PICK c : c = call[s]
      OBVIOUS
    <3>2. PICK P : P = Prizes(c)
      OBVIOUS
    <3>3. PICK M : M = {Movement(<<"prize">>, p.user, p.amount) : p \in P}
      OBVIOUS
    <3>4. c.op = "pay" /\ t.status = "active" /\ \A p, q \in P : p.user = q.user => p = q
      BY <2>4, <3>1, <3>2 DEF CompleteTournament, MayPay
    <3>5. ledger' = ledger \cup M /\ t' = [t EXCEPT !.status = "completed", !.winner = c.winner]
      BY <2>4, <3>1, <3>2, <3>3, Zenon DEF CompleteTournament
    <3>6. c \in PayCalls
      BY <1>0, <3>1, <3>4, CallOf, CallIs
    <3>7. IsFiniteSet(P) /\ (\A p \in P : p.amount \in Nat)
          /\ SumFunctionOnSet(Amounts(P), P) = (t.pool * (100 - PrizeRakePct)) \div 100
      BY <1>0, <3>2, <3>6, PrizesSum
    <3>8. SumFunctionOnSet(Amounts(M), M) = SumFunctionOnSet(Amounts(P), P)
      BY <3>3, <3>4, <3>7, PrizesEntered
    <3>9. PrizeCredits' = M
      <4>1. PrizeCredits = {}
        BY <1>0, <3>4 DEF PrizeFits
      <4>2. \A e \in M : e.key = <<"prize">>
        BY <3>3 DEF Movement
      <4> QED BY <3>5, <4>1, <4>2 DEF PrizeCredits
    <3>10. t'.status = "completed" /\ t'.pool = t.pool
      BY <1>0, <3>5 DEF OthersTyped, Tournaments
    <3>11. SumFunctionOnSet([e \in PrizeCredits |-> e.amount], PrizeCredits)' = (t.pool * (100 - PrizeRakePct)) \div 100
      BY <3>7, <3>8, <3>9 DEF Amounts
    <3> QED BY <3>10, <3>11 DEF PrizeFits, PrizesAddUp
  <2>5. ASSUME CompleteTournament(s), t' = t PROVE ledger' = ledger
    <3>1. ASSUME NEW w, t.status = "active", t' = [t EXCEPT !.status = "completed", !.winner = w] PROVE FALSE
      <4>1. t'.status = "completed"
        BY <1>0, <3>1 DEF OthersTyped, Tournaments
      <4> QED BY <2>5, <3>1, <4>1
    <3> QED BY <2>5, <3>1, Zenon DEF CompleteTournament, MayPay
  <2>6. ASSUME AdminStart(s) \/ StartRead(s) \/ CreateSlot(s) \/ CreateNext(s) PROVE ledger' = ledger /\ t' = t
    BY <2>6 DEF AdminStart, StartRead, CreateSlot, CreateNext
  <2> QED BY <1>2, <1>4, <2>1, <2>2, <2>3, <2>4, <2>5, <2>6 DEF StepOf
<1>5. ASSUME NEW s \in Sessions, PlayOf(s), t' = t PROVE PrizeFits'
  <2>1. ASSUME NEW m, NEW winner, NEW settled, ledger' = PaidIfSettled(m, winner, settled) PROVE PrizeFits'
    <3>1. PICK M : M = IF Settles(m, winner, settled) THEN {Movement(<<"payout", m>>, match[m].seat[winner], Payout)} ELSE {}
      OBVIOUS
    <3>2. \A e \in M : e.key = <<"payout", m>>
      BY <3>1 DEF Movement
    <3>3. ledger' = ledger \cup M
      BY <2>1, <3>1, Zenon DEF PaidIfSettled
    <3> QED BY <1>1, <1>5, <3>2, <3>3, Keys
  <2>2. PICK c : c = call[s]
    OBVIOUS
  <2>3. CASE CommitShot(s)
    <3>1. c.op = "shot"
      BY <2>2, <2>3 DEF CommitShot
    <3>2. c \in ShotCalls /\ RowsTyped
      BY <1>0, <2>2, <3>1, CallOf, CallIs DEF PoolInv
    <3>3. \E game \in GameRecords : ledger' = PaidIfSettled(c.m, game.winner, c.settled)
      BY <2>2, <2>3, <3>2, ShotWrites
    <3> QED BY <2>1, <3>3
  <2>4. CASE HandleShotTimeout(s)
    <3>1. ledger' = PaidIfSettled(c.m, otherSeat(c.offender), c.settled) \/ ledger' = ledger
      BY <2>2, <2>4, TimeoutWrites
    <3> QED BY <1>2, <1>5, <2>1, <3>1
  <2>5. CASE ~CommitShot(s) /\ ~HandleShotTimeout(s)
    <3>1. ledger' = ledger
      BY <1>5, <2>5 DEF PlayOf, SubmitShot, TimeoutRead, ReadShot, BotTurn, Conflict, Die
    <3> QED BY <1>2, <1>5, <3>1
  <2> QED BY <2>3, <2>4, <2>5
<1>6. ASSUME NEW m \in Matches, Tick(m), t' = t PROVE PrizeFits'
  BY <1>2, <1>6 DEF Tick
<1> QED BY <1>3, <1>4, <1>5, <1>6, StepsAre

LEMMA PrizeInit == ASSUME MCInit PROVE PrizeFits
<1>1. \A e \in ledger : e.key = <<"entry">>
  BY DEF MCInit, Movement
<1>2. PrizeCredits = {}
  BY <1>1, Keys DEF PrizeCredits
<1>3. t.status = "registering"
  BY DEF MCInit
<1> QED BY <1>2, <1>3, SumEmpty DEF PrizeFits, PrizesAddUp

\* The prizes of a tournament add up to its pool after the rake, not a cent more nor less, once it is
\* completed, and are nothing before (completeTournament, computeTournamentPayouts), for every
\* size, entry fee, rake and weights, and whatever is completed twice.
THEOREM PrizesAreThePool == MCSpec => []PrizesAddUp
<1>1. MCInit => PrizeFits
  BY PrizeInit
<1>2. PoolInv /\ PrizeFits /\ [MCNext]_mcvars => PrizeFits'
  <2> SUFFICES ASSUME PoolInv, PrizeFits, [MCNext]_mcvars PROVE PrizeFits'
    OBVIOUS
  <2>1. CASE MCNext
    BY <2>1, PrizesStep DEF PrizeInv
  <2>2. CASE UNCHANGED mcvars
    <3>1. PrizeCredits' = PrizeCredits /\ t' = t
      BY <2>2 DEF mcvars, vars, PrizeCredits
    <3> QED BY <3>1, PrizesKept
  <2> QED BY <2>1, <2>2
<1>3. PrizeFits => PrizesAddUp
  BY DEF PrizeFits
<1> QED BY <1>1, <1>2, <1>3, PoolInvariance, PTL DEF MCSpec
=============================================================================
