---------------------------- MODULE MCCrashRound ----------------------------
(* Small instances of CrashRound, and what holds unless calls overlap.     *)
EXTENDS CrashRound

CONSTANTS Casts             \* which users, sessions and rounds take part in a behaviour

VARIABLES
  cast,     \* the members of one of Casts
  late,     \* bets a settlement or a refund wrote to after they had changed
  missed    \* rounds that a booting process abandoned after they had changed
mcvars == <<vars, cast, late, missed>>

Committed(s) == <<round, bet, credit>>' # <<round, bet, credit>> /\ call[s] # Idle /\ call'[s] = Idle
LateBets(s) == IF call[s].op \in {"settle", "abandon"} /\ Committed(s)
  THEN {b \in call[s].active : bet[b].status # "active"} ELSE {}
Abandoned(s) == call[s].op = "abandon" /\ Committed(s)
MissedRounds(s) == {r \in Rounds : Abandoned(s) /\ r = call[s].r /\
  (round[r] # call[s].row \/ With(BetsOf(r), "active") \ call[s].active # {})}

\* Only members of the cast act.  A cast with two schedulers has all the rounds, so
\* it disables no step that a fairness condition of Spec asks for.
InCast ==
  /\ \A s \in Sessions \ cast : call'[s] = Idle
  /\ \A b \in Bets : b[2] \notin cast => bet'[b] = NoBet
  /\ \A s \in Sessions : call'[s].op = "create" => \E r \in Rounds \cap cast : round[r] = NoRound

MCInit == Init /\ cast \in Casts /\ late = {} /\ missed = {}
MCNext ==
  /\ Next /\ InCast /\ UNCHANGED cast
  /\ late' = late \cup UNION {LateBets(s) : s \in Sessions}
  /\ missed' = missed \cup UNION {MissedRounds(s) : s \in Sessions}
MCSpec ==
  /\ MCInit /\ [][MCNext]_mcvars
  /\ WF_vars(Tick) /\ WF_vars(Schedule) /\ \A s \in Sessions : WF_vars(Finish(s))

\* cashOut, settleRound, abandonStaleRounds: what a bet was credited is what its row says,
\* a cash-out was paid below the crash point its round had, and the summary of a round adds
\* up to its bets, unless a settlement or a refund wrote to one of them after it had changed.
BelowItsPoint(b) == credit[b].win > 0 /\ RoundOf(b) \notin missed => bet[b].at < round[RoundOf(b)].point
BetsMatchCredits ==
  /\ \A b \in Bets \ late : Matches(b) /\ BelowItsPoint(b)
  /\ \A r \in Rounds \ missed : BetsOf(r) \cap late = {} => Summed(r)

\* Every bet is settled in the end, while processes keep ticking.
BetsEnd == \A b \in Bets : bet[b].status = "active" ~> bet[b].status # "active" \/ RoundOf(b) \in missed
=============================================================================
