------------------------------ MODULE MCWallet ------------------------------
(* Small instances of Wallet: the transactions the services run.           *)
EXTENDS Wallet

CONSTANTS player, agent, house,
  Mixes      \* names of the mixes of transactions to explore

VARIABLES mix, raced, skipped
mcvars == <<vars, mix, raced, skipped>>

Move(u, dir, entry, src, key, n, ref) ==
  [user |-> u, dir |-> dir, entry |-> entry, src |-> src, key |-> key, amount |-> n, ref |-> ref]
Ensure(u) == [ensure |-> u]
Single(r) == [main |-> <<r>>, alt |-> <<>>]

Topup    == Move(house, "credit", "deposit", "admin_topup", "t", 1, "-")
HouseOut == Move(house, "debit", "adjustment", "admin_to_agent", "x:debit", 1, "agent")
AgentIn  == Move(agent, "credit", "deposit", "admin_to_agent", "x:credit", 1, "house")
AgentPay == Move(agent, "debit", "adjustment", "agent_deposit_funding", "d:agent-debit", 1, "d")
MasterPay == Move(house, "debit", "adjustment", "master_wallet_funding", "d:master-debit", 1, "d")
Deposit  == Move(player, "credit", "deposit", "telebirr", "d", 1, "d")
MasterPay2 == Move(house, "debit", "adjustment", "master_wallet_funding", "e:master-debit", 1, "e")
Deposit2 == Move(player, "credit", "deposit", "telebirr", "e", 1, "e")
Gift     == Move(player, "credit", "deposit", "admin_grant", "g", 2, "-")
StakeA   == Move(player, "debit", "stake", "crash", "a", 1, "round")
StakeB   == Move(player, "debit", "stake", "crash", "b", 1, "round")
\* The same key for another amount: the hashes differ.
StakeA2  == Move(player, "debit", "stake", "crash", "a", 2, "round")
\* The stake's key and source type, the other direction.
ReuseA   == Move(player, "credit", "refund", "crash", "a", 1, "round")
HouseWin(k) == Move(house, "credit", "win", "pool", k, 1, "match")
AgentWin(k) == Move(agent, "credit", "win", "pool", k, 1, "match")

Named == [
  topup    |-> [main |-> <<Ensure(house), Topup>>, alt |-> <<>>],
  transfer |-> [main |-> <<Ensure(house), Ensure(agent), HouseOut, AgentIn>>, alt |-> <<>>],
  deposit  |-> [main |-> <<Ensure(agent), Ensure(player), AgentPay, Deposit>>,
                alt  |-> <<Ensure(house), Ensure(player), MasterPay, Deposit>>],
  \* No agent was matched, or an inactive one: the master wallet pays at once.
  unmatched |-> [main |-> <<Ensure(house), Ensure(player), MasterPay2, Deposit2>>, alt |-> <<>>],
  gift     |-> [main |-> <<Ensure(player), Gift>>, alt |-> <<>>],
  stakeA   |-> Single(StakeA),
  stakeB   |-> Single(StakeB),
  stakeA2  |-> Single(StakeA2),
  reuseA   |-> Single(ReuseA),
  payout   |-> [main |-> <<Ensure(house), Ensure(agent), HouseWin("w"), AgentWin("w")>>, alt |-> <<>>],
  payback  |-> [main |-> <<Ensure(house), Ensure(agent), AgentWin("v"), HouseWin("v")>>, alt |-> <<>>]]

\* The transactions that run together, how many of them, for how many days, and how often an
\* administrator edits the limits.
AllMixes == [
  transfers |-> [of |-> {"topup", "transfer", "deposit"}, txs |-> 5, days |-> 0, edits |-> 0],
  unmatched |-> [of |-> {"topup", "deposit", "unmatched"}, txs |-> 4, days |-> 0, edits |-> 0],
  payouts   |-> [of |-> {"topup", "payout", "payback", "transfer"}, txs |-> 3, days |-> 0, edits |-> 0],
  limits    |-> [of |-> {"gift", "stakeA", "stakeB"}, txs |-> 3, days |-> 2, edits |-> 0],
  reuse     |-> [of |-> {"gift", "stakeA", "stakeB", "stakeA2", "reuseA"}, txs |-> 3, days |-> 0, edits |-> 1]]

ScriptsOf(mixes) == {Named[n] : n \in UNION {AllMixes[m].of : m \in mixes}}
RequestsIn(mixes) == UNION {Range(sc.main) \cup Range(sc.alt) : sc \in ScriptsOf(mixes)} \ EnsureSteps
MCScripts == ScriptsOf(Mixes)
MCRequests == RequestsIn(Mixes)

\* `raced`: users with a stake accepted against another wager row than its
\* snapshot shows, or whose limits an administrator is changing or has changed.
StaleStake(s) ==
  /\ pc[s] = "apply" /\ pc'[s] = "complete" /\ Head(todo[s]).entry = "stake"
  /\ snap[s].wager[Head(todo[s]).user] # wagerRow[Head(todo[s]).user]
Edited(u) == edit'[u] # edit[u] \/ (upserts' # upserts /\ wager'[u] # wager[u])

\* `skipped`: the positions of a ledger whose movement save left out of the balance,
\* because the new balance is the one that the session's snapshot shows.
LeavesOut(s, u) ==
  /\ pc[s] = "apply" /\ pc'[s] = "complete" /\ Head(todo[s]).user = u
  /\ Balance(s, Head(todo[s])) = snap[s].avail[u]

\* Any instance with its history, and the behaviours of the mixes.
NotedInit == Init /\ raced = {} /\ skipped = [u \in Users |-> {}]
NotedNext ==
  /\ Next
  /\ raced' = raced \cup {u \in Users : Edited(u)}
                    \cup {Head(todo[s]).user : s \in {x \in Sessions : StaleStake(x)}}
  /\ skipped' = [u \in Users |-> {i \in DOMAIN row'[u].ledger :
       \/ i \in skipped[u]
       \/ i = Len(row'[u].ledger) /\ \E s \in Sessions : LeavesOut(s, u)}]
NotedSpec == NotedInit /\ [][NotedNext]_<<vars, raced, skipped>>

MCInit ==
  /\ NotedInit /\ mix \in Mixes
  /\ \A u \in Users : wager[u] # NoRow => u = player /\ mix \in {"limits", "reuse"}
MCNext ==
  /\ NotedNext
  /\ \A s \in Sessions : pc[s] = "idle" /\ pc'[s] # "idle" =>
       todo'[s] \in {Named[n].main : n \in AllMixes[mix].of}
  /\ begun' <= AllMixes[mix].txs /\ now' <= AllMixes[mix].days /\ upserts' <= AllMixes[mix].edits
  /\ UNCHANGED mix
MCSpec == MCInit /\ [][MCNext]_mcvars /\ \A s \in Sessions : WF_vars(Progress(s))

\* The mixes whose callers keep their keys to themselves.
ASSUME MixesAssumption == Tidy(RequestsIn(Mixes \ {"reuse"}), ScriptsOf(Mixes \ {"reuse"}))

\* One tick is a day: a stake opens a daily window to the next midnight and a
\* weekly one (two days long here) after it.
MCWindows == {"daily", "weekly"}
MCStakeSpan == [daily |-> 1, weekly |-> 3]
MCUpsertSpan == [daily |-> 1, weekly |-> 2]
MCLimits == {[daily |-> 1, weekly |-> 2]}

\* The balance that the first i entries of a ledger leave, but for those left out.
Left(w, i, out) ==
  IF i = 0 THEN 0
  ELSE IF i \in out THEN w.ledger[i].after - Inc(w.ledger[i].req) ELSE w.ledger[i].after

Explained(w, out) ==
  /\ \A i \in DOMAIN w.ledger :
       w.ledger[i].after = Left(w, i - 1, out) + Inc(w.ledger[i].req)
  /\ w.avail = Left(w, Len(w.ledger), out)

\* mutateWalletInSession: the balance is the running sum of the ledger, entry by entry,
\* however transactions interleave, abort or die, less exactly the movements that the
\* reload of save (wallet.service.ts 348) took for no change.
BalancesExplained == \A u \in Users : Explained(wallets[u], skipped[u])

\* What a ledger staked in the window that is open in a row of limits.
Staked(ledger, limits, w) == SumFunctionOnSet(
  [i \in DOMAIN ledger |->
     IF ledger[i].req.entry = "stake" /\ ledger[i].at >= limits.resetAt[w] - StakeSpan[w]
       THEN ledger[i].req.amount ELSE 0], DOMAIN ledger)

WithinLimit(u) == wager[u] # NoRow =>
  \A w \in Windows : wager[u].limit[w] > 0 =>
    Staked(wallets[u].ledger, wager[u], w) <= wager[u].limit[w]

\* enforceWagerLimit: no player stakes more in a window than its limit allows, across
\* resets, refusals, retries and crashes, unless a stake was accepted against a total
\* another stake had changed meanwhile, or an administrator changed the limits.
LimitHoldsUnlessRaced == \A u \in Users \ raced : WithinLimit(u)
=============================================================================
