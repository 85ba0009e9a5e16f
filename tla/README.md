# iGames: a TLA+ verification project

iGames is a NestJS backend (TypeORM on MySQL/InnoDB, Redis, Socket.IO) for
real-money rooms of bingo, keno, crash, pool and werk, with wallets, agents who
take deposits and pay withdrawals, bots, and an administration API. This
directory models its core logic in TLA+, checks small instances with TLC, and
proves what matters most for every instance with TLAPS. Source paths below are
relative to `src/src/`.

## 1. Inventory

How the parts interact: HTTP and socket handlers call the services; every money
movement goes through `WalletService.debitInSession` / `creditInSession` inside
the caller's database transaction; the schedulers (crash tick, keno cron, bingo
loop, pool loop, werk tick, reaper, reconciliation, broadcast) call the same
services from every process, kept apart only by Redis locks; the services emit
socket events through the gateway. Shared state is the database; the only
in-memory state that matters is the werk round, the crash tick, the ids of
broadcasts to stop, and the lock client's fallback.

| Component | State | Operations | What is hard | What makes it correct |
|---|---|---|---|---|
| Wallet mutations, ledger (`wallet`, `ledger`) | wallets, ledger_entries, idempotency_records, wager_limits, platform_stats | debit, credit, transfers, deposit funding, wager limits | snapshot reads next to locking reads, unique keys met by concurrent inserts, lock waits and deadlocks, a caught exception inside a transaction | a transaction's movements are all on the ledger once or not at all; balances are explained by the ledger; limits hold |
| Withdrawals (`wallet`) | withdrawals, reservedMinor | request, approve, reject, claim, release, agent proof, verify, complete | status read before the wallet lock; several reviewers | a reservation is settled exactly once: paid or given back |
| Crash (`crash`, `scheduler/crash`) | crash_rounds, crash_bets | bet, cash out, tick, auto cash-out, settle, abandon | cash-outs race the crash instant, fire-and-forget calls, tick lock expiry | a bet is paid at most once and ends won or lost as it was paid |
| Keno (`keno`, `scheduler/keno`) | keno_draws, keno_tickets | purchase, change numbers, schedule, execute, cancel, settle | purchase, execute and cancel of one draw overlap | every ticket is settled exactly once: win, loss or refund |
| Bingo (`bingo`, `scheduler/bingo`) | bingo_rooms, cards, tickets, places; bingo_config, custom slots | create, buy, release, start, draw, claim, derash settlement, cancel; collapse, start and create rooms at every tick | row lock of the room against reads made before it; prize pool re-split at the end; refunds after partial payouts; rooms that are listed first and cancelled or created later, by ticks, boots and saved configurations at once | cards sold once; payouts and refunds stay within the stakes; one shared room, a room for whoever is to have one, no game collapsed without need |
| Pool (`pool`) | matches, queue, tournaments | join, shot, timeout, settle, bracket | compare-and-set on the shot count only; bracket step after commit | one winner is paid once; a bracket finishes |
| Werk (`werk`) | rounds, participants, in-memory live round | lobby, join, leave, start, tick, settle, cancel | leadership lease that expires under the leader | stakes are paid out or refunded once |
| Locks and schedulers (`redis`, `scheduler`) | redis keys, per-process fallback | acquire, release, renew | expiry while the holder works, fallback per process | what is still exclusive when a lock is not |
| Deposits (`payments`) | deposits, wallets | preview, submit receipt, submit SMS, fund | one receipt previewed and submitted by several at once across remote lookups, funding fallback | one receipt, one credit, one funding |
| Users (`users`, `locations`) | users | profile, status, duty, attribution, location | rows that are read, awaited upon and saved whole | an attribution is never reassigned, one agent is pinned on duty |
| Agents (`agents`) | settlements, action log | complete withdrawal, settlements | eligibility checked outside the transaction | a commission is paid once |
| Support (`support`) | conversations, tickets, refund requests | claim, approve, reject | wallet credit and request status saved apart | a request ends as it was paid |
| Broadcast (`broadcast`) | broadcasts, deliveries | create, send, cancel, claim, dispatch, recover | claim, cancel and recovery race | a broadcast is delivered once |
| Auth (`auth`) | refresh sessions | login, refresh, logout | refresh rotation read unlocked | a token is used once |
| Reconciliation (`scheduler/reconciliation`) | reads wallets and ledger | compare, suspend | two reads at different instants | only real anomalies suspend |
| Bots, admin, telegram, notifications, presence, locations, games, rng, events, health, config, common, front ends | rows, sockets | CRUD, messages, randomness | mostly I/O | not modelled, see section 6 |

## 2. Plan

The order followed the money: first the transaction every game uses, then the
games by the weight of their concurrency, then the back-office flows.

| Part | Modules | Composed with | Abstract specification | Theorems |
|---|---|---|---|---|
| Wallet | `Wallet` | | `MoneyMoves` | `TypeCorrect`, `AppendOnly`, `BalancesAreExplained`, `RecordsAreKept`, `StatisticsAddUp`, `LimitsHold`, `ImplementsMoves` |
| Withdrawals | `Withdrawals` | `MCBackOffice` | | `CustodyIsOnce`, `WalletsAreExplained`, `PayoutsAreReserved` |
| Crash | `CrashRound` | | | `SettledRoundsStayClosed`, `CreditsMatchBets` |
| Keno | `KenoDraw` | | | `CreditsMatchTickets`, `SummariesMatchTickets` |
| Bingo | `BingoSettlement` (one settlement), `BingoRoom` (the calls around it), `BingoLobby` (which rooms there are) | `BingoRoom` extends the first; `MCBingoLobby` puts the lobby beside it | | `NotedInvHolds`, `CreditsAreMatched`, `PlacesAreApart`, `SalesAreMatched`, `EndedRoomsAreFinal`, `PoolIsShared`, `NoGameIsKilled` |
| Pool | `PoolRules`, `PoolMatch`, `PoolTournament` | each extends the one before | | `DuelIsPaid`, `BracketIsFollowed`, `PrizesAreThePool`, from `PoolInvariance` |
| Werk | `WerkRules`, `WerkRound` | the round applies the rules and holds the lock of Redis | | `NobodyPaidTwice`, `EverybodyIsDone`, `ControlIsHeld` |
| Back office | `AgentSettlement`, `SupportRequest`, `Broadcast`, `Accounts`, `Deposits` | `Deposits` extends `Accounts`; `MCBackOffice` instantiates them beside `Withdrawals` | | `OneRefundIsPaid`, `OneSendAtOnce`, `ReceiptsArePaidOnce`, `AttributionsAreKept`, `EarningsAreClaimedOnce` |

Section 5 has what is proved and what is not. A
component has one passing run for its safety and, where liveness needs a smaller instance, one for its liveness; the runs that
show a violation are those of the three contradictions of a comment that cost money; the observations of section 5
have the others.

## 3. Modules and their correspondence to the code

**Transactions.** The transactions run under REPEATABLE READ, MySQL's
default, which no configuration changes: a plain `find` sees the snapshot of the transaction's first read,
`SELECT ... FOR UPDATE` and every write see the newest row. Three rules follow and
are used in every module:

- a transaction that decides on plain reads is two steps, a *read* that keeps
  what it saw in the session and a *commit* that writes;
- one that locks the row it decides on before it reads anything else is one step;
- `repository.save(entity)` reloads the row by a plain read and writes only the
  columns that differ from it. In `Wallet` and `Withdrawals` this is the operator
  `Saved`; in `BingoRoom` it is `EditSave` and `SoldSaved`; elsewhere a late write changes only the fields it sets, or, where
  an entity was read and is saved whole, all of them.

Redis locks are not relied upon, but in `WerkRound`: while Redis is not ready each
process has a lock table of its own, and a lease ends under a slow holder
(`redis/redis-lock.service.ts` 33-53), so the calls of several processes overlap.

**`Wallet`** is `wallet/wallet.service.ts` 273-520, `mutateWalletInSession` with
`enforceWagerLimit`, `ensureDefaultWallet`, `upsertWagerLimit` and
`deleteWagerLimit`, the ledger and the idempotency service, the platform
statistics, and the deposit fallback of `payments/payments.service.ts`. A session is one database transaction that runs a
*script*: a list of movements, and a second list for the fallback that a deposit
takes inside the same transaction when the agent cannot pay; a deposit that matched no agent, or an inactive one, has
the movement of the master wallet alone. Each movement is
five steps, in the code's order: `FindRecord`, `InsertRecord`, `LockWallet`,
`ApplyMutation`, `Complete`; then `Commit`. `wallets`, `wager` and `stats` are the
committed rows, `row`, `wagerRow` and `statsRow` the newest ones, which only the
lock holder may have changed. `Crash` and `LockWaitAbort` roll back. Time is a
counter of days for the two limit windows.

**`MoneyMoves`** is what a caller sees of it: ledgers to which whole transactions
are appended, each movement at most once. `Wallet` maps its committed ledgers
to it (`Ledgers`, `Abstract`).

**`Withdrawals`** has every endpoint of the withdrawal workflow, players, agents and
admins, as a first half (reads and checks) and a second half (wallet lock,
reservation check, writes); `End` drops a call between the halves, which stands
for the failed check, the abort and the crash alike. `wd` is the table, `wallet`
the two balances, `ledger` a bag of the entries.

**`CrashRound`** is `crash/crash.service.ts` and `scheduler/crash.scheduler.ts`: the
steps of a tick (create, start, settle), bets, cash-outs asked for and automatic,
and `abandonStaleRounds` of a booting process. `round` and `bet` are the tables, `credit`
what a bet's wallet movements added up to. The settlement locks the round
(`Unlocked`) and reads the bets without a lock; the cash-out does the opposite.
Multipliers are whole numbers that grow by one per unit of age.

**`KenoDraw`** is `keno/keno.service.ts`: scheduling, purchases, changed numbers,
execution with the winner cap and the next draw, cancellation by administrators
and the reaper. Numbers are abstracted to picks and outcomes with a relation `Hits`; what a
ticket wins is one `Prize`.

**`BingoSettlement`** is what `bingo/bingo.service.ts` computes in a transaction
that holds the lock of the room's row (`drawNextNumber`, `claimBingo`,
`cancelRoom` and what they call): every operator takes the rows `g` and gives the
rows it leaves, or the set of them where the code shuffles. It has the four
modes, the places with their weights, the redirection of a place to a bot in
its modes (`guaranteed` and `hybrid` do the same here), deferred disqualification, the final split of the pool
(`ReconcilePool`), the losers and the refunds. A card that has a place is refused any other
(`Awardable`, 3296). A card is
the draw at which it completes each place (`deal`), which fixes what the balls
and the patterns decide.

**`BingoRoom`** is the calls around it: purchase with its snapshot, release, auto-claim, the
draw of the scheduler and the start that comes due (`scheduler/bingo.scheduler.ts`),
claims, cancellation by the administration and the reaper, stale edits of the
row, changes of the configuration, the commissions of agents after the commit.
Every transaction that locks the room first is one step; what a call reads before
is a step of its own.

**`BingoLobby`** is the tick of `scheduler/bingo.scheduler.ts` with what it calls of
`bingo/bingo.service.ts` to collapse (`reconcileActiveRooms`, the duplicates of
`ensureAgentRooms` and `ensureCustomRoomSlots`), start, draw and create rooms. A *job*
is a tick, a boot or a saved configuration: it holds the configuration and the
switches it read, what part it is at, and the rooms or owners it has yet to do;
every list is one step and each room on it another. A room is who it is for,
whether it fits the configuration, whether it sold, and how near its start is;
what is played in it is `BingoRoom`. The lock of a tick may lapse, boots and saved
configurations do not take it.

**`PoolRules`** is `pool/rules/rules.ts`, `resolveShot` and its helpers, over any set
of object balls; the physics (`pool/engine`) is any result a board allows.
**`PoolMatch`** is `pool/pool-match.service.ts` with the queue
(`pool-matchmaking.service.ts`) and the shot clock (`pool-scheduler.service.ts`): a
shot is a check on one read, a second read and a compare-and-set on the shot
count; a time-out compares more columns; the settlement is part of the commit that
ends the match. **`PoolTournament`** is `pool-tournament.service.ts`: registration,
start, the first round, the advance of the bracket and the prizes, where the
steps that no transaction joins are steps of their own, between which a process
may die (`Crash`).

**`WerkRules`** is `werk/round/win-control.ts` and the prize: what the house and the
onboarding rules make of the coins, the ranking and the paying ranks.
**`WerkRound`** is `werk/round/werk-round-manager.service.ts` under
`scheduler/werk.scheduler.ts`: `live[p]` is the round in the memory of process `p`,
`round`, `part` and `ledger` are rows, `op` and `call` what a process or a request
goes on with after an `await`. Leases, an outage of Redis, a settlement that
rolls back and a process that dies are the faults.

**`AgentSettlement`** is `requestSettlement`, `createSettlement` and
`updateSettlement` of `agents/agents.service.ts`. A request is three steps: the
eligibility, the period with what it earned, the row. Time counts half
seconds, since ledger entries keep fractions and the columns of a period do not.
**`SupportRequest`** is `approveRefundRequest` and `rejectRequest` of
`support/support.service.ts`: the read, the credit of the master wallet in its own
transaction, the save. **`Broadcast`** is `broadcast/broadcast.service.ts`: claims
are updates guarded by the status, every other write saves a row read earlier,
and the ids to stop are in the memory of one instance (`cancelling`).

**`Accounts`** is the rows of `users/entities/user.entity.ts` and who writes them. An
*errand* is a call that has read a row and will save it whole, pin an agent, or
attribute a player; `Other` is an edit of a column that is left out, such as the name or
the location, and what makes it matter is the rest of the row that goes back with it.
**`Deposits`** is the two submissions of `payments/payments.service.ts` and their
previews. A *lookup* goes through the steps of `telebirr-receipt-verifier.service.ts` or
`mpesa-receipt-verifier.service.ts`: the row of the receipt, the remote service, the
judgement on age and agent, the portal, and either the rejected row or the transaction. A
receipt is well formed and names one agent (`Payee`); what can be wrong with it is
its age, its agent and the portal. The funding is in `Wallet`.

**MC modules.** A behaviour is limited to a *mix* of transactions (`MCWallet`), a
*cast* of users, sessions and rounds (`MCCrashRound`, `MCKenoDraw`,
`MCBingoRoom`, the *hall* of `MCBingoLobby`) or a *setup* (`MCPool`, `MCWerk`, `MCBackOffice`) chosen in the
initial state, so that one run covers several small interactions instead of
their product. History variables name what an unlocked read made possible:

| Variable | What it holds |
|---|---|
| `raced` | players with a stake checked against an old total, or whose limits an administrator is changing or has changed |
| `skipped` (wallets) | per player, the ledger entries whose balance `save` took for no change |
| `stale`, `skipped` (withdrawals) | withdrawals written after their row had changed, players of whom `save` left out a column |
| `late`, `missed` | bets or tickets written after they had changed, rounds abandoned after they had |
| `orphans`, `redone` | tickets sold past the read of the call that closed their draw, draws closed twice |
| `undone`, `drifted`, `used` | an edit saved back an old room, a purchase counted in an old snapshot, the configurations a settlement computed with |
| `overwritten` | matches on which a shot was written after their end |
| `shared`, `disturbed` | rounds two processes held at once, rounds a request was committed on after their lobby |
| `excused` (lobby) | games that started after the job that collapses them had looked, or were not the only ones it saw |
| `excused` (settlements) | earnings committed behind a period, in a cut fraction of a second, or touched by hand |
| `first`, `overwritten` (users) | the first agent a player was attributed to, users whose row was saved over a later change |
| `overtaken` | the row of a broadcast was saved or deleted over a change, or recovered under a living dispatch |

The properties hold for everything outside these sets, and say nothing of what happens inside them: a stake
that passes the limit by a race, a draw closed twice, a sale past the cap or a round two processes
lead are what the code does, not what a run refutes. Section 5 lists them, under the findings
and the observations.

## 4. Runs

Every action and every disjunct of a next-state relation fires in some passing
run. Runs that may end quietly (all calls made, all rounds used) say
`CHECK_DEADLOCK FALSE`; that something is stuck is what the liveness properties
check.

| Run | Checks | What it shows |
|---|---|---|
| `wallet_moves` | `TypeOK`, `BalancesExplained`, `LedgerAppendOnly`, `RecordsMatchLedger`, `StatsMatchLedger`, `LimitHoldsUnlessRaced`, `ImplementsMoneyMoves`, `TransactionsEnd` | Transfers, deposits with their fallback or without an agent, payouts that lock wallets in opposite orders, stakes under limits over several days, and keys that are reused with another amount or direction while an administrator edits the limits, with crashes and retries: each transaction is on the ledger whole or not at all and once, balances are the running sums of an append-only ledger, less exactly the movements that the reload of `save` took for no change, the statistics add up, every transaction ends, and all of it implements `MoneyMoves`. |
| `crash_rounds` | `BetsMatchCredits`, `SettledRoundsClosed`, `BetsEnd` | Two players, two booting processes, or two schedulers with two rounds: bets end as they were paid, below the crash point, rounds as their bets, every bet ends. |
| `crash_paid_and_lost` | `PaidBetsNotLost` (violated) | Finding 1. |
| `keno_draws` | `TicketsMatchCredits`, `DrawsMatchTickets`, `TicketsEnd` | Sales, edits, executions and cancellations that overlap on two draws: tickets end as they were credited and drawn, none stays pending, no more win than the cap, except behind the back of an unlocked read. |
| `bingo_rooms` | `TicketsMatchCredits`, `PoolSharedUnlessChanged`, `SalesMatch`, `OneWinnerEach`, `OverIsFinal` | Sales, draws, claims, redirections to bots, cancellations, edits and changes of the configuration in the four modes: tickets end as they were credited, the pool of a completed room is shared out to the last unit, a place goes to one card at most, whoever is paid for a place has it, no bot has two, cards are sold once, nothing moves after the end. |
| `bingo_ends` | `CommissionsPaid`, `TicketsEnd`, `SharedRoomAlone`, `RoomsReopen`, `GamesNotKilled` | While a scheduler ticks, every ticket is settled and every agent of a completed room gets the commission once, unless a process dies in between. Of the lobby: after the last change and the last death one shared room stays, which fits the configuration; the house, an active agent and an active slot get a room again; a game is collapsed only if it does not fit, started after the list was read, or is not the only one. |
| `pool_play` | `WinnerPaid`, `PrizesAddUp`, `BracketFollows` | A duel with double submits and time-outs; a bracket with two starts and two ends at once: the winner is paid once, the prizes are the pool after the rake, the bracket is the one the results make. |
| `pool_ends` | `PlayEnds` | A bracket that two schedulers drive, with time-outs that pass the turn before they forfeit, and both semi-finals ending at once: left to the clock, while a process may die and a second start races the first; and played, with double submits on the final. Matches end, and the tournament by its final. |
| `pool_paid_twice` | `PaidOnce` (violated) | Finding 2. |
| `werk_rounds` | `PaidOrRefunded`, `NobodyForgotten`, `ControlHolds`, `StakesEnd` | Rounds driven by two processes whose leases lapse, with joins and leaves across the start, settlements that roll back and crashes; and 34,992 score sheets of a game shaped by the win control, in both modes: a promised winner with a coin ranks above every bot, unless a mode that wants the centre reached puts him out of the game. |
| `back_office` | `WalletExplained`, `CustodyOnce`, `PaidFromReserve`, `EarningsClaimedOnce`, `ApprovedPaid`, `OneSendAtATime`, `ReceiptsPaidOnce`, `AttributionsKept` | Two calls at a time in each of six setups. Nobody is credited twice for one part of a withdrawal whatever overlaps, and what is refunded, paid out and still reserved for a player never exceeds what his requests held; balances are right wherever no late write happened; earnings are in one settlement; a refund is paid once; two sends of one broadcast never run at once; a receipt is credited once, to the player of its row, and never after its rejection; a player stays with the first agent and one agent is pinned on duty, wherever no stale row was saved. |
| `withdrawals_one_proof` | `ProofsUnique` (violated) | Finding 3. |

### Bounds, and why they are enough

- *Two sessions at a time.* Every hazard listed is between two transactions; in
  `CrashRound`, `KenoDraw`, `BingoRoom` and `PoolMatch` a cast has three or four
  sessions, so that a third call may fall between the halves of the other two.
- `Wallet`: `MaxTx` (3 to 5) transactions in a behaviour. A transfer needs
  top-up, two attempts and a crash; a limit race needs a gift and two stakes. `MaxNow` (2) days cross a daily reset and, with a weekly
  window of two days, a weekly one; only the stakes under limits see days pass. `MaxUpserts` (1) bounds the edits of limits, which are in the mix of reused keys.
  Amounts are 1 and 2, limits 1 a day and 2 a week, so that a limit is met
  exactly and passed by one.
- `Withdrawals`: `MaxCalls` (6) calls take one request through reservation,
  claim, proof, settlement and two calls that overlap. Two requests of equal amount are what
  lets the reservation of one cover the second settlement of the other. One
  reference for two withdrawals is enough to collide; two agents, one fee.
- `CrashRound`: `MaxAge` (3) is past both stale ages, so a round can be left by a
  dead scheduler; crash points 1 (an instant crash) and 2; automatic cash-out at
  none or 1. `MaxCrashes` is one dead call.
- `KenoDraw`: two draws (one to be executed and the next one it opens), two
  tickets with one winner at most, so that the cap leaves a hit without a prize.
- `BingoRoom`: three tickets on two cards, two places, three balls: one card
  completes both places with one draw, the other the second place with the last
  ball. Two humans and a bot; the casts are sales that compete, a
  cancellation, a release, two clients, a crash, each redirection to bots, each mode.
  `MaxCrashes` is one.
- `BingoLobby`: three rooms and two owners, so that two rooms of one owner exist beside
  another's; two configurations, `RoomBalls` 2 balls, `MaxChanges` one change by the
  administration or two, `MaxFaults` one death or lapse.
- `PoolMatch`: a solid, a stripe and the 8; a duel of `MaxShots` 3, which is an
  open break, a shot with groups and one on the 8; in the bracket of four the final has one
  shot and the others are decided by the clock. `TimeoutLimit` 1 makes the first time-out a
  forfeit; in `pool_ends` it is 2, so that every match may see the turn pass twice, with two
  schedulers, so that two calls end the semi-finals together. There the deaths (one) and the second
  start are in the bracket nobody shoots in, the shots in one where nobody dies: together the graph is
  too large for liveness. `pool_play` has one scheduler; `BracketIsFollowed` proves its
  property for any number. The code's cap on the shots the bot takes in one call (40) is above `MaxShots`.
- `WerkRound`: two users in one round with `MaxFaults` 2 (a lapse and a
  crash, two failed settlements), two rounds with one user in both, or one call
  with leases that lapse; `MaxCalls` 2 is a join and a leave. The score sheets
  have two humans, two bots and two paying ranks, so that each can be in and
  out of them.
- `AgentSettlement`: `MaxTime` 3 half seconds and two settlements: one cut
  fraction, one period after a rejected one. `SupportRequest`: two deciders and
  two amounts. `Broadcast`: `MaxSends` 3, a send, one of a second instance and one
  after recovery; `MaxAdminCalls` 2; `MaxCrashes` 1.
- `Deposits`: two players, a receipt of each provider, each paid to another agent; `MaxLookups` 2,
  which are two that compete for one receipt or two deposits of one player, beside one errand.
  `Accounts`: `MaxErrands` 3, a late save over two others.

The casts trade the product of all roles for pairs and triples of them. What they
leave out: three cash-outs of one bet, three executions of one draw, three
processes that lead.

### Fairness

- `Wallet`: `WF_vars(Progress(s))`. A transaction that was started goes on, since
  its awaits resolve, or InnoDB ends its wait (`LockWaitAbort` stands for the
  deadlock detector and `innodb_lock_wait_timeout`). Beginning one is not fair.
- `CrashRound`: the clock, the interval of a live scheduler (`Schedule`) and the
  commit of a call that was begun. Automatic cash-outs are not fair: the tick does
  not wait for them. Booting is not fair.
- `KenoDraw`: the commit of a call, and for each draw the reaper, whose loop
  (`scheduler/reaper.scheduler.ts`) visits every draw that stays open and cancels
  it; a thrown error skips one draw, not the others. The keno cron is not fair,
  since it does nothing while the game is paused.
- `BingoRoom`: the ticks of the scheduler, the start that comes due and the commit
  of a call that was begun; players, administrators and deaths are not fair.
- `BingoLobby`: ticks of the processes that live, the answers a job waits for, the end of
  a dead holder's lease, the clock and the reaper. Faults and changes are bounded, since nothing
  can settle while the administration goes on changing it.
- `PoolMatch`, `PoolTournament`: the answers of a call that was begun, and strong
  fairness for the reads of the shot clock, because the scheduler loops over all
  the matches that timed out, every five seconds.
- `WerkRound`: the tick of each process every second and the answers of requests
  that were begun. Crashes, lapses and joins are not fair.
- The back office has no liveness property: its steps wait for a person.

## 5. Proofs

`TLAPS` proves the following for all values of the constants that satisfy the
modules' assumptions.

| Module | Theorem | Statement | Assumes |
|---|---|---|---|
| `WalletProofs` | `TypeCorrect` | `Spec => []TypeOK` | `WalletAssumption` |
| `WalletProofs` | `AppendOnly` | `Spec => LedgerAppendOnly` | `WalletAssumption` |
| `WalletProofs` | `BalancesAreExplained` | `NotedSpec => []BalancesExplained` | `WalletAssumption` |
| `WalletProofs` | `RecordsAreKept` | `Spec => []RecordsMatchLedger` | `WalletAssumption` |
| `WalletProofs` | `StatisticsAddUp` | `Spec => []StatsMatchLedger` | and `UsersAssumption` |
| `WalletProofs` | `LimitsHold` | `NotedSpec => []LimitHoldsUnlessRaced` | `WalletAssumption` |
| `WalletProofs` | `ImplementsMoves` | `Spec => ImplementsMoneyMoves` | `WalletAssumption`, `UsersAssumption` and the hypothesis `TidyScripts` |
| `BackOfficeProofs` | `CustodyIsOnce` | `OfficeSpec => []CustodyOnce` | none |
| `BackOfficeProofs` | `WalletsAreExplained` | `OfficeSpec => []WalletExplained` | `WithdrawalsAssumption` |
| `BackOfficeProofs` | `PayoutsAreReserved` | `OfficeSpec => []PaidFromReserve` | `WithdrawalsAssumption` |
| `BackOfficeProofs` | `EarningsAreClaimedOnce` | `OfficeSpec => []EarningsClaimedOnce` | `OfficeAssumption`, `NoneAssumption` |
| `BackOfficeProofs` | `OneRefundIsPaid` | `OfficeSpec => []ApprovedPaid` | none |
| `BackOfficeProofs` | `OneSendAtOnce` | `OfficeSpec => []OneSendAtATime` | none |
| `BackOfficeProofs` | `ReceiptsArePaidOnce` | `OfficeSpec => []ReceiptsPaidOnce` | none |
| `BackOfficeProofs` | `AttributionsAreKept` | `OfficeSpec => []AttributionsKept` | none |
| `BingoProofs` | `NotedInvHolds` | `NotedSpec => []NotedInv` | `SettlementAssumption`, `BingoAssumption` |
| `BingoProofs` | `CreditsAreMatched` | `NotedSpec => []TicketsMatchCredits` | the same |
| `BingoProofs` | `PlacesAreApart` | `NotedSpec => []OneWinnerEach` | the same |
| `BingoProofs` | `SalesAreMatched` | `NotedSpec => []SalesMatch` | the same |
| `BingoProofs` | `EndedRoomsAreFinal` | `NotedSpec => OverIsFinal` | the same |
| `BingoProofs` | `NoGameIsKilled` | `NotedLobby => GamesNotKilled` | none |
| `CrashProofs` | `SettledRoundsStayClosed` | `Spec => []SettledRoundsClosed` | none |
| `CrashProofs` | `CreditsMatchBets` | `MCSpec => []BetsMatchCredits` | `CrashAssumption` |
| `KenoProofs` | `CreditsMatchTickets` | `MCSpec => []TicketsMatchCredits` | `KenoAssumption` |
| `KenoProofs` | `SummariesMatchTickets` | `MCSpec => []DrawsMatchTickets` | `KenoAssumption` |
| `PoolProofs` | `PoolInvariance` | `MCSpec => []PoolInv` | the assumptions of the pool modules |
| `PoolProofs` | `DuelIsPaid` | `MCSpec => []WinnerPaid` | the same |
| `PoolProofs` | `BracketIsFollowed` | `MCSpec => []BracketFollows` | the same |
| `PoolProofs` | `PrizesAreThePool` | `MCSpec => []PrizesAddUp` | the same |
| `WerkProofs` | `NobodyPaidTwice` | `MCSpec => []PaidOrRefunded` | `WerkAssumption`, `NoneAssumption` |
| `WerkProofs` | `EverybodyIsDone` | `MCSpec => []NobodyForgotten` | the same |
| `WerkProofs` | `WinnersLead` | a promised winner who has a coin and is eligible ranks above every bot | `Players` of a score sheet |
| `WerkProofs` | `LosersWinNothing` | without a promised win, no loser has a prize | `Players`, as many bots as ranks that pay, no loser with every coin |
| `WerkProofs` | `ControlIsHeld` | `MCSpec => []ControlHolds` | none |

The assumptions say what the constants are: sets of draws, rounds and brackets are numbers,
amounts are natural and stakes positive, the tables that are summed over are
finite (`UsersAssumption`, `KenoAssumption`, `WerkAssumption`, `WithdrawalsAssumption`, `SettlementAssumption`), the values that stand for
nothing (`None`, `Nobody`, `NoSession`) are not among the others. Those of the pool are the
code's: a bracket of an even `Size` has the matches `1..Size - 1`, seed orders and entrants
name nobody twice, three weights share the prizes out. The instances of the runs satisfy
them all, since TLC evaluates them. A theorem speaks of any mix, cast or setup: `MCSpec`
of `CrashProofs`, `KenoProofs`, `PoolProofs` and `WerkProofs` and `OfficeSpec` have those as
constants without an assumption, and `NotedSpec` is `Next` of `Wallet` or of `BingoRoom` with
its history variables, of which every behaviour of a mix or a cast is one; `NotedLobby` is `BingoLobby` with
`excused`, of which every behaviour of a hall is one.

**`TypeCorrect`.** `TypeOK` says of a session's next step only that it is a step.
`ApplyMutation` and its neighbours take the head of `todo` for a request, so the
invariant adds `HeadOK`: a session past `step` has a request at the head. That
balances stay natural numbers is part of the type: a debit below the balance is
refused under the row lock.

**`AppendOnly`.** A commit publishes `row`, so the property rests on `LedgerInv`:
the committed ledger of a user is a prefix of the newest one, a wallet that does
not exist has no entries, and a session that applies a movement holds the lock
of an open wallet. Only `ApplyMutation` changes `row` by an entry, `Rollback` restores
`wallets`.

**`BalancesAreExplained`.** Both versions of every wallet are explained by their
ledgers and the entries that are `skipped`; the only step that writes a balance appends an entry. Either
`save` writes the locked balance and the entry's amount is in it, or the computed balance equals the one
of the snapshot, the column is left out, and the entry is `skipped` in the same step. A
rollback takes both back, a commit publishes both. So the statement says of every instance how far
the balance of a wallet can be from its ledger: by the skipped entries and nothing else.

**`SettledRoundsStayClosed`.** That no bet is active in a round with a summary is
not inductive: between its read and its commit a settlement must still cover
every active bet. `CrashInv` says so (`SettlesAll`): while a settlement is under way
the round is running, so nobody bets on it, and the bets the settlement read
include all that are still active. `OneSettles` is the row lock, `SummedIsCrashed`
keeps a later call from reopening the round. Lemma `QuietStep` disposes of
the steps that activate no bet and start no settlement; `PlaceBet`,
`SettleRead`, `SettleRound` and `AbandonRound` have proofs of their own.

**`RecordsAreKept`** (`RecordInv`). A committed record that is completed stands for one ledger entry.
Inductively, a record belongs to the session that inserted it until that commits;
a session past `Complete` has its entries in `row`, one before `ApplyMutation` has none
under that key; a rollback takes both back.

**`StatisticsAddUp`** (`StatsInv`). The one row of `platform_stats` is written by the sessions in
turn, each while it holds wallets of its own, so no total over the newest rows is right in between.
What is inductive is a balance per session (`GainsMatch`): the entries it added to the wallets it
holds count for as much as it added to the statistics, plus the entry it has made and not yet
counted (`Pending`). `ApplyMutation` adds to both ends, `Complete` turns the pending amount into an increment
of the newest row, a commit adds the same to the committed ledgers and statistics, and what is not
held is as committed (`FreeRowsAgree`).

**`LimitsHold`** (`LimitInv`). A window moves: a stake that finds it closed opens the next one,
and what was staked in the old one no longer counts. So the limit is not inductive by itself. `Kept`
says of a row of limits and a ledger that `cur` covers the stakes of the open window, that `cur` is
within the limit, and that no stake is later than the window's end; the last part is why a window
opened at a reset starts with nothing staked. It holds of the committed row with the committed
ledger and of the newest with the newest, which commits and rollbacks move together
(`PairsMove`), since a session writes limits only under the user's wallet lock. A stake
accepted against the newest row saves exactly the row it computed, whatever `save` leaves out
(`UnracedWrite`), and that row covers the new entry (`KeptWithStake`). Users with a stake accepted
against an older row, and users whose limits are edited, are in `raced`.

**`ImplementsMoves`** (`MovesInv`). The refinement of `MoneyMoves`: a commit is one `Record` of a
whole path or changes nothing, every other step is a stutter. A session is `AtWork` when its snapshot has
none of its transaction's requests: the records it wrote are those behind it on its path, and the
ledgers it holds are the committed ones followed by what the path has moved so far (`Works`). Or it is
`AtRest`: its snapshot has the records of all that is left, or the pending record of the
refused movement and all of the fallback, and it holds nothing new. What a snapshot can show is one or the
other because the committed records have all of a path or none of it (`WholeIn`).
This needs callers to keep their idempotency keys to themselves, which `TidyScripts` says of the
scripts: a record is of one request, a request of one transaction and one step of it;
and the main path of a deposit with a fallback can be refused at its first movement alone, the debit of the
agent, which the fallback leaves out (`payments.service.ts`, `fundDepositCredit`). Two transactions that share a
key may otherwise each be answered in part by the other. TLC evaluates the hypothesis on the scripts of all the mixes
of the run but `reuse` (`MixesAssumption`); what is reused there are the keys of single movements, and the run
finds that the refinement holds all the same.

**Back office** (`OfficeInv`). Each workflow has its part and the others stay (`Untouched`).
`CustodyInv`: keys on the ledger keep later credits out. `SupportInv`: whoever goes on to
approve a request moved the money or was answered from the record of who did.
`AccountsInv`: a lookup that goes on to credit a receipt still finds no credited
row, or finds its own; a row in an errand is the row of the table unless the user is `overwritten`.
`BroadcastInv`: while no row was overtaken, a dispatch that lives is the one of
the row in `sending`. `AgencyInv`: the settlements that claim follow one another, and each counts
what was committed in its period, except what is `excused`.

`WithdrawalInv` is the largest part. It says of every call what it has checked of the row it
read (`CallsChecked`), of ids that a row is there but while its one request is made
(`RequestsAlone`), of every fee that it is below its amount (`FeesFit`), and of every withdrawal that no late
call wrote to what its status says of agent and reference (`RowsKept`). A call writes one row that
follows from the row it read (`Writes`) and the row it finds (`MergedRow`), posts entries
of its own withdrawal alone and moves the wallet by its amount unless `save` leaves a column
out (`PurseMoves`); `ExplainedStep` and `BackedStep` draw the conclusions for the two balances, which leave
out `skipped`, and for the reserved one `stale`, because the code does let these happen.

`PaidFromReserve` has no exception for late calls. What is inductive is the budget of a player (`Covered`): the lock of
the wallet and the check of its reserved balance are in the commit of every settlement, so whatever the row of a
withdrawal has become meanwhile, what is refunded or paid was put aside by a request of the same
player (`GivenStep`, `CoveredStep`). A second settlement of one request passes only while another request of his still
holds as much, and then the other one cannot be settled any more.

**`CreditsMatchBets`**. A bet's credits follow its row unless it is `late`; what a call that cashes out or
settles carries was true of the row when it was read, and the round cannot leave its
phase behind a call that is still in time.

**Keno** (`KenoInv`). `CallsOK`: what a call goes on with names rows that are there, a ticket read
pending is one of the same draw. `OpenOK`: nothing is settled while a draw is open, neither
ticket nor summary, so that a close of a draw that is no longer open is a `redone` one and
a ticket changed since it was read is a `late` one. The cap on winners follows from
the executing call's own choice, since tickets of one draw are settled in one commit.

**Pool** (`PoolInv`). The rows of matches are of their kind and keep their players; a result stays
unless the match is `overwritten`; a call's first read still holds or its compare-and-set
fails (`CallFits`). `DuelFits`: the movements of a duel are its two stakes and, once it
is over, the prize of its winner. `RoundFits` and `LaterFits`: the first round pairs the seats of
one draw, each later match is between the winners of the two before it. The prizes
are shares by weight, rounded down, and the rest goes to the first (`PrizeFits`); nothing is
paid before the end.

**Werk** (`WerkInv`). `OneHolds`: a round that was never shared is in the memory of one
process. `RowFits`: a row says what was paid for it. `CallFits`: a request attached to
a live round is answered before its game is over. `OpFits` and `MemoryFits`: who is in memory was neither refunded
nor paid, and everybody who joined is in it or about to be. From these a settlement
pays those it should and a cancellation refunds those it should. The win control has no
state, and is proved of all score sheets (`Players`: finitely many humans and bots, bots with an
id each, no coin below zero). A promised winner leads since every bot is clamped below the lowest
of them (`BotsHaveLess`, by `ClampWithin`), and a rank counts the eligible who have more; without a coin he
ties with bots at zero, and out of the centre in mode B he ranks last, which the two hypotheses
of `WinnersLead` are. A loser wins nothing since `Place` is an injection of the bots into the
ranks (`PlacesOfBots`), so that as many bots as ranks pay are at the top (`TopIsFull`), and each of them is pushed
above the highest loser. `ControlIsHeld` applies both to the sheets of the runs.

**Bingo** (`NotedInv`). While no edit has saved a stale row back (`undone`), the rows are
`Right`: what each ticket was credited is its prize or its refund (`Money`); as long as the room
goes on (`Going`), a ticket that is pending has nothing but the prizes of the places that are
settled, so that the keys of the credits to come are free and no credit is refused (`Waits`);
a settled place has the card that says it won it, and each card and each bot at most one
(`Seats`); once it is over (`Ended`) no ticket is active. The cards point to the tickets in play
and back, the counter and the limit hold unless a purchase met a stale snapshot
(`Sales`). The outcome of a draw or a claim is a composition of operators on the rows, and the proof
follows it: one lemma says what each operator does (`AwardEffect`, `RefundEffect`, `MarkLostEffect` ...), the
next that it keeps a room `Going` or makes it `Ended`. The loops over places are
recursive functions over sets; `StepsExist` proves that one exists for any step, and each
loop is then followed place by place. `Outcome` names what all four modes
have in common, and `CommittedOutcome` takes it through the commit or its rollback. An
ended room has no active ticket, which is what disables the calls that would
still write to it (`EndedRoomsAreFinal`).

**`PoolIsShared`** (`SplitInv`). Settlements of one room commit one by one, each with the
configuration its call read, and only the last one knows which places are filled. What is inductive is `SplitBy`: as
long as all the calls that settled computed with one configuration, each settled place has the progressive
prize of that configuration, shown and paid (`Split`), and the final prize once the room is completed
(`SplitFinal`). Prizes depend on the number of cards and on the price, so a room that draws must have sold
something, which keeps its price from changing (`EditsHold` says it of the edits that are under way);
this is where stale saves and miscounted sales are needed. `SettledSplit` takes the split through a settlement, `Still` names the
steps that settle nothing. The arithmetic is `SharesAddUp`: quotients of one divisor whose numerators add up
to the pool leave less than a unit each.

**`NoGameIsKilled`** (`LobbyInv`). The property speaks of one step, but what a job cancels was
chosen steps earlier, and others change the lobby in between. `MayCollapse` says at any time of the rooms a job has
yet to cancel what the property says of the one it cancels: a running one does not fit the configuration
the job read, or is in `excused`. It survives since a room keeps its win mode, which holds of all
steps but those of an edit that saves back a row it read earlier, perhaps of a room that is over by now;
so `RowsRemembered` says that such a row has the win mode of its room, and of any other row that is about to be
saved there. `RoomsGo` and `JobsGo` say all the proof needs of a step: rooms keep their win mode, and a
job stays, drops a room from its list, makes its list (`Picks`), or reads a row to edit (`Reads`). `LobbyGoes`
takes the invariant through any such step, and one lemma for each handler shows that its steps are
such. `KeptRuns` is the fact about the order of `reconcileActiveRooms` this is all about: the room that is kept
runs if any does.

**`SetSums`** has the sums. `SumFunctionOnSet` is a recursive choice; the module proves
that the recursion exists and is unique (`SumsExist`, `SumsAgree`), unfolds it, and derives the
lemmas all the proofs about money use: a sum follows the one value that changes
(`SumChange`), grows by what is added, is zero of zeroes, splits over a union.

**Only model-checked**: liveness and everything that speaks of `ENABLED`, such as `SharedRoomAlone` and `RoomsReopen` of the lobby.

### Findings

Each is a violation run of a statement that a comment of the code makes.

1. *A crash bet can be paid and lost* (`crash/crash.service.ts:293`): a cash-out commits
   between the settlement's read of the bets and its writes.
2. *A pool match can pay both players* (`pool/pool-match.service.ts:305`): a shot that was
   computed before the match ended is written over the ended match, since the
   compare-and-set looks at the shot count alone, and clears `settledAt`, which
   `pool/entities/pool-match.entity.ts:132` calls the idempotency guard.
3. *One payout proof can be accepted for two withdrawals* (`wallet/wallet.service.ts:894`): the check inside the
   transaction is a plain read, where the comment at 890-893 has it that two concurrent submissions "can't
   both slip through"; the column has no unique index.

### Observations

What the models reproduce inside the exceptions of the properties, or rest on,
without a run of its own.

*Wallet.* A balance can lose a committed movement (`wallet.service.ts:348`): `save` sends no update when
a balance comes back to the value of the transaction's snapshot, so that two movements of one amount in opposite
directions leave the ledger with an entry the balance does not have. The comment at
`scheduler/reconciliation.scheduler.ts:46-47` rules such a difference out, and the player is suspended for
it. `BalancesExplained` says that nothing else parts the two (`skipped`). Two concurrent stakes read the wager row from their snapshots, taken
before the wait for the wallet lock, and pass the limit together
(`wallet.service.ts:439`; `raced`). Nothing in the repository writes `wallet.status`, so
the refusals of a wallet that is not active (333-335, 569-571) cannot be reached and are left out. A second
transaction with the same idempotency key that waited for the first fails with
the driver's duplicate-key error instead of the stored answer (`InsertRecord`).
The movement that falls back inside a deposit leaves the record of the refused
one pending, in the same commit (`Conflict`).

*Withdrawals.* An agent's rejection leaves the amount reserved for ever
(`wallet.service.ts:1217`; `EndedByAgent` in `WalletExplained`). An approval
and a rejection that both read the request before the wallet lock pay the agent
and refund the player (1041; `stale`), if another request of the player holds as much: the second one is
paid from its reservation, which `PaidFromReserve` allows and bounds.

*Crash.* A booting process that meets the refund key of another one stops its
whole bootstrap, so its ticker never starts (`Refuse`); a bet placed while a round
is being abandoned stays active in a crashed round (`missed`); a bet can be
cashed out and refunded by an abandonment (`late`).

*Keno.* Two executions that read the draw open settle it twice with other numbers
(`keno.service.ts:330`; `redone`); a ticket sold past the read of the execution
stays pending (`orphans`); numbers can change after the draw (`UpdateTicketNumbers`)
although `.harness/topics/game-lifecycle.md:23` rules it out.

*Bingo.* An edit of the room saved from an unlocked read takes draws and
settlements back (`bingo.service.ts:1735`; `undone`). A card that won a place is refused the higher one
it completes (3296): the comments at 2907-2911, 2962, 3482, 3682 and 3726 call the places non-exclusive, so that one
card may win several and "the strongest card is never locked out of the jackpot"; the doc comment at 2898 says
"one place per card", and `awardDerashPlace` does as that one says. The place stays open, and may go
to nobody. The models follow the code (`Awardable`), and `OneWinnerEach` says that what is paid follows it. A claim that is valid only for a
place already taken is disqualified like a false one (3834-3851).
The reaper cancels a running room after places were paid; in pattern
mode a ticket that won stays pending and is refunded on top of its prize. The counter of
sold cards drifts when a save compares with a snapshot (`drifted`). A new room
starts with `scheduledStartAt` now, so its cards cannot be changed. The card that
is disqualified last can leave several places to the house. A commission is lost
if the process dies after the completion. A change of weights between two
settlements of one room pays more or less than the pool (`used`). When all the places
that are filled have a percentage of zero, which `update-bingo-config.dto.ts` allows for every
place but the first, nothing is paid out of the pool and no stake goes back.

*Bingo lobby.* `scheduledStartAt` is NULL in an idle room and MySQL sorts NULL first, so
a collapse keeps an idle room and refunds the players of another (`Earliest`), where the comment at
1011 of `bingo/bingo.service.ts` speaks of the earliest open room. Saving the configuration collapses all
the agents' rooms but one, running games included, while rooms are per agent (999;
`GamesNotKilled` excuses it, since one game stays), although the scheduler's comments say that the
collapse is skipped then. A switch from agents' rooms to the shared room
may leave an agent's room as the shared one. A running room of the administration
keeps the shared one from starting (1633), although such rooms are called
independent (1035). Two due rooms of one owner are both started, since both
are checked before either starts (1290). A slot deleted between the read and the save
of an edit is inserted again (2050).

*Pool.* `abortMatch` (395-425) has no caller. With only the 8 left on an open
table every shot is a foul. A second submit or a time-out between the two reads
of a shot plays it for the opponent. A player without funds at the head of the
queue blocks everyone who joins at that stake. A process that dies after the
commit of a match leaves the bracket waiting (`crashes` in `PlayEnds`); a
semi-final written over can put a user in two places, and the prize transaction
is then refused for ever. With `shotClockSeconds` 0 an abandoned match never ends.

*Werk.* Two leaders that hold one round can pay it and refund it (`shared`); the
comment of `scheduler/werk.scheduler.ts` that exactly one instance owns the
rounds is as strong as the lease. A process whose settlement finds the row completed
stays `settling` and, while it leads, opens no other round; a stale leader with an
old lobby keeps the open round waiting. A join that commits after the start or the cancellation
loses its stake or revives its row (`disturbed`); a leave that
commits across the start, then a crash, makes the cancellation meet the refund
key at every tick, and the slot of the round is never released (388). A promised winner can rank below every
bot: the comments of `werk/round/win-control.ts` at 11 and 113 say that he beats every bot, but the control (116) lowers
coins only, and in mode B `rankParticipants` (163-178) puts whoever missed the centre last, whatever his coins.
Bots without a coin tie with a promised winner who has none. `ControlHolds` has both as its exceptions. The paying ranks count the
positive multipliers, so that a paytable with a gap pays a forced loser. Two
joins at once may exceed `maxPlayers` or share a seat.

*Back office.* Two settlement requests at once both insert. Earnings in the cut
fraction of a second, or committed behind a period that ended, are in no
settlement; rejecting a settlement that has a successor leaves a hole; the
periods an administrator enters are not checked. A refund can be paid
and its request rejected; after a crash between the two writes another
agent's approval is refused by the key. A cancel that races a claim overwrites
it; a slow dispatch is taken for a dead one and sent again; a cancel that
reaches another instance than the sender's is not honoured there, stops a later send
of that instance instead and keeps it from recovering the row; a removed
broadcast is inserted again by the last save of its dispatch.

*Users and deposits.* A profile, a status, a location or a login in the bot saved from a row read
earlier takes back the attribution that `users/entities/user.entity.ts:88` says is
never reassigned, a suspension, or the duty of an agent
that was demoted (`users.service.ts:1150`; `overwritten`), so that two agents are pinned on where the comment
at 586 has at most one. An outage of the portal of M-PESA under `MPESA_PORTAL_STRICT` is
saved as a rejection and uses the receipt up (`mpesa-receipt-verifier.service.ts:87`),
where the verifier of Telebirr saves nothing on an outage, which it is said to mirror. Of two
submissions by one player that pass the first check, the later one meets the unique number and fails
with the driver's error if it has not seen the row in its snapshot, and returns the
stored deposit otherwise.

## 6. Not modelled, and why

- *External*: MySQL beyond snapshots, row locks, unique indexes, deadlock aborts
  and rollback; TypeORM beyond the reload of `save`; Redis beyond leases. They are
  modelled as far as the services rely on them, and marked external.
- *Abstracted data*: amounts are small numbers (columns are 64-bit integers whose
  range the limits of the configuration keep far away), the text of messages, the
  metadata of ledger entries, keno number sets, bingo cards and patterns (what a
  card completes at which draw), crash multipliers between whole
  numbers, time between the instants that matter.
- *Deposits*: the parsing of receipts, messages and screenshots, the matching of names and
  accounts, and the diagnostics of the providers' services.
- *Bingo*: the filling of a room with bots, the replay of an idempotent purchase, the
  names, colours and prices of room slots.
- *Auth*: one row per session. Two refreshes with one token that both read it
  unrevoked both get tokens (`auth.service.ts:177`); nothing in the code serialises
  them, so there is nothing to check. *Reconciliation* reads a wallet and the sum of its
  ledger in two statements and suspends a user whose movement fell in between
  (`scheduler/reconciliation.scheduler.ts:35`).
- *Left out*: random numbers and provably fair seeds (any value of the
  allowed set is drawn), pool physics and the werk simulation (any result is
  possible), socket events and presence, Telegram and notification messages, CRUD of the
  administration, of agents, games and locations, bots' policies, health, metrics,
  configuration, migrations, identities and sessions of users, and the front ends. They hold no state the
  properties speak of, or are input and output only.
