# A TLA+ model of the Opta options program

This directory models the on-chain options program (`programs/opta`), a Solana
program written in Rust with Anchor. Writers pool USDC in *shared vaults*, mint
option tokens against it, sell them and share the premium; holders exercise;
what is left goes back to the writers. American series add asks that a writer
backs with its own USDC, a pot for that backing, sales by the vault at the
model price (the *peg*) and exercise before expiry. Owners leave *trigger
orders* that anybody may execute once a price has crossed; a volatility oracle
prices the options.

It also models the processes beside the program that its users rely on: the
settlement crank and the keeper of trigger orders (`crank`), the event tape of
the indexer (`indexer`) and the market maker (`writer`).

It holds TLA+ modules translated from the handlers, TLC configurations that
check them on small instances, and TLAPS proofs that hold for every value of
the constants. `PROJECT.json` maps each definition to the lines it models and
lists the runs, mutants, hazards, findings and theorems.

## 1. Inventory

| Component | State | Operations | Status |
|---|---|---|---|
| Shared vault | `SharedVault`, its USDC account, `WriterPosition`, `VaultMint` and purchase escrow | `create_shared_vault`, `create_and_deposit`, `deposit_to_vault`, `mint_from_vault`, `purchase_from_vault`, `burn_unsold_from_vault`, `withdraw_from_vault`, `claim_premium` | modelled |
| Settlement and wind-down | `SettlementRecord`, settled/voided flags, `collateral_remaining` | `settle_expiry`, `settle_vault`, `initialize_void`, `exercise_from_vault`, `auto_finalize_holders`, `auto_finalize_writers`, `withdraw_post_settlement`, `reclaim_unsettled`, `close_settled_writer_ask_vault` | modelled |
| Writer asks and peg | `RestingOrder` of kind WriterAsk and its escrow, `WriterAskPot`, `WriterAskPosition` | `post_order`, `fill_writer_ask`, `cancel_order`, `sweep_expired_orders`, `fill_vault_peg`, `withdraw_writer_ask_residual`, `reclaim_writer_ask_residual` | modelled |
| Early exercise | `exercised_options`, `early_exercise_payout` | `exercise_american` | modelled |
| Order book | `RestingOrder`, USDC or token escrow | `post_order`, `fill_order`, `cancel_order`, `sweep_expired_orders` | modelled |
| V2 resale | `VaultResaleListing`, token escrow | `list_v2_for_resale`, `buy_v2_resale`, `cancel_v2_resale`, `auto_cancel_listings` | modelled |
| Triggers, OCO | `TriggerOrder`, escrow, link | `place_trigger`, `link_oco`, `execute_trigger`, `cancel_trigger` | modelled |
| Trigger keeper (`crank/triggerCrank.ts`) | a snapshot of orders, a price, transactions under way | a tick every few seconds | modelled |
| Volatility oracle | ring of returns, running sums | `push_vol_sample`, `initialize_vol_oracle`, `reset_vol_oracle` | modelled |
| Settlement crank (`crank/*.ts`) | list of finished vaults, in memory and on disk | a tick every five minutes: record, settle, five passes per vault | modelled but for account creation; its reclaim pass is in `WindDown` |
| Event tape (`indexer/src/tape`) | tape, cursor, position of the backfill, in a database | backfill, tail | modelled |
| Market maker (`writer/src`) | its orders on the book; failure counts | a tick: asks, orphan sweep, bids | the choice of series and the budgets are abstracted |
| Transfer hook | none that changes | refuses transfers between users after expiry | modelled |
| Pricing | none | when a quote may be given, and the quote | the gates are in `VolOracle`; the models take any quote |
| Price reading | none | numeric | not modelled: the models take any price |
| Markets, series, configuration, migrations | written once | administrative | not modelled: constants |
| Indexer: scoring, provenance, snapshot, API; other cranks | derived tables; none | rebuilds; calls anybody may make | not modelled |
| Web and mobile clients, SDK | no state of the program | build transactions | not modelled: any order of transactions is allowed |

**How they interact.** Every instruction is one atomic transaction over the
accounts it names: it succeeds as a whole or reverts as a whole. Components
share accounts. The vault's USDC account is the meeting point: deposits,
premium, early exercises, holders' payouts, the pot's sweep and writers' exits
all move it, and it also holds the writers' unclaimed premium beside the
collateral. Cranks hold no authority: they call permissionless instructions,
and may race the users and each other. The processes beside the program read
accounts, decide, and send transactions that land later, twice or never; they
share no memory with each other, only the accounts.

**What is hard.** Not concurrency inside an instruction but the *order of
transactions* of writers, buyers, holders, backers and cranks over days, with
truncating integer arithmetic in each: deposits at a moving share price,
premium claims against a floored accumulator, a price that comes late, never,
or races the void, writers leaving before holders, an account that is closed
with claims open, early exercise paid from money that belongs to others, pot
and pool merged into one denominator. A checked subtraction that would go below
zero reverts, so a wrong counter locks money rather than minting it. In the
processes it is failure: a scan or a batch that fails among others that do not,
a restart between two steps of which one is remembered, a decision that rests
on a list read minutes ago.

**What makes each part correct**

- Vault: one share stays worth one unit; every writer's own collateral covers
  the contracts it minted; counters are the sums of the accounts; the USDC
  covers principal and unclaimed premium.
- Settlement: a vault settles or is voided, once; holders are paid first and in
  full; every writer's exit can be computed and, with the cranks, happens; the
  account is closed only when nobody is owed, and then it is.
- Asks, pot, early exercise: pool and pot together back every token; an early
  exercise is never short of money; the pot counts what it holds; pool writers
  and backers never claim more than there is.
- Order book and resale: through its handlers an escrow holds exactly what the rest of its order
  needs; dollars and options change owner only by a trade before expiry and a
  redemption after it, unless a caller names an account that no client would; what
  rests at settlement comes home and is paid.
- Triggers: whoever executes, an owner's money moves only within the terms of an
  order whose condition holds at that moment; both legs of a pair move in one
  step; an escrow covers its order's ceiling; no leg is left that can do nothing.
- Keeper: an order that can be executed is, in the end, whatever else fails.
- Volatility oracle: the running sums are those of the ring, and each sample is
  the move of about one hour.
- Settlement crank: every vault that can be is settled and paid out, and only a
  vault that owes nobody is remembered as finished.
- Event tape: what is behind the cursor has been looked at, and the cursor
  catches up.
- Market maker: it never bids at or above its own ask, and never for more than
  its cap.

## 2. The modules

| Module | What it is |
|---|---|
| `VaultMath` | the shared arithmetic: `MulDiv`, saturating subtraction, intrinsic value, fee |
| `Totals` | the total of a function, as the number of its units, so that it can be proved about |
| `SharedVault` | a vault with its pool, from creation to the closing of its account |
| `WindDown` | extends it by the operator's crank, whose reclaim pass for vaults without a price is a process of its own |
| `WriterAskVault` | extends it for an American vault: asks, pot, peg, early exercise |
| `Ledger` | abstract: who has how many dollars and options, and how they may change hands |
| `OrderBook` | orders, listings and their escrows around expiry and settlement, wherever callers send what they hold; implements `Ledger` |
| `Triggers` | trigger orders of one owner and their pairs, executed by anybody |
| `TriggerKeeper` | extends it by the keeper and the network between them |
| `VolOracle` | the ring of returns of one feed, and when a quote may be given |
| `FinalizeCrank` | the tick of the settlement crank, its memory and its file |
| `TapeIndexer` | backfill and tail of the event tape |
| `WriterBot` | the tick of the market maker over a book that moves |
| `MCSharedVault`, `MCWriterAskVault`, `MCOrderBook`, `MCTriggers` | these modules for TLC, with symmetry sets and terms |
| `MCSeriesMarket` | `Triggers`, `VolOracle` and `WriterBot` for TLC |
| `MCOffchain` | `TriggerKeeper`, `FinalizeCrank` and `TapeIndexer` for TLC |
| `ArithmeticProofs` | lemmas on the operators of `VaultMath` and `Totals` |
| `SharedVaultProofs`, `WriterAskVaultProofs` | the theorems of the two vaults and their proofs |
| `OrderBookProofs` | the theorems of `OrderBook`, and the proof that it implements `Ledger` |
| `TriggersProofs`, `VolOracleProofs` | the theorems of these modules and their proofs |
| `SeriesMarketProofs` | the theorems of the market maker, and of `MCSeriesMarket` |
| `OffchainProofs` | the theorems of the settlement crank, the event tape and the keeper |

### State and code

| Variable | Code |
|---|---|
| `now` | the clock; whole time steps, since only its order with the deadlines matters |
| `vault` | `SharedVault` (`state/shared_vault.rs`), with its field names |
| `vault_usdc`, `usdc_open` | balance and existence of the vault's USDC account |
| `position[w]` | `WriterPosition`; `open` says that the account exists |
| `mint[m]` | `VaultMint` record and purchase escrow of one mint |
| `holding[h]` | option tokens of this vault in a holder's account |
| `settlement_record` | the `SettlementRecord`'s price, `NoPrice` while it does not exist |
| `ask[o]`, `pot`, `pot_usdc`, `backing[w]` | `RestingOrder` with escrow, `WriterAskPot` and its account, `WriterAskPosition` |
| `roundings`, `pot_drawn`, `draws` | history: premium checkpoints rounded down; USDC drawn from the pot's record; early exercises that drew on it |
| `elsewhere` | history: USDC that exercises of other series took from this pot's account |
| `pass`, `listed`, `gave_up` | in `WindDown`, where the reclaim pass is with this vault, the writers it has still to reclaim for; history: it ended early |
| `order[u][n]`, `listing[u]` | `RestingOrder` of a nonce and `VaultResaleListing`, each with the balance of its escrow |
| `extra` (of an order or listing), `redirected` | history: what its escrow got or lost past its handlers; how often something went astray |
| `usdc[u]`, `tokens[u]`, `option_account[u]` | a user's USDC, its option tokens, and whether that token account exists |
| `trigger[t]`, `cash`, `held` | `TriggerOrder` with its escrow; the owner's USDC and option tokens |
| `uncounted`, `drawn` (of a trigger) | history: contracts it fired without its quantity falling; USDC other calls took from its escrow |
| `spot`, `quote`, `room`, `best_ask`, `best_bid` | what an execution reads of the world: the oracle's price, the model's quote, the contracts the vault's free collateral covers, the order supplied from the book and whether all its accounts exist (`ready`) |
| `view`, `seen`, `flight` | the keeper's snapshot and price of a tick; its transactions under way |
| `samples`, `head`, `sample_count`, `sum_log_returns`, `sum_log_returns_sq` | `VolOracle` (`state/vol_oracle.rs`), with its field names |
| `age`, `spot_age`, `span` | seconds since `last_sample_ts`; history: since the spot was read, and between the spots of each sample |
| `stage`, `owed`, `left`, `windowOver` | in `FinalizeCrank`, what is left to do for each vault: its state, the accounts still open, whose money it still holds |
| `finished`, `file`, `todo`, `pass`, `clean` | the crank's cache, its file, the vaults still to sweep, the pass it is at, and whether all passes found nothing |
| `tape`, `cursor`, `reached`, `walked` | the database: transactions, `cursor_sig`, `backfill_before`, `backfill_done` |
| `resting`, `myOrders`, `myBids` | the market maker's orders on the book, and its asks and bids as it read them |
| `outcomes`, `exposure`, `failCounts` | `askOutcomes`, the seeded notional counters and `failCounts` of the engine |
| `pool`, `payout` | in `OrderBook`, the vault's `collateral_remaining` and what one option pays |

Each instruction is one action named after it, with the code's guards in
conjuncts and its checked subtractions as guards. `Tick` advances the clock.
`settle_vault` and `initialize_void` are `SettleVaultSweeping(swept)` and
`InitializeVoidSweeping(swept)`: `SharedVault` takes them with 0, the code's
branch for a vault without a pot; `WriterAskVault` composes them with the pot.

`OrderBook` maps to `Ledger` by forgetting where things lie: a user's wealth is
its USDC and the USDC in the escrows of its orders, its options are those in its
account and in its escrows, and the phase is read off the clock and the
settlement. A fill or a sale is a `Trade`, a transfer between users a `Give`,
a burn of tokens a `Redeem`; posting, listing, cancelling, sweeping, opening
and closing accounts are stutters. A step that brings what is one user's to an account
of another, into an escrow, or to the program, is one of the kinds `Redirect`, `Forfeit` and
`Draw`, which the ledger allows only by counting it (`GoesAstray`, `redirected`).

`execute_trigger` is one action, `ExecuteTrigger(t, route, peer)`: the guards
common to all kinds, then either one of the benign returns (`SkipFire`, which
commits what was written before it) or a fire on the route that the supplied
accounts select, which ends with the move of the sibling. It may be called by
anybody with any accounts in `Triggers`, the order itself as its sibling among them; in
`TriggerKeeper` the calls are the keeper's transactions, when they land.

A tick of the crank, of the keeper and of the market maker is a chain of steps
between which everybody else may act, and each step that calls the outside has
its failures as further actions: a pass that crashes, a scan that is swallowed,
a batch that fails, a post that landed although it was reported lost. A restart
keeps what is on disk or on the chain and nothing else.

### Abstractions

- One vault, so the keys, seeds and signer checks that select accounts are
  left out, except where the program compares two accounts of the model (a
  writer buying its own option, a custom vault's creator).
- Counters that no handler reads are left out: `options_sold`,
  `quantity_minted`, `quantity_sold`, `net_premium_collected`, `total_volume`.
- Tokens of the vault's mints are one balance per holder: all mints of a vault
  have the same strike, type and expiry and pay the same. Transfers between
  holders change no sum and are left out.
- Users' USDC wallets and the treasury are outside: they pay in and are paid,
  and a payer without money is a transaction that does not happen. So are
  slippage limits, which are the caller's own refusal.
- A batch of `auto_finalize_holders`, `auto_finalize_writers` or
  `sweep_expired_orders` is a sequence of its elements. An empty batch of
  writers still runs the closing tail; it is the action `AutoFinalizeNoWriters`.
- The premium of a writer ask is paid by the taker to the backer and never
  enters the vault; asks therefore carry no price.
- The series mint of an American vault exists from its creation.
  `exercise_american` without pot accounts is its case with no shortfall.
- `exercise_american` debits the pot's record of its own series, and checks of the
  account that pays only its mint (`exercise_american.rs:602-606`); the program signs for
  every pot and every USDC escrow alike. So the shortfall may be paid by another
  account than the pot's (`own_account`), and the pot's account, the escrow of an ask, of a bid or of
  a trigger may pay for another series (`PotPaysElsewhere`, `AskPaysElsewhere`,
  `OrderPaysElsewhere`, `EscrowPaysElsewhere`). `settle_vault` and `initialize_void` do name
  the pot's account, and move what its record says, so they are refused while it holds less.
- The oracle is the choice of a positive price. Pyth accepts a record for
  about 30 days after expiry, Switchboard for 300 s: `SettleDelay` is either.
- Sums stay far below 2^64 and 2^128 in practice; an overflow reverts and is
  not modelled. Underflow is: it is the guard of the subtraction.
- Unsolicited transfers into the vault's account are left out: no handler
  counts on the balance being small.
- `OrderBook` is about one series mint and keeps of its vault what the book
  reads: expiry, settled, voided, and the pool holders are paid from. That the
  pool covers every option at settlement is what `SharedVault` and
  `WriterAskVault` check (`HoldersCoveredInWindow`). No option is minted or
  exercised early meanwhile; fills of writer asks are in `WriterAskVault`.
- Some handlers of the book compare the account they deliver to with the order's owner
  (`fill_order` for bids, `sweep_expired_orders`), others leave it to the caller
  (`cancel_order`, `cancel_v2_resale`, `auto_cancel_listings`): the latter take the receiver as a
  parameter. `auto_finalize_holders` may burn an escrow of the program's, as
  `sweep_expired_orders.rs:19-24` describes, and pays an account of the program's then; the treasury
  stands for all of these. Anybody may send to an escrow; a delivery into another order's escrow is a
  delivery to its owner who sends it on. Each such step is counted (`redirected`, bounded by
  `MaxRedirected`) and what it did to an escrow is noted (`extra`). The properties say what holds
  beside these steps, and that nothing else can go another way.
- In `OrderBook` the users' USDC accounts exist: the crank creates them before it
  pays holders, and orders were paid from them. Their option accounts may be
  closed when empty, and then nothing can be delivered to them.

- A trigger sees one best ask and one best bid, which makers change at will, and a
  vault with so much free collateral (`fill_vault_peg.rs:223-236`), which moves with others'
  deposits and sales. An ask is `ready` when the pot and the backing position of a writer ask exist
  (`execute_trigger.rs:1164-1167`, `1199-1209`); a fire does not create them. On
  the vault's peg and on a fill its owner's side is followed; the other side is
  in `WriterAskVault` and `OrderBook`. Its series is an American call.
- The keeper's pushes, priority fees, caches of accounts, Switchboard and Pyth
  paths are one price that is read or not and one transaction that lands, late
  or twice, or does not.
- In `FinalizeCrank` an account is owed something or is not; amounts are in
  `SharedVault` and `WriterAskVault`. Of a vault's money it is kept for whom it is: holders, who may take it
  all, pool writers, and backers of writer asks, whose pot `settle_vault` added to it
  (`settle_vault.rs:174-177`). No pass of the crank pays backers. While one
  has a claim the vault has money, and it is scanned again at every tick. The dust of
  truncated shares is left out: it makes a vault be scanned for ever, too, and nobody is owed it. Orders
  of the kind the crank skips (finding 5) are left out.
- In `WindDown` one vault is seen, so its place among the candidates of a reclaim pass is left
  out.
- In `TapeIndexer` a signature is its position on the chain; what an event says
  plays no part. A transaction that cannot be read is passed over, as in the code.
- `WriterBot` is about one market, so its two caps on bids are one. Budgets, the
  leash, inventory and the ladder decide only whether to quote a cell, and may
  here refuse at any time. Prices are not rounded to the tick of the currency.
- Logarithms of prices are integers, so a return is exact; the fixed-point
  logarithm of the code is taken as given.

## 3. The runs

The vault runs use the strike 2 (one contract locks 2 units), an exercise window of
1 step, a grace window of 2 steps and expiry at 1, so that every deadline falls
between two moments the clock can show. `Scale` is small so that the
accumulator truncates often, as 1e12 does with real share counts. The bounds
are `Horizon` (clock), `MaxCollateral` (USDC in the pool), `MaxRoundings`
(rounded premium checkpoints, a history counter), `MaxAsked` (contracts in
asks) and `MaxElsewhere` (USDC that exercises of other series take). Deadlock is not checked: once a vault is closed and the clock stands,
nothing is left to do.

| Run | Specification | Asks | Result |
|---|---|---|---|
| `european` | `Spec`, 2 writers, 1 holder, 2 mints, up to 4 units | ten properties of the pool | holds, about 436 000 states |
| `wind_down` | `FairSpec` of `WindDown`, no symmetry, deposits of 2 | three liveness properties | holds, about 117 000 states |
| `american` | `AskSpec`, 2 writers, 1 holder, 1 order at a time, up to 2 units in the pool and 2 asked contracts, 1 unit taken elsewhere | nine properties of pool, asks and pot | holds, about 1 210 000 states |
| `series_market` | `MarketSpec`: `TriggerSpec` with 2 triggers; `VolSpec` with a ring of 3; `BotSpec` with 2 series | types, and seven properties of triggers, oracle and market maker | holds, about 531 000 states |
| `offchain` | `OffchainSpec`: `KeeperSpec` with 2 triggers, `CrankSpec` with 3 vaults and a restart, `TapeSpec` with 3 signatures and a crash; no symmetry | types, an invariant, an action property, three liveness properties | holds, about 46 000 states |
| `order_book` | `Spec` of `OrderBook`, 2 users, 1 nonce each, 2 options, 3 USDC each, 1 step astray | types, escrows, the ledger, one liveness property | holds, about 159 000 states |
| `writer_asks_unswept` | as `order_book`, 1 option, windows of 1, nothing astray | `EveryOrderSwept` | violated |
| `premium_rounding` | as `european` | `SolventExactly` | violated |
| `late_settlement` | as `european`, vault of type Custom | `SettlingLeavesAWindow` | violated |
| `early_exercise_blocks` | `AskSpec`, as in `american` | `FreeCollateralIsDefined` | violated |
| `drawn_pot_claims` | `AskSpec`, as in `american` | `BackersCanClaim` | violated |
| `oco_half_links` | `TriggerSpec`, as in `series_market` | `LinksAreMutual` | violated |

Why these bounds are enough: two writers are needed for one to dilute, precede
or outlast the other; two mints for a writer to have one sold and one burned;
4 units for two contracts in two hands; prices below, inside and beyond the cap
for a payout of nothing, of part and of all the collateral; a fee of a quarter,
so that the writers' share of a premium truncates. One holder is enough for
every race with the cranks: what others are paid enters only through sums. In
`european` the clock reaches past the grace window, and the price may come
after it, so that record and void race. In `american` a second ask follows the fill
of the first, so one backer may stand behind several and two backers share a pot; one
unit taken elsewhere, from the pot or an ask, parts record and account. The instance with two orders
at a time and nothing taken elsewhere was run once and also holds.

In `order_book` two users are every pair of maker and taker; two options, bought
or sold one at a time or together, give a partial fill and the fill that closes
the escrow; the price 2 with a fee of half takes one of the two units of a single fill; the
series is American, so that all kinds of order can be posted. One step astray falls
anywhere: it empties or swells the escrow of an order before a fill, a cancellation, a
sweep, or the payment of the holders, and what follows it is without others. The clock
stops at expiry with both windows over, since the book reads no deadline but expiry and the
windows only allow what then may happen at any moment. An instance with longer
windows, a price that truncates (3, fee of half) and nothing astray was run once and holds.

The components of `MCSeriesMarket`, and those of `MCOffchain`, share no state in
these models: each sees of the others what may be any value. So a behaviour
follows one of them, its *focus*, and the others stand still: every behaviour
of each is explored, and the state spaces add up instead of multiplying.

- Two triggers are a pair, or an entry and an exit. Sizes 1 and 2 against asks and
  bids of depth 1 and 2 give full, partial and oversized fires, so that a
  sibling is clamped, and partial fires of an order given as its own sibling; two spots lie on either
  side of the thresholds; the vault sells two contracts cheaply or one at the ceiling, and the
  order on the book that is nearest may be one that cannot be filled.
- A ring of 3 wraps, and is reset half full and full; the warm-up is 2; waits
  before, within and after the interval and the gap occur. Returns of -1, 0
  and 1 make gains and losses differ in the sum and agree in the squares.
- Two series and three model prices, of which two are within the drift limit and
  one is beyond it; spreads, guard and drift are the shipped defaults in
  thousandths (ask 40, bid 60, guard 20, drift 30, ε 10). Every series starts with an
  ask of an earlier process; two further posts and one stray give reposts, lost
  posts and bids over several ticks and restarts. `MaxBidNotional` has room
  for a bid on both series at the two lower marks, not when either is at the higher.
- In `offchain` two buys of one contract compete for one ask, ready or not, and for a vault
  with room for one of them, or are a pair.
- Three vaults: one that can never be settled, one whose listing comes home to a holder the crank
  cannot pay, and one with a pool writer and a backer of a merged pot. The fan-out takes
  two at a time, so the vault that is stuck takes a place; one restart falls at any step,
  with the file kept or lost.
- Three signatures with pages of two and batches of one: a tick of two pages, a page
  of two batches, a walk that ends at its floor, new signatures at any moment.

What the passing runs show, by property:

- `TypeOK`: no balance or counter goes below zero. (`AskTypeOK`, the same of the
  American vault, is left to its theorem.)
- `SharesMatchCollateral`: deposits and withdrawals in any order leave one
  share worth exactly one unit until settlement; the truncations in the share
  arithmetic therefore never truncate.
- `WritersBackTheirMints`: each writer's own collateral covers its contracts.
- `CountersMatchAccounts`: the summaries are the sums.
- `HoldersCoveredInWindow`, `WindowPaysHoldersExactly`, `WindowIsForHolders`:
  within the exercise window the residual covers every token, and only holders
  are paid from it, each token exactly once.
- `SolventUpToRounding`, `SolventWithPot`: the account covers principal and
  unclaimed premium, short of at most one unit per rounded checkpoint.
- `ExitsNeverUnderflow`: no exit is blocked by a checked subtraction.
- `ResolvedOneWay`: never both settled and voided.
- `ClosedOwesNoWriter`, `ClosedOwesNobody`: closed means nobody has a claim.
- `AllHoldersCoveredInWindow`: the same cover for the tokens of pool and asks
  together, once the pot has been merged, up to `Dust` (below).
- `MergedCollateralCoversTokens`, `PotBacksItsContracts`,
  `PotMatchesCommitments`, `EarlyExerciseIsFunded`: pool and pot back every
  token through any mix of peg, mints, fills and early exercises.
  The last two are about the pot's account as well as its record, which the code debits apart:
  the account is short by no more than exercises of other series took from it (`elsewhere`).
- `ClaimsFitUndrawnPot`: pool writers and backers share the merged denominator
  without exceeding it, as long as no early exercise drew on the pot.
- `Dust == roundings * draws` bounds what the American vault's promises may miss. Each
  rounded checkpoint leaves the account one unit short of its books; an early exercise that
  finds it empty passes as much on to the pot, after which the pool can mint against it again.
- `MarketTypeOK`, `OffchainTypeOK`: the types of the components of the two compositions.
- `BookTypeOK`: no balance of the market goes below zero, and nobody has tokens
  in an account that does not exist.
- `EscrowsBackRests`: the escrow holds exactly what the rest needs plus what came and less what
  went past the order's handlers; so as long as nothing did, the last
  fill finds it empty and can close it. Tokens can only be missing after settlement, when
  the payment of holders burned them.
- `KeepsTheLedger`: every step of the book is a step of `Ledger` or a stutter: nobody's wealth
  changes but by trade, gift and redemption, unless the step is one of those counted as astray, and
  then one user's loss is within what it had, and nobody else loses.
- `SettledBookDrains`: after settlement everything of a user who keeps its token
  account comes home and is redeemed.
- `EscrowCoversCeiling`: after any partial fires, and fires of a sibling, a buy's
  escrow covers its ceiling for all it still wants, but for what other series drew
  from it and the ceiling of contracts it fired uncounted.
- `OcoMovesBothLegs`: a fire of a linked order takes its contracts from both legs in
  one step and leaves both unlinked.
- `OwnersTermsHold`: whoever executes, on whatever stale view, dollars and tokens
  of the owner move only within the terms of an order whose condition holds. A fire comes off the
  order's quantity or is noted as uncounted, which happens only to an unlinked order given as its own
  sibling; dollars leave an escrow without tokens only by a draw that is noted.
- `SumsMatchRing`, `SamplesOnCadence`: the accumulators never drift; no sample
  spans a gap, and a quote rests on a recent spot.
- `NoCrossAfterCleanTick`: after a tick that ended with its bid cancels landed, no
  bid the bot knows of is within the guard of its ask on that series.
- `BidExposureCapped`: the bids it knows of cost no more than the cap, over any
  ticks and restarts (the defect recorded at `engine.ts:545-551`).
- `FinishedOwesNothing`: no vault is remembered, in memory or on disk, that has an order, listing
  or pool writer left, and none with money left, a backer's for instance, is passed over because it is remembered.
- `EverybodyPaid`: vaults that can be settled and paid are, whatever others do; what is left
  is for backers, who claim it themselves.
- `ArmedBuysFire`: a buy does not stay armed for ever while the ask the keeper picks can be filled,
  or while it picks none and the peg has room for the whole buy.
- `CursorLeavesNothingBehind`, `TapeCatchesUp`: the tail loses nothing above its
  cursor and keeps up, through failures and crashes.

Every property of a passing run has a mutant in `PROJECT.json`: a variant of
one definition that a plausible slip in the code would give, with which TLC
finds the property violated. The mutants stand in the modules before the
definitions they vary and are marked as such.

### Liveness and fairness

`FairSpec` assumes weak fairness of exactly what the operator's crank repeats
every five minutes (`crank/bot.ts`): `settle_vault` where a record exists
(`settleVaultFanout.ts`), and `auto_finalize_holders` and `auto_finalize_writers` of settled vaults
(`autoFinalize.ts`), which come back to a vault whose collateral is not zero; of the
clock; and of the steps of the reclaim pass. That pass
(`reclaimUnsettled.ts`) is modelled step by step, because it does not come back: it takes up vaults neither
settled nor voided (line 284), voids one, lists its writers with shares once, and reclaims
for one after the other; the first transaction that fails ends it (`GiveUp`, possible at every
step), and the vault, now voided, is never taken up again. Fairness says that the pass goes on; no transaction of
its has to succeed. It is switched by
`OPTA_RECLAIM_CRANK_ENABLED`, off by default and on in the operator's
deployment (`HANDOFF.md:2272`). No fairness is assumed of any user, of
`settle_expiry` (a feed may be dead), nor of `close_settled_writer_ask_vault`,
`withdraw_writer_ask_residual` and `reclaim_writer_ask_residual`, which no
crank calls; that is why the liveness run is about a vault without a pot.

- `EventuallyResolved`: a vault is settled or voided.
- `VoidedWritersGetOut`: once the reclaim pass is past the void, either all writers get out or
  a transaction of the pass has failed. That is all the crank promises to the writers of a voided
  vault; after a failure, or when somebody else voided the vault before the pass took it up,
  they have to ask for themselves.
- `SettledVaultCloses`: a settled vault that has writers is closed in the end, if no
  checkpoint was rounded (finding 1 is why).

They speak of a horizon past the grace window, where all deadlines have passed.

`OrderBook` assumes weak fairness of what the crank does for each settled vault:
ending listings (`autoCancelListings.ts`), sweeping bids and resale asks
(`sweepExpiredOrders.ts`) and paying holders. It skips an owner whose token
account is missing and tries again, so the promise is conditional on the account
(`<>[]option_account[u]`). `SettledBookDrains` needs no order between the passes:
a pass that comes too early is repeated. Nothing is assumed of users, of writers
(who may drain the pool first once their window opens) or of settlement.

`OffchainSpec` conjoins the fairness of its three modules, each while it has the focus
(one condition may stand for one of each, since the focus never changes):

- `KeeperFairness`: the loop goes on (`runTriggerCrank` ticks at a fixed interval and
  survives a tick that throws), a price that is asked for at every tick is read
  infinitely often, and so each order that could be sent is sent, with the book read
  (`SendKnowing(t, TRUE)`: a book that could not be read makes the keeper fall back to the peg,
  `triggerCrank.ts:1175-1200`, and that does not happen for ever), and each
  transaction that could land lands, unless it stops being possible. The last
  two are strong fairness: a tick may skip an order by an error of its own, but
  not the same order for ever. Nothing is assumed of owners, makers or prices.
- `CrankFairness`: the loop goes on, and some record, settlement or payment that is
  possible again and again is made now and then. It is not fairness of each
  payment: that each is made follows from there being finitely many. The holder pass of
  a vault is assumed not to crash for ever on account of the network. Nothing
  is assumed for a vault that cannot be settled, a holder that makes the pass
  throw, or a backer; `EverybodyPaid` leaves out these vaults and the backers' money, not what they do to others.
- `TapeFairness`: the loop goes on, pages of a tick come in the end, all of them in one
  tick included, and so does a batch. `BatchComes` is one batch; failed ones may
  lie between.

`ArmedBuysFire` speaks of buys on the underlying for which the peg's quote is within the
order's price, because the keeper sends nothing else (see below), and whose escrow no other series
drew on. It asks for a route that works and stays: the ask within reach has
the accounts a fire needs, or no ask is within reach and the vault's free collateral covers the
whole buy. Most vaults hold no pooled collateral (`room` 0), and nothing is promised for a buy that only
their peg could serve.

## 4. Where code and comments disagree

1. **Premium rounding** (`premium_rounding`). A deposit's `premium_debt` is
   floored, and so is what the position earns later; the two floors can leave
   the sum of unclaimed premium one unit above the premium received, per
   rounded checkpoint. The last to leave then finds the account one unit short
   and its transfer fails. `reclaim_unsettled.rs:120` takes the account to hold
   collateral and net premium exactly.
2. **Late settlement** (`late_settlement`). The window of 24 hours is counted
   from expiry; nothing forbids settling later. `shared_vault.rs:313-318`
   promises holders a predictable window before writers can leave.
3. **Early exercise blocks the pool** (`early_exercise_blocks`).
   `exercised_options` counts tokens that asks sold, `total_options_minted` does
   not; their difference underflows and depositors cannot withdraw, nor the peg
   sell, until the vault is settled. `fill_vault_peg.rs:67-70` calls the
   checked subtraction defensive.
4. **Drawn pot** (`drawn_pot_claims`). A draw lowers the pot and not the
   backers' commitments; after settlement their claims add up to more shares
   than were issued, and the claim that exceeds them reverts for ever, even for
   the only backer of a vault without depositors.
   `withdraw_writer_ask_residual.rs:183-186` says both subtractions hold.
5. **Writer asks are never swept** (`writer_asks_unswept`). The sweep in the crank
   returns bids and resale asks and skips any other kind, since "WriterAsk can
   never be posted" (`sweepExpiredOrders.ts:242`). It can: `post_order` accepts
   it on American series, and the instruction would return it. The USDC of an
   unfilled writer ask stays in escrow until its owner cancels.
6. **Half a link** (`oco_half_links`). `execute_trigger.rs:253` drops the order's
   own link before it is known whether anything fires; the returns at lines
   272, 307, 689, 729, 865 and 882 fire nothing, succeed, and so commit it. The sibling
   still names this order: its own execution is refused, its cancellation is
   refused (`cancel_trigger.rs:79-91`), and it cannot be linked again. The
   comment at lines 247-252 explains why both sides must end unlinked, and
   covers only executions that fire or revert. The keeper produces it by itself:
   it sends a stop-loss in the money without book accounts, which is a skip.

Seen while modelling, and not the subject of a run:

- *Custom vaults.* The check of the single depositor (`deposit_to_vault.rs:37-42`) applies
  only while there are shares, so after the creator withdrew all of them anybody may deposit;
  `shared_vault.rs:139` and `deposit_to_vault.rs:36` say that only the creator can.
- *Void of an American vault.* `initialize_void.rs:185-187` takes early payouts to be within the
  collateral and the swept pot. That holds only up to `Dust`: after a rounded checkpoint an early exercise that
  draws on the pot leaves a unit, and with every contract exercised the checked
  subtraction of the void can revert.
- *Account of the pot.* `exercise_american.rs:587-590` says that `writer_ask_pot_usdc` is the pot's
  account; the constraint at 602-606 is on its mint. The record debited is the series' own in any case.
- *Sibling.* `execute_trigger.rs:951-952` and `1242-1243` accept for an unlinked order any order as
  `oco_peer`, the order itself included. Then there are two copies of the account, and what is written
  back last has not seen the fire: an order that remains keeps its quantity (`uncounted`).
- *Receivers on the book.* `auto_cancel_listings.rs:133-149` does not compare `seller_option_account` with the
  seller, nor `cancel_order` and `cancel_v2_resale` theirs, where the caller is the owner. The burn of an ask's escrow by
  `auto_finalize_holders` is described at `sweep_expired_orders.rs:19-24`, where it is taken to be harmless to the sweep; `Forfeit`
  in `Ledger` says what it costs the owner.
- *Reclaim.* `reclaimVault` goes on with a vault that is already voided (lines 193-195), but the sweep takes
  up none that the listing shows as voided (line 284); so that branch is only reached when the void
  falls between the two.
- *Backers.* No pass of the crank pays them or closes a vault that only they are left in
  (`autoFinalize.ts:571-583` lists `WriterPosition`), though its cache counts their money.
- *Keeper.* A cheapest writer ask within the price whose pot or position does not exist yet keeps it from
  the peg, at every tick: a trigger fills such an ask only "on a series that has already had one direct
  fill" (`execute_trigger.rs:1180-1183`), which the choice of the ask does not check. It compares with the underlying whatever tape the order is on, so an
  order on the contract's price fires only when both have crossed; a buy is sent only
  if the peg's quote is within its price, even when a cheaper ask rests; a buy that
  its sibling reduced to nothing is sent again at every tick; a stop-loss never gets
  the accounts of a bid; book fires need `OPTA_TRIGGER_ALT`.
- *Triggers.* A partial fire unlinks both legs, so what is left of each is no
  longer a pair; the floor of a take-profit binds on the book and not at the vault.
- *Settlement crank.* A failed scan for holders is indistinguishable from an empty one
  (harmless for the cache only because `maySuppress` looks at the collateral again); a
  holder that is not a wallet makes the holder pass throw and keeps the writers of that
  vault from the crank; the fan-out takes the oldest 150, so 150 vaults that never settle
  would starve the rest (the assumption `Cardinality(StuckVaults) < MaxPerTick`).
- *Event tape.* The backfill moves on over failed batches, which leaves holes behind the
  cursor for good, where `cursor.ts:7` says "the NEWEST signature fully
  indexed"; the faucet tick of `capitalPoller.ts` does the same with its own cursor.
  `CursorLeavesNothingBehind` is therefore about the tail.
- *Market maker.* Its bids stay below its asks "BY CONSTRUCTION" (`bids.ts:6-8`), but when it
  holds a bid, `decideBid` compares the price it would post with the ask (`bids.ts:208`) and leaves the one
  at rest (lines 230-237). That is safe because of the numbers, the assumption `SpreadsCoverDrift` of the
  theorem: a bid off by the drift limit stays under an ask off by the drift limit as long as
  `(1 - bid spread) (1 + drift) <= (1 - guard) (1 + ask spread) (1 - drift)`. The defaults
  satisfy it (ask spread 400 basis points, guard 200, drift 300; the threshold is about 404).
  `OPTA_WRITER_REPRICE_DRIFT_BPS` (`env.ts:172`) is not validated, and with 500 TLC
  finds `NoCrossAfterCleanTick` violated.
  An ask repriced down crosses the old bid until the bid pass, later in the tick.
  A post taken for failed that landed is a stray: its series' newest order hides it.

Two stale comments need no run: `utils/exercise_intrinsic.rs:22-25` says that
European settlement is not capped per contract, and it is; `fill_order.rs:21`
says that filling one's own order is allowed, and line 230 refuses it.

## 5. What is proved

Every safety property of a passing run, state invariant or action property, is also a
theorem: it holds for every value of the constants that the modules' named assumptions
allow, the bounds included. What is left to TLC alone is at the end of this section.

### The shared vault

`SharedVaultProofs` proves all ten properties of the run `european`. The
assumptions are finite sets of accounts, a positive strike and scale, a fee of
at most 100 %, and an exercise window no longer than the grace window (24 hours
and 7 days in the code).

The argument has four layers, each inductive given those below:

1. `TypeOK`.
2. `AccountsInv`, what each account owes to the others taken singly: shares are
   collateral, each writer's contracts are covered, flags exclude each other,
   an existing account is in a state its history allows.
3. `TotalsInv`, which relates sums: the positions' shares are the vault's; before
   resolution the tokens in escrow and in holders' hands are together exactly what
   the writers wrote; within the exercise window the collateral covers what
   holders still hold. Its proof follows the writers' free collateral,
   the function `Unencumbered`: shares not bound by minted contracts. Per-writer
   coverage sums to vault coverage only through it, since no handler checks the
   sum in a European vault.
4. `SurplusInv`: while the account is open, its funds beyond the principal cover what
   premium writers are entitled to. The promise is about a sum of floors of products,
   which no step changes in a simple way; the invariant takes the floors away. An
   `Entitlement` is a writer's shares times the accumulator, less what it has taken,
   in units of `1 / Scale`; `Surplus` is the funds in the same units less the sum of
   entitlements. A premium adds to the funds no less than it adds to all entitlements, a
   claim takes as much from both, and a floored checkpoint costs less than one unit, which
   `roundings` counts. `SolventUpToRounding` follows because a floor is at most its argument.

The layers are needed because no property is inductive alone: that holders are
covered after settlement rests on what was true at settlement of shares,
contracts and escrows, which rests on every mint, burn and withdrawal before.
`ArithmeticProofs` proves how a total changes when one value does, and that a total
is monotone, from the library's theorems on finite cardinalities, and the bounds of
the truncating division and of the capped intrinsic value.

### The American vault

Those theorems speak of the shared pool alone: `SharedVault`'s steps include neither
the early exercise nor the writer asks, so its invariant can say that the draws on the
vault by either are zero. `WriterAskVaultProofs` proves the nine properties of the run
`american`, and the types, of the vault with both. Where a step of the pool does what it did
before, its lemma is cited from `SharedVaultProofs`; what `AccountsInv` says that
stays true beside asks is kept, and `AskInv` adds six parts, inductive together:

- `PotInv`: until the vault is resolved the pot's account holds what it counts but for what exercises
  of other series took from it, what it counts is what its backers committed less what was drawn, and it backs its contracts. That is
  why each fill of an ask, partial or not, must move exactly its collateral.
- `TokensInv`: where the tokens are. Those of the pool are in escrow or sold, and what the pool
  sold or asks wrote is in somebody's hands or was exercised. Without it an early exercise
  could not be matched with a token, of the pool or of an ask, since the program does not say which.
- `LimitsInv`: what early exercises took. Payouts and draws are within a collateral per
  exercised token, and within what the collateral leaves beside the tokens of the pool; the pot is
  drawn on only once the pool's tokens are used up, but for `Dust`. This is what makes
  `PotBacksItsContracts` and the cover at settlement survive an exercise paid by
  the wrong side.
- `BackersInv`: whose the shares are. Until resolution they are the depositors'; when an
  undrawn pot is merged, its backers have one share per unit they committed.
  `ClaimsFitUndrawnPot` rests on it.
- `WindowInv`: after settlement, holders are covered up to the dust while the window is
  open, and a holder of tokens means that something was sold.
- `FundsInv`: the `Surplus` of the European argument, up to the dust that settlement writes off.

The dust was found by these proofs. Stated exactly, `SolventWithPot` and the cover at settlement
are not preserved: a rounded checkpoint before an early exercise that empties the account shows why.
`FreeCollateralIsDefined` and `BackersCanClaim` have no theorem: they are false (findings 3 and 4).

### Order book

`OrderBookProofs` proves of the book, under the assumptions of `OrderBook` (finite
sets of users and nonces, positive prices, quantities and collateral, a fee of at
most 100 %, payouts within the collateral), both safety properties of the run
`order_book`, and that the book implements `Ledger`:

- `BookInv` is inductive. It says of each order and each listing by itself that
  it is open exactly when something rests, that the escrow is what the rest
  needs and what is noted of it besides, and that an open one names a price a client may choose; of tokens that
  they lie in accounts that exist; and of the vault that it is settled only
  after expiry. `EscrowsBackRests` alone is not inductive: a fill of an order
  must know that its escrow, price times rest, splits into the part filled and
  the rest, which needs the types of all three. `AstrayInv`, proved beside it, says that an escrow
  which differs from its rest was counted, and that tokens are missing after settlement only.
- `BookKeepsTheLedger` uses that invariant. A user's wealth and options are sums
  over its nonces; `EscrowedAfterOrder` says how they change when one order
  does. A fill takes out of the maker's escrow what it delivers, so what the maker
  has, wherever it lies, changes by the trade; posting, cancelling, sweeping
  and ending a listing move the same amount between a wallet and an escrow,
  and change nothing. `RedirectStep`, `ForfeitStep` and `DrawStep` say the same of
  a step counted as astray: one user loses no more than it had, and nobody else loses. That a redemption happens only in the paying phase, and a
  trade only in the trading phase, rests on `is_settled => now >= Expiry`.

### Triggers, oracle and market maker

`TriggersProofs` proves of the trigger orders, for any finite set of addresses and any
terms, prices and depths, all the properties the run `series_market` checks of
`Triggers`. The invariant is `TriggerInv`: types, `EscrowCoversCeiling`, and that no order
is linked to itself. The last is needed since the sibling of a linked order must be another for a fire to
be taken off both; an unlinked order may be given as its own sibling, and then
`uncounted` grows by what its quantity should have lost. `OcoMovesBothLegs` and
`OwnersTermsHold` are proved of each step from it: an order that fires pays, from an
escrow that covers its ceiling, no more than the ceiling, and what
it gets back when it closes stays the owner's, so that cash and escrows together change by
what was paid. Mutuality of links is not part of the invariant: it is false (finding 6).

`VolOracleProofs` proves `SumsMatchRing` and `SamplesOnCadence` for any ring size. The sums are
relations between totals over the ring before and after one slot changes, cited from
`ArithmeticProofs`; the invariant adds that until the ring is full the head is the number of samples, so that a push
into a ring that is not full evicts nothing, that every sample in use spans an admissible
interval, and that a spot is as old as the account's last push says.

`SeriesMarketProofs` proves both properties of the market maker, for any series, model prices,
sizes, failures, crashes and fills. `BotInv` has five parts:

- `BookInv`: no nonce is used twice on a series, and of the orders on a side of a series the newest is
  the one the bot knows of; the others are strays. So a scan that keeps the newest finds it.
- `ListsInv`: what rests on the series still to come was in the list when it was read, with
  at least as many contracts: others may fill an order meanwhile, and only the
  bot posts.
- `AnchorsInv`: a bid hangs on an ask that rests at the price the bot noted, within the
  drift limit of the price it wants at the model price it noted.
- `MoneyInv`: the bids as they were read, on the series to come, and as they rest, on the others,
  cost no more than `exposure`, and the bids that rest no more than the cap. The cap alone is not inductive, as a
  bid is posted against a count that was seeded from a list some bids of which have gone since.
- `ControlInv`: what the phases mean.

`BidExposureCapped` follows from it. `NoCrossAfterCleanTick` needs `CrossInv` besides (no bid
crosses an ask on a series the pass is done with) and the assumption `SpreadsCoverDrift`: a bid and an
ask that are each within the drift limit do not cross. It is true of the code's defaults and of the constants
of the run, and false of settings the code accepts (section 4); the
theorem states it as its hypothesis.

The cost of a set of bids is a fold. How it changes when one bid goes, comes or shrinks
would ordinarily be an induction over finite sets; here it is proved from a smallest counterexample,
which exists because the library's theorem on minimal elements takes its relation as a value
and not as an operator.

`MarketTypesCorrect` puts the three parts beside each other, so that the run's type invariant is a theorem
of its own specification: a step of the one in focus leaves the variables of the others alone.

### Beside the program

`OffchainProofs` proves the three parts of the run `offchain` but for liveness. Of the
settlement crank it proves `FinishedOwesNothing` for any vaults and any failures. Its invariant
ties the sweep to the chain: while `clean` holds and a vault is past a pass, nothing of that
pass is owed any more; others may only discharge what is owed, never add to it, except that a listing or
ask that comes home makes a holder; and a vault still to sweep that
holds money held some when the sweep began, so its entry does not suppress it.

Of the event tape it proves `CursorLeavesNothingBehind`, for any page and batch size. Its invariant
follows a tick: while it pages, no batch has failed and the work list holds everything from the
oldest to the newest signature collected; while it fetches, everything above the cursor up to
the newest is in the work list or done, unless a batch failed. The step from one to
the other is a lemma on pages: one that is not full leaves nothing between itself and the cursor.

Of the keeper it proves `KeeperIsAnybody`: `KeeperSpec => TriggerSpec`, the keeper with its network
implements the specification in which anybody may call. So `OwnersTermsHold` and the other theorems of
`Triggers` hold of orders that the keeper executes, on whatever stale view and however often its
transactions land. The invariant `KeeperInv` adds to `TriggerInv` the keeper's
types; `Triggers` lets callers name any sibling. `OffchainTypesCorrect` is the run's type invariant.

### Only model-checked

- The seven liveness properties: `EventuallyResolved`, `VoidedWritersGetOut`, `SettledVaultCloses`,
  `SettledBookDrains`, `ArmedBuysFire`, `EverybodyPaid` and `TapeCatchesUp`. Reasoning under
  fairness needs ENABLED, which is out of the prover's reach.
- The six violated properties, which are false and have counterexamples instead.

Induction over data is out of reach too, except where a smallest counterexample can replace it, and so are
recursive operators: totals are defined as cardinalities and no module declares a recursive operator.

## 6. Not modelled, and what could follow

- *Clients and SDK, the web and mobile applications* are most of the repository's
  lines. They keep no state of the program: they read accounts and build
  transactions, and whatever they send in whatever order is a behaviour of the models.
- *Scoring, provenance, the chain snapshot and the API of the indexer* rebuild derived tables
  from the tape; `push_vol_sample`'s own crank and the Switchboard crank decide only
  when to call what anybody may call.
- *Pricing* is a numerical approximation without state, *price reading* the validation of
  bytes of foreign accounts; *configuration and migrations* are written once.

What would add most: a refinement from `FinalizeCrank` to the fairness that `SharedVault`
assumes; a composition of `WriterAskVault` and `OrderBook` over one vault, so that orders are filled while
contracts are minted and exercised early, which would also let one series' exercise draw on another's pot in one model.
