# Verification of the Stacks indexer

The program is an indexer for the Stacks blockchain. A stacks-core node posts
every block it adopts to the indexer's HTTP listener. The indexer keeps the
events that its YAML configuration asks for in SQLite tables and serves them
through GraphQL. This directory holds its TLA+ model, the TLC configurations
that check the model on small instances, and theorems that TLAPS checks for
every value of the constants.

- [The system](#the-system): components, state, interactions, hard behaviour
- [The modules](#the-modules): which module models what, and how
- [The runs](#the-runs): questions, bounds, results
- [Findings](#findings)
- [Assumptions](#assumptions): the environment, fairness
- [The proofs](#the-proofs)
- [Only model-checked](#only-model-checked), [not modelled](#not-modelled), [plan](#plan)

Paths are relative to the repository; `http.rs` is
`crates/server/src/http.rs`, `db.rs` is `crates/storage/src/db.rs`, and so on.

## The system

| Component | State it keeps | Operations |
|---|---|---|
| **Block payloads** `core/src/types/mod.rs` | none | deserialized from the node's JSON; `index_block_hash`, `parent_index_block_hash` and `block_height` decide what happens to a block |
| **Configuration and matcher** `core/src/config`, `core/src/matcher`, `core/src/types/events.rs` | an immutable list of rules | `load_config`/`validate`, `EventMatcher::from_config`, `match_events` |
| **SQLite store** `storage/src/db.rs` | one connection behind a `Mutex`; event tables, `_indexer_state`, `_reorg_journal` | `apply_block`, `rollback_from_height`, `prune_journal`, `get_last_processed_block`, `get_last_index_block_hash`, `query_table`, `table_row_counts` |
| **Reorg detection** `storage/src/reorg.rs` | none | `detect_reorg`, `handle_reorg` |
| **Event listener and pipeline** `server/src/http.rs` | tasks on tokio's blocking pool | `handle_new_block`, `process_block`, `run`; the other handlers only log |
| **Metrics** `server/src/metrics.rs` | gauges, counters, a histogram | set by `process_block`, rendered by `/metrics` |
| **Subscriptions** `server/src/graphql.rs` | a tokio broadcast channel of 1024 messages, a receiver per subscription | `event_tx.send`, `rx.recv` |
| **GraphQL queries** `server/src/graphql.rs` | none (reads the store) | one query field per table with `limit`, `offset`, `orderBy`, `where` |
| **Backfill** `storage/src/backfill.rs` | none | `backfill_gaps`, which nothing calls |
| **Clarity decoder** `core/src/clarity` | none | `decode_clarity_value`, a recursive parser of consensus-serialized values |
| **Threads and the mutex** `cli/src/main.rs`, `http.rs`, `db.rs` | tokio's workers and blocking pool, the `std` mutex of `Database` | whatever locks: handlers and resolvers on workers, `process_block` on the pool |
| **Command line** `cli/src` | none | `dev`, `start`, `status`, `reset`, `init`, `codegen` |

### How the parts interact

`POST /new_block` is answered 200 *before* anything is done with the block: the
handler queues `process_block` on the blocking pool (`http.rs:124`). The pool
has many threads, so calls of `process_block` overlap. One call does the
following, each numbered line under its own acquisition of the database's mutex
and the mutex free in between:

1. `detect_reorg`: read the tip's hash and compare it with the block's parent;
2. if they differ, `rollback_from_height(block_height)`, a transaction;
3. match the events, then `apply_block`, a transaction;
4. set the gauge of the last height, broadcast one `new_block` message and one
   message per matched event (no lock);
5. if the height is a multiple of 100, `prune_journal(100)`: read the tip;
6. and, under the lock again, delete the journal entries below the cutoff.

The first error ends the call with a log line. GraphQL queries and subscribers
read the store and the channel at any time. Nothing is handed over at
shutdown: what is not committed is lost.

### What is hard about it

- *Interleavings.* Steps 1 to 6 of different blocks mix freely. There is no
  uniqueness constraint in the schema that would catch a block stored twice.
- *Forks.* A rollback starts at the height of the block that revealed the fork,
  which is the fork point only if the node announces all of the new branch.
- *The journal.* Rows are deleted by table and `_id` alone, as the journal says.
  So an `_id` must never be reused, an entry must never outlive its row, and a
  prune must never remove an entry that a later rollback needs.
- *Delivery.* The node retries, so a block can arrive again, at once or after
  newer ones. Blocks announced while the server is down are lost.
- *Stopping.* The process may be killed between any two of the steps. The power
  may fail too, and with `synchronous = NORMAL` take the last commits with it.
- *One mutex, two kinds of threads.* Resolvers and `/health` wait for the `std`
  mutex on tokio's worker threads, `process_block` on the pool's. The mutex is
  not reentrant, and the process only ends when no thread waits any more.
- *Failure.* Any of the database operations may fail after the one before it
  was committed.

### What makes each component correct

- Store: rows, journal and `_indexer_state` never drift apart. A rollback
  deletes exactly the rows of the blocks it forgets; a stored block has all its
  rows; no `_id` names two rows.
- Pipeline: when everything accepted is processed, the index is the node's
  branch, no more and no less. Readers see a linked chain in between. No height
  is stored twice. Every accepted block is eventually done with.
- Prune: no rollback leaves rows behind but of blocks deeper than `keep_blocks`.
- Feed: a block's messages are sent once for each time it was stored, in their
  order, after the block can be queried.
- Threads: none waits for itself, every request is answered, ctrl-c ends the
  process.
- Decoder: what contracts emit is shown as the table in `clarity/mod.rs` says;
  what is cut short or damaged is never taken for another value.
- Queries: a client that pages upwards sees no row twice, and misses of what
  lasts no more than rollbacks moved out of its way; filters split the rows.
- Backfill: it stores no height above a missing one and none twice.
- Matcher: an event goes to exactly the tables whose rule is for its contract
  and type, once, in the order of the block.

`PROJECT.json` lists the hazards one by one, at their lines, with the
properties that would catch them.

## The modules

| Module | Models | Kind |
|---|---|---|
| `BlockTree` | the blocks a node may announce: parents, heights, branches | external, constants only |
| `Database` | `db.rs`: the writes, the reads of the tip | component |
| `Indexer` | `http.rs`, `reorg.rs`, the gauge, the sending side of the channel; EXTENDS `Database` | composition |
| `ChainStore` | what the storage crate promises to readers | abstract specification |
| `Matcher` | configuration, raw events, matching | component |
| `Subscriptions` | the broadcast channel and the streams that read it (`graphql.rs`, `http.rs`) | component |
| `Backfill` | `backfill_gaps` over restarts, and what is stored live in between; EXTENDS `Database` | composition |
| `Queries` | a client that filters and pages through a table while blocks come and go; EXTENDS `Database` | composition |
| `Runtime` | worker threads, the blocking pool and the mutex they share (`main.rs`, `http.rs`, `db.rs`) | component |
| `Clarity` | the decoder (`clarity/decoder.rs`) | pure function |
| `ClarityValues` | the values to decode and their serialization; EXTENDS `Clarity` | reference definition |
| `MC…` | small instances for TLC | model checking |
| `DatabaseProofs`, `SubscriptionsProofs`, `BackfillProofs`, `RuntimeProofs`, `QueriesProofs`, `MatcherProofs` | theorems about one module each | proofs |
| `IndexerProofs` | theorems about `Indexer`, in general and in the setting it is designed for, and about `ChainStore`, which it implements there | proofs |
| `ClarityProofs` | theorems about `Clarity` and `ClarityValues` | proofs |

### Database

Every operation of `db.rs` that writes is one transaction under the mutex, so
it is one action; a failing one is rolled back and is no step at all.

| Variable | Code |
|---|---|
| `eventRows` | all event tables. A row is its table, `_id`, block, and the index of the matched event it came from |
| `reorgJournal` | `_reorg_journal`: `table_name`, `row_id`, `block_height`. The `operation` column is always `INSERT` and is left out |
| `indexerState` | `_indexer_state`, as the number of rows each block has in it: the table has no key |
| `lastRowId` | `sqlite_sequence`: the event tables are `AUTOINCREMENT` |
| `prunedTo` | history only: the highest cutoff a prune used. No action reads it |

`ApplyBlock`, `RollbackFromHeight` and `DeleteJournalBelow` are the three
writes. `DeleteJournalBelow` takes its cutoff as an argument, because
`prune_journal` reads the tip under an earlier lock. `TipBlocks` is the answer
of `ORDER BY block_height DESC LIMIT 1`: a *set*, for SQLite may return any of
the rows that tie. `DatabaseSpec` lets the three operations run in any order
with any arguments, so what holds of it holds whoever calls.

### Indexer

The node's own branch ends in `head`. It changes when the node adopts a block
(`Adopt`), and stays when it sends one again (`Retry`): the newest one, or with
`LateRetries` any that it announced.

`Threads` are the pool's threads, each with a `pc` that names the next critical
section of `process_block`:

| Action | Code |
|---|---|
| `NewBlock` | `handle_new_block`: answer, then queue |
| `MissedBlock` | the node announces to a server that is down |
| `Take` | the pool starts a queued `process_block` |
| `Detect` | `detect_reorg` |
| `HandleReorg` | `handle_reorg` → `rollback_from_height` |
| `Store` | `match_events` and `apply_block` |
| `SetMetrics` | `last_block_height.set` |
| `PublishBlock`, `PublishEvent` | one `event_tx.send` each |
| `PruneRead`, `PruneDelete` | the two locks of `prune_journal` |
| `DatabaseError` | any database operation fails: `process_block` returns |
| `CtrlC`, `CancelQueued`, `Exit`, `Kill`, `Start` | `run` returns and the runtime waits for the running blocks; the process dies; `run` again |

What the matcher makes of each block is the constant `Matched`, since
`match_events` is a function of the block and of an immutable configuration.
The modulus 100 and the 100 blocks of journal are `PruneEvery` and
`KeepBlocks`. The counters of the metrics only count, so they are left out.
`feed` and `commits` are histories: how often each message was sent and each
block stored.

### ChainStore

The promise to readers: the store shows a chain whose blocks are linked, with
each matched event of these blocks once. It changes by a block on the tip with
all its events at once, or by losing its upper blocks with theirs. `Indexer`
maps `chain` to the blocks in `_indexer_state` and `shown` to the number of
rows of each event (`ImplementsChainStore`).

### Matcher

`LoadConfig` is `load_config`: an invalid configuration stops the program.
`NextEvent` is one turn of the loop of `match_events`. A rule is at a position,
its source and its place in it; `VisitedBefore` is the order in which
`from_config` lines the rules up, and what an event matches is pushed in that
order (`Pushed`). Identifiers are
sequences of words, not characters, which is enough to tell equality from
`starts_with` and to cut an asset at `::`. The payload of an event beyond its
contract or asset identifier plays no part in the decisions, and is left out.

### Subscriptions

`Send` is any `event_tx.send`; the topic of a message is its table, or
`new_block`. With threads side by side any order of topics can occur, so the
module takes any. `published` is the history of all sends, `channel` those that
entered the channel (none do while there is no receiver), `next[s]` the cursor
of a receiver. `Receive` and `Lag` are the two outcomes of `rx.recv()` in
`while let Ok(ev)`. The channel overwrites messages more than `Capacity` back,
which is the condition of `Lag`; the program has 1024.

### Backfill

One action per `await`, `?` and loop turn of `backfill_gaps`. The node may
adopt a block between any two of them, on its branch or on a fork of it.
`backfill_gaps` has no caller in the repository; its documentation says it runs
at start-up, before blocks are listened to, and that the indexer "can still start
in live-listen mode" however it ends. So that is how the model goes on: `Listen`,
`LiveDetect`, `LiveRollback` and `LiveStore` are the pipeline, here with one block
after the other (threads, broadcast and prune are in `Indexer`), until the process
stops and the next start runs `backfill_gaps` again. `live` is the history of
which stored blocks came that way.

`disk` is the store as a power failure would leave it: `Checkpoint` brings it up to
the commits so far at moments of SQLite's choice, as a WAL with `synchronous =
NORMAL` does, and `PowerFails` goes back to it. `Reset` is the `reset` command,
given while no process runs: the next start finds an empty store.

### Queries

`Page` is `query_table` with `limit` and `offset`, ordered by `_id` up or down:
`Ordered` puts each row at its `Place`, one behind the rows that are `Ahead` of it.
The `where` argument is cut into filters as `parse_where` does, and `Holds` has
the operators but `like`. SQLite's comparison is modelled by what it does: an
integer is below every text, a text next to an `INTEGER` column becomes a number
if it looks like one, and a missing field is `NULL`. Payloads are represented by
one field, `amount`, which the node writes as a text. What stands for a value in
`where` is digits, which are a number unless they begin with a zero, or a text;
negative numbers, fractions, `true`, `false` and `null` are left out.

Between two pages any block may be stored, rolled back or pruned: the pipeline's
threads can store a block below one that is there, or once more, so a rollback
may take the first rows of the table and leave later ones.

### Runtime

Each thread has a critical section, which it waits for (`"lock"`) or is in
(`"run"`); `holder` is the mutex. `Read` and `FinishRead` are `/health`,
`indexerStatus` and the resolver of each table; `NewBlock` is `handle_new_block`,
which takes one poll. `FinishSection` goes from one section of `process_block`
to the next or, after an error, back: which of them is open here, since the data
that decides it is in `Indexer`. `CtrlC`, `CancelQueued` and `Exit` are the end of
`main`: handlers are not polled again, queued blocks may be dropped, and every
thread is waited for.

### Clarity and ClarityValues

`DecodeClarityValue` is translated function by function: a cursor, `Try` for
Rust's `?`, and one operator per helper. `decode_value` calls itself; in the model
`ReadValue`, `ReadItems` and `ReadFields` are one call each, handed the answers to
the calls they make (`inner`), and `Calls` is the recursive function over the number
of calls that may be open. `DecodeValue` allows twice as many as there are bytes and
one more, which is always enough: `TooDeep`, which is no result of the code, is
never returned (`DecoderEnds`). Left out are the decimal and hexadecimal
digits of the JSON, and the double SHA-256, which is the constant function `Checksum`.

`ClarityValues` builds values step by step (`values` holds those that are not yet
part of another, `parts` counts) and serializes them independently of
the decoder (`Encode`); its addresses take the digits of one number (`C32Groups`),
where the decoder divides bytes by 32. The tags and the JSON (`LeafShown`, and
what the actions show) are the table in `clarity/mod.rs`. A part is put in front of
those that are there, as `ReadItems` and `ReadFields` put together what they read.

### Mutants

Operators named `Mutant…` stand before the definition of which they are a wrong
version: a dropped guard, an off-by-one, a forgotten update. Replacing the
definition by its mutant must make TLC report the property that `PROJECT.json`
pairs it with. This shows that each property can fail for a plausible slip in
the code.

## The runs

| Run | Question | Instance |
|---|---|---|
| `database` | Do rows, journal and `_indexer_state` stay consistent in *any* order of calls? | two rival blocks above a common parent, two tables, at most 5 `_id`s per table |
| `indexer_serial` | Does the design work as intended: one thread, a node that replays the branch it turns to and retries only its newest block? Safety, refinement of `ChainStore`, convergence | six blocks, forks of depth 1 and 2, each announced up to twice, prune at every second height, one block of journal kept |
| `indexer_concurrent` | What holds whatever two threads do side by side, and does the pipeline always empty? | two rival blocks above a common parent, one block announced twice, late retries, no journal kept below the tip, a fault, a stop |
| `matcher` | Does the matcher select exactly the configured events? | all pairs of sources over two contracts, the wildcard and a name without `.`; all kinds of raw events, two per block |
| `subscriptions` | What does a stream pass on, and when does it end? | two streams of different topics, a channel of two messages, four sends |
| `backfill` | What is left behind by failed, stopped and repeated runs, power failures and resets? | a node with two branches of different heights, the live pipeline between two runs, two failures |
| `queries` | What may a client miss or see twice, and what does a filter select? | two rival blocks above a common parent with one or two rows, pages of one row, five `_id`s, filters on numbers and texts, quoted or not |
| `clarity` | Does the decoder show every value as documented, and notice what is cut short or damaged? | values of up to three parts over all 15 types; integers, lengths and hashes of two bytes |
| `runtime` | Can threads wait in vain for the mutex, can blocks keep the workers busy, does the process end? | two workers, two threads of the pool, three blocks, two reads |
| `fork_point`, `lost_block`, `prefix_match` | see [Findings](#findings) | |

### Why the bounds are enough

- *Database.* Consistency is about one row, its entry and its block. A conflict
  takes two blocks that share a height and a table, plus one below them, and a
  block with two events in one table (the `_id`s of a block are consecutive).
  Five `_id`s let the larger of the two be stored, rolled back and stored again,
  with its rival before or after.
- *Blocks.* A fork of depth two is the shortest with a block strictly between
  fork point and tip, so a rollback over several heights, a rollback at the tip
  and a turn back to the first branch all occur. `KeepBlocks = 1` with
  `ForkDepth = 2` is the tightest setting in which the journal suffices. In the
  program that is 100 blocks of journal and forks that replace up to 101.
- *Deliveries.* Two deliveries of a block make it compete with itself. With
  `LateRetries` the second may come when a higher block is stored already.
- *Rivals.* Two blocks of one height and one delivery more, for two threads: one
  more than the two that can be stored after the same check of the tip. The
  rivals lie at the height at which the journal is pruned, and `KeepBlocks = 0`
  makes the height below it the first that a prune may not spare.
- *Threads.* The critical sections that race are two (check and store, or read
  and delete), so two threads already show all the races of the findings.
- *Channel.* With capacity two and four sends a receiver can be level, behind,
  at the limit and beyond it, and another can open or close at each point.
- *Backfill.* Two runs: one that breaks off, so that the live pipeline can store a
  block above the gap, and one that goes on from there, on the same branch or
  another. Four heights leave room for both. The properties are about heights, so
  the blocks have no events.
- *Pages.* Pages of one row let a write fall between any two rows. Five `_id`s
  are enough to roll back rows that were read and to store others in their place,
  and to take the first row of the table while a later one lasts.
- *Filters.* The instance has amounts of equal and different length, an event
  without one, and values that are numbers, texts that look like numbers, digits
  that are no number in JSON, and other texts.
- *Values.* A value of three parts is a list or tuple of two others, or nested
  twice, so that something can stand before it, behind it and around it. TLC's integers have 32 bits, so the 16
  bytes of an integer, the 4 of a length and the 20 of a hash are all 2: enough
  for every sign, for a carry between bytes and for zero bytes in front. The
  damage sets each byte to the tag `uint`, to the smallest number that is no
  tag, to a character of one byte and to the first byte of a longer one.
- *Threads and requests.* With two workers and two reads every worker can wait
  for the mutex while both threads of the pool do; three blocks leave one queued
  behind two that are processed.
- *Faults and stops.* One of each hits every step in every state; a second
  would meet the same states again, since a restart keeps the store alone.

`CHECK_DEADLOCK FALSE` is set because the node may fall silent at any time: the
bounds on deliveries make every behaviour end. In `runtime` the server stops.

### What they show

**The store by itself is sound.** In whatever order its operations run, `_id`s
are unique (`RowIdsUnique`), each journal entry names a live row of the height
it is filed under (`JournalSound`), and a row without entry lies below a pruned
height (`RowsJournaled`). A row whose block is forgotten lies there too
(`NoOrphans`), stored blocks are complete (`StoredComplete`), each event has as
many rows as its block has entries in `_indexer_state` (`RowsPerState`), and no
step takes a row from a block that stays (`RowsLeaveWithTheirBlock`).

**One thread and a replaying node give the intended index.** At rest it is
exactly the branch of the node (`IndexMatchesBranch`) and it settles there
(`Converges`), and the gauge agrees (`GaugeShowsTip`). Readers see a linked chain
with exactly its events at every moment (`ImplementsChainStore`): nothing of
another branch is left when a block is stored, and no row is orphaned. This is
so for retries that come before the next block. One that comes later is taken for a
reorg: see *Also noticed*.

**Less survives faults.** With one thread no height is stored twice
(`OnePerHeight`): the run shows it for forks and repeated deliveries, the theorem
`SerialOnePerHeight` whatever else goes wrong. The index may then have gaps,
which the code neither detects nor fills.

**Still less survives concurrency.** The threads use the store by whole
transactions, so all of the first paragraph still holds. But a height may be
stored once per thread (`CopiesBounded`), and the findings below show what is
lost. Between the two locks of `prune_journal` another thread may roll back, so
that entries near the new tip are deleted; what a later rollback then leaves
behind is still only rows of blocks more than `keep_blocks` below the highest
block ever announced (`OrphansLieDeep`). The messages of different blocks mix, and
may follow the rollback of their block. But each block's are sent in their order,
and once for each time the block was stored, unless the process was stopped
(`FeedMatchesCommits`). The pipeline always empties (`Drains`).

**Streams have no gaps.** What a stream passes on is every message of its topic
from its opening to some point (`NoSilentGap`): there is never one missing
between two that came. What is published after that point is ahead of it in the
channel (`NothingBypasses`), and an open stream whose client keeps reading gets
it (`Delivered`). Whether the server leaves it open is another matter (below).

**The mutex is enough, but not free.** No thread that holds it waits for it again
(`NeverWaitsForItself`), so every request gets its answer (`Answered`) and after
ctrl-c the process ends (`Stops`). Blocks in process never occupy a worker; only
reads do (`BusyOnlyWithReads`). But as many reads as there are workers can all
wait for one long `apply_block`, and then the "200 immediately" of `http.rs:122`
waits with them.

**The decoder follows its table.** Every value is shown as documented, in either
case of the hex digits and whatever follows it (`RoundTrip`). Cut short anywhere
it is an error (`CutShortIsNoticed`), and with a byte damaged the decoder decides
by the bytes up to where it stops (`DamageIsContained`).

**Backfill itself leaves no gap, but what follows it does.** Wherever it breaks
off, `backfill_gaps` has stored no block above a missing height, and a run that
ends has reached the tip it was told (`FillsToTip`). A height is stored once
(`OncePerHeight`). But when a run breaks off and the indexer goes on to listen, the
next live block is stored above the gap, and later runs look at the last height
only: that gap stays. `GapsAreLive` says that there is no other kind, also after a
power failure or a `reset`.

**Paging upwards misses only what a rollback moves.** By ascending `_id` rows come
in order and once (`AscendingInOrder`). When a rollback takes rows that the client
has received, those behind them move forward, past its next offset: it misses at
most as many lasting rows as were taken (`AscendingMissesAsTaken`), and none when
all it received is still there. By descending `_id`, the default, nothing is
missed while nothing is rolled back (`DescendingMissesNothing`), and rows can come
twice. A filter and its opposite split the rows that have the field
(`FiltersSplit`).

**The matcher is exact for names that are no prefixes of each other.** Events
go into a table once and in order (`OnceInBlockOrder`), all those configured
(`NothingMissed`) and no others (`OnlyConfigured`).

## Findings

Each is a run that TLC refutes, with the counterexample in its trace.

1. `fork_point`: `handle_reorg` says it rolls back *to the fork point*, and
   rolls back from the height of the new block. If the node announces 1, 2a,
   2b and then turns back with 3a on 2a, without replaying 2a, the fork point
   is below. 2b stays and 3a is stored on top of it.
2. `lost_block`: two threads, a chain without forks, no failure. Block 2 is
   stored before block 1 has checked the tip. Block 1 then takes 2 for a
   reorg and deletes it. Block 2 was answered 200, so it will not come again.
3. `prefix_match`: `asset_identifier.starts_with(contract)` also accepts the
   assets of a contract whose name merely begins with the configured one.

Also noticed, without a run of their own:

- `while let Ok` (`graphql.rs:86`) treats `RecvError::Lagged`, from which a
  receiver could go on, as the end of the stream (`Lag` in `Subscriptions`). A
  block with more matched events than the channel holds is enough, even if they
  are of other tables.
- A retry that comes after a newer block (`Retry` with `LateRetries`) is taken for
  a reorg: its parent is not the tip, so `handle_reorg` deletes the newer blocks,
  which were answered and do not come again (`reorg.rs:18`, `reorg.rs:46`). No
  second thread is needed: with `Threads = {"w1"}`, `LateRetries = TRUE`,
  `MaxDeliveries = 2` and `MaxRepeated = 1`, `LostBlock.cfg` is violated that way too.
- Between the read and the delete of `prune_journal` another thread can roll back,
  and entries that are *not* `keep_blocks` behind the tip are deleted (`db.rs:277`).
- A gap below a block that was stored live is never filled (`backfill.rs:29`), as
  above.
- The backfill stores what it fetches without the reorg check of the pipeline
  (`backfill.rs:45`). If the node turned to another branch meanwhile, its block
  is stored on top of the wrong parent; what `Backfill` promises is about
  heights for this reason.
- `start_block` is documented as the height to start indexing from *(for
  backfill)*, and no code reads it: the backfill of an empty store begins at 1.
- `where: "amount:gt:5"` compares the number 5 with amounts that are texts, and
  every text is above every number; `amount:eq:5` finds nothing. Quoted
  (`amount:gt:"5"`) the texts are compared byte by byte, so `10` is below `5`
  (`graphql.rs:214`, `db.rs:346`). A part of `where` without three pieces is
  ignored, and an operator that does not exist is `=`.
- The decoder accepts bytes behind the value, any UTF-8 in a string-ascii, and
  two fields of one name (the last one counts). Versions that differ by 32 share
  a letter.
- `run` gives the ports up before the blocks in process are done
  (`http.rs:98`): a server started at once writes beside the old one. Their
  threads then act on the store as those of one pool with more threads.

## Assumptions

**The node** (not in the repository) announces a block after its parent. It may
announce a block again. With `ReplayForks` it announces the whole of a branch
it turns to, from the fork upwards; without, any block whose parent it has
announced. Both are used, and each run says which. A retry comes before the next
block, or with `LateRetries` at any time. `ForkDepth` bounds how far
below the highest block it still changes branches. Heights grow by one from
parent to child.

**SQLite** commits a transaction as a whole or not at all, and an
`AUTOINCREMENT` key is never given out again. A killed process keeps all that
was committed. A power failure may take the last commits, never one from the
middle (`disk` in `Backfill`; `Indexer` has no power failures).

**tokio** starts queued blocking tasks in the order they were queued. At
shutdown it waits for those running, and may run or drop those still queued.

**Fairness.** `FairSpec` is weak fairness of `Work(t)` for each thread `t`: a
pool thread is an OS thread, and it goes on with the block it has and takes the
next one while there is one. The mutex is held for one critical section at a
time, so no step of a thread is disabled by another for ever. No fairness is
assumed of the node, of ctrl-c, of faults or of a restart. `Drains` therefore
also covers a server that never comes up again, and `Converges` says where the
index ends when the node falls silent.

In `Runtime` each worker and each thread of the pool is weakly fair, and so is
the end of the runtime. The `std` mutex is *not* fair: a thread that waits can be
passed over as often as others come. It gets its turn because those others are
finitely many, in the model by its number of requests, in the program as long as
reads do not come faster than they are answered.

## The proofs

`tlapm` checks all eight modules of proofs to the last leaf. Nothing is assumed but the named
assumptions of the constants (`NoBlockAssumption`, `ParentAssumption`,
`HeightAssumption`, `MatchedAssumption`, `ThreadsAssumption`,
`PruneAssumption`, `ForkAssumption`, `BoundsAssumption`, `BackfillAssumption`,
`TopicAssumption`, `CapacityAssumption`, `RuntimeAssumption`, `QueryAssumption`,
`MatcherAssumption`, `WidthAssumption`, `ValuesAssumption`). Each is the type of a
constant, that of a tree of blocks, or what a contract can emit: texts are UTF-8, and
numbers and lengths fit the bytes they are written in.
The constants themselves are free: any tree, any tables and matches, any number of
threads, and bounds of any size. Where a theorem needs more, its own ASSUME says
so: one thread, finitely many threads, the setting of the design
(`SerialSetting`), names that are apart (`NamesApart`).

Every inductive invariant was an invariant of a TLC run before it was proved, but
for that of `ClarityProofs`, which speaks of all texts a part may stand in.

**DatabaseProofs.** The safety properties of the store follow from `StoreInv`.
No single one of them is inductive. A rollback deletes rows *by `_id`*, so that
it deletes the right ones needs `RowIdsUnique` together with `JournalSound`.
Those stay true because `apply_block` hands out `_id`s above `lastRowId` only
(`Ordinal` is injective within a table), so no new row meets an old entry. That
the deleted rows are *all* of those of the forgotten blocks needs
`RowsJournaled`, whose exception below `prunedTo` only a prune can widen.

- `StoreCorrect`: `StoreInv` is an invariant of `DatabaseSpec`.
- `StoreTypes`, `StoreIdsUnique`, `StoreJournalSound`, `StoreRowsJournaled`,
  `StoreNoOrphans`, `StoreComplete`: `DatabaseTypeOK`, `RowIdsUnique`,
  `JournalSound`, `RowsJournaled`, `NoOrphans`, `StoredComplete`.
- `StoreRowsLeave`: the action property `RowsLeaveWithTheirBlock`.
- `StoreRowsPerState`: `RowsPerState`, a count and so stronger than
  `StoredComplete` and `NoOrphans`. Storing a block adds one row for each of its
  events, the row whose `_id` follows the last one by the event's `Ordinal`
  (`RowIdsUnique` tells it from all others), and one entry to `_indexer_state`. A
  rollback takes all rows of a forgotten block that is not below a pruned height,
  since `StoreInv` has an entry for each, and none of a block that stays.

TLC checks `DatabaseTypeOK` as a part of the `TypeOK` of `Indexer`.

**IndexerProofs.**

- `IndexerTypes`: `TypeOK` for any number of threads, faults and stops.
- `IndexerNoOrphans`, `IndexerComplete`: the store's theorems hold of the running
  program with all its threads, for each of its steps is a transaction of the
  store or leaves it alone, stops and faults included.
- `IndexerRowsPerState`: so does the count. Blocks stored twice by threads that
  raced have their rows twice, and lose them together.
- `IndexerCopiesBounded`: `CopiesBounded` for any finite number of threads. What
  is inductive is the sum: the rows a height has in `_indexer_state`, and the
  threads that have checked the tip and are about to add one. When a thread comes
  to the second part, because the tip is its block's parent or because it has just
  rolled back, its height has no rows, so only threads are counted. When it stores,
  it leaves the second part as its row comes to the first.
- `IndexerOrphansDeep`: `OrphansLieDeep`, for any number of threads. No cutoff,
  applied or only computed, comes nearer than `KeepBlocks` to the highest block
  announced (`DeepInv`): a tip that was read belongs to a block that was stored, and
  so announced, and announcements are not taken back when the tip is.
- `IndexerFeedMatches`: `FeedMatchesCommits` for any finite number of threads. Each
  commit of a block is accounted for, message by message: it was sent, or a thread
  still owes it, or it was lost when the process died (`Accounted`). That none
  overtakes the one before it is inductive only when those are subtracted which owe
  this one and not the other.
- `SerialOnePerHeight`: with one thread (`\A s, t \in Threads : s = t`),
  `OnePerHeight`. The invariant it needs is that, when the thread is about to
  store, everything stored is below the height of its block. `Detect`
  establishes it when the parent is the tip, since heights grow by one from
  parent to child. `HandleReorg` does so by deletion. It survives until the
  store, for no other thread can write in between. That last step is what fails
  with a second thread.
- `SerialGauge`: with one thread, `GaugeShowsTip` until an operation fails. It does
  not need the node to replay its forks. The invariant is `TipLine`: a block stored
  above all others is the tip, so from the store on the height of the thread's block
  is that of the tip, and so is the gauge once it is set. The condition `faults = 0`
  is needed: an `apply_block` that fails after its rollback leaves the gauge at a
  height that is gone.

**IndexerProofs, the setting of the design.** What the README of the repository
intends, and what it takes.
`SerialSetting` is:

- one thread: with two, `lost_block` shows the chain break without any fork;
- a node that replays its forks (`ReplayForks`): otherwise `fork_point` shows a
  block stored on another branch;
- retries that come before the next block (`~ LateRetries`): a later one deletes the
  newer blocks;
- forks that replace at most one block more than the journal is kept for
  (`ForkDepth <= KeepBlocks + 1`): a deeper rollback would meet pruned heights,
  whose rows it cannot find;
- no failing operation and no stop: a block that is not stored leaves a gap that
  the next one is put on top of, as `http.rs` neither retries nor looks back;
- blocks without a known parent are the lowest: a node that begins at a height
  does so for all branches.

`indexer_serial` is an instance of it. For all others, every tree and every
number of deliveries:

- `DesignMatchesBranch`, `DesignForkPoint`: `IndexMatchesBranch`,
  `RolledBackToForkPoint`.
- `DesignImplementsChainStore`: `ImplementsChainStore`, that is `Spec =>
  Chain!Spec`. `Store` is `Extend`, `HandleReorg` is `Rewind` or a stutter, and
  all else stutters.
- `ChainLinked`, `ChainExact`: under `ChainStore` every block shown is an ancestor
  of every block at its height or above (so there is one per height and no gap
  between branches), and the events shown are those of the chain. With the
  refinement they hold of what readers of the indexer see: `DesignReaders`.

The invariant (`DesignInv`) says for each step of `process_block` what is stored:
before the block, the branch of the block processed last (`Done`); when it is
about to be stored, its own branch without it; afterwards, its own branch
(`StageInv`). It is inductive together with the queue, in which each block has its
parent on the branch of the one before (`QueueInv`: this is where the replaying
node comes in), and with `DepthInv`: no block still to come is below a pruned
height. So rollbacks find their rows, and the count of rows is exact at *every*
height (`RowsExact`), where the theorems of the store except pruned ones. About `Lineage`, which is defined
as the least set that holds a block and the parents of its members, the proofs
need that it is the block on top of its parent's (`LineageStep`), that heights
in it are distinct, and that the branch of an ancestor is part of it.

**SubscriptionsProofs.** `StreamTypes`, `StreamsHaveNoGap` and
`StreamsMissNothing`, for any number of streams and any capacity. Neither
property is inductive by itself. That reading one message leaves no gap needs
that the channel is in the order of sending, that nothing ahead of a cursor has
been read, and that nothing published since the last read has bypassed the
channel. The last is true because an open stream is itself a receiver, and so
keeps messages from being dropped at the door.

**BackfillProofs.** `BackfillGapsAreLive`, `BackfillOncePerHeight` and
`BackfillFillsToTip`, for any tree, any moves of the node's tip, any blocks stored
live in between, and any number of failures and runs. The invariant says of the loop
that everything stored is below its height and that the height below it is stored,
and of the live pipeline that what is stored is below the block it is about to store.
That the first turn of the loop establishes the former needs that a store that is not
empty has a highest block: heights are bounded (`GoodStore`), and among blocks of
bounded heights one is least far from the bound (`HighestBlock`, by well-foundedness).
What holds of the store holds of its image on the disk, so a power failure is a step
back to an earlier good store (`RestoreIInv`). `BackfillTypeCorrect` gives the types.

**RuntimeProofs.** `TypeCorrect`, `NoSelfDeadlock` and `BlocksTakeNoWorker`, for
any number of threads and requests. That a worker is occupied by *its own* read
is inductive only together with: a read that is being polled is polled by one
worker, and workers are never at a section of `process_block`.

**QueriesProofs.** `PagesAscend`, `PagesMissAsTaken`, `PagesDescendMissNothing` and
`ConditionsSplit`, for any tree, pages of any length and all filters, with stores,
rollbacks and prunes in any order between any two pages. First the order of a page: that the places of
`n` rows are just `1..n` (`PlaceRange`, `PlaceTaken`) is an injection between
finite sets of the same size. `QueryInv` then says of the client that what is
beyond its offset has higher `_id`s than all it has got (`AheadOfGot`). A store keeps
that because its rows come last, a rollback because it brings rows only forward.
Downwards, while nothing is rolled back, of what lasts the client has got what is
before the offset (`Received`). Upwards the rows before the offset are at most as many as
those received, so when lasting rows among them were not received, as many that were
received are there no more (`MissedBeforeOffset`); what is beyond the offset is still
to come. `ConditionsSplit` needs no history: it is a case analysis of SQLite's
comparison, and that a number is the same one quoted or not.

**MatcherProofs.** `MatchedInOrder`, `MatcherMissesNothing` and
`MatcherOnlyConfigured`, for all configurations, events and blocks of any length.
The invariant is that the tables an event went to are exactly those of the rules
that matched it (`MatchedExactly`). That it is true of the sequence that is
pushed rests on the ranks of the rules, as for pages (`NthHit`); that no table
comes twice, on `validate`. The last theorem has the hypothesis
`NamesApart`: no configured contract is a proper prefix of one that has assets,
and none contains `::`. It is what separates the runs `matcher`, where it
holds, and `prefix_match`, where it does not. From it the proof gets that a prefix
of an asset's identifier that stops before the first `::` is a prefix of the
contract (`AssetContractCut`).

**ClarityProofs.** The decoder for data of any length, and values of any size, depth
and widths.

- `DecoderEnds`, `DecidesByPrefix`: of any bytes whatever, valid or not. Every call
  ends, with a value that lies within the bytes or with an error at an offset within
  them, and it depends on the bytes up to where it stopped and on no others.
- `AlwaysGood`: the inductive invariant. `AlwaysRoundTrip`, `AlwaysNoticed`,
  `AlwaysContained`: `RoundTrip`, `CutShortIsNoticed`, `DamageIsContained`.

All of this is induction, and the induction theorems of the library take an operator,
which no prover here can instantiate. `Induction` therefore speaks of a *set*: one
that holds 0 and with each number the next holds all numbers. Its own proof has no
induction: if a number were missing, so would the one before it, and an injection
would squeeze the missing ones below it into one fewer (`FS_PigeonHole`). That a
recursive function over `0..n` exists follows from it (`RecursionExists`).

The argument about the decoder compares two texts that share some bytes (`Overlap`),
one possibly ending among them. `Reads` says of a call what it returns in the first
(`Sound`) and in the second (`Mirrored`): the same value at the moved cursor, or, when
the second ends before, `UnexpectedEof`. Each helper has it, each call has it if the
calls it makes do (`CallsReadStep`), and there are always calls enough (`Enough`: a
value reads its tag before it makes a call, and a turn of a loop calls for a value).
A text against itself gives `DecoderEnds`, against its own prefix `DecidesByPrefix`,
against a text it is a part of `Moved`.

`IInv` says of each value in the making that its body, wherever it stands, is read as
the value or items or fields it is shown as (`Good`), and that no value's `size`
together with the number of values exceeds `parts`. The second half is needed because a
list or tuple that grew beyond what its length can tell would be read wrongly; merging
takes a value away and adds one to a size, so only the sum is bounded. Each action
keeps `Good` by one lemma (`LeafGood`, `WrappedGood`, `EmptyGood`, `ItemGood`,
`FieldGood`), which rest on digits and the numbers they spell (`DigitsSpell`,
two's complement included) and on addresses: the divisions of `c32_encode` give the
digits of the number that the bytes spell (`DivMod32Divides`, `DivisionsSpell`),
stop after twice as many as there are bytes at most, and the zeros in front are those
of the data (`C32Encodes`). For addresses `Checksum` is any function to bytes.

## Only model-checked

`Drains`, `Converges`, `Delivered`, `Answered` and `Stops`: liveness under
fairness, for which the provers have no backend here. All other properties of the
passing runs are theorems, those of the serial pipeline under the hypotheses named
above.

## Not modelled

- *The WebSocket protocol* above the streams: its flow control is why a stream
  may be read late, which `Subscriptions` allows at every step.
- *Orders by other fields than `_id`*, the operator `like`, numbers with a
  fraction or a sign, `true`, `false` and `null` in `where`, `table_row_counts`: the reading of one page again.
- *The building of the GraphQL schema*: a function of the configuration.
- *Command line and code generation*, but for `main` and `reset`: text output.
  A `reset` under a running server leaves it writing to an unlinked file.
- *Two server processes on one file*: see *Also noticed*.
- *Memory*: `Vec::with_capacity` of a claimed length (`decoder.rs:158`), the
  backlog of blocks, which nothing bounds.
- *Logging, timing, HTTP and JSON encodings, CORS, the playground.*

## Plan

Done, in this order: `BlockTree`, `Database`, its proofs, `Indexer`,
`ChainStore`, `Matcher`, the indexer's proofs, `Subscriptions`, `Backfill` and
their proofs, `Queries`, `Runtime` and its proofs, `Clarity`, power failures and
`reset` in `Backfill`, filters in `Queries`, the refinement of `ChainStore`, the
counts of rows and of copies, pages and filters, the matcher, the decoder. What is
left:

1. What `Runtime` needs for `Answered`, as invariants: who can be waited for.
2. Which order of two equal names in a tuple counts, and strings beyond ASCII in a
   string-ascii: what the decoder accepts that no contract emits.
