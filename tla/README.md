# TLA+ verification of ePHPm

ePHPm is a PHP application server in one binary: HTTP server, embedded PHP, a
Redis-compatible key-value store, SQL databases (embedded SQLite/Turso and
proxies to MySQL and PostgreSQL) and, in clustered mode, replication of both
stores over gossip and a cluster channel. This directory holds TLA+ models of
its clustered core and of its request and connection pools, the TLC runs that
check them and TLAPS proofs. Paths below
are relative to `src/crates/`.

## 1. Inventory

| Part | State it keeps | Operations | What is hard | Correct when |
|---|---|---|---|---|
| Clustered KV, small tier: `ephpm-cluster/src/{gossip_kv,gossip_writer}.rs` | stamp clock, coalescing queue, retirements, own chitchat state | stamp, enqueue, drain, retire, sweep, resolve | threads race on a key; queue coalesces; TTL ends anywhere; clocks go back | last writer wins on every node, whatever the order of delivery |
| Clustered KV, router: `clustered_store.rs` | `applied` map (stamp per key), local store, hot-key cache, verify set | write hooks, applier, verify/prune loop, large-value fan-out, catch-up gate, owner-routed conditional commands | record and copy must change together; re-read after unlock; shed publishes; prune | the copy is that of the recorded stamp; nodes converge |
| KV data plane, hand-off: `kv_data_plane.rs`, `kv_handoff.rs` | connection pool, transfer sessions | stamped get/set of large values, hand-off of keys of a leaving node | partial transfer, retry, stale answers | no newer value replaced by an older one |
| Cluster channel: `cluster_channel.rs`, `secure_transport.rs`, `reconnect.rs` | streams per connection, backoff | open, accept, close, reconnect | half-open streams, shutdown order | every stream ends; frames in order |
| SQLite primary election: `sqlite_election.rs` | role, own claim (TTL in gossip), boot time, log id | initial role, heartbeat, publish claim, resolve conflict | claims arrive late or expire in flight; wiped volumes; partitions | one primary; the incumbent stays; somebody leads in the end |
| Membership: `node.rs` | chitchat node, draining mark | nodes, mark_draining, join | views differ between nodes | views agree in the end |
| Per-site replication and ownership hand-off: `ephpm-server/src/{turso_cdc,site_version,handoff_gate}.rs` | database with epoch, watermark, source log, cursors per log; serving gate; settle task; replica stream; version advert | settle round, snapshot, install, mark epoch, subscribe, apply batch, forced reset, write through the gate | ownership moves at once with membership, role later; decisions over several awaits; crash between commits | no acknowledged write lost while a copy lives; one history per site |
| SQL forwarding: `ephpm-server/src/{sql_forward,site_wire_auth,user_locks}.rs`, `ephpm-php/src/db_bridge.rs` | session per PHP thread or MySQL connection, pinned to a node; stream to the owner; transaction and named locks of a stream | resolve, dial, forward, re-check ownership, refuse, recycle, GET_LOCK | ownership moves under open sessions; a client vanishes; late and lost replies | locks end with their session, whoever loses one is told; a demoted node executes nothing; stale sessions move on |
| KV store (local): `ephpm-kv/src/store/` | entries with TTL, memory count, hashes, watches | string and hash commands, eviction, scan, snapshot | read-modify-write races, memory limit | limit kept; conditional commands atomic |
| Job dispatcher: `ephpm-php/src/handoff.rs` | overflow queue, idle stack, a mailbox per thread, push waiters | push, wait for room, receive, park, close, retire | lost wake-ups; a thread dies with a job under way | one FIFO; every job in one place; nobody sleeps beside work |
| PHP worker and FPM pools: `ephpm-server/src/{worker_pool,fpm_pool,php_wait}.rs`, `ephpm-php/src/lib.rs` | counters live/hung/retiring, admission permits, PHP contexts, drain flag | dispatch, run, reply, deadline, mark hung, replace, retire, drain, shut PHP down | a timeout races an answer; crashes; counters read in steps | permits match places; the pool returns to its size; PHP is torn down alone |
| Drain and shutdown: `drain.rs`, `wal_gate.rs`, `db_shutdown.rs`, `php_wait.rs` | drain phase, snapshots in flight, checkpoint gate | announce leave, hand over, close, final checkpoint | order of five subsystems; late work after the checkpoint | logs are truncated last; heirs get their copy |
| Database proxies: `ephpm-db/src/` | permits, idle queue, connection per session, health, statistics | acquire, relay, reset, return, retire, prune, warm, ping, close | dials and pings fail or take long; maintenance beside sessions | permits conserved; one owner per connection; no state of one session seen by another |
| Rate limiter, user locks, WebSocket registry: `rate_limit.rs`, `user_locks.rs`, `ephpm-ws/` | windows, lock table, connections | allow, GET_LOCK, register | stale role while a lock waits | limits and exclusion |
| HTTP router, TLS/ACME, telemetry, static files, CLI, configuration, importer, analyzer, tests | per request | - | I/O and formatting | not modelled |

How they interact: a command changes the local KV store under the key's slot
and publishes through the gossip writer; peers' appliers take it from chitchat.
The election publishes its claims through the same gossip tier. Its role drives
the CDC driver of each database (follow, or lead). Requests, on the other hand,
follow the rendezvous owner of the membership view directly, through the
serving gate that the settle task opens; on any other node a bridge session or a
MySQL connection forwards them to the owner over the cluster channel. An HTTP
request reaches PHP through the admission permits and the dispatcher of a thread
pool, and a database of the proxies through the connection pool. A drain marks the node in gossip, which
moves every owner at once, and stops the drivers; snapshots are served until the
channel closes.

## 2. Modules

| Module | Models |
|---|---|
| `GossipKv`, `MCGossipKv` | small-value tier for one key: stamps, hooks, queue, drain, applier, verify, prune |
| `GossipKvProofs` | TLAPS proofs about `GossipKv` |
| `SqliteElection`, `MCSqliteElection` | election of the primary, whole database or one site |
| `SiteHandoff`, `MCSiteHandoff` | ownership of one site's database: gate, settle rounds, epochs, snapshots, replica stream |
| `JobQueue` | abstract specification of the dispatcher: one FIFO, a set of idle threads |
| `Handoff`, `MCHandoff` | the dispatcher itself; implements `JobQueue` |
| `PhpPool` | thread pools around the dispatcher; composes `JobQueue` with admission, deadlines, respawn and shutdown |
| `DbPool` | connection pool of the database proxies and the sessions that use it |
| `SqlForward`, `MCSqlForward` | forwarding of one site's SQL to its owner: sessions, streams, transactions, named locks |
| `SqliteElectionProofs`, `SiteHandoffProofs`, `HandoffProofs`, `PhpPoolProofs`, `DbPoolProofs`, `SqlForwardProofs` | TLAPS proofs about the module each is named after |
| `SeqLemmas` | facts about queues (push, pop, remove, join, injectivity) and finite sets that the proofs cite |

`PROJECT.json` maps every definition to its lines.

### GossipKv

One key. Keys share nothing but queue capacity, and `MayShed` lets other keys
fill the queues at any moment. A node has its stamp clock, its copy (`store`),
the recorded stamp (`applied`), the queue slot (`pending`, `retire`), the batch
taken from it, its own chitchat state and what it knows of the others' (`view`).
A worker thread runs a command in the steps between which the code releases the
key's slot: stamp (`Issue`, or `Incr` then `StampPublished` for a
read-modify-write), `ApplyLocal` or `SkipLocal`, `Publish`. `TakeBatch` and
`ApplyBatch` are the drain task, `Sweep` its clean-up, `Gossip` delivery and
applier in one step, `Verify` and `Prune` the maintenance loop. A relayed state
travels through any node that knows it. `Lapse` lets a deadline pass at any moment.
`log` is a history of accepted writes, `lost` remembers that a write expired in the
queue, or an entry was swept, before every running peer had heard of it: the code
sweeps a value one second after its deadline (`gossip_writer.rs:98`) and asks no peer.

Abstracted: values are numbers; encoding is the record it carries. Not modelled:
node restarts, hash fields, the large tier, the shutdown flush, the halving of
`applied` above its maximum size, out-of-memory in `set_local`.
Pruning with TTLs and a peer more than `APPLIED_HORIZON` (600 s) behind can break
convergence, which the code accepts; the run with pruning therefore issues SET only.

### SqliteElection

Time is in ticks: the 5 s heartbeat is 2, the 10 s TTL 4, the 15 s grace 6, and
a claim or a membership change needs at most 1 tick (2.5 s). `Tick` waits until
due heartbeats ran and overdue messages arrived. The failure detector gives up on a
silent node at any time after the tick it stopped in: chitchat's default threshold is
8 missed gossip rounds of 1 s (`node.rs:569-576`), more than a tick. Claims are kept by age, so the
state space is finite; two claims of the same tick are ordered by tag. `data`
says which nodes hold the cluster's data; `Replicate` (external here) copies it
to a replica of a primary.

### SiteHandoff

One site; nodes are numbered by rendezvous rank, so `Owner(n)` is the first node
that `n`'s view reports alive and not draining (`hrw_owner`). A copy is the set
of writes it contains, `<<log, change id>>`; `cdc[n]` is node `n`'s own log,
with what each entry was ("create" for the first write to an empty copy, which
brings the tables). Durable: `db` and `cdc`. Lost with the process: gate, role,
settle task, stream, membership view.

- The settle task is split at its awaits: `BeginRound` reads the local version
  and the membership, `ProbeVersion` and `AskForCopy` ask one peer, `InstallCopy`
  is the install scope and `InstallFails` its error arm, `NoCopyFound` the verdict.
  `settle_owner_version` is two statements on the database, `ReadEpoch` and
  `WriteEpoch`; when either fails (`PersistFails`) the gate opens all the same. The
  gate keeps its value during a round.
- The driver: `ObserveRole` (a promotion starts a new settle task),
  `StartAttempt` (fetch a snapshot, or tail), `Seed` (install under the seed
  lock), `Hello` and `Adopt` (the read and the write of `adopt_site_epoch`, which
  may fail), `Subscribe` and `SetSource` (two commits when the log changes),
  `ApplyBatch`, `LoseStream`. A pair of epoch statements runs inside `off_runtime`,
  which ends before its task can be dropped (`Midway`); the pairs of the two tasks
  interleave.
- A session opens on a node that owns the site in its own view, through its gate,
  whatever its elected role (`Serves`). `Write` is a statement of a session just
  opened, or of one of `held`: a local session is never checked again
  (`db_bridge.rs:1146`) and goes on through every change until it is closed.
  `Elected` abstracts the election to its result: a node names the owner in its view
  once that one holds the role.
- `Failing` and `Holding` are the nodes on which statements of the database may fail
  and sessions may stay open.
- An advert in gossip is read as its node's version of that moment: the sample it
  lags behind (at most `HEAD_SAMPLE_INTERVAL`) is left out; a reader may also
  find none.
- `PassGrace`: 15 s after its start a node and every running peer know each
  other.
- `Drain` models `announce_leave` with `stop_replication_drivers`; HTTP requests
  have ended by then, so a draining node takes no writes.

### JobQueue and Handoff

`JobQueue` is what the module documentation of `handoff.rs` promises. `Handoff`
has the code's steps: the idle stack and the queue change under one mutex (one
action each); a delivery stores the job (`Store`), swaps the mailbox state
(`Swap`) and unparks (`Unpark`); a thread polls, announces the park by CAS, checks
again and sleeps on its park token, with spurious wake-ups; a handler that finds
no room counts itself, registers with the `Notify`, tries again and sleeps, may
be cancelled at any time and passes the baton when room is left. A thread may
unwind out of its wait (`Retire`) while a delivery is under way; the job is then
re-routed. `Notify` is modelled with its stored permit, its FIFO and the passing
on of an unused wake-up. Spin budgets, adaptive or fixed, become the freedom to
stop polling at any time, and steering becomes the choice of the nearest spinning
mailbox. `Abstract` is the refinement mapping: the hand of a thread is the job it
holds, has in its mailbox, or is owed by a dispatcher that has popped it.

### PhpPool

Composes `JobQueue`'s actions (`Take`, `GoIdle`, `Serve`, `Enqueue`, ...) with the
pool: a request takes a FIFO permit, pushes its job, and waits for the reply until
its deadline; the thread gives the permit back and raises the start flag when it
begins. `live`, `hung` and `retiring` are atomics: a claim reads them and swaps
one (`ClaimRead`, `ClaimSwap`), the respawn gate reads the drain flag and then the
counters. Scripts in `Stuck` never return. `crashes` stands for recycles, panics,
contained crashes and failed boots, `spawnFails` for threads the system refuses.
The drain ends in `ShutdownFlag` and `EmbedShutdown`, which skips the module
teardown when a context is registered or was lost.

### DbPool

A task per client and the maintenance task; every await ends an action and the
lock of the idle queue is held for one. Whether an idle connection has expired,
needs a ping or is handed out at once is a free choice, since it depends on time
alone. Of a connection's content `used` keeps what sessions left on it, by kind.
"write": the effects of a command that the relay counts as a write, so that it marks
the session dirty (`WriteCommand`). "read": those of a SELECT that has some
(`GET_LOCK`, `@v := 1`, `INTO @v`), which `classify_mysql_query` takes for a read by
its first word (`StatefulRead`). "bytes": the rest of an answer that the best-effort
`has_unread_bytes` missed (`EndSession`). A reset clears the first two. At most
`MaxUnnoticed` residues of the last two kinds exist at a time. `Release` is the drop
of an owned permit.

### SqlForward

One site, one named lock. `Resolve` pins a session to the owner its node computes.
A local session runs on the local database until it ends (`RunLocal`). A forwarded
one dials a stream when it has none (`DialAndSend`), or when its stream rested for
`CLIENT_STREAM_MAX_IDLE` outside a transaction, and waits for the reply
(`Receive`, `ExchangeFails`, `ReplyTimeout`). At the owner a task per stream
accepts, reads a request, checks (`Check`: draining, then ownership if due) and
executes it; `End` drops session, transaction and locks. `Fails` is what an error
does to the session: the bridge drops it unless a transaction is open, a MySQL
connection (`Wire`) keeps its proxy. `rollback` and `release` are what
`end_request_on` sends. `Tick` is one `OWNER_RECHECK_INTERVAL`; `demoted` are the
nodes that have not owned the site for one. Stream numbers are used again once
both sides have forgotten a stream, so any number of sessions can follow each
other. `believes` are the clients that were granted the lock and have not seen a
statement fail since; `swapped` are those of them whose stream was replaced after a
rest, which loses the lock and tells nobody (section 4). `Disconnect` is the drop of
an idle session. The session of a retired thread is parked first and dropped at the
end of somebody's request (`db_bridge.rs:600-683`); while it is parked it is idle like
any other, so only the drop is a step.

## 3. Runs

| Run | Instance | Shows |
|---|---|---|
| `gossip_write` | 2 nodes, 3 threads, racing SETs, pruning, fairness | `NoStaleCopy`, `StoresConverge`, `NewestWriteWins`, `OwnStateAdvances`, `EventuallyConverged` |
| `gossip_ttl` | 3 nodes, SET/SETEX, nodes stop, full queues, deadlines that pass anywhere | `StoresConverge` through relays, unless something was shed or expired before a peer heard of it; `NoStaleCopy` |
| `gossip_all` | every command, full queues, deadlines that pass anywhere | `TypeOK`, `OneWritePerStamp` with clocks that stand still or go back |
| `election_single` | 2 nodes, 2 faults: crash, wiped restart, drain | `OnePrimary`, `IncumbentKept`, `Settles` |
| `election_site` | 2 nodes, crash, wiped restart or partition | `SettlesOnOwner` |
| `handoff` | 2 nodes, either crashes or the first leaves, and returns; statements may fail and sessions stay open on the second | `TypeOK`, `OwnerEpochRises`, `FoundsAfterGrace` |
| `handoff_served` | 2 nodes, the first crashes and returns, fairness | `Served`: one agreed owner serves, the other followed its log to the end |
| `dispatch` | 3 handlers, 2 threads, 1 queue place, 1 thread dies, close, symmetry | `ImplementsJobQueue`, `IdleOnlyWhenEmpty`, `NoSleeperBesideRoom`, `SleeperIsReachable`: no lost job, order or wake-up |
| `php_pool` | 2 requests (one never returns), target 1 thread, up to 3 alive, 1 crash, 1 refused spawn, drain with deadline, fairness | `PermitHolderFindsRoom`, `ContextsCounted`, `BackToTarget`, `AcceptedRuns` |
| `db_pool` | 3 sessions, 2 permits, 2 connections, minimum 1, strategy "smart", one unnoticed residue, fairness | `PermitsConserved`, `WaitersWait`, `OneOwner`, `StateStaysWithSession`, `WaiterServed` |
| `sql_forward` | 3 nodes, the second owns the site at first, a bridge session on the first, 1 fault, fairness | `LockDiesWithSession`, `DemotedIsQuiet`, `LossIsTold`, `AbandonedLockFreed`, `StaleForwardRecovers` |
| `bug_stale_local` | as before, the session runs on the owner | violation of `LocalWriteByOwner` |

Bounds. `MaxOps` bounds commands, `MaxWrites` the writes captured by one log,
`MaxFaults` crashes, drains and partitions. Two commands on two nodes already
give every order of stamp, local write, publish, drain and delivery; the third
thread of `gossip_write` gives two writers of one node against a third. Three
nodes are needed only for relays. In the hand-off a fault of the owner makes the
other node owner and its return makes it owner again, so one fault gives two
changes of ownership; a write per log is enough for each to hold something the
other has not. `Drain` followed at once by `Leave` reaches the states of a crash
too. `handoff_served` was also run with failing statements on the first node, which
changes nothing but takes five minutes. The single-database election with three nodes
was explored to the end once (17,035,836 states, 14 minutes) without an error; the run
has two, and what it shows of safety is proved for any number. In `dispatch` three handlers are needed for one job at a thread, one in the
queue and one that waits for room; the run checks safety and the refinement, for
which symmetry is sound. `php_pool` needs three thread names for a hung thread, its
replacement and the replacement of that one. In `db_pool` there are as many
connections as permits, so that the pool cannot outgrow its limit there (section
4); a third connection was explored too and breaks nothing else. In `sql_forward`
a fault is a node that starts (the third then out-ranks the owner), crashes or
leaves, an owner that is silent for the reply timeout, or a session that rests;
statements and sessions are unlimited, and the lock is contended by the client's
own abandoned streams. Its safety properties were also explored with two clients
and with three faults. `CHECK_DEADLOCK FALSE` stands where the bounds let the system come to rest.

Fairness. Only what the code keeps doing: the drain task wakes on its own
(`DRAIN_IDLE`), gossip and the verify loop are periodic, heartbeats repeat, the
settle task and the driver retry with backoff until they succeed (an install that is
tried again and again does not fail for ever), adverts lapse by TTL, a stopped process is started again by its supervisor and partitions end.
A pool thread that can run does, scripts outside `Stuck` end, deadlines pass and a
shutdown goes on once begun. A database session that holds a permit ends: dials,
pings and resets answer or fail; the pool timeout is not relied on. The owner's
stream tasks run, a client reads its reply, PHP threads keep serving requests
(weak fairness on forwarding) and every request ends, with a rollback if it left a
transaction open (strong fairness, since other statements may come first). MySQL
connections may be silent for ever. Client commands and faults are not fair.

## 4. Findings

`bug_stale_local`: a session resolved to the local database is never re-checked.
When a node joins that out-ranks the owner, the forwarded sessions of the old owner
are refused within a second, but its own local sessions go on writing to a database
that now is a replica, whose writes nobody replicates (`db_bridge.rs:1146`), against
`site_wire_auth.rs:123-125`: "Both paths trade \"an ownership move breaks open
sessions, loudly\" for never writing to a node whose writes do not replicate."

Disagreements without a run of their own. Each shows when the property named is
added to the run named with the constants given.

Key-value store (`gossip_ttl` with two nodes and `MayShed = FALSE`, property
`StoresConverge`; for the last two without the exceptions it makes):

- `Commands = {"set", "del"}`: `DEL` removes the local copy again after it released
  the slot (`clustered_store.rs:1490`) and destroys a write applied in between;
- `Commands = {"set", "expire"}`: `EXPIRE` of an absent key records a stamp it never
  publishes (`clustered_store.rs:2273`) and then refuses a peer's write;
- `Commands = {"set", "incr"}`, `MaxOps = 3`, `Wall = {0, 1}`: an increment changes the copy before it takes its
  stamp (`clustered_store.rs:2221`);
- a short TTL: a value that expires in the queue is never published
  (`gossip_writer.rs:395`), and one that expires after it was published is swept one
  second later whether or not a peer has it (`gossip_writer.rs:98`, `:440-449`). A peer
  that holds an older value without a deadline keeps it, while the writer reads nothing,
  against `gossip_kv.rs:112`: "which makes every node converge on one winner". The
  comment at `gossip_writer.rs:393-394` counts on "peers' copies (if any) expire on their
  own", which an older SET does not. `StoresConverge` and `NewestWriteWins` except it by
  `lost`;
- four nodes, `Commands = {"set"}`, `MayCrash = TRUE`: node 1 retires its own write
  because it has node 2's newer one; node 3 had applied the retired write, node 4 gets
  only the deletion; nodes 1 and 2 stop before either has node 2's write. Nodes 3 and 4
  then know the same chitchat states and read different values
  (`gossip_writer.rs:408`), against `gossip_kv.rs:112`: "which makes every node converge
  on one winner". It takes an exchange that carries one node's state and not
  another's, and two crashes within a gossip round. The proof of convergence
  needed `~MayCrash`, which is how this came up. `StoresConverge` excepts it by name: it
  asks nothing once two nodes have stopped.

A retirement drained before the node's own older write also leaves two holders of
one key (`gossip_writer.rs:408`, against `:40`); convergence is not affected.

Election:

- `EmptyNodeDoesNotLead` in `election_single`: after the grace the lowest id leads,
  also with a wiped volume while a node with the data runs (`sqlite_election.rs:945`,
  against `:53-54`);
- `Settles` with `MayPartition = TRUE`: after a healed partition two primaries
  persist while their heartbeats are closer to each other than the gossip delay
  (`sqlite_election.rs:723`);
- the fast reclaim of a restarted primary (`sqlite_election.rs:25-26`) never happens,
  since `resolve_locked` skips states under the node's own id (`gossip_kv.rs:440`);
- `wins_conflict` ignores that the node itself is draining
  (`sqlite_election.rs:843`), so a draining owner re-asserts its claim once.

That the incumbent stays (`sqlite_election.rs:12-16`) is `IncumbentKept`, a theorem for
any number of nodes. It rests on the failure detector taking longer than one gossip
delay, as chitchat's does: were a crash known everywhere in the very tick of the dead
primary's last refresh, its claim could outlive its successor's, and the successor would
elect again and step down for a node of lower id.

Site hand-off:

- `ReplaceIsLossless` in `handoff`: a warm replica that inherits a site keeps its
  open gate and takes writes while the settle round of its promotion compares heads
  of two different logs, finds the leaving owner "fresher" and replaces its copy
  (`turso_cdc.rs:4521`, against `:4563-4566`): the write acknowledged meanwhile is
  gone;
- `StaleCopyNotServed` in `handoff`: an interim owner takes writes as soon as
  membership names it, but marks an epoch only when promoted. If the first owner is
  back before that, the two versions tie on the epoch and the returning owner serves
  a copy without those writes (`turso_cdc.rs:4545`, against `:4542-4544`);
- an epoch may fall, against `turso_cdc.rs:1652`: "an epoch never moves backwards", and
  `:4701-4703`. `adopt_site_epoch` (`:1667-1673`) and `settle_owner_version`
  (`:4715-4721`) each read the epoch and write it in two statements. When membership
  names a replica the owner while its stream still subscribes, both run, and the
  adoption may write the lower one last. It takes a pair that stalls for the time the
  failure detector needs. TLC finds it with two nodes in 18 states when `OwnerEpochRises`
  is asked of every node; `OwnerEpochRises` asks it of the elected owner, whose stream
  has ended;
- a persist that fails opens the gate without a new epoch (`turso_cdc.rs:4733-4738`).
  The code says so ("Best-effort", `:4693`), with the reason that "a missing
  advertisement only ever *permits* a peer to serve". `OwnerEpochRises` therefore speaks
  of the epochs that are recorded, not of every stint;
- `FoundsOnce` in `handoff` with three nodes, `Crashing = {1}`, the other sets empty: a peer
  counts as holding no copy although it has fetched a snapshot it has not installed yet,
  since the bootstrap fetches before it takes the seed lock (`turso_cdc.rs:4912-4930`)
  and `serve_snapshot` does not look at that lock. Node 1 founds the site and crashes;
  node 3 has its snapshot in hand and answers node 2 that it has none; node 3 installs,
  node 2's verdict is `NewSite` (`turso_cdc.rs:4649`) and its next write founds the site
  again, against `turso_cdc.rs:4281-4282`: "Every alive peer answered that it holds no
  copy, and membership has had time to converge: the site is genuinely new." TLC finds
  it in 21 states. With two nodes and two faults (`Crashing = {1, 2}`, `Leaving = {1}`) a
  stale verdict is a second way, in 17 states: the founder crashes, starts again and
  drains, and node 2, which hears of it between its own verdict and its first write,
  founds the site again. What holds is `FoundsAfterGrace`.

SQL forwarding:

- `TxKeepsItsWrites` in `sql_forward` with `Statements = {"begin", "write"}`: after a
  stream broke inside a transaction the session is still `in_transaction` and the
  next statement dials a new stream, where it commits on its own
  (`sql_forward.rs:678`), against `sql_forward.rs:86-91`: "a forwarded `BEGIN` / ... /
  `COMMIT` all land on the same owner connection";
- a stream that rested outside a transaction is replaced before its next use although
  it holds a named lock (`sql_forward.rs:664-687`): the lock is released and the client
  is not told. `LossIsTold` excepts these clients by name (`swapped`), and is violated
  without the exception. A stream that rested inside a transaction, or that the owner
  closed meanwhile, is not excepted;
- a `GET_LOCK` that waits at a demoted owner was checked before it began to wait, so
  it is granted once the refused holder is dropped, later than the interval
  `sql_forward.rs:290-295` gives.

PHP pools:

- `TeardownAlone` in `php_pool`: a thread that passed the drain check of the respawn
  gate before the drain began spawns its replacement when `live` has already been
  seen at 0 (`fpm_pool.rs:891-912`, `worker_pool.rs:710-731`), and the replacement
  makes a PHP context beside `php_embed_shutdown`, against `worker_pool.rs:195-199`:
  "`0` during a drain means every worker thread's PHP context is fully retired";
- `HungIsJudged` in `php_pool`: a job whose request gave up before a thread began it
  is still run; if its script never returns nobody counts the thread as hung
  (`php_wait.rs:180`), against `docs/architecture/worker-mode-design.md:918`.
  `AcceptedRuns` excepts such threads (`Unjudged`);
- `fpm_pool.rs:563` "at most twice the configured threads alive" and
  `php_wait.rs:236-237` "each surplus slot is claimed once" are not exact: a
  recovered thread is counted in addition until the surplus retires, and a claim
  computed before another claimer came and went still finds `retiring` at the value
  it read. `BackToTarget` is what holds.

Database pool:

- under "smart" the state a SELECT leaves on a connection reaches the next session:
  `SELECT GET_LOCK(...)`, `SELECT @v := 1` and `SELECT ... INTO @v` are reads to
  `classify_mysql_query` (`mysql.rs:1506-1531`), the session stays clean and the
  connection goes back without a reset (`mysql.rs:447-452`). The configuration says so in
  half a sentence (`ephpm-config/src/lib.rs:3373`: `"smart"` is to "reset only
  after non-SELECT statements"). `StateStaysWithSession` covers what the strategy promises to
  erase (`Erased`), and is violated when "read" is added to "smart";
- unread bytes that `has_unread_bytes` misses travel on with the connection under any
  strategy, as `pool.rs:58-62` admits;
- `LiveBounded` in `db_pool` with three connections: connections that the health
  check has in hand, or that `warm` dials without a permit, are not seen by
  `acquire`, which dials more (`pool.rs:401`), against `pool.rs:81-83`: "This also
  bounds live backend connections";
- a caller woken by a returned permit may find the queue empty, because the health
  check drained it in between (`pool.rs:315-316` says "guaranteed to find it"); it
  then dials, which costs a connection and nothing else;
- with read/write splitting, prepared statements are mapped to their pool by
  statement id alone, which two backends may both use (`mysql.rs:2000-2130`). Read in
  the code only; the routing loop is not modelled.

## 5. Proofs

Every safety invariant and refinement the passing runs check is proved for every value
of the constants, except the two named at the end. Each inductive invariant was first
checked by TLC on an instance of the run.

### Key-value store (`GossipKvProofs`)

- `TypeCorrect` (`TypeOK`), by the step lemma `StepTypeOK`, one case per action.
- `StampsAreUnique` (`OneWritePerStamp`). Not inductive alone: a new
  stamp differs from the used ones because every stamp of a node in use, in a
  thread's hand or in the log, is at or below the node's clock. `StampInv` adds
  that as `StampsBelowClock`; `NextAfterLemma` (a new stamp is above the clock
  and the clock moves to it) does the work.
- `PublishedStateAdvances` (`OwnStateAdvances`), from typing and
  `SetOwnAdvances`: what the drain puts into a node's own state is never older.
- `CopiesAreRecorded` (`NoStaleCopy`), for the commands set, setex and del (the
  read-modify-write and EXPIRE are the findings above). `CopyInv` adds that every
  entry in a queue, batch, view or thread is a write some node accepted
  (`TrafficAccepted`), so that whatever an applier takes is a copy of that write.
- `TheNewestWins` (`NewestWriteWins`) and `ReplicasConverge` (`StoresConverge`, with
  `~MayCrash`), under `Converging`: SET and SETEX; with SETEX no pruning; with pruning
  a verify set that has room. Deadlines may pass and the sweep may run at any time, and
  the properties speak of the behaviours in which nothing was `lost` by it. Every
  condition excludes a behaviour section 2 or 4 describes, and the constants of
  `gossip_write` satisfy all of them (those of `gossip_ttl` all but `~MayCrash`). `ConvInv` has two parts that carry the argument. `Carried`: an accepted
  write, or a newer one, is with a thread, in a queue, in a batch or in some node's own
  state, or every node has recorded it and it was swept; a retirement cannot take the
  last holder, because the write that superseded it is itself carried, by somebody
  newer. `LatestInv`: each copy reads as one write, the recorded one or, after a prune,
  the one recorded before; nothing the node knows of is newer unless a verification is
  due, and the clock is past it, so that the next command is newer still. At rest the
  two meet: views agree, so every copy reads as the newest write.

### Election (`SqliteElectionProofs`)

- `ElectionTypeCorrect` (`TypeOK`).
- `NeverTwoPrimaries` (`OnePrimary`), for any number of nodes, under `Timing`: the
  single-database rule, no partition, `Delay < Heartbeat`, `Heartbeat + Delay < TTL`,
  `Heartbeat + 2 * Delay < Grace`. With the code's 5 s, 10 s and 15 s
  (`sqlite_election.rs:368-383`) all three say that gossip takes less than 5 s. A node
  becomes primary only past its grace and when no alive node has a lower id; so whoever
  outranks it later has only just started (`Heard`), and has its claim within a heartbeat
  and a delay. The delicate part is that this claim must also be the newest one it sees:
  `Outdated` says how far the claims of earlier primaries lag behind, which grows with
  each refresh, and that until they lag two heartbeats no lower node is past its grace.
- `IncumbentStays` (`IncumbentKept`), under the same `Timing`: the primary keeps its role
  at every heartbeat. Until the tick ends a primary that stopped counts like one that runs
  (`Lead`, `Recent`), and nobody has given up on it (`Departed`); so `Outdated` also puts
  its last claim before its successor's, and no running node sees a newer live claim than
  the primary's.

### Site hand-off (`SiteHandoffProofs`)

- `SiteTypeCorrect` (`TypeOK`), for any number of nodes. `SiteInv` adds that a stopped
  process has no task or stream, that a round never asks its own node and that a running
  node is in its own view, without which `Owner` would be undefined.
- `OwnersEpochRises` (`OwnerEpochRises`), with persists that may fail and pairs of
  statements that interleave. `OwnerInv`: an elected owner has no replica stream, so
  nobody else writes its epoch, and between the read and the write of its settle task
  the target stays above it. An installation keeps the higher of two epochs.
- `FoundingWaits` (`FoundsAfterGrace`). An open gate is not enough as an invariant:
  `FoundInv` says that a gate is open, a session held or a round past its verdict on an
  empty copy only in a process past its grace (`GatePart`); that a round remembers the
  grace only when it has passed (`RoundPart`); and that a copy with a log or a position in
  one has rows, and a snapshot in flight too (`Tracks`, `SnapsPart`), so that no
  installation empties a copy under an open gate.

### Dispatcher (`HandoffProofs`)

- `HandoffTypeCorrect` (`TypeOK`), `ThreadsIdleOnlyWhenEmpty` (`IdleOnlyWhenEmpty`),
  `SleepersAreReachable` (`SleeperIsReachable`), from `HandInv`: a waiting thread is on
  the idle stack or owed a delivery by exactly one party, until its mailbox turns READY;
  a mailbox holds a job from the store to the take only.
- `DispatcherIsAQueue` (`ImplementsJobQueue`): `Spec => Abstract!Spec`. `HandInv` makes
  the mapping of a thread's hand unambiguous: a job is held and a mailbox filled at
  different places of the thread (`HandPlaces`), no two parties owe one thread a delivery
  (`OwedApart`), and what is owed is not yet in the mailbox or is the party's own parcel
  (`OwedWait`). Each step is then one step of `JobQueue` or a stutter.
- `RoomIsServed` (`NoSleeperBesideRoom`), from `RoomInv`: while a caller sleeps
  unnotified beside an open queue with room, another caller is on its way to it: notified,
  registered and about to look again, or about to pass the baton.

### PHP pools, database pool, SQL forwarding

- `PhpPoolProofs`: `PoolTypeCorrect` (`PoolTypeOK`), `PermitsAreRoom`
  (`PermitHolderFindsRoom`), `ContextsAreCounted` (`ContextsCounted`). `PhpInv` counts:
  permits, admitted requests, queued jobs and threads with a job not yet begun add up to
  the capacity; `live` is the number of threads between spawn and uncounting, `retiring`
  the number that hold a claim to retire.
- `DbPoolProofs`: `TypeCorrect` (`TypeOK`), `PermitsAreConserved` (`PermitsConserved`),
  `OnlyWaitersQueue` (`WaitersWait`), `ConnectionsHaveOneOwner` (`OneOwner`),
  `StateIsNotInherited` (`StateStaysWithSession`). `PoolInv` adds which places of a task
  own a connection, that the queues of maintenance and pool are disjoint, and that
  a connection with state its strategy promises to erase is with the session, or its
  reset, that knows of it; what the relay did not notice may be anywhere.
- `SqlForwardProofs`: `ForwardTypeCorrect` (`TypeOK`), `LocksDieWithSessions`
  (`LockDiesWithSession`), `DemotedNodesAreQuiet` (`DemotedIsQuiet`), `LossesAreTold`
  (`LossIsTold`). `FwdInv` relates the two ends of a stream, says that what a demoted
  node accepts without a check was checked after the last tick, and that a client whose
  stream was not swapped counts on a lock only while its stream holds it or the bad news
  is on its way.

Assumptions on constants are those of the modules; two were added for the proofs:
`IsFiniteSet(Workers)` in `PhpPool` (`live` counts threads) and, in `SqlForward`, that
names of clients are not stream numbers, which share one table of lock holders.

### Only model-checked

- Liveness, which needs fairness and ENABLED: `EventuallyConverged`, `Settles`,
  `SettlesOnOwner`, `Served`, `BackToTarget`, `AcceptedRuns`, `WaiterServed`,
  `AbandonedLockFreed`, `StaleForwardRecovers`.
- `StoresConverge` with a node that stops, on the three nodes of `gossip_ttl`.

## 6. Plan

Done so far: gossip tier, election, site hand-off, dispatcher, PHP pools, database
pool, SQL forwarding, and the proofs of section 5. Next:

1. Proofs: convergence while one node stops; `OnePrimary` of the per-site rule once
   views agree.
2. An abstract last-writer-wins register and `GossipKv` shown to implement it; node
   restarts, catch-up gate and shutdown flush.
3. `SiteHandoff`: rows with versions, so that a replay over newer values and a
   cursor under the wrong log's name (`turso_cdc.rs:1763-1767`) become visible;
   requests waiting at the gate; the election's role in place of `Elected`.
4. KV store: memory limit, TTL index, conditional commands, owner routing, large
   tier and key hand-off.

## 7. Not modelled

- The large-value tier, the KV data plane and the hand-off of keys
  (`kv_data_plane.rs`, `kv_handoff.rs`), hashes, watches, scans and snapshots of the
  store: planned.
- The multiplexing and reconnect of the cluster channel; only dialling and shutdown
  appear, in `SqlForward`. The cryptography of the transport is out of reach.
- The length of a handover (`drain.rs:148`), the WAL gate and the final checkpoint
  (`db_shutdown.rs`): they wait for wall-clock time and for sizes the database
  engine reports, and the engine is not part of the repository. Read in the code:
  the verification takes refilled logs as they are after `MAX_VERIFY_ROUNDS`.
- The gate of whole-database user locks (`user_locks.rs`), the rate limiter and the
  WebSocket registry: small tables behind one lock.
- The read/write-split routing loop and `health.rs` of the database proxies; the
  barging dispatch variants (`[php] admission = "barge"`), the boot and response
  bridge of worker mode, the debug lane.
- Hazards no property covers: `set_local` failing for lack of memory after the stamp was
  recorded (`clustered_store.rs:2033`); a tombstone swept before a slow peer has it
  (`gossip_writer.rs:421`, a documented trade-off); two batches of the queue held at
  shutdown (`gossip_writer.rs:355`); a request that waits at a gate the driver moves
  (`handoff_gate.rs:156`); a role that changes while whole-database `GET_LOCK` waits
  (`user_locks.rs:135`).
- HTTP and TLS, ACME, configuration, command line, importer, analyzer, telemetry,
  static files and wire formats, which keep no protocol state. They are most of the
  repository's lines, so that the mapped share of the whole stays small.
