----------------------------- MODULE SiteHandoff -----------------------------
(***************************************************************************)
(* Ownership of one site's database in per-site clustered mode: the        *)
(* serving gate, the settle task that opens it, the ownership epoch that   *)
(* orders copies, snapshots, and the replica stream that tails the owner's *)
(* CDC log.  A node owns the site when it ranks first among the nodes its  *)
(* gossip reports alive; requests follow that at once, the elected role    *)
(* (see SqliteElection) follows later.                                     *)
(*                                                                         *)
(* A copy is the set of writes it contains.  A write is named by the log   *)
(* that captured it and its change id there.                               *)
(***************************************************************************)
EXTENDS Integers, Sequences, FiniteSets

CONSTANTS
  Nodes,      \* numbered by rendezvous rank for the site, best first
  MaxWrites,  \* bound: writes captured by one node
  MaxFaults,  \* bound: crashes and drains in a behaviour
  Crashing,   \* nodes whose process may die at any point
  Leaving,    \* nodes whose process may be asked to shut down
  Failing,    \* nodes whose database may refuse a statement of the plane
  Holding     \* nodes with a client that keeps its local session open

ASSUME ConstantsAssumption ==
  /\ Nodes \subseteq Nat \ {0} /\ IsFiniteSet(Nodes)
  /\ {MaxWrites, MaxFaults} \subseteq Nat
  /\ Crashing \cup Leaving \cup Failing \cup Holding \subseteq Nodes

VARIABLES
  up,      \* nodes whose process runs
  known,   \* known[n][k]: n's gossip view of k: "gone", "alive" or "draining"
  grace,   \* nodes that run the replication plane for HANDOFF_SETTLE_GRACE
  db,      \* the site's database on each node: durable
  cdc,     \* cdc[n]: turso_cdc, what each captured write of n was: durable
  leader,  \* leader[n]: the role the driver observed: n, the owner it tails, or 0
  reset,   \* nodes whose driver has force_reset set
  tail,    \* the replica stream of each node
  gate,    \* HandoffGate, for the site
  task,    \* the settle task of each node
  adv,     \* nodes whose version advert has outlived, or precedes, their role as owner
  held,    \* nodes with an open local session
  faults   \* faults so far

mem  == <<up, known, grace, held, faults>>
vars == <<mem, db, cdc, leader, reset, tail, gate, task, adv>>

-----------------------------------------------------------------------------
(* Versions of a copy.                                                     *)

Zero == [epoch |-> 0, head |-> 0]
Version == [epoch : Nat, head : Nat]

\* SiteVersion's order: the epoch first, the head within a stint.
Above(v, w) == v.epoch > w.epoch \/ (v.epoch = w.epoch /\ v.head > w.head)

\* fold_best_version; Zero, which is above nothing, stands for "no version".
Fresher(v, w) == IF Above(v, w) THEN v ELSE w

\* read_site_version.
SiteVersion(n) == [epoch |-> db[n].epoch, head |-> Len(cdc[n])]

\* local_db_is_cold.
Cold(d) == d.wm = 0 /\ d.rows = {}

Larger(a, b) == IF a > b THEN a ELSE b

-----------------------------------------------------------------------------
(* Membership.                                                             *)

Alive(n) == {k \in Nodes : known[n][k] # "gone"}
First(S) == CHOOSE k \in S : \A j \in S : k <= j

\* hrw_owner in the view of n: a draining node only when all alive ones drain.
Owner(n) ==
  LET staying == {k \in Alive(n) : known[n][k] = "alive"}
  IN  First(IF staying = {} THEN Alive(n) ELSE staying)

Draining(n) == known[n][n] = "draining"

-----------------------------------------------------------------------------
(* Snapshots and their installation.                                       *)

NoSnap == [log |-> 0, wm |-> 0, epoch |-> 0, rows |-> {}]

\* serve_snapshot: dump, head and epoch of one read view.
Snapshot(p) == [log |-> p, wm |-> Len(cdc[p]), epoch |-> db[p].epoch, rows |-> db[p].rows]

\* install_snapshot and apply_snapshot: one transaction; turso_cdc is not touched.
InstallSnapshot(d, s, discard) ==
  [rows |-> IF discard THEN s.rows ELSE d.rows \cup s.rows, epoch |-> Larger(d.epoch, s.epoch),
   source |-> s.log, wm |-> s.wm, wms |-> [d.wms EXCEPT ![s.log] = s.wm]]

\* stream_is_authorized for snapshot/<site>, asked by n of p, and p answering.
Answers(p, n) == p \in up /\ known[p][n] # "gone" /\ Owner(p) \in {p, n}

\* stream_is_authorized for cdc/<site>: only by the owner in its own view.
Ships(p, n) == p \in up /\ known[p][n] # "gone" /\ Owner(p) = p

-----------------------------------------------------------------------------
(* The settle task.                                                        *)

Idle == [pc |-> "idle", own |-> Zero, best |-> Zero, cand |-> {}, todo |-> {},
         discard |-> FALSE, missed |-> FALSE, past |-> FALSE, snap |-> NoSnap, epoch |-> 0]
Off  == [Idle EXCEPT !.pc = "off"]

\* From here on a round needs of the versions only their epochs.
Searching(t, fresher) ==
  [Idle EXCEPT !.pc = "search", !.todo = t.cand, !.discard = fresher, !.past = t.past,
               !.epoch = Larger(t.own.epoch, t.best.epoch)]
Marking(t) ==
  [Idle EXCEPT !.pc = "mark", !.epoch = Larger(t.epoch, Larger(t.own.epoch, t.best.epoch))]

NoTail == [src |-> 0, pc |-> "none", next |-> 0, discard |-> FALSE, snap |-> NoSnap, epoch |-> 0]

Init ==
  /\ up = Nodes
  /\ known = [n \in Nodes |-> [k \in Nodes |-> "alive"]]
  /\ grace = Nodes
  /\ db = [n \in Nodes |-> [rows |-> {}, epoch |-> 0, source |-> 0, wm |-> 0,
                            wms |-> [k \in Nodes |-> 0]]]
  /\ cdc = [n \in Nodes |-> <<>>]
  /\ leader = [n \in Nodes |-> 0]
  /\ reset = {}
  /\ tail = [n \in Nodes |-> NoTail]
  /\ gate = [n \in Nodes |-> "Pending"]
  /\ task = [n \in Nodes |-> Idle]
  /\ adv = {}
  /\ held = {}
  /\ faults = 0

Settle(n, t, g) ==
  /\ task' = [task EXCEPT ![n] = t]
  /\ gate' = [gate EXCEPT ![n] = g]

Runs(n, pc) == n \in up /\ task[n].pc = pc

\* decide_warm_settle for a warm owner past the grace, once every candidate has
\* been asked for its version: serve, or pull the fresher copy first.
DecideWarm(t) ==
  IF t.todo # {} THEN t
  ELSE IF Above(t.best, t.own)
  THEN Searching(t, TRUE)
  ELSE Marking(t)

\* The nodes with a live advert: sample_owned_head_until_role_changes refreshes
\* an owner's; an advert is read as the version of its node at that moment.
Adverts == adv \cup {k \in Nodes : leader[k] = k}

\* Mutant: the node itself is one of the peers it asks.
CandidatesWithSelf(n) == Alive(n)

\* handoff_candidates.
Candidates(n) == Alive(n) \ {n}

\* settle_round up to the first question to a peer.  The advert read is that of
\* some peer, or none when it has not arrived or has lapsed.
BeginRound(n) ==
  /\ Runs(n, "idle") /\ ~Draining(n)
  /\ \E advert \in {Zero} \cup {SiteVersion(k) : k \in Adverts \ {n}} :
       LET round == [Idle EXCEPT !.own = SiteVersion(n), !.best = advert,
                                 !.cand = Candidates(n), !.todo = Candidates(n),
                                 !.past = n \in grace]
       IN  CASE Cold(db[n]) /\ Owner(n) # n      -> Settle(n, Idle, "Pending")
             [] Cold(db[n]) /\ Owner(n) = n      -> Settle(n, Searching(round, FALSE), gate[n])
             [] ~Cold(db[n]) /\ n \notin grace   -> Settle(n, Idle, "Pending")
             [] ~Cold(db[n]) /\ n \in grace /\ Owner(n) # n -> Settle(n, Off, "Ready")
             [] ~Cold(db[n]) /\ n \in grace /\ Owner(n) = n ->
                  Settle(n, DecideWarm([round EXCEPT !.pc = "probe"]), gate[n])
  /\ UNCHANGED <<mem, db, cdc, leader, reset, tail, adv>>

\* probe_peer_version of the next candidate.
ProbeVersion(n) ==
  LET t == task[n]
      p == First(t.todo)
      known_best == IF Answers(p, n) THEN Fresher(SiteVersion(p), t.best) ELSE t.best
  IN
  /\ Runs(n, "probe")
  /\ task' = [task EXCEPT ![n] = DecideWarm([t EXCEPT !.todo = t.todo \ {p}, !.best = known_best])]
  /\ UNCHANGED <<mem, db, cdc, leader, reset, tail, gate, adv>>

\* search_peers_for_copy: the next candidate's copy, the first one with a table.
AskForCopy(n) ==
  LET t == task[n]  p == First(t.todo) IN
  /\ Runs(n, "search") /\ t.todo # {}
  /\ task' = [task EXCEPT ![n] =
                IF Answers(p, n) /\ db[p].rows # {}
                THEN [t EXCEPT !.pc = "install", !.snap = Snapshot(p), !.todo = {}]
                ELSE [t EXCEPT !.todo = t.todo \ {p}, !.missed = t.missed \/ ~Answers(p, n)]]
  /\ UNCHANGED <<mem, db, cdc, leader, reset, tail, gate, adv>>

\* The install scope of settle_round, under the seed lock; a copy that was to be filled and is no
\* longer cold is served as it is.
InstallCopy(n) ==
  LET t == task[n] IN
  /\ Runs(n, "install") /\ tail[n].pc # "seed"
  /\ IF ~t.discard /\ ~Cold(db[n])
     THEN /\ Settle(n, Off, "Ready")
          /\ UNCHANGED db
     ELSE /\ db' = [db EXCEPT ![n] = InstallSnapshot(db[n], t.snap, t.discard)]
          /\ task' = [task EXCEPT ![n] = Marking(t)]
          /\ UNCHANGED gate
  /\ UNCHANGED <<mem, cdc, leader, reset, tail, adv>>

\* The install fails: the copy is untouched and the round is retried.
InstallFails(n) ==
  /\ n \in Failing /\ Runs(n, "install") /\ tail[n].pc # "seed"
  /\ task[n].discard \/ Cold(db[n])
  /\ Settle(n, Idle, "Blocked")
  /\ UNCHANGED <<mem, db, cdc, leader, reset, tail, adv>>

\* Mutant: the verdict does not wait for membership to converge.
NoCopyFoundAtOnce(n) ==
  LET t == task[n] IN
  /\ Runs(n, "search") /\ t.todo = {}
  /\ IF t.discard \/ t.missed THEN Settle(n, Idle, "Blocked")
     ELSE Settle(n, Marking(t), gate[n])
  /\ UNCHANGED <<mem, db, cdc, leader, reset, tail, adv>>

\* No peer sent a copy: handoff_verdict, or the refusal to serve a stale one.
NoCopyFound(n) ==
  LET t == task[n] IN
  /\ Runs(n, "search") /\ t.todo = {}
  /\ IF t.discard \/ t.missed THEN Settle(n, Idle, "Blocked")
     ELSE IF t.past THEN Settle(n, Marking(t), gate[n])
     ELSE Settle(n, Idle, "Pending")
  /\ UNCHANGED <<mem, db, cdc, leader, reset, tail, adv>>

\* Mutant: the epoch read at the start of the round is trusted.
NextEpochOfRound(n) == task[n].epoch + 1

\* next_owner_epoch over the persisted epoch, the one read at the start of the
\* round and the best peer's.
NextOwnerEpoch(n) == Larger(db[n].epoch, task[n].epoch) + 1

\* settle_owner_version reads the persisted epoch in one statement ...
ReadEpoch(n) ==
  /\ Runs(n, "mark")
  /\ task' = [task EXCEPT ![n].pc = "write", ![n].epoch = NextOwnerEpoch(n)]
  /\ UNCHANGED <<mem, db, cdc, leader, reset, tail, gate, adv>>

\* ... and writes the new one in another, after which the gate opens.
WriteEpoch(n) ==
  /\ Runs(n, "write")
  /\ db' = [db EXCEPT ![n].epoch = task[n].epoch]
  /\ adv' = IF leader[n] = n THEN adv ELSE adv \cup {n}
  /\ Settle(n, Off, "Ready")
  /\ UNCHANGED <<mem, cdc, leader, reset, tail>>

\* Either statement fails: logged, and the gate opens all the same.
PersistFails(n) ==
  /\ n \in up \cap Failing /\ task[n].pc \in {"mark", "write"}
  /\ Settle(n, Off, "Ready")
  /\ UNCHANGED <<mem, db, cdc, leader, reset, tail, adv>>

-----------------------------------------------------------------------------
(* The replication driver.                                                 *)

\* The election's answer: the owner in the view of n once it holds the role.
Elected(n) == IF Owner(n) = n THEN n ELSE IF leader[Owner(n)] = Owner(n) THEN Owner(n) ELSE 0

\* A pair of epoch statements is under way: off_runtime ends it before the task
\* it belongs to can be dropped.
Midway(n) == task[n].pc = "write" \/ tail[n].pc = "adopt"

\* Mutant: a driver that waits for an owner's name misses the change.
ObservePromotion(n) ==
  /\ n \in up /\ ~Draining(n) /\ ~Midway(n) /\ n \in grace
  /\ Elected(n) = n /\ leader[n] # n
  /\ leader' = [leader EXCEPT ![n] = n]
  /\ task' = [task EXCEPT ![n] = Idle]
  /\ tail' = [tail EXCEPT ![n] = NoTail]
  /\ reset' = reset \ {n}
  /\ adv' = adv \ {n}
  /\ UNCHANGED <<mem, db, cdc, gate>>

\* run_site_replication observes a change of role.  A promotion starts a new
\* settle task; any change ends the stream and forgets force_reset.
ObserveRole(n) ==
  /\ n \in up /\ ~Draining(n) /\ ~Midway(n)
  /\ Elected(n) = n => n \in grace
  /\ Elected(n) # leader[n]
  /\ leader' = [leader EXCEPT ![n] = Elected(n)]
  /\ task' = IF Elected(n) = n THEN [task EXCEPT ![n] = Idle] ELSE task
  /\ tail' = [tail EXCEPT ![n] = NoTail]
  /\ reset' = reset \ {n}
  /\ adv' = IF leader[n] = n THEN adv \cup {n} ELSE IF Elected(n) = n THEN adv \ {n} ELSE adv
  /\ UNCHANGED <<mem, db, cdc, gate>>

Dialing(o) == [NoTail EXCEPT !.src = o, !.pc = "dial"]

\* site_data_lineage and plan_replica_attempt at the start of
\* replicate_site_once: fetch the owner's snapshot, or tail what is there.
StartAttempt(n) ==
  LET o == leader[n]
      none == db[n].source = 0 /\ Cold(db[n])
  IN
  /\ n \in up /\ ~Draining(n)
  /\ o \notin {0, n} /\ tail[n] = NoTail
  /\ \/ /\ none \/ n \in reset
        /\ Answers(o, n)
        /\ tail' = [tail EXCEPT ![n] = [Dialing(o) EXCEPT !.pc = "seed", !.discard = ~none,
                                                          !.snap = Snapshot(o)]]
        /\ UNCHANGED db
     \/ /\ ~none /\ n \notin reset
        /\ db' = [db EXCEPT ![n].source = IF @ = 0 THEN n ELSE @]
        /\ tail' = [tail EXCEPT ![n] = Dialing(o)]
  /\ UNCHANGED <<mem, cdc, leader, reset, gate, task, adv>>

\* bootstrap_site_from once the snapshot is there: a dump without tables never
\* replaces data, and a dump over tables that appeared meanwhile collides.
Seed(n) ==
  LET d == db[n]
      s == tail[n].snap
      degenerate == tail[n].discard /\ s.rows = {}
      collides == ~tail[n].discard /\ d.rows # {} /\ s.rows # {}
  IN
  /\ n \in up /\ tail[n].pc = "seed"
  /\ IF degenerate \/ collides
     THEN /\ tail' = [tail EXCEPT ![n] = NoTail]
          /\ UNCHANGED db
     ELSE /\ tail' = [tail EXCEPT ![n] = Dialing(tail[n].src)]
          /\ db' = [db EXCEPT ![n] = InstallSnapshot(d, s, tail[n].discard)]
  /\ reset' = IF collides THEN reset \cup {n} ELSE reset
  /\ UNCHANGED <<mem, cdc, leader, gate, task, adv>>

\* Hello: the owner's epoch is there, and adopt_site_epoch reads the local one;
\* a connection or a read that fails leaves nothing to adopt.
Hello(n) ==
  LET e == db[tail[n].src].epoch IN
  /\ n \in up /\ tail[n].pc = "dial"
  /\ Ships(tail[n].src, n)
  /\ \/ /\ e > db[n].epoch
        /\ tail' = [tail EXCEPT ![n].pc = "adopt", ![n].epoch = e]
     \/ /\ e > db[n].epoch => n \in Failing
        /\ tail' = [tail EXCEPT ![n].pc = "resume"]
  /\ UNCHANGED <<mem, db, cdc, leader, reset, gate, task, adv>>

\* The write of adopt_site_epoch, which may fail too.
Adopt(n) ==
  /\ n \in up /\ tail[n].pc = "adopt"
  /\ \/ db' = [db EXCEPT ![n].epoch = tail[n].epoch]
     \/ n \in Failing /\ UNCHANGED db
  /\ tail' = [tail EXCEPT ![n].pc = "resume", ![n].epoch = 0]
  /\ UNCHANGED <<mem, cdc, leader, reset, gate, task, adv>>

\* resolve_subscribe_watermark.  On a change of log the cursor is re-seeded here
\* and the log's name recorded in a later commit, SetSource.
Subscribe(n) ==
  LET o == tail[n].src  d == db[n] IN
  /\ n \in up /\ tail[n].pc = "resume"
  /\ IF d.source = o
     THEN /\ tail' = [tail EXCEPT ![n].pc = "on", ![n].next = d.wm + 1]
          /\ UNCHANGED db
     ELSE /\ db' = [db EXCEPT ![n] = [d EXCEPT !.wms[d.source] = d.wm, !.wm = d.wms[o]]]
          /\ tail' = [tail EXCEPT ![n].pc = "switch"]
  /\ UNCHANGED <<mem, cdc, leader, reset, gate, task, adv>>

SetSource(n) ==
  /\ n \in up /\ tail[n].pc = "switch"
  /\ db' = [db EXCEPT ![n].source = tail[n].src]
  /\ tail' = [tail EXCEPT ![n].pc = "on", ![n].next = db[n].wm + 1]
  /\ UNCHANGED <<mem, cdc, leader, reset, gate, task, adv>>

\* serve_site_subscriber: the owner's tailer has the batch at the cursor i.
Shippable(o, i) == o \in up /\ i <= Len(cdc[o])

\* consume_frames and apply_batch for the next batch of the stream: skipped at
\* or below the watermark; a CREATE over existing tables fails the stream and
\* proves divergence.
ApplyBatch(n) ==
  LET o == tail[n].src  i == tail[n].next IN
  /\ n \in up /\ tail[n].pc = "on"
  /\ Shippable(o, i)
  /\ IF i <= db[n].wm
     THEN /\ tail' = [tail EXCEPT ![n].next = i + 1]
          /\ UNCHANGED <<db, reset>>
     ELSE IF cdc[o][i] = "create" /\ db[n].rows # {}
     THEN /\ tail' = [tail EXCEPT ![n] = NoTail]
          /\ reset' = reset \cup {n}
          /\ UNCHANGED db
     ELSE /\ db' = [db EXCEPT ![n].rows = @ \cup {<<o, i>>}, ![n].wm = i]
          /\ tail' = [tail EXCEPT ![n].next = i + 1]
          /\ UNCHANGED reset
  /\ UNCHANGED <<mem, cdc, leader, gate, task, adv>>

\* The stream breaks with the process it comes from, or the dial is refused.
LoseStream(n) ==
  /\ n \in up /\ tail[n].pc \in {"dial", "on"}
  /\ \/ tail[n].src \notin up
     \/ tail[n].pc = "dial" /\ ~Ships(tail[n].src, n)
  /\ tail' = [tail EXCEPT ![n] = NoTail]
  /\ UNCHANGED <<mem, db, cdc, leader, reset, gate, task, adv>>

\* SITE_VERSION_TTL after the last refresh of an advert nothing refreshes.
Lapse(n) ==
  /\ n \in adv
  /\ adv' = adv \ {n}
  /\ UNCHANGED <<mem, db, cdc, leader, reset, tail, gate, task>>

-----------------------------------------------------------------------------
(* Requests, membership and processes.                                     *)

\* open_owner_session and resolve_backend: the checks before a session opens.
Serves(n) == n \in up /\ ~Draining(n) /\ Owner(n) = n /\ gate[n] = "Ready"

\* A local session, once open, is never checked again.
OpenSession(n) ==
  /\ n \in Holding \ held /\ Serves(n)
  /\ held' = held \cup {n}
  /\ UNCHANGED <<up, known, grace, faults, db, cdc, leader, reset, tail, gate, task, adv>>

CloseSession(n) ==
  /\ n \in held
  /\ held' = held \ {n}
  /\ UNCHANGED <<up, known, grace, faults, db, cdc, leader, reset, tail, gate, task, adv>>

\* A write in a new session, or in one that is still open.
Write(n) ==
  /\ Serves(n) \/ n \in held
  /\ Len(cdc[n]) < MaxWrites
  /\ cdc' = [cdc EXCEPT ![n] = Append(@, IF db[n].rows = {} THEN "create" ELSE "row")]
  /\ db' = [db EXCEPT ![n].rows = @ \cup {<<n, Len(cdc[n]) + 1>>}]
  /\ UNCHANGED <<mem, leader, reset, tail, gate, task, adv>>

Hear(n, k) ==
  /\ n # k /\ {n, k} \subseteq up
  /\ known[n][k] # known[k][k]
  /\ known' = [known EXCEPT ![n][k] = known[k][k]]
  /\ UNCHANGED <<up, grace, held, faults, db, cdc, leader, reset, tail, gate, task, adv>>

Suspect(n, k) ==
  /\ n \in up /\ k \notin up
  /\ known[n][k] # "gone"
  /\ known' = [known EXCEPT ![n][k] = "gone"]
  /\ UNCHANGED <<up, grace, held, faults, db, cdc, leader, reset, tail, gate, task, adv>>

\* HANDOFF_SETTLE_GRACE after the start; gossip has introduced the node and
\* every running peer to each other by then.
PassGrace(n) ==
  /\ n \in up \ grace
  /\ \A k \in up : known[n][k] = known[k][k] /\ known[k][n] = known[n][n]
  /\ grace' = grace \cup {n}
  /\ UNCHANGED <<up, known, held, faults, db, cdc, leader, reset, tail, gate, task, adv>>

\* The process ends: what is left is its database and what others hold of it.
Stop(n) ==
  /\ up' = up \ {n}
  /\ grace' = grace \ {n}
  /\ held' = held \ {n}
  /\ known' = [known EXCEPT ![n] = [k \in Nodes |-> "gone"]]
  /\ leader' = [leader EXCEPT ![n] = 0]
  /\ reset' = reset \ {n}
  /\ tail' = [m \in Nodes |-> IF m = n \/ (tail[m].src = n /\ tail[m].pc \in {"dial", "on"})
                             THEN NoTail ELSE tail[m]]
  /\ Settle(n, Off, "Pending")
  /\ adv' = IF leader[n] = n THEN adv \cup {n} ELSE adv
  /\ UNCHANGED <<db, cdc>>

Crash(n) ==
  /\ n \in up \cap Crashing
  /\ faults < MaxFaults /\ faults' = faults + 1
  /\ Stop(n)

\* announce_leave and stop_replication_drivers: an attempt in flight goes on
\* until its stream ends, any other driver leaves and takes its settle task
\* along.
Drain(n) ==
  /\ n \in up \cap Leaving /\ ~Draining(n) /\ ~Midway(n)
  /\ faults < MaxFaults /\ faults' = faults + 1
  /\ known' = [known EXCEPT ![n][n] = "draining"]
  /\ leader' = [leader EXCEPT ![n] = 0]
  /\ task' = IF tail[n] = NoTail THEN [task EXCEPT ![n] = Off] ELSE task
  /\ adv' = IF leader[n] = n THEN adv \cup {n} ELSE adv
  /\ UNCHANGED <<up, grace, held, db, cdc, reset, tail, gate>>

\* The end of the handover: the process exits.
Leave(n) ==
  /\ n \in up /\ Draining(n)
  /\ Stop(n)
  /\ UNCHANGED faults

\* A process starts on the database it left; the scan of existing sites starts
\* the site's driver.
Start(n) ==
  /\ n \notin up
  /\ up' = up \cup {n}
  /\ known' = [known EXCEPT ![n][n] = "alive"]
  /\ task' = [task EXCEPT ![n] = Idle]
  /\ UNCHANGED <<grace, held, faults, db, cdc, leader, reset, tail, gate, adv>>

SettleStep(n) ==
  \/ BeginRound(n) \/ ProbeVersion(n) \/ AskForCopy(n) \/ InstallCopy(n) \/ InstallFails(n)
  \/ NoCopyFound(n) \/ ReadEpoch(n) \/ WriteEpoch(n) \/ PersistFails(n)

DriverStep(n) ==
  \/ ObserveRole(n) \/ StartAttempt(n) \/ Seed(n) \/ Hello(n) \/ Adopt(n) \/ Subscribe(n)
  \/ SetSource(n) \/ ApplyBatch(n) \/ LoseStream(n)

SessionStep(n) == OpenSession(n) \/ CloseSession(n) \/ Write(n)

GossipStep(n) == \E k \in Nodes : Hear(n, k) \/ Suspect(n, k)

TimerStep(n) == Lapse(n) \/ PassGrace(n)

Next ==
  \E n \in Nodes :
    \/ SettleStep(n) \/ DriverStep(n)
    \/ SessionStep(n) \/ GossipStep(n) \/ TimerStep(n)
    \/ Crash(n) \/ Drain(n) \/ Leave(n) \/ Start(n)

Spec == Init /\ [][Next]_vars

\* Each task of a node keeps running, gossip keeps spreading, a stopped
\* process is started again, an install that is retried does not fail for ever.
FairSpec ==
  /\ Spec
  /\ \A n \in Nodes :
       /\ WF_vars(SettleStep(n)) /\ SF_vars(InstallCopy(n)) /\ WF_vars(DriverStep(n))
       /\ WF_vars(GossipStep(n) \/ TimerStep(n) \/ Leave(n) \/ Start(n))

-----------------------------------------------------------------------------
(* Properties.                                                             *)

\* The state is well typed, and what a process keeps in memory ends with it.
TypeOK ==
  /\ up \subseteq Nodes /\ {grace, held} \subseteq SUBSET up /\ reset \subseteq up /\ adv \subseteq Nodes
  /\ known \in [Nodes -> [Nodes -> {"gone", "alive", "draining"}]]
  /\ DOMAIN db = Nodes /\ DOMAIN tail = Nodes /\ DOMAIN task = Nodes
  /\ \A n \in Nodes :
       /\ db[n].rows \subseteq Nodes \X (Nat \ {0})
       /\ {db[n].epoch, db[n].wm} \subseteq Nat
       /\ db[n].source \in Nodes \cup {0}
       /\ db[n].wms \in [Nodes -> Nat]
       /\ tail[n].src \in Nodes \cup {0} /\ {tail[n].next, tail[n].epoch, task[n].epoch} \subseteq Nat
       /\ tail[n].pc \in {"none", "seed", "dial", "adopt", "resume", "switch", "on"}
       /\ task[n].pc \in {"off", "idle", "probe", "search", "install", "mark", "write"}
       /\ {task[n].own, task[n].best} \subseteq Version
       /\ task[n].cand \cup task[n].todo \subseteq Nodes \ {n}
       /\ {task[n].discard, task[n].missed, task[n].past} \subseteq BOOLEAN
       /\ n \notin up => leader[n] = 0 /\ tail[n] = NoTail /\ task[n] = Off
  /\ cdc \in [Nodes -> Seq({"create", "row"})]
  /\ leader \in [Nodes -> Nodes \cup {0}]
  /\ gate \in [Nodes -> {"Pending", "Ready", "Blocked"}]
  /\ faults \in 0..MaxFaults

\* While a node is the elected owner the epoch of its copy never falls, and the
\* epoch it is about to record is above the one it replaces, although the round
\* read its own before the peers were asked and the copy installed since came
\* with another (settle_owner_version, apply_snapshot).  Before the election
\* follows, two pairs of epoch statements interleave and the epoch may fall: see
\* the README, section 4.
OwnerEpochRises ==
  [][\A n \in Nodes : leader[n] = n =>
       /\ db'[n].epoch >= db[n].epoch
       /\ task[n].pc = "write" => task[n].epoch > db[n].epoch]_vars

\* An empty copy takes its first write only on a node that has run the plane
\* for the grace, in a process that did: no verdict of an earlier process and no
\* round begun before membership had converged can start a site anew
\* (handoff_verdict, the gate).
FoundsAfterGrace ==
  [][\A n \in Nodes : Len(cdc'[n]) > Len(cdc[n]) /\ db[n].rows = {} => n \in grace]_vars

\* turso_cdc.rs:4281-4282: "Every alive peer answered that it holds no copy, and
\* membership has had time to converge: the site is genuinely new."  The first
\* write to an empty copy is taken by the owner only while no running peer it
\* knows of holds data.  Violated: see the README, section 4.
FoundsOnce ==
  [][\A n \in Nodes : Serves(n) /\ Len(cdc'[n]) > Len(cdc[n]) /\ db[n].rows = {}
        => \A m \in up \cap Alive(n) : db[m].rows = {}]_vars

\* In the end one node owns the site in every view, serves it, and every other
\* running node has followed its log to the end (the settle task, the driver's
\* retries and the forced re-bootstrap after a schema collision).
Served ==
  <>[](\E n \in up :
         /\ gate[n] = "Ready"
         /\ \A k \in up : Owner(k) = n
         /\ \A k \in up \ {n} : tail[k].src = n /\ tail[k].pc = "on" /\ tail[k].next > Len(cdc[n]))

\* turso_cdc.rs:4563-4566: a settle round that pulls a fresher copy does "a
\* lossless replace along the same lineage - the peer's copy descends from
\* ours".  Violated: see the README, section 4.
ReplaceIsLossless ==
  [][\A n \in Nodes : task[n].pc = "install" => db[n].rows \subseteq db'[n].rows]_vars

\* turso_cdc.rs:4542-4544: "A stale copy - one a returning owner holds after an
\* interim owner advanced the site while it was away - must not be served".  A
\* gate that opens on the owner opens on a copy that no running peer, each
\* knowing the other, holds with more writes.  Violated: see the README,
\* section 4.
StaleCopyNotServed ==
  [][\A n \in Nodes :
       gate[n] # "Ready" /\ gate'[n] = "Ready" /\ Owner(n) = n
         => \A m \in up \cap Alive(n) :
              known[m][n] # "gone" /\ db[n].rows \subseteq db[m].rows
                => db[n].rows = db[m].rows]_vars
=============================================================================
