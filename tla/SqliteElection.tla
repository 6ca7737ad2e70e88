--------------------------- MODULE SqliteElection ---------------------------
(***************************************************************************)
(* Election of the primary of a clustered SQLite database: the heartbeat   *)
(* loop of SqliteElection over claims that live, with a TTL, in the gossip *)
(* key-value tier.  Two rules are modelled: one database for the whole     *)
(* cluster (lowest node id) and one site's database (PerSite: the alive    *)
(* node with the highest rendezvous score).                                *)
(*                                                                         *)
(* Time is discrete.  All durations are in ticks; a claim is represented   *)
(* by its age, so that the state space is finite.  Tick waits until every  *)
(* heartbeat that is due was evaluated and every claim and membership      *)
(* change that must have arrived by now was delivered.                     *)
(***************************************************************************)
EXTENDS Integers, FiniteSets

CONSTANTS
  Nodes,         \* node ids; "lowest ordinal" is the smallest number
  Heartbeat,     \* HEARTBEAT_INTERVAL
  TTL,           \* PRIMARY_TTL
  Grace,         \* STARTUP_GRACE
  Delay,         \* the longest a claim takes to reach a connected peer
  PerSite,       \* the election is for one site's database
  Score,         \* hrw_score of each node for that site
  MaxFaults,     \* bound: crashes, drains and partitions in a behaviour
  MayWipe,       \* a node may restart on an empty volume
  MayDrain,      \* a node may announce a graceful leave
  MayPartition   \* the network may split and heal

ASSUME ConstantsAssumption ==
  /\ Nodes \subseteq Nat \ {0} /\ IsFiniteSet(Nodes)
  /\ {Heartbeat, TTL, Grace, Delay} \subseteq Nat \ {0}
  /\ Score \in [Nodes -> Nat]
  /\ MaxFaults \in Nat
  /\ {PerSite, MayWipe, MayDrain, MayPartition} \subseteq BOOLEAN

VARIABLES
  up,        \* nodes whose process runs
  electing,  \* nodes whose election loop runs
  role,      \* role[n] = n: primary; k: replica of k; 0: replica, no primary known
  boot,      \* ticks since the start of n, or since it stopped (up to Grace)
  hb,        \* ticks to n's next heartbeat
  seen,      \* seen[m][k]: the claim of k in gossip as m knows it
  known,     \* known[m][k]: k in m's membership
  draining,  \* nodes that announced a graceful leave
  cut,       \* one side of the partition; {} when there is none
  log,       \* log[n]: identity of n's database
  data,      \* nodes whose database holds the cluster's data
  faults     \* faults so far

net  == <<seen, known>>
db   == <<log, data>>
vars == <<up, electing, role, boot, hb, net, draining, cut, db, faults>>

NoClaim == [age |-> TTL, log |-> 0]
Claim == [age : 0 .. TTL, log : Nat]
Live(c) == c.age < TTL

Connected(m, k) == {m, k} \subseteq up /\ (m \in cut <=> k \in cut)

Init ==
  /\ up = {}
  /\ electing = {}
  /\ role = [n \in Nodes |-> 0]
  /\ boot = [n \in Nodes |-> 0]
  /\ hb = [n \in Nodes |-> 0]
  /\ seen = [m \in Nodes |-> [k \in Nodes |-> NoClaim]]
  /\ known = [m \in Nodes |-> [k \in Nodes |-> "unknown"]]
  /\ draining = {}
  /\ cut = {}
  /\ log = [n \in Nodes |-> 1]
  /\ data = Nodes
  /\ faults = 0

-----------------------------------------------------------------------------
(* What a node can see.                                                    *)

Alive(n, k) == known[n][k] \in {"alive", "draining"}

\* gossip_get on the claim key: the newest claim in any node's state; of two
\* stamped in the same tick the higher tag wins.
Newest(n) == CHOOSE k \in Nodes : \A j \in Nodes :
  seen[n][k].age < seen[n][j].age \/ (seen[n][k].age = seen[n][j].age /\ k >= j)

\* The node the visible claim names, 0 when there is none or it has expired.
Claimant(n) == IF Live(seen[n][Newest(n)]) THEN Newest(n) ELSE 0

\* classify_claim, for a claim that names this node.
OwnFresh(n) == Claimant(n) = n /\ seen[n][n].log = log[n]
OwnStale(n) == Claimant(n) = n /\ seen[n][n].log # log[n]
Foreign(n)  == Claimant(n) \notin {0, n}

Beats(k, j) == Score[k] > Score[j] \/ (Score[k] = Score[j] /\ k > j)

\* hrw_owner: a draining node is a candidate only if every alive node drains.
HrwOwner(n, k) ==
  LET alive == {j \in Nodes : Alive(n, j)}
      staying == {j \in alive : known[n][j] # "draining"}
      candidates == IF staying = {} THEN alive ELSE staying
  IN  k \in candidates /\ \A j \in candidates \ {k} : Beats(k, j)

LowestAlive(n, k) == Alive(n, k) /\ \A j \in Nodes : Alive(n, j) => k <= j

\* node_should_be_primary.
ShouldBePrimary(n) == IF PerSite THEN HrwOwner(n, n) ELSE LowestAlive(n, n)

HrwNamesUsInAnyMode(n) == ShouldBePrimary(n)  \* mutant: the single-DB exit is missing

\* per_site_hrw_names_us.
HrwNamesUs(n) == PerSite /\ ShouldBePrimary(n)

WinsConflict(n, k) == IF PerSite THEN Beats(n, k) ELSE n < k

\* replica_url_for: only a member of the cluster is followed.
Follow(n, k) == IF known[n][k] = "unknown" THEN 0 ELSE k

-----------------------------------------------------------------------------
(* The election.                                                           *)

\* initial_role_inner.
InitialRole(n) ==
  CASE OwnFresh(n) -> IF ~PerSite \/ HrwNamesUs(n) THEN n ELSE 0
    [] Foreign(n)  -> Follow(n, Claimant(n))
    [] OTHER       -> 0

ElectAtOnce(n) == IF ShouldBePrimary(n) THEN n ELSE 0  \* mutant: no startup grace

\* The fall-through of evaluate_role: no claim that settles the matter.
Elect(n) ==
  IF role[n] # n /\ boot[n] < Grace THEN 0
  ELSE IF ShouldBePrimary(n) THEN n ELSE 0

\* mutant: a live claim is respected whatever rendezvous hashing says.
EvaluateRoleByClaim(n) ==
  CASE OwnFresh(n) -> n
    [] Foreign(n) /\ Alive(n, Claimant(n)) ->
         IF role[n] = n /\ WinsConflict(n, Claimant(n)) THEN n ELSE Follow(n, Claimant(n))
    [] OTHER -> Elect(n)

\* evaluate_role.
EvaluateRole(n) ==
  CASE OwnFresh(n) /\ (~PerSite \/ HrwNamesUs(n)) -> n
    [] Foreign(n) /\ Alive(n, Claimant(n)) /\ ~HrwNamesUs(n) ->
         IF role[n] = n /\ WinsConflict(n, Claimant(n)) THEN n ELSE Follow(n, Claimant(n))
    [] OTHER -> Elect(n)

\* mutant: the claim is published on a change of role only, never refreshed.
AssumeOnce(n, r) ==
  /\ role' = [role EXCEPT ![n] = r]
  /\ seen' = IF r = n /\ role[n] # n THEN [seen EXCEPT ![n][n] = [age |-> 0, log |-> log[n]]]
             ELSE seen

\* Whoever ends up primary has published its claim (publish_claim).
Assume(n, r) ==
  /\ role' = [role EXCEPT ![n] = r]
  /\ seen' = IF r = n THEN [seen EXCEPT ![n][n] = [age |-> 0, log |-> log[n]]] ELSE seen

\* mutant: the grace is made the delay of the first heartbeat, instead of a condition
\* on self-election.
StartElectionLate(n) ==
  /\ n \in up \ electing
  /\ electing' = electing \cup {n}
  /\ boot' = [boot EXCEPT ![n] = 0]
  /\ hb' = [hb EXCEPT ![n] = Grace]
  /\ Assume(n, InitialRole(n))
  /\ UNCHANGED <<up, known, draining, cut, db, faults>>

\* SqliteElection::build and determine_initial_role; the loop's first heartbeat
\* is due at once.
StartElection(n) ==
  /\ n \in up \ electing
  /\ electing' = electing \cup {n}
  /\ boot' = [boot EXCEPT ![n] = 0]
  /\ hb' = [hb EXCEPT ![n] = 0]
  /\ Assume(n, InitialRole(n))
  /\ UNCHANGED <<up, known, draining, cut, db, faults>>

\* One turn of SqliteElection::run.
Evaluate(n) ==
  /\ n \in electing
  /\ hb[n] = 0
  /\ hb' = [hb EXCEPT ![n] = Heartbeat]
  /\ Assume(n, EvaluateRole(n))
  /\ UNCHANGED <<up, electing, boot, known, draining, cut, db, faults>>

-----------------------------------------------------------------------------
(* Gossip: claims, directly or through a relay, and membership.            *)

\* m hears a newer claim of k from j.  A node skips the states published under
\* its own id, so its previous incarnation's claim never comes back to it.
Gossip(m, j, k) ==
  /\ m # k /\ m # j /\ Connected(m, j)
  /\ seen[j][k].age < seen[m][k].age
  /\ seen' = [seen EXCEPT ![m][k] = seen[j][k]]
  /\ UNCHANGED <<up, electing, role, boot, hb, known, draining, cut, db, faults>>

Status(k) == IF k \in draining THEN "draining" ELSE "alive"

Hear(m, k) ==
  /\ Connected(m, k)
  /\ known[m][k] # Status(k)
  /\ known' = [known EXCEPT ![m][k] = Status(k)]
  /\ UNCHANGED <<up, electing, role, boot, hb, seen, draining, cut, db, faults>>

\* The failure detector gives up on a silent node, sooner or later, but not
\* within the tick it stopped in (chitchat's phi threshold is 8 gossip rounds).
Suspect(m, k) ==
  /\ m \in up /\ ~Connected(m, k)
  /\ k \in up \/ boot[k] > 0
  /\ Alive(m, k)
  /\ known' = [known EXCEPT ![m][k] = "dead"]
  /\ UNCHANGED <<up, electing, role, boot, hb, seen, draining, cut, db, faults>>

\* Nothing that must have happened by now is outstanding.
Timely ==
  /\ \A n \in electing : hb[n] > 0
  /\ \A m, k \in Nodes : Connected(m, k) =>
       /\ seen[k][k].age = Delay => seen[m][k].age <= Delay
       /\ boot[m] >= Delay /\ boot[k] >= Delay => known[m][k] = Status(k)

OlderClaim(c) == IF Live(c) THEN [c EXCEPT !.age = @ + 1] ELSE c

Tick ==
  /\ Timely
  /\ hb' = [n \in Nodes |-> IF n \in electing THEN hb[n] - 1 ELSE hb[n]]
  /\ boot' = [n \in Nodes |-> IF boot[n] < Grace THEN boot[n] + 1 ELSE boot[n]]
  /\ seen' = [m \in Nodes |-> [k \in Nodes |-> OlderClaim(seen[m][k])]]
  /\ UNCHANGED <<up, electing, role, known, draining, cut, db, faults>>

-----------------------------------------------------------------------------
(* Processes, the network and the databases.                               *)

\* A process starts, with nothing but itself in its gossip state.
Boot(n, wipe) ==
  /\ n \notin up
  /\ wipe => MayWipe /\ n \in data /\ \E m \in up : known[m][n] # "unknown"
  /\ up' = up \cup {n}
  /\ boot' = [boot EXCEPT ![n] = 0]
  /\ seen' = [seen EXCEPT ![n] = [k \in Nodes |-> NoClaim]]
  /\ known' = [known EXCEPT ![n] = [k \in Nodes |-> IF k = n THEN "alive" ELSE "unknown"]]
  /\ log' = [log EXCEPT ![n] = IF wipe THEN @ + 1 ELSE @]
  /\ data' = IF wipe THEN data \ {n} ELSE data
  /\ UNCHANGED <<electing, role, hb, draining, cut, faults>>

Crash(n) ==
  /\ n \in up
  /\ faults < MaxFaults /\ faults' = faults + 1
  /\ up' = up \ {n}
  /\ electing' = electing \ {n}
  /\ role' = [role EXCEPT ![n] = 0]
  /\ hb' = [hb EXCEPT ![n] = 0]
  /\ boot' = [boot EXCEPT ![n] = 0]
  /\ draining' = draining \ {n}
  /\ UNCHANGED <<net, cut, db>>

\* mark_draining.
Drain(n) ==
  /\ MayDrain
  /\ n \in up \ draining
  /\ faults < MaxFaults /\ faults' = faults + 1
  /\ draining' = draining \cup {n}
  /\ known' = [known EXCEPT ![n][n] = "draining"]
  /\ UNCHANGED <<up, electing, role, boot, hb, seen, cut, db>>

Partition ==
  /\ MayPartition /\ cut = {}
  /\ faults < MaxFaults /\ faults' = faults + 1
  /\ cut' \in SUBSET Nodes \ {{}, Nodes}
  /\ UNCHANGED <<up, electing, role, boot, hb, net, draining, db>>

Heal ==
  /\ cut # {}
  /\ cut' = {}
  /\ UNCHANGED <<up, electing, role, boot, hb, net, draining, db, faults>>

\* A replica copies the primary it follows: it gets the cluster's data from one
\* that has it, and loses its own to one that started empty.
Replicate(n) ==
  LET k == role[n] IN
  /\ n \in electing /\ k \notin {0, n}
  /\ Connected(n, k) /\ role[k] = k
  /\ data' = IF k \in data THEN data \cup {n} ELSE data \ {n}
  /\ data' # data
  /\ UNCHANGED <<up, electing, role, boot, hb, net, draining, cut, log, faults>>

Next ==
  \/ \E n \in Nodes : \/ StartElection(n) \/ Evaluate(n) \/ Boot(n, FALSE) \/ Boot(n, TRUE)
                      \/ Crash(n) \/ Drain(n) \/ Replicate(n)
  \/ \E m, k \in Nodes : Hear(m, k) \/ Suspect(m, k)
  \/ \E m, j, k \in Nodes : Gossip(m, j, k)
  \/ Tick \/ Partition \/ Heal

Spec == Init /\ [][Next]_vars

\* Processes are restarted and run their loop; time passes; gossip and the
\* failure detector make progress; a partition heals.
FairSpec ==
  /\ Spec
  /\ WF_vars(Tick) /\ WF_vars(Heal)
  /\ \A n \in Nodes : /\ WF_vars(Boot(n, FALSE)) /\ WF_vars(StartElection(n))
                      /\ WF_vars(Evaluate(n))
  /\ \A m, k \in Nodes : /\ WF_vars(Hear(m, k)) /\ WF_vars(Suspect(m, k))
                         /\ WF_vars(\E j \in Nodes : Gossip(m, j, k))

-----------------------------------------------------------------------------
(* Properties.                                                             *)

TypeOK ==
  /\ up \subseteq Nodes /\ electing \subseteq up
  /\ role \in [Nodes -> Nodes \cup {0}]
  /\ boot \in [Nodes -> 0 .. Grace]
  /\ hb \in [Nodes -> 0 .. Heartbeat]
  /\ seen \in [Nodes -> [Nodes -> Claim]]
  /\ known \in [Nodes -> [Nodes -> {"unknown", "alive", "draining", "dead"}]]
  /\ draining \subseteq up
  /\ cut \subseteq Nodes
  /\ log \in [Nodes -> Nat]
  /\ data \subseteq Nodes
  /\ faults \in Nat

Primaries == {n \in electing : role[n] = n}

\* While the network does not split there is never a second primary, however
\* nodes join, crash and come back (startup grace and claim TTL).
OnePrimary == Cardinality(Primaries) <= 1

\* A healthy incumbent is never deposed by a node that joins (issue #314).
IncumbentKept ==
  [][\A n \in Primaries : n \in up' => role'[n] = n]_vars

\* After the last fault the cluster settles on one primary, and every other
\* node follows it.
Settles == <>[](\E p \in up : \A n \in up : n \in electing /\ role[n] = p)

\* For a site, the node that settles is the one rendezvous hashing names.
SettlesOnOwner ==
  <>[](\E p \in up : /\ \A n \in up : n \in electing /\ role[n] = p
                     /\ \A k \in up \ {p} : k \in draining \/ Beats(p, k))

\* A node whose volume was wiped across a restart does not lead while a node
\* that has the cluster's data runs and is past its own startup grace
\* (issue #344).  Violated: see the README, section 4.
EmptyNodeDoesNotLead ==
  \A n \in Primaries, m \in electing : n \notin data /\ m \in data => boot[m] < Grace
=============================================================================
