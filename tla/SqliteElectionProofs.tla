------------------------ MODULE SqliteElectionProofs ------------------------
(***************************************************************************)
(* Proofs about SqliteElection, for any number of nodes and any durations: *)
(* the state keeps its type; and in the single-database election, while    *)
(* the network does not split and gossip delivers a claim within one       *)
(* heartbeat, there is never a second primary and a running primary is     *)
(* never deposed.                                                          *)
(***************************************************************************)
EXTENDS SqliteElection, SeqLemmas, TLAPS

\* Of two claims in the view of n, that of k is the newer one.
Better(n, k, j) ==
  seen[n][k].age < seen[n][j].age \/ (seen[n][k].age = seen[n][j].age /\ k >= j)

\* What the assumption on the constants says, in one place.
LEMMA Constants ==
  /\ Nodes \subseteq Nat \ {0} /\ IsFiniteSet(Nodes)
  /\ Heartbeat \in Nat \ {0} /\ TTL \in Nat \ {0} /\ Grace \in Nat \ {0} /\ Delay \in Nat \ {0}
BY ConstantsAssumption

\* Claims in a view have an age, and are live below the TTL.
LEMMA ClaimAges ==
  ASSUME TypeOK, NEW m \in Nodes, NEW k \in Nodes
  PROVE  /\ seen[m][k] \in Claim
         /\ seen[m][k].age \in Nat /\ seen[m][k].age <= TTL
         /\ Live(seen[m][k]) <=> seen[m][k].age # TTL
BY Constants DEF TypeOK, Claim, Live

\* Every node sees a newest claim (gossip_get).
LEMMA NewestExists ==
  ASSUME TypeOK, NEW n \in Nodes
  PROVE  Newest(n) \in Nodes /\ \A j \in Nodes : Better(n, Newest(n), j)
<1> DEFINE Ages == {seen[n][k].age : k \in Nodes}
<1>1. Ages \subseteq Nat /\ Ages # {}
  BY ClaimAges
<1>2. PICK a \in Ages : \A b \in Ages : a <= b
  BY <1>1, LowestExists
<1>3. PICK i \in Nodes : seen[n][i].age = a
  BY <1>2
<1>4. \A k \in Nodes : a <= seen[n][k].age
  BY <1>2
<1> DEFINE Youngest == {k \in Nodes : seen[n][k].age = a}
<1>5. i \in Youngest /\ Youngest # {} /\ Youngest \subseteq Nat /\ Youngest \subseteq Nodes
  BY <1>3, Constants
<1>6. IsFiniteSet(Youngest)
  BY <1>5, Constants, FS_Subset
<1>7. PICK m \in Youngest : \A k \in Youngest : m >= k
  BY <1>5, <1>6, HighestExists
<1>8. m \in Nodes /\ \A j \in Nodes : Better(n, m, j)
  <2>1. m \in Nodes /\ seen[n][m].age = a
    BY <1>7
  <2>2. ASSUME NEW j \in Nodes PROVE Better(n, m, j)
    <3>1. CASE seen[n][j].age = a
      BY <2>1, <3>1, <1>7 DEF Better
    <3>2. CASE seen[n][j].age # a
      <4>1. a \in Nat /\ seen[n][j].age \in Nat /\ a <= seen[n][j].age
        BY <1>1, <1>2, <1>4, ClaimAges
      <4> QED
        BY <2>1, <3>2, <4>1 DEF Better
    <3> QED
      BY <3>1, <3>2
  <2> QED
    BY <2>1, <2>2
<1> QED
  BY <1>8 DEF Newest, Better

\* The claimant a node sees is a node, or nobody.
LEMMA ClaimantType ==
  ASSUME TypeOK, NEW n \in Nodes
  PROVE  Claimant(n) \in Nodes \cup {0}
BY NewestExists DEF Claimant

\* A role names a node, or nobody.
LEMMA RoleTypes ==
  ASSUME TypeOK, NEW n \in Nodes
  PROVE  InitialRole(n) \in Nodes \cup {0} /\ EvaluateRole(n) \in Nodes \cup {0}
BY ClaimantType DEF InitialRole, EvaluateRole, Elect, Follow

\* The absent claim is a claim.
LEMMA NoClaimType == NoClaim \in Claim
BY Constants DEF NoClaim, Claim

\* Taking a role keeps roles and claims typed.
LEMMA AssumeType ==
  ASSUME TypeOK, NEW n \in Nodes, NEW r \in Nodes \cup {0}, Assume(n, r)
  PROVE  role' \in [Nodes -> Nodes \cup {0}] /\ seen' \in [Nodes -> [Nodes -> Claim]]
<1>1. [age |-> 0, log |-> log[n]] \in Claim
  BY Constants DEF TypeOK, Claim
<1> QED
  BY <1>1 DEF TypeOK, Assume

\* A tick ages a claim by one, up to the TTL.
LEMMA OlderType ==
  ASSUME NEW c \in Claim
  PROVE  /\ OlderClaim(c) \in Claim
         /\ OlderClaim(c).age = IF c.age = TTL THEN TTL ELSE c.age + 1
         /\ OlderClaim(c).log = c.log
BY Constants DEF OlderClaim, Claim, Live

\* A tick keeps the types: due heartbeats ran before it.
LEMMA TickType ==
  ASSUME TypeOK, Tick
  PROVE  TypeOK'
<1>1. hb' \in [Nodes -> 0 .. Heartbeat]
  BY Constants DEF TypeOK, Tick, Timely
<1>2. boot' \in [Nodes -> 0 .. Grace]
  BY Constants DEF TypeOK, Tick
<1>3. seen' \in [Nodes -> [Nodes -> Claim]]
  BY OlderType DEF TypeOK, Tick
<1> QED
  BY <1>1, <1>2, <1>3 DEF TypeOK, Tick, db

\* Every step keeps the types.
LEMMA StepTypeOK == TypeOK /\ [Next]_vars => TypeOK'
<1> SUFFICES ASSUME TypeOK, [Next]_vars PROVE TypeOK'
  OBVIOUS
<1>1. CASE UNCHANGED vars
  BY <1>1 DEF TypeOK, vars, net, db
<1>2. ASSUME NEW n \in Nodes, StartElection(n) PROVE TypeOK'
  <2>1. role' \in [Nodes -> Nodes \cup {0}] /\ seen' \in [Nodes -> [Nodes -> Claim]]
    BY <1>2, AssumeType, RoleTypes DEF StartElection
  <2>2. /\ electing' = electing \cup {n} /\ n \in up
        /\ boot' = [boot EXCEPT ![n] = 0] /\ hb' = [hb EXCEPT ![n] = 0]
        /\ UNCHANGED <<up, known, draining, cut, log, data, faults>>
    BY <1>2 DEF StartElection, db
  <2> QED
    BY <2>1, <2>2, Constants DEF TypeOK
<1>3. ASSUME NEW n \in Nodes, Evaluate(n) PROVE TypeOK'
  <2>1. role' \in [Nodes -> Nodes \cup {0}] /\ seen' \in [Nodes -> [Nodes -> Claim]]
    BY <1>3, AssumeType, RoleTypes DEF Evaluate
  <2>2. /\ hb' = [hb EXCEPT ![n] = Heartbeat]
        /\ UNCHANGED <<up, electing, boot, known, draining, cut, log, data, faults>>
    BY <1>3 DEF Evaluate, db
  <2> QED
    BY <2>1, <2>2, Constants DEF TypeOK
<1>4. ASSUME NEW n \in Nodes, NEW wipe \in BOOLEAN, Boot(n, wipe) PROVE TypeOK'
  BY <1>4, Constants, NoClaimType DEF Boot, TypeOK
<1>5. ASSUME NEW n \in Nodes, Crash(n) PROVE TypeOK'
  BY <1>5, Constants DEF Crash, TypeOK, net, db
<1>6. ASSUME NEW n \in Nodes, Drain(n) \/ Replicate(n) PROVE TypeOK'
  <2>1. CASE Drain(n)
    BY <2>1 DEF Drain, TypeOK, db
  <2>2. CASE Replicate(n)
    <3>1. data' \subseteq Nodes
      BY <2>2 DEF Replicate, TypeOK
    <3>2. UNCHANGED <<up, electing, role, boot, hb, seen, known, draining, cut, log, faults>>
      BY <2>2 DEF Replicate, net
    <3> QED
      BY <3>1, <3>2 DEF TypeOK
  <2> QED
    BY <1>6, <2>1, <2>2
<1>7. ASSUME NEW m \in Nodes, NEW k \in Nodes, Hear(m, k) \/ Suspect(m, k) PROVE TypeOK'
  <2>1. \E v \in {"unknown", "alive", "draining", "dead"} : known' = [known EXCEPT ![m][k] = v]
    BY <1>7 DEF Hear, Suspect, Status
  <2>2. UNCHANGED <<up, electing, role, boot, hb, seen, draining, cut, log, data, faults>>
    BY <1>7 DEF Hear, Suspect, db
  <2> QED
    BY <2>1, <2>2 DEF TypeOK
<1>8. ASSUME NEW m \in Nodes, NEW j \in Nodes, NEW k \in Nodes, Gossip(m, j, k) PROVE TypeOK'
  BY <1>8 DEF Gossip, TypeOK, db
<1>9. CASE Tick
  BY <1>9, TickType
<1>10. CASE Partition \/ Heal
  BY <1>10 DEF Partition, Heal, TypeOK, net, db
<1> QED
  BY <1>1, <1>2, <1>3, <1>4, <1>5, <1>6, <1>7, <1>8, <1>9, <1>10 DEF Next

\* The election's state keeps its type, in both modes and for any durations: a
\* role names a node, claims do not age past their TTL, the heartbeat counts down
\* from its interval.
THEOREM ElectionTypeCorrect == Spec => []TypeOK
<1>1. Init => TypeOK
  BY Constants, NoClaimType DEF Init, TypeOK
<1> QED
  BY <1>1, StepTypeOK, PTL DEF Spec

-----------------------------------------------------------------------------
(* One primary.                                                            *)

\* The single-database election, no partition, and the timing it is built on: a
\* claim reaches every peer before the next heartbeat, outlives a refresh that is
\* delivered late, and the startup grace covers both (STARTUP_GRACE).
Timing ==
  /\ ~PerSite /\ ~MayPartition
  /\ Delay < Heartbeat
  /\ Heartbeat + Delay < TTL
  /\ Heartbeat + 2 * Delay < Grace

Primary(n) == n \in electing /\ role[n] = n

\* The age of the claim a node has published itself.
Mine(n) == seen[n][n].age

\* In its own view the node holds the newest claim, and it has not expired.
OwnBest(n) == Live(seen[n][n]) /\ \A j \in Nodes : Better(n, n, j)

\* Two running nodes know each other once both have run for longer than Delay.
Members ==
  \A m, k \in up : m = k \/ (boot[m] > Delay /\ boot[k] > Delay) => Alive(m, k)

\* A live claim of one's own names the database one has.
Logs == \A n \in up : Live(seen[n][n]) => seen[n][n].log = log[n]

\* Only a primary sees itself as the claimant.
NoOwn == \A n \in up : role[n] # n => ~OwnBest(n)

Resting == \A n \in Nodes : n \notin electing => role[n] = 0

\* A primary refreshes its claim with every heartbeat.
Beating ==
  \A p \in Nodes : Primary(p) => boot[p] = Grace /\ Mine(p) + hb[p] = Heartbeat

\* Nobody has a younger claim of the primary than the primary itself.
Source == \A p, x \in Nodes : Primary(p) => seen[x][p].age >= Mine(p)

\* A claim of p was published in this tick.
Recent(p) == \E x \in Nodes : seen[x][p].age = 0

\* Until the tick ends a primary that stopped counts like one that runs.
Lead(p) == Primary(p) \/ Recent(p)
Age(p) == IF Primary(p) THEN Mine(p) ELSE 0

\* Nobody has given up yet on a primary that stopped in this tick.
Departed ==
  \A p \in Nodes : Recent(p) /\ ~Primary(p) =>
    boot[p] = 0 /\ \A m \in up : boot[m] > Delay => Alive(m, p)

\* A node that outranks the primary has its claim, or has only just started.
Heard ==
  \A p \in Nodes, m \in up : Lead(p) /\ m < p =>
    IF Age(p) > Delay
    THEN seen[m][p].age <= Age(p) \/ boot[m] < Age(p) - Delay
    ELSE seen[m][p].age <= Heartbeat + Age(p) \/ boot[m] <= Heartbeat + Age(p)

\* Whatever others claimed is older than t.
Old(p, t) == \A x, k \in Nodes : k # p => ~Live(seen[x][k]) \/ seen[x][k].age >= t

\* The nodes that outrank p have not run for longer than t.
Young(p, t) == \A m \in up : m < p => boot[m] <= t

\* The claims of earlier primaries are older than the first claim of this one.
\* After a refresh the distance is a heartbeat, after another one two; as long as
\* it is not, no node that outranks the primary is past its startup grace.
Outdated ==
  \A p \in Nodes : Lead(p) =>
    \/ Old(p, Age(p) + 1) /\ Young(p, Delay + Age(p))
    \/ Old(p, Heartbeat + Age(p)) /\ Young(p, Delay + Heartbeat + Age(p))
    \/ Old(p, 2 * Heartbeat + Age(p))

Alone == \A p, q \in Nodes : Lead(p) /\ Lead(q) => p = q

ElectInv ==
  /\ cut = {}
  /\ Members /\ Logs /\ NoOwn /\ Resting /\ Beating /\ Source
  /\ Departed /\ Heard /\ Outdated /\ Alone

\* A node that names itself the claimant holds the newest claim.
LEMMA ClaimantSelf ==
  ASSUME TypeOK, NEW n \in Nodes
  PROVE  Claimant(n) = n <=> OwnBest(n)
<1>1. Newest(n) \in Nodes /\ \A j \in Nodes : Better(n, Newest(n), j)
  BY NewestExists
<1>2. n # 0 /\ n \in Nat /\ Newest(n) \in Nat
  BY <1>1, Constants
<1>3. \A j \in Nodes : seen[n][j].age \in Nat
  BY ClaimAges
<1>4. ASSUME Claimant(n) = n PROVE OwnBest(n)
  BY <1>1, <1>2, <1>4 DEF Claimant, OwnBest
<1>5. ASSUME OwnBest(n) PROVE Claimant(n) = n
  <2>1. Better(n, n, Newest(n)) /\ Better(n, Newest(n), n)
    BY <1>1, <1>5 DEF OwnBest
  <2>2. Newest(n) = n
    BY <1>1, <1>2, <1>3, <2>1 DEF Better
  <2> QED
    BY <1>5, <2>2 DEF Claimant, OwnBest
<1> QED
  BY <1>4, <1>5

\* The age of a lead is a number.
LEMMA AgeNat ==
  ASSUME TypeOK, NEW p \in Nodes
  PROVE  Age(p) \in Nat
BY ClaimAges DEF Age, Mine

\* A step that makes no node a lead, and nothing younger, disturbs neither the
\* distance to earlier claims nor that there is one lead.
LEMMA QuietStep ==
  ASSUME TypeOK, ElectInv,
         \A p \in Nodes : Lead(p)' => Lead(p) /\ Age(p)' = Age(p),
         \A p \in Nodes : \A t \in Nat :
           (Old(p, t) => Old(p, t)') /\ (Young(p, t) => Young(p, t)')
  PROVE  (Outdated /\ Alone)'
<1>1. Outdated'
  <2> SUFFICES ASSUME NEW p \in Nodes, Lead(p)'
               PROVE  \/ Old(p, Age(p) + 1)' /\ Young(p, Delay + Age(p))'
                      \/ Old(p, Heartbeat + Age(p))' /\ Young(p, Delay + Heartbeat + Age(p))'
                      \/ Old(p, 2 * Heartbeat + Age(p))'
    BY DEF Outdated
  <2>1. Lead(p) /\ Age(p)' = Age(p) /\ Age(p) \in Nat
    BY AgeNat
  <2>2. /\ Age(p) + 1 \in Nat /\ Delay + Age(p) \in Nat /\ Heartbeat + Age(p) \in Nat
        /\ Delay + Heartbeat + Age(p) \in Nat /\ 2 * Heartbeat + Age(p) \in Nat
    BY <2>1, Constants
  <2>3. \/ Old(p, Age(p) + 1) /\ Young(p, Delay + Age(p))
        \/ Old(p, Heartbeat + Age(p)) /\ Young(p, Delay + Heartbeat + Age(p))
        \/ Old(p, 2 * Heartbeat + Age(p))
    BY <2>1 DEF ElectInv, Outdated
  <2> QED
    BY <2>1, <2>2, <2>3
<1>2. Alone'
  BY DEF ElectInv, Alone
<1> QED
  BY <1>1, <1>2

\* Steps of membership, drains and data leave the claims and the roles alone.
LEMMA ViewsInv ==
  ASSUME Timing, TypeOK, ElectInv,
         \/ \E n \in Nodes : Drain(n) \/ Replicate(n)
         \/ \E m, k \in Nodes : Hear(m, k) \/ Suspect(m, k)
  PROVE  ElectInv'
<1>1. UNCHANGED <<up, electing, role, boot, hb, seen, cut, log>>
  BY DEF Drain, Replicate, Hear, Suspect, net, db
<1>2. Members'
  <2>1. CASE \E n \in Nodes : Drain(n)
    BY <1>1, <2>1 DEF Drain, ElectInv, Members, TypeOK, Alive
  <2>2. CASE \E n \in Nodes : Replicate(n)
    BY <1>1, <2>2 DEF Replicate, ElectInv, Members, Alive, net
  <2>3. CASE \E m, k \in Nodes : Hear(m, k)
    <3>1. PICK m \in Nodes, k \in Nodes : Hear(m, k)
      BY <2>3
    <3>2. known' = [known EXCEPT ![m][k] = Status(k)] /\ Status(k) \in {"alive", "draining"}
      BY <3>1 DEF Hear, Status
    <3> QED
      BY <1>1, <3>2 DEF ElectInv, Members, TypeOK, Alive
  <2>4. CASE \E m, k \in Nodes : Suspect(m, k)
    <3>1. PICK m \in Nodes, k \in Nodes : Suspect(m, k)
      BY <2>4
    <3>2. known' = [known EXCEPT ![m][k] = "dead"] /\ k \notin up
      BY <3>1 DEF Suspect, Connected, ElectInv
    <3> QED
      BY <1>1, <3>2 DEF ElectInv, Members, TypeOK, Alive
  <2> QED
    BY <2>1, <2>2, <2>3, <2>4
<1>3. (Logs /\ NoOwn /\ Resting)'
  BY <1>1 DEF ElectInv, Logs, NoOwn, Resting, OwnBest, Better, Live
<1>4. \A p \in Nodes : /\ Mine(p)' = Mine(p) /\ (Primary(p)' <=> Primary(p))
                       /\ (Recent(p)' <=> Recent(p)) /\ Age(p)' = Age(p)
  BY <1>1 DEF Mine, Primary, Recent, Age
<1>5. (Beating /\ Source /\ Heard)'
  BY <1>1, <1>4 DEF ElectInv, Beating, Source, Heard, Lead
<1>6. (Outdated /\ Alone)'
  <2>1. \A p \in Nodes : \A t \in Nat :
          (Old(p, t) => Old(p, t)') /\ (Young(p, t) => Young(p, t)')
    BY <1>1 DEF Old, Young, Live
  <2> QED
    BY <1>4, <2>1, QuietStep DEF Lead
<1>7. Departed'
  <2> SUFFICES ASSUME NEW p \in Nodes, Recent(p), ~Primary(p), NEW m \in up, boot[m] > Delay
               PROVE  boot[p] = 0 /\ Alive(m, p)'
    BY <1>1, <1>4 DEF ElectInv, Departed
  <2>1. boot[p] = 0 /\ Alive(m, p) /\ m \in Nodes
    BY DEF ElectInv, Departed, TypeOK
  <2>2. CASE \E n \in Nodes : Drain(n)
    BY <2>1, <2>2 DEF Drain, TypeOK, Alive
  <2>3. CASE \E n \in Nodes : Replicate(n)
    BY <2>1, <2>3 DEF Replicate, Alive, net
  <2>4. CASE \E x, k \in Nodes : Hear(x, k)
    <3>1. PICK x \in Nodes, k \in Nodes : Hear(x, k)
      BY <2>4
    <3>2. known' = [known EXCEPT ![x][k] = Status(k)] /\ Status(k) \in {"alive", "draining"}
      BY <3>1 DEF Hear, Status
    <3> QED
      BY <2>1, <3>2 DEF TypeOK, Alive
  <2>5. CASE \E x, k \in Nodes : Suspect(x, k)
    <3>1. PICK x \in Nodes, k \in Nodes : Suspect(x, k)
      BY <2>5
    <3>2. known' = [known EXCEPT ![x][k] = "dead"] /\ k \notin up /\ boot[k] > 0
      BY <3>1 DEF Suspect, Connected, ElectInv
    <3>3. k # p
      BY <2>1, <3>2
    <3> QED
      BY <2>1, <3>2, <3>3 DEF TypeOK, Alive
  <2> QED
    BY <2>1, <2>2, <2>3, <2>4, <2>5
<1> QED
  BY <1>1, <1>2, <1>3, <1>5, <1>6, <1>7 DEF ElectInv

\* A crash takes a node out.
LEMMA CrashInv ==
  ASSUME Timing, TypeOK, ElectInv, NEW n \in Nodes, Crash(n)
  PROVE  ElectInv'
<1>1. /\ up' = up \ {n} /\ electing' = electing \ {n}
      /\ role' = [role EXCEPT ![n] = 0] /\ hb' = [hb EXCEPT ![n] = 0]
      /\ boot' = [boot EXCEPT ![n] = 0]
      /\ UNCHANGED <<seen, known, cut, log>>
  BY DEF Crash, net, db
<1>2. \A p \in Nodes : Primary(p)' <=> Primary(p) /\ p # n
  BY <1>1, Constants DEF Primary, TypeOK
<1>3. \A p \in Nodes : p # n => hb'[p] = hb[p] /\ boot'[p] = boot[p]
  BY <1>1 DEF TypeOK
<1>4. \A p \in Nodes : Mine(p)' = Mine(p) /\ (Recent(p)' <=> Recent(p))
  BY <1>1 DEF Mine, Recent
<1>5. \A p \in Nodes : Lead(p)' => Lead(p) /\ Age(p)' = Age(p)
  <2> SUFFICES ASSUME NEW p \in Nodes, Lead(p)' PROVE Lead(p) /\ Age(p)' = Age(p)
    OBVIOUS
  <2>1. CASE Primary(p)'
    BY <1>2, <1>4, <2>1 DEF Lead, Age
  <2>2. CASE ~Primary(p)' /\ ~Primary(p)
    BY <1>4, <2>2 DEF Lead, Age
  <2>3. CASE ~Primary(p)' /\ Primary(p)
    <3>1. PICK x \in Nodes : seen[x][p].age = 0
      BY <1>4, <2>3 DEF Lead, Recent
    <3>2. Mine(p) = 0
      BY <2>3, <3>1, ClaimAges DEF ElectInv, Source, Mine
    <3> QED
      BY <2>3, <3>2 DEF Lead, Age
  <2> QED
    BY <2>1, <2>2, <2>3
<1>6. (Members /\ Logs)'
  BY <1>1, <1>3 DEF ElectInv, Members, Logs, Alive, Live, TypeOK
<1>7. (NoOwn /\ Resting)'
  BY <1>1, Constants DEF ElectInv, TypeOK, NoOwn, Resting, OwnBest, Better, Live
<1>8. (Beating /\ Source)'
  BY <1>1, <1>2, <1>3, <1>4 DEF ElectInv, Beating, Source
<1>9. Departed'
  <2> SUFFICES ASSUME NEW p \in Nodes, Recent(p), ~Primary(p)'
               PROVE  boot'[p] = 0 /\ \A m \in up \ {n} : boot[m] > Delay => Alive(m, p)
    BY <1>1, <1>3, <1>4 DEF Departed, Alive, TypeOK
  <2>1. CASE p = n /\ Primary(p)
    <3>1. p \in up /\ boot[p] > Delay /\ boot'[p] = 0
      BY <1>1, <2>1, Constants DEF ElectInv, Beating, Timing, TypeOK, Primary
    <3> QED
      BY <3>1 DEF ElectInv, Members
  <2>2. CASE ~Primary(p)
    BY <1>1, <2>2 DEF ElectInv, Departed, TypeOK
  <2> QED
    BY <1>2, <2>1, <2>2
<1>10. Heard'
  <2> SUFFICES ASSUME NEW p \in Nodes, NEW m \in up', Lead(p)', m < p
               PROVE  IF Age(p)' > Delay
                      THEN seen'[m][p].age <= Age(p)' \/ boot'[m] < Age(p)' - Delay
                      ELSE seen'[m][p].age <= Heartbeat + Age(p)' \/ boot'[m] <= Heartbeat + Age(p)'
    BY DEF Heard
  <2>1. m \in up /\ m \in Nodes /\ m # n
    BY <1>1 DEF TypeOK
  <2>2. seen'[m][p] = seen[m][p] /\ boot'[m] = boot[m] /\ Age(p)' = Age(p) /\ Lead(p)
    BY <1>1, <1>3, <1>5, <2>1
  <2> QED
    BY <2>1, <2>2 DEF ElectInv, Heard
<1>11. \A p \in Nodes : \A t \in Nat :
         (Old(p, t) => Old(p, t)') /\ (Young(p, t) => Young(p, t)')
  BY <1>1, <1>3 DEF Old, Young, Live, TypeOK
<1>12. (Outdated /\ Alone)'
  BY <1>5, <1>11, QuietStep
<1> QED
  BY <1>1, <1>6, <1>7, <1>8, <1>9, <1>10, <1>12 DEF ElectInv

\* A new process knows nothing, and nobody waits for it yet.
LEMMA BootInv ==
  ASSUME Timing, TypeOK, ElectInv, NEW n \in Nodes, NEW wipe \in BOOLEAN, Boot(n, wipe)
  PROVE  ElectInv'
<1>1. /\ n \notin up /\ up' = up \cup {n}
      /\ boot' = [boot EXCEPT ![n] = 0]
      /\ seen' = [seen EXCEPT ![n] = [k \in Nodes |-> NoClaim]]
      /\ known' = [known EXCEPT ![n] = [k \in Nodes |-> IF k = n THEN "alive" ELSE "unknown"]]
      /\ \A m \in Nodes \ {n} : log'[m] = log[m]
      /\ UNCHANGED <<electing, role, hb, cut>>
  BY DEF Boot, TypeOK
<1>2. n \notin electing /\ role[n] = 0 /\ n # 0
  BY <1>1, Constants DEF TypeOK, ElectInv, Resting
<1>3. /\ \A k \in Nodes : seen'[n][k] = NoClaim
      /\ \A m \in Nodes \ {n} : seen'[m] = seen[m] /\ boot'[m] = boot[m]
      /\ boot'[n] = 0
  BY <1>1 DEF TypeOK
<1>4. NoClaim.age = TTL /\ ~Live(NoClaim)
  BY Constants DEF NoClaim, Live
<1>5. \A p \in Nodes : Primary(p)' => Primary(p) /\ p # n
  BY <1>1, <1>2 DEF Primary
<1>6. \A p \in Nodes : p # n => Mine(p)' = Mine(p)
  BY <1>3 DEF Mine
<1>7. Members'
  <2>1. \A m, k \in Nodes : m # n => known'[m][k] = known[m][k]
    BY <1>1 DEF TypeOK
  <2>2. known'[n][n] = "alive"
    BY <1>1 DEF TypeOK
  <2>3. ~(boot'[n] > Delay)
    BY <1>3, Constants
  <2> QED
    BY <1>1, <1>3, <2>1, <2>2, <2>3 DEF ElectInv, Members, Alive, TypeOK
<1>8. Logs'
  BY <1>1, <1>3, <1>4 DEF ElectInv, Logs, TypeOK, Live
<1>9. NoOwn'
  <2>1. ASSUME NEW m \in up', role'[m] # m PROVE ~OwnBest(m)'
    <3>1. CASE m = n
      BY <1>3, <1>4, <3>1 DEF OwnBest, Live
    <3>2. CASE m # n
      BY <1>1, <1>3, <2>1, <3>2 DEF ElectInv, NoOwn, OwnBest, Better, Live, TypeOK
    <3> QED
      BY <3>1, <3>2
  <2> QED
    BY <2>1 DEF NoOwn
<1>10. Resting'
  BY <1>1 DEF ElectInv, Resting
<1>11. \A p \in Nodes : (Primary(p)' <=> Primary(p)) /\ (Primary(p) => p # n)
  BY <1>1, <1>2 DEF Primary
<1>12. (Beating /\ Source)'
  <2>1. Beating'
    BY <1>1, <1>3, <1>5, <1>6 DEF ElectInv, Beating
  <2>2. ASSUME NEW p \in Nodes, NEW x \in Nodes, Primary(p) PROVE seen'[x][p].age >= Mine(p)'
    <3>1. Mine(p)' = Mine(p) /\ Mine(p) <= TTL
      BY <1>6, <1>11, <2>2, ClaimAges DEF Mine
    <3>2. CASE x = n
      BY <1>3, <1>4, <3>1, <3>2
    <3>3. CASE x # n
      BY <1>3, <2>2, <3>1, <3>3 DEF ElectInv, Source
    <3> QED
      BY <3>2, <3>3
  <2> QED
    BY <1>11, <2>1, <2>2 DEF Source
<1>13. \A p \in Nodes : Recent(p)' => Recent(p)
  BY <1>3, <1>4, Constants DEF Recent
<1>14. \A p \in Nodes : Lead(p)' => Lead(p) /\ Age(p)' = Age(p)
  BY <1>6, <1>11, <1>13 DEF Lead, Age
<1>15. Departed'
  <2> SUFFICES ASSUME NEW p \in Nodes, Recent(p), ~Primary(p)
               PROVE  boot'[p] = 0 /\ \A m \in up' : boot'[m] > Delay => Alive(m, p)'
    BY <1>11, <1>13 DEF Departed
  <2>1. boot'[p] = 0
    BY <1>3 DEF ElectInv, Departed
  <2>2. ASSUME NEW m \in up', boot'[m] > Delay PROVE Alive(m, p)'
    <3>1. m # n /\ m \in up /\ m \in Nodes /\ boot[m] > Delay
      BY <1>1, <1>3, <2>2, Constants DEF TypeOK
    <3> QED
      BY <1>1, <3>1 DEF ElectInv, Departed, Alive, TypeOK
  <2> QED
    BY <2>1, <2>2
<1>16. Heard'
  <2> SUFFICES ASSUME NEW p \in Nodes, NEW m \in up', Lead(p)', m < p
               PROVE  IF Age(p)' > Delay
                      THEN seen'[m][p].age <= Age(p)' \/ boot'[m] < Age(p)' - Delay
                      ELSE seen'[m][p].age <= Heartbeat + Age(p)' \/ boot'[m] <= Heartbeat + Age(p)'
    BY DEF Heard
  <2>1. Lead(p) /\ Age(p)' = Age(p) /\ Age(p) \in Nat
    BY <1>14, AgeNat
  <2>2. CASE m = n
    BY <1>3, <2>1, <2>2, Constants
  <2>3. CASE m # n
    BY <1>1, <1>3, <2>1, <2>3 DEF ElectInv, Heard, TypeOK
  <2> QED
    BY <2>2, <2>3
<1>17. \A p \in Nodes : \A t \in Nat :
         (Old(p, t) => Old(p, t)') /\ (Young(p, t) => Young(p, t)')
  <2> SUFFICES ASSUME NEW p \in Nodes, NEW t \in Nat
               PROVE  (Old(p, t) => Old(p, t)') /\ (Young(p, t) => Young(p, t)')
    OBVIOUS
  <2>1. Old(p, t) => Old(p, t)'
    BY <1>3, <1>4 DEF Old, Live
  <2>2. Young(p, t) => Young(p, t)'
    BY <1>1, <1>3 DEF Young, TypeOK
  <2> QED
    BY <2>1, <2>2
<1>18. (Outdated /\ Alone)'
  BY <1>14, <1>17, QuietStep
<1> QED
  BY <1>1, <1>7, <1>8, <1>9, <1>10, <1>12, <1>15, <1>16, <1>18 DEF ElectInv

\* Gossip makes a peer's claim younger, as young as the relay has it.
LEMMA GossipInv ==
  ASSUME Timing, TypeOK, ElectInv,
         NEW m \in Nodes, NEW j \in Nodes, NEW k \in Nodes, Gossip(m, j, k)
  PROVE  ElectInv'
<1>1. /\ m # k /\ seen[j][k].age < seen[m][k].age
      /\ seen' = [seen EXCEPT ![m][k] = seen[j][k]]
      /\ UNCHANGED <<up, electing, role, boot, hb, known, cut, log>>
  BY DEF Gossip, db
<1>2. /\ \A x, y \in Nodes : ~(x = m /\ y = k) => seen'[x][y] = seen[x][y]
      /\ seen'[m][k] = seen[j][k]
  BY <1>1 DEF TypeOK
<1>3. \A x, y \in Nodes : seen'[x][y].age <= seen[x][y].age /\ seen[x][y].age \in Nat
  BY <1>1, <1>2, ClaimAges
<1>4. \A x \in Nodes : seen'[x][x] = seen[x][x]
  BY <1>1, <1>2
<1>5. (Members /\ Resting)'
  BY <1>1 DEF ElectInv, Members, Resting, Alive
<1>6. Logs'
  BY <1>1, <1>4 DEF ElectInv, Logs, TypeOK, Live
<1>7. NoOwn'
  <2>1. ASSUME NEW x \in Nodes, OwnBest(x)' PROVE OwnBest(x)
    <3>1. ASSUME NEW y \in Nodes, Better(x, x, y)' PROVE Better(x, x, y)
      <4>1. x \in Nat /\ y \in Nat /\ seen'[x][x].age = seen[x][x].age
            /\ seen'[x][y].age <= seen[x][y].age /\ seen[x][y].age \in Nat /\ seen[x][x].age \in Nat
        BY <1>3, <1>4, Constants
      <4>2. seen'[x][y].age \in Nat
        BY <1>2, ClaimAges
      <4> QED
        BY <3>1, <4>1, <4>2 DEF Better
    <3> QED
      BY <1>4, <2>1, <3>1 DEF OwnBest, Live
  <2> QED
    BY <1>1, <2>1 DEF ElectInv, NoOwn, TypeOK
<1>8. \A p \in Nodes : Mine(p)' = Mine(p) /\ (Primary(p)' <=> Primary(p))
  BY <1>1, <1>4 DEF Mine, Primary
<1>9. (Beating /\ Source)'
  BY <1>1, <1>2, <1>8 DEF ElectInv, Beating, Source
<1>10. \A p \in Nodes : Recent(p)' => Recent(p)
  BY <1>2 DEF Recent
<1>11. \A p \in Nodes : Lead(p)' => Lead(p) /\ Age(p)' = Age(p)
  BY <1>8, <1>10 DEF Lead, Age
<1>12. Departed'
  BY <1>1, <1>8, <1>10 DEF ElectInv, Departed, Alive
<1>13. Heard'
  <2> SUFFICES ASSUME NEW p \in Nodes, NEW x \in up, Lead(p)', x < p
               PROVE  IF Age(p)' > Delay
                      THEN seen'[x][p].age <= Age(p)' \/ boot'[x] < Age(p)' - Delay
                      ELSE seen'[x][p].age <= Heartbeat + Age(p)' \/ boot'[x] <= Heartbeat + Age(p)'
    BY <1>1 DEF Heard
  <2>1. x \in Nodes /\ seen'[x][p].age <= seen[x][p].age /\ seen[x][p].age \in Nat
    BY <1>3 DEF TypeOK
  <2>2. seen'[x][p].age \in Nat /\ Age(p) \in Nat
    BY <1>2, <2>1, ClaimAges, AgeNat
  <2>3. IF Age(p) > Delay
        THEN seen[x][p].age <= Age(p) \/ boot[x] < Age(p) - Delay
        ELSE seen[x][p].age <= Heartbeat + Age(p) \/ boot[x] <= Heartbeat + Age(p)
    BY <1>11 DEF ElectInv, Heard
  <2> QED
    BY <1>1, <1>11, <2>1, <2>2, <2>3, Constants
<1>14. \A p \in Nodes : \A t \in Nat :
         (Old(p, t) => Old(p, t)') /\ (Young(p, t) => Young(p, t)')
  BY <1>1, <1>2 DEF Old, Young, Live
<1>15. (Outdated /\ Alone)'
  BY <1>11, <1>14, QuietStep
<1> QED
  BY <1>1, <1>5, <1>6, <1>7, <1>9, <1>12, <1>13, <1>15 DEF ElectInv

\* A node that starts its election is never primary at once: it has published
\* nothing since it booted (determine_initial_role).
LEMMA StartElectionInv ==
  ASSUME Timing, TypeOK, ElectInv, NEW n \in Nodes, StartElection(n)
  PROVE  ElectInv'
<1>1. /\ n \in up /\ n \notin electing /\ electing' = electing \cup {n}
      /\ boot' = [boot EXCEPT ![n] = 0] /\ hb' = [hb EXCEPT ![n] = 0]
      /\ Assume(n, InitialRole(n)) /\ UNCHANGED <<up, known, cut, log>>
  BY DEF StartElection, db
<1>2. role[n] = 0 /\ n # 0
  BY <1>1, Constants DEF ElectInv, Resting
<1>3. Claimant(n) # n
  BY <1>1, <1>2, ClaimantSelf DEF ElectInv, NoOwn
<1>4. InitialRole(n) # n
  BY <1>2, <1>3 DEF InitialRole, OwnFresh, Foreign, Follow
<1>5. seen' = seen /\ role' = [role EXCEPT ![n] = InitialRole(n)] /\ role'[n] # n
  BY <1>1, <1>4 DEF Assume, TypeOK
<1>6. \A p \in Nodes : Primary(p)' => Primary(p) /\ p # n /\ hb'[p] = hb[p] /\ boot'[p] = boot[p]
  BY <1>1, <1>5 DEF Primary, TypeOK
<1>7. \A m \in Nodes : boot'[m] <= boot[m] /\ boot[m] \in Nat /\ boot'[m] \in Nat
  BY <1>1, Constants DEF TypeOK
<1>8. Members'
  <2>1. \A m \in up : boot'[m] > Delay => boot[m] > Delay
    BY <1>7, Constants DEF TypeOK
  <2> QED
    BY <1>1, <2>1 DEF ElectInv, Members, Alive
<1>9. Logs'
  BY <1>1, <1>5 DEF ElectInv, Logs, Live
<1>10. NoOwn'
  <2>1. \A m \in up : role'[m] # m => role[m] # m
    BY <1>2, <1>5 DEF TypeOK
  <2> QED
    BY <1>1, <1>5, <2>1 DEF ElectInv, NoOwn, OwnBest, Better, Live
<1>11. Resting'
  BY <1>1, <1>5 DEF ElectInv, Resting, TypeOK
<1>12. \A p \in Nodes : Mine(p)' = Mine(p) /\ (Recent(p)' <=> Recent(p)) /\ (Primary(p)' <=> Primary(p))
  BY <1>1, <1>2, <1>5, <1>6 DEF Mine, Recent, Primary, TypeOK
<1>13. (Beating /\ Source)'
  BY <1>5, <1>6, <1>12 DEF ElectInv, Beating, Source
<1>14. \A p \in Nodes : Lead(p)' => Lead(p) /\ Age(p)' = Age(p)
  BY <1>12 DEF Lead, Age
<1>15. Departed'
  <2>1. \A m \in Nodes : boot[m] = 0 => boot'[m] = 0
    BY <1>7
  <2>2. \A m \in up : boot'[m] > Delay => boot[m] > Delay
    BY <1>7, Constants DEF TypeOK
  <2> QED
    BY <1>1, <1>12, <2>1, <2>2 DEF ElectInv, Departed, Alive
<1>16. Heard'
  <2> SUFFICES ASSUME NEW p \in Nodes, NEW x \in up, Lead(p)', x < p
               PROVE  IF Age(p)' > Delay
                      THEN seen'[x][p].age <= Age(p)' \/ boot'[x] < Age(p)' - Delay
                      ELSE seen'[x][p].age <= Heartbeat + Age(p)' \/ boot'[x] <= Heartbeat + Age(p)'
    BY <1>1 DEF Heard
  <2>1. IF Age(p) > Delay
        THEN seen[x][p].age <= Age(p) \/ boot[x] < Age(p) - Delay
        ELSE seen[x][p].age <= Heartbeat + Age(p) \/ boot[x] <= Heartbeat + Age(p)
    BY <1>14 DEF ElectInv, Heard
  <2>2. x \in Nodes /\ Age(p) \in Nat
    BY AgeNat DEF TypeOK
  <2>3. Age(p)' = Age(p) /\ boot'[x] <= boot[x] /\ boot[x] \in Nat /\ boot'[x] \in Nat
    BY <1>7, <1>14, <2>2
  <2> QED
    BY <1>5, <2>1, <2>2, <2>3, Constants
<1>17. \A p \in Nodes : \A t \in Nat :
         (Old(p, t) => Old(p, t)') /\ (Young(p, t) => Young(p, t)')
  <2> SUFFICES ASSUME NEW p \in Nodes, NEW t \in Nat
               PROVE  (Old(p, t) => Old(p, t)') /\ (Young(p, t) => Young(p, t)')
    OBVIOUS
  <2>1. Old(p, t) => Old(p, t)'
    BY <1>5 DEF Old, Live
  <2>2. Young(p, t) => Young(p, t)'
    BY <1>1, <1>7 DEF Young, TypeOK
  <2> QED
    BY <2>1, <2>2
<1>18. (Outdated /\ Alone)'
  BY <1>14, <1>17, QuietStep
<1> QED
  BY <1>1, <1>8, <1>9, <1>10, <1>11, <1>13, <1>15, <1>16, <1>18 DEF ElectInv

\* Time passes for everybody alike, and only when what is due has arrived.
LEMMA TickInv ==
  ASSUME Timing, TypeOK, ElectInv, Tick
  PROVE  ElectInv'
<1>1. Timely /\ UNCHANGED <<up, electing, role, known, cut, log>>
  BY DEF Tick, db
<1>2. ASSUME NEW x \in Nodes, NEW y \in Nodes
      PROVE  /\ seen'[x][y].age = IF seen[x][y].age = TTL THEN TTL ELSE seen[x][y].age + 1
             /\ seen'[x][y].log = seen[x][y].log
             /\ seen[x][y].age \in Nat /\ seen[x][y].age <= TTL
             /\ Live(seen[x][y]) <=> seen[x][y].age # TTL
             /\ Live(seen'[x][y]) <=> seen'[x][y].age # TTL
  <2>1. seen'[x][y] = OlderClaim(seen[x][y])
    BY DEF Tick
  <2>2. seen[x][y] \in Claim
    BY ClaimAges
  <2>3. OlderClaim(seen[x][y]) \in Claim
    BY <2>2, OlderType
  <2> QED
    BY <2>1, <2>2, <2>3, OlderType, ClaimAges, Constants DEF Live, Claim
<1>3. \A m \in Nodes : boot'[m] \in Nat /\ boot[m] \in Nat /\ boot'[m] <= boot[m] + 1
                       /\ (boot[m] = Grace => boot'[m] = Grace)
  BY Constants DEF Tick, TypeOK
<1>4. \A p \in Nodes : Primary(p)' <=> Primary(p)
  BY <1>1 DEF Primary
<1>5. \A p \in Nodes : Primary(p) => /\ hb[p] > 0 /\ hb'[p] = hb[p] - 1 /\ hb[p] \in Nat
                                     /\ Mine(p) \in Nat /\ Mine(p) + hb[p] = Heartbeat
                                     /\ Mine(p) < Heartbeat /\ Mine(p)' = Mine(p) + 1
  <2> SUFFICES ASSUME NEW p \in Nodes, Primary(p)
               PROVE  /\ hb[p] > 0 /\ hb'[p] = hb[p] - 1 /\ hb[p] \in Nat
                      /\ Mine(p) \in Nat /\ Mine(p) + hb[p] = Heartbeat
                      /\ Mine(p) < Heartbeat /\ Mine(p)' = Mine(p) + 1
    OBVIOUS
  <2>1. hb[p] > 0 /\ hb'[p] = hb[p] - 1 /\ hb[p] \in Nat
    BY <1>1, Constants DEF Primary, Timely, Tick, TypeOK
  <2>2. Mine(p) \in Nat /\ Mine(p) + hb[p] = Heartbeat
    BY ClaimAges DEF ElectInv, Beating, Mine
  <2>3. Mine(p) < Heartbeat /\ Mine(p) # TTL
    BY <2>1, <2>2, Constants DEF Timing
  <2> QED
    BY <1>2, <2>1, <2>2, <2>3 DEF Mine
<1>6. \A p \in Nodes : ~Recent(p)'
  BY <1>2, Constants DEF Recent
<1>7. \A p \in Nodes : /\ Lead(p)' => Primary(p) /\ Lead(p)
                       /\ Primary(p) => Age(p) = Mine(p) /\ Age(p)' = Mine(p)'
  BY <1>4, <1>6 DEF Lead, Age
<1>8. Source'
  BY <1>2, <1>4, <1>5 DEF ElectInv, Source, Mine
<1>9. Departed'
  BY <1>6 DEF Departed
<1>10. Members'
  <2> SUFFICES ASSUME NEW m \in up, NEW k \in up, m = k \/ (boot'[m] > Delay /\ boot'[k] > Delay)
               PROVE  Alive(m, k)
    BY <1>1 DEF Members, Alive
  <2>1. CASE m = k
    BY <2>1 DEF ElectInv, Members
  <2>2. CASE boot'[m] > Delay /\ boot'[k] > Delay
    <3>1. boot[m] >= Delay /\ boot[k] >= Delay /\ m \in Nodes /\ k \in Nodes
      BY <1>3, <2>2, Constants DEF TypeOK
    <3>2. Connected(m, k)
      BY DEF Connected, ElectInv
    <3>3. known[m][k] = Status(k)
      BY <1>1, <3>1, <3>2 DEF Timely
    <3> QED
      BY <3>3 DEF Status, Alive
  <2> QED
    BY <2>1, <2>2
<1>11. Logs'
  BY <1>1, <1>2 DEF ElectInv, Logs, TypeOK
<1>12. NoOwn'
  <2>1. ASSUME NEW x \in Nodes, OwnBest(x)' PROVE OwnBest(x)
    <3>1. seen'[x][x].age # TTL /\ Live(seen[x][x])
      BY <1>2, <2>1, Constants DEF OwnBest
    <3>2. ASSUME NEW y \in Nodes PROVE Better(x, x, y)
      <4>1. Better(x, x, y)'
        BY <2>1 DEF OwnBest
      <4>2. x \in Nat /\ y \in Nat
        BY Constants
      <4> QED
        BY <1>2, <3>1, <4>1, <4>2, Constants DEF Better
    <3> QED
      BY <3>1, <3>2 DEF OwnBest
  <2> QED
    BY <1>1, <2>1 DEF ElectInv, NoOwn, TypeOK
<1>13. Resting'
  BY <1>1 DEF ElectInv, Resting
<1>14. Beating'
  BY <1>3, <1>4, <1>5, Constants DEF ElectInv, Beating
<1>15. Heard'
  <2> SUFFICES ASSUME NEW p \in Nodes, NEW x \in up, Primary(p), Lead(p), x < p
               PROVE  IF Age(p)' > Delay
                      THEN seen'[x][p].age <= Age(p)' \/ boot'[x] < Age(p)' - Delay
                      ELSE seen'[x][p].age <= Heartbeat + Age(p)' \/ boot'[x] <= Heartbeat + Age(p)'
    BY <1>1, <1>7 DEF Heard
  <2>1. IF Age(p) > Delay
        THEN seen[x][p].age <= Age(p) \/ boot[x] < Age(p) - Delay
        ELSE seen[x][p].age <= Heartbeat + Age(p) \/ boot[x] <= Heartbeat + Age(p)
    BY DEF ElectInv, Heard
  <2>2. x \in Nodes /\ p \in up
    BY DEF TypeOK, Primary
  <2>3. Mine(p) = Delay => seen[x][p].age <= Delay
    <3>1. Connected(x, p)
      BY <2>2 DEF Connected, ElectInv
    <3> QED
      BY <1>1, <2>2, <3>1 DEF Timely, Mine
  <2>4. /\ seen'[x][p].age <= seen[x][p].age + 1 /\ seen[x][p].age \in Nat
        /\ seen'[x][p].age \in Nat
    BY <1>2, <2>2, Constants
  <2>5. boot'[x] <= boot[x] + 1 /\ boot[x] \in Nat /\ boot'[x] \in Nat
    BY <1>3, <2>2
  <2> QED
    BY <1>5, <1>7, <2>1, <2>3, <2>4, <2>5, Constants
<1>16. ASSUME NEW p \in Nodes, NEW t \in Nat
       PROVE  (Old(p, t) => Old(p, t + 1)') /\ (Young(p, t) => Young(p, t + 1)')
  <2>1. Old(p, t) => Old(p, t + 1)'
    <3> SUFFICES ASSUME Old(p, t), NEW x \in Nodes, NEW k \in Nodes, k # p
                 PROVE  ~Live(seen'[x][k]) \/ seen'[x][k].age >= t + 1
      BY DEF Old
    <3>1. ~Live(seen[x][k]) \/ seen[x][k].age >= t
      BY DEF Old
    <3> QED
      BY <1>2, <3>1, Constants
  <2>2. Young(p, t) => Young(p, t + 1)'
    BY <1>1, <1>3 DEF Young, TypeOK
  <2> QED
    BY <2>1, <2>2
<1>17. Outdated'
  <2> SUFFICES ASSUME NEW p \in Nodes, Primary(p), Lead(p)
               PROVE  \/ Old(p, Age(p) + 1)' /\ Young(p, Delay + Age(p))'
                      \/ Old(p, Heartbeat + Age(p))' /\ Young(p, Delay + Heartbeat + Age(p))'
                      \/ Old(p, 2 * Heartbeat + Age(p))'
    BY <1>7 DEF Outdated
  <2>1. /\ Age(p) + 1 \in Nat /\ Age(p)' + 1 = Age(p) + 1 + 1
        /\ Delay + Age(p) \in Nat /\ Delay + Age(p)' = Delay + Age(p) + 1
        /\ Heartbeat + Age(p) \in Nat /\ Heartbeat + Age(p)' = Heartbeat + Age(p) + 1
        /\ Delay + Heartbeat + Age(p) \in Nat
        /\ Delay + Heartbeat + Age(p)' = Delay + Heartbeat + Age(p) + 1
        /\ 2 * Heartbeat + Age(p) \in Nat /\ 2 * Heartbeat + Age(p)' = 2 * Heartbeat + Age(p) + 1
    BY <1>5, <1>7, Constants
  <2>2. CASE Old(p, Age(p) + 1) /\ Young(p, Delay + Age(p))
    BY <1>16, <2>1, <2>2
  <2>3. CASE Old(p, Heartbeat + Age(p)) /\ Young(p, Delay + Heartbeat + Age(p))
    BY <1>16, <2>1, <2>3
  <2>4. CASE Old(p, 2 * Heartbeat + Age(p))
    BY <1>16, <2>1, <2>4
  <2> QED
    BY <2>2, <2>3, <2>4 DEF ElectInv, Outdated
<1>18. Alone'
  BY <1>7 DEF ElectInv, Alone
<1> QED
  BY <1>1, <1>10, <1>11, <1>12, <1>13, <1>14, <1>15, <1>17, <1>18, <1>8, <1>9 DEF ElectInv

\* A primary whose heartbeat is due sees its own claim as the newest: whatever
\* others claimed is older than its first claim.  So it stays primary.
LEMMA KeepsRole ==
  ASSUME Timing, TypeOK, ElectInv, NEW n \in Nodes, Primary(n), hb[n] = 0
  PROVE  EvaluateRole(n) = n
<1>1. Mine(n) = Heartbeat /\ Age(n) = Heartbeat /\ Lead(n) /\ n \in up
  BY ClaimAges, Constants DEF ElectInv, Beating, Mine, Age, Lead, Primary, TypeOK
<1>2. Live(seen[n][n])
  BY <1>1, Constants DEF Live, Mine, Timing
<1>3. Old(n, Heartbeat + 1)
  <2>1. \/ Old(n, Heartbeat + 1) \/ Old(n, Heartbeat + Heartbeat)
        \/ Old(n, 2 * Heartbeat + Heartbeat)
    BY <1>1 DEF ElectInv, Outdated
  <2> QED
    BY <2>1, ClaimAges, Constants DEF Old
<1>4. ASSUME NEW j \in Nodes PROVE Better(n, n, j)
  <2>1. n \in Nat /\ seen[n][n].age = Heartbeat /\ Heartbeat < TTL
    BY <1>1, Constants DEF Mine, Timing
  <2>2. CASE j = n
    BY <2>1, <2>2 DEF Better
  <2>3. CASE j # n
    <3>1. ~Live(seen[n][j]) \/ seen[n][j].age >= Heartbeat + 1
      BY <1>3, <2>3 DEF Old
    <3> QED
      BY <2>1, <3>1, ClaimAges, Constants DEF Better
  <2> QED
    BY <2>2, <2>3
<1>5. Claimant(n) = n /\ seen[n][n].log = log[n]
  BY <1>1, <1>2, <1>4, ClaimantSelf DEF OwnBest, ElectInv, Logs
<1> QED
  BY <1>5 DEF EvaluateRole, OwnFresh, Foreign, Timing

\* A heartbeat by which a replica stays one.
LEMMA StayReplica ==
  ASSUME Timing, TypeOK, ElectInv, NEW n \in Nodes, Evaluate(n), EvaluateRole(n) # n
  PROVE  ElectInv'
<1>1. /\ n \in electing /\ n \in up
      /\ hb' = [hb EXCEPT ![n] = Heartbeat]
      /\ role' = [role EXCEPT ![n] = EvaluateRole(n)] /\ seen' = seen
      /\ UNCHANGED <<up, electing, boot, known, cut, log>>
  BY DEF Evaluate, Assume, db, TypeOK
<1>2. role'[n] # n /\ \A m \in Nodes \ {n} : role'[m] = role[m] /\ hb'[m] = hb[m]
  BY <1>1 DEF TypeOK
<1>3. ~OwnBest(n)
  <2> SUFFICES ASSUME OwnBest(n) PROVE FALSE
    OBVIOUS
  <2>1. Claimant(n) = n /\ seen[n][n].log = log[n]
    BY <1>1, ClaimantSelf DEF OwnBest, ElectInv, Logs
  <2>2. OwnFresh(n) /\ ~Foreign(n) /\ ~PerSite
    BY <2>1 DEF OwnFresh, Foreign, Timing
  <2> QED
    BY <2>2 DEF EvaluateRole
<1>4. \A p \in Nodes : (Primary(p)' <=> Primary(p)) /\ (Primary(p) => p # n)
  BY <1>1, <1>2, KeepsRole DEF Primary, Evaluate
<1>5. (Members /\ Logs)'
  BY <1>1 DEF ElectInv, Members, Logs, Alive, Live
<1>6. NoOwn'
  <2>1. \A m \in up : OwnBest(m)' <=> OwnBest(m)
    BY <1>1 DEF OwnBest, Better, Live
  <2> QED
    BY <1>1, <1>2, <1>3, <2>1 DEF ElectInv, NoOwn, TypeOK
<1>7. Resting'
  BY <1>1, <1>2 DEF ElectInv, Resting
<1>8. \A p \in Nodes : /\ Mine(p)' = Mine(p) /\ (Recent(p)' <=> Recent(p))
                       /\ (Lead(p)' <=> Lead(p)) /\ Age(p)' = Age(p)
  BY <1>1, <1>4 DEF Mine, Recent, Lead, Age
<1>9. (Beating /\ Source /\ Heard)'
  BY <1>1, <1>2, <1>4, <1>8 DEF ElectInv, Beating, Source, Heard
<1>10. Departed'
  BY <1>1, <1>4, <1>8 DEF ElectInv, Departed, Alive
<1>11. \A p \in Nodes : \A t \in Nat :
         (Old(p, t) => Old(p, t)') /\ (Young(p, t) => Young(p, t)')
  BY <1>1 DEF Old, Young, Live
<1>12. (Outdated /\ Alone)'
  BY <1>8, <1>11, QuietStep
<1> QED
  BY <1>1, <1>5, <1>6, <1>7, <1>9, <1>10, <1>12 DEF ElectInv

\* A node becomes primary only when no other is, nor was in this tick.  It is past
\* its grace and sees no lower node alive, so a primary p would be a higher one whose claim it has;
\* and since then nobody else claimed, so that claim, or a live node's, wins.
LEMMA NoPrimaryYet ==
  ASSUME Timing, TypeOK, ElectInv, NEW n \in Nodes, n \in electing,
         role[n] # n, EvaluateRole(n) = n
  PROVE  /\ \A p \in Nodes : ~Lead(p)
         /\ boot[n] = Grace
         /\ \A m \in up : m < n => boot[m] <= Delay
<1>1. n \in up /\ n # 0 /\ n \in Nat
  BY Constants DEF TypeOK
<1>2. Claimant(n) # n /\ ~OwnBest(n)
  BY <1>1, ClaimantSelf DEF ElectInv, NoOwn
<1>3. ~OwnFresh(n) /\ ~HrwNamesUs(n)
  BY <1>2 DEF OwnFresh, HrwNamesUs, Timing
<1>4. ~(Foreign(n) /\ Alive(n, Claimant(n))) /\ Elect(n) = n
  <2>1. CASE Foreign(n) /\ Alive(n, Claimant(n))
    <3>1. EvaluateRole(n) = Follow(n, Claimant(n))
      BY <1>3, <2>1 DEF EvaluateRole
    <3> QED
      BY <1>1, <1>2, <3>1 DEF Follow
  <2>2. CASE ~(Foreign(n) /\ Alive(n, Claimant(n)))
    BY <1>3, <2>2 DEF EvaluateRole
  <2> QED
    BY <2>1, <2>2
<1>5. boot[n] = Grace /\ LowestAlive(n, n)
  BY <1>1, <1>4, Constants DEF Elect, ShouldBePrimary, Timing, TypeOK
<1>6. ASSUME NEW m \in up, m # n, boot[m] > Delay PROVE n < m
  <2>1. m \in Nodes /\ m \in Nat
    BY Constants DEF TypeOK
  <2>2. boot[n] > Delay
    BY <1>5, Constants DEF Timing
  <2>3. Alive(n, m)
    BY <1>1, <1>6, <2>2 DEF ElectInv, Members
  <2> QED
    BY <1>1, <1>5, <1>6, <2>1, <2>3 DEF LowestAlive
<1>7. \A m \in up : m < n => boot[m] <= Delay
  <2> SUFFICES ASSUME NEW m \in up, m < n, ~(boot[m] <= Delay) PROVE FALSE
    OBVIOUS
  <2>1. m \in Nat /\ boot[m] > Delay /\ m # n
    BY <1>1, Constants DEF TypeOK
  <2>2. n < m
    BY <1>6, <2>1
  <2> QED
    BY <1>1, <2>1, <2>2
<1>8. ASSUME NEW p \in Nodes, Lead(p) PROVE FALSE
  <2>1. p # n /\ p \in Nat /\ n < p /\ Alive(n, p)
    <3>1. Alive(n, p) /\ p # n
      <4>1. boot[n] > Delay /\ boot[n] # 0
        BY <1>5, Constants DEF Timing
      <4>2. CASE Primary(p)
        <5>1. p # n /\ p \in up /\ boot[p] > Delay
          BY <4>2, Constants DEF Primary, ElectInv, Beating, TypeOK, Timing
        <5> QED
          BY <1>1, <4>1, <5>1 DEF ElectInv, Members
      <4>3. CASE ~Primary(p)
        BY <1>1, <1>8, <4>1, <4>3 DEF Lead, ElectInv, Departed
      <4> QED
        BY <4>2, <4>3
    <3> QED
      BY <1>1, <1>5, <3>1, Constants DEF LowestAlive
  <2> DEFINE a == Age(p)
  <2>2. a \in Nat /\ a <= Heartbeat
    <3>1. CASE Primary(p)
      <4>1. a \in Nat /\ hb[p] \in Nat /\ a + hb[p] = Heartbeat
        BY <3>1, ClaimAges, Constants DEF ElectInv, Beating, Mine, Age, TypeOK
      <4> QED
        BY <4>1, Constants
    <3>2. CASE ~Primary(p)
      BY <3>2, Constants DEF Age
    <3> QED
      BY <3>1, <3>2
  <2> DEFINE s == seen[n][p].age
  <2>3. s \in Nat /\ s <= TTL
    BY ClaimAges
  <2>4. IF a > Delay THEN s <= a \/ boot[n] < a - Delay
        ELSE s <= Heartbeat + a \/ boot[n] <= Heartbeat + a
    BY <1>1, <1>8, <2>1 DEF ElectInv, Heard
  <2>5. \/ Old(p, a + 1) /\ Young(p, Delay + a)
        \/ Old(p, Heartbeat + a) /\ Young(p, Delay + Heartbeat + a)
        \/ Old(p, 2 * Heartbeat + a)
    BY <1>8 DEF ElectInv, Outdated
  <2> HIDE DEF a, s
  <2>6. IF a > Delay THEN s <= a ELSE s <= Heartbeat + a
    BY <1>5, <2>2, <2>3, <2>4, Constants DEF Timing
  <2>7. s < TTL
    BY <2>2, <2>3, <2>6, Constants DEF Timing
  <2>8. \/ Old(p, Heartbeat + a) /\ a > Delay
        \/ Old(p, 2 * Heartbeat + a)
    <3>1. CASE Young(p, Delay + a)
      <4>1. boot[n] <= Delay + a
        BY <1>1, <2>1, <3>1 DEF Young
      <4> QED
        BY <1>5, <2>2, <4>1, Constants DEF Timing
    <3>2. CASE Young(p, Delay + Heartbeat + a)
      <4>1. boot[n] <= Delay + Heartbeat + a
        BY <1>1, <2>1, <3>2 DEF Young
      <4>2. a > Delay
        BY <1>5, <2>2, <4>1, Constants DEF Timing
      <4> QED
        BY <2>5, <3>1, <4>2
    <3> QED
      BY <2>5, <3>1, <3>2
  <2>9. \A k \in Nodes : k # p => seen[n][k].age > s
    <3> SUFFICES ASSUME NEW k \in Nodes, k # p PROVE seen[n][k].age > s
      OBVIOUS
    <3>1. /\ seen[n][k].age \in Nat /\ seen[n][k].age <= TTL
          /\ Live(seen[n][k]) <=> seen[n][k].age # TTL
      BY ClaimAges
    <3>2. CASE ~Live(seen[n][k])
      BY <2>7, <3>1, <3>2
    <3>3. CASE Old(p, Heartbeat + a) /\ a > Delay /\ Live(seen[n][k])
      <4>1. seen[n][k].age >= Heartbeat + a
        BY <3>3 DEF Old
      <4> QED
        BY <2>2, <2>3, <2>6, <3>1, <3>3, <4>1, Constants
    <3>4. CASE Old(p, 2 * Heartbeat + a) /\ Live(seen[n][k])
      <4>1. seen[n][k].age >= 2 * Heartbeat + a
        BY <3>4 DEF Old
      <4> QED
        BY <2>2, <2>3, <2>6, <3>1, <4>1, Constants
    <3> QED
      BY <2>8, <3>2, <3>3, <3>4
  <2>10. Newest(n) = p
    <3>1. Newest(n) \in Nodes /\ Better(n, Newest(n), p)
      BY NewestExists
    <3>2. Newest(n) # p => seen[n][Newest(n)].age > s /\ seen[n][Newest(n)].age \in Nat
      BY <2>9, <3>1, ClaimAges
    <3> QED
      BY <2>3, <3>1, <3>2 DEF Better, s
  <2>11. Claimant(n) = p
    BY <2>3, <2>7, <2>10 DEF Claimant, Live, s
  <2> QED
    BY <1>4, <2>1, <2>11, Constants DEF Foreign
<1> QED
  BY <1>5, <1>7, <1>8

\* A heartbeat by which the node is, or becomes, primary and publishes its claim.
LEMMA LeadInv ==
  ASSUME Timing, TypeOK, ElectInv, NEW n \in Nodes, Evaluate(n), EvaluateRole(n) = n
  PROVE  ElectInv'
<1> DEFINE c == [age |-> 0, log |-> log[n]]
<1>1. /\ n \in electing /\ n \in up /\ hb[n] = 0
      /\ hb' = [hb EXCEPT ![n] = Heartbeat]
      /\ role' = [role EXCEPT ![n] = n] /\ seen' = [seen EXCEPT ![n][n] = c]
      /\ UNCHANGED <<up, electing, boot, known, cut, log>>
  BY DEF Evaluate, Assume, db, TypeOK
<1>2. /\ \A x, y \in Nodes : ~(x = n /\ y = n) => seen'[x][y] = seen[x][y]
      /\ seen'[n][n] = c
      /\ role'[n] = n /\ hb'[n] = Heartbeat
      /\ \A m \in Nodes \ {n} : role'[m] = role[m] /\ hb'[m] = hb[m]
  BY <1>1 DEF TypeOK
<1>3. c.age = 0 /\ c.log = log[n]
  OBVIOUS
<1> HIDE DEF c
<1>4. Primary(n) => boot[n] = Grace /\ Mine(n) = Heartbeat
  BY <1>1, ClaimAges, Constants DEF ElectInv, Beating, Mine
<1>5. role[n] # n => /\ \A p \in Nodes : ~Lead(p)
                     /\ boot[n] = Grace
                     /\ \A m \in up : m < n => boot[m] <= Delay
  BY <1>1, NoPrimaryYet
<1>6. \A p \in Nodes : p # n => ~Lead(p)
  <2>1. role[n] = n => Lead(n)
    BY <1>1 DEF Lead, Primary
  <2> QED
    BY <1>5, <2>1 DEF ElectInv, Alone
<1>7. /\ Primary(n)' /\ Lead(n)' /\ Mine(n)' = 0 /\ Age(n)' = 0
      /\ \A p \in Nodes : p # n => ~Lead(p)' /\ ~Primary(p)' /\ ~Recent(p)'
  <2>1. Primary(n)' /\ Lead(n)' /\ Mine(n)' = 0 /\ Age(n)' = 0
    BY <1>1, <1>2, <1>3 DEF Primary, Lead, Mine, Age
  <2>2. ASSUME NEW p \in Nodes, p # n PROVE ~Lead(p)' /\ ~Primary(p)' /\ ~Recent(p)'
    BY <1>1, <1>2, <1>6, <2>2 DEF Primary, Lead, Recent
  <2> QED
    BY <2>1, <2>2
<1>8. Members'
  BY <1>1 DEF ElectInv, Members, Alive
<1>9. Logs'
  BY <1>1, <1>2, <1>3 DEF ElectInv, Logs, TypeOK, Live
<1>10. NoOwn'
  <2>1. ASSUME NEW m \in up, role'[m] # m PROVE ~OwnBest(m)'
    <3>1. m # n /\ m \in Nodes /\ role[m] # m
      BY <1>2, <2>1 DEF TypeOK
    <3> QED
      BY <1>2, <3>1 DEF ElectInv, NoOwn, OwnBest, Better, Live
  <2> QED
    BY <1>1, <2>1 DEF NoOwn
<1>11. Resting'
  BY <1>1, <1>2 DEF ElectInv, Resting
<1>12. Beating'
  <2>1. boot[n] = Grace
    BY <1>1, <1>4, <1>5 DEF Primary
  <2> QED
    BY <1>1, <1>2, <1>7, <2>1, Constants DEF Beating
<1>13. (Source /\ Departed)'
  <2>1. \A x \in Nodes : seen'[x][n].age >= 0
    BY <1>2, <1>3, ClaimAges
  <2> QED
    BY <1>7, <2>1 DEF Source, Departed
<1>14. Heard'
  <2> SUFFICES ASSUME NEW m \in up, m < n
               PROVE  seen'[m][n].age <= Heartbeat \/ boot[m] <= Heartbeat
    BY <1>1, <1>7, Constants DEF Heard
  <2>1. m \in Nodes /\ m # n /\ seen'[m][n] = seen[m][n] /\ m \in Nat /\ n \in Nat
    BY <1>2, Constants DEF TypeOK
  <2>2. seen[m][n].age \in Nat /\ boot[m] \in Nat
    BY <2>1, ClaimAges, Constants DEF TypeOK
  <2>3. CASE role[n] # n
    BY <1>5, <2>2, <2>3, Constants DEF Timing
  <2>4. CASE role[n] = n
    <3>1. Primary(n) /\ Mine(n) = Heartbeat
      BY <1>1, <1>4, <2>4 DEF Primary
    <3>2. Mine(n) > Delay
      BY <3>1, Constants DEF Timing
    <3>3. seen[m][n].age <= Mine(n) \/ boot[m] < Mine(n) - Delay
      BY <3>1, <3>2 DEF ElectInv, Heard, Lead, Age
    <3> QED
      BY <2>1, <2>2, <3>1, <3>3, Constants
  <2> QED
    BY <2>3, <2>4
<1>15. ASSUME NEW t PROVE Old(n, t) => Old(n, t)'
  BY <1>2 DEF Old, Live
<1>16. ASSUME NEW t PROVE Young(n, t) => Young(n, t)'
  BY <1>1 DEF Young
<1>17. Outdated'
  <2> SUFFICES \/ Old(n, 1)' /\ Young(n, Delay)'
               \/ Old(n, Heartbeat)' /\ Young(n, Delay + Heartbeat)'
               \/ Old(n, 2 * Heartbeat)'
    BY <1>7, Constants DEF Outdated
  <2>1. Old(n, 1)
    <3> SUFFICES ASSUME NEW x \in Nodes, NEW k \in Nodes, k # n PROVE seen[x][k].age >= 1
      BY DEF Old
    <3>1. seen[x][k].age # 0
      BY <1>6 DEF Lead, Recent
    <3> QED
      BY <3>1, ClaimAges
  <2>2. CASE role[n] # n
    BY <1>5, <1>15, <1>16, <2>1, <2>2 DEF Young
  <2>3. CASE role[n] = n
    <3>1. Lead(n) /\ Age(n) = Heartbeat
      BY <1>1, <1>4, <2>3 DEF Primary, Lead, Age
    <3>2. \/ Old(n, Heartbeat + 1) /\ Young(n, Delay + Heartbeat)
          \/ Old(n, Heartbeat + Heartbeat)
          \/ Old(n, 2 * Heartbeat + Heartbeat)
      BY <3>1 DEF ElectInv, Outdated
    <3>3. /\ Old(n, 2 * Heartbeat + Heartbeat) => Old(n, 2 * Heartbeat)
          /\ Old(n, Heartbeat + 1) => Old(n, Heartbeat)
      BY ClaimAges, Constants DEF Old
    <3>4. Heartbeat + Heartbeat = 2 * Heartbeat
      BY Constants
    <3> QED
      BY <1>15, <1>16, <3>2, <3>3, <3>4
  <2> QED
    BY <2>2, <2>3
<1>18. Alone'
  BY <1>7 DEF Alone
<1> QED
  BY <1>1, <1>8, <1>9, <1>10, <1>11, <1>12, <1>14, <1>17, <1>18, <1>13 DEF ElectInv

\* The inductive invariant holds in every state.
LEMMA ElectionInvariant ==
  ASSUME Timing
  PROVE  Spec => [](TypeOK /\ ElectInv)
<1>1. Init => ElectInv
  <2> SUFFICES ASSUME Init PROVE ElectInv
    OBVIOUS
  <2>1. \A n \in Nodes : role[n] # n /\ ~Primary(n) /\ ~Recent(n)
    BY Constants DEF Init, Primary, Recent, NoClaim
  <2> QED
    BY <2>1 DEF Init, ElectInv, Members, Logs, NoOwn, Resting, Beating, Source, Departed,
                Heard, Outdated, Alone, Lead
<1>2. TypeOK /\ ElectInv /\ [Next]_vars => ElectInv'
  <2> SUFFICES ASSUME TypeOK, ElectInv, [Next]_vars PROVE ElectInv'
    OBVIOUS
  <2>1. CASE UNCHANGED vars
    <3>1. \A p \in Nodes : /\ Mine(p)' = Mine(p) /\ (Primary(p)' <=> Primary(p))
                          /\ (Recent(p)' <=> Recent(p)) /\ (Lead(p)' <=> Lead(p)) /\ Age(p)' = Age(p)
      BY <2>1 DEF vars, net, Mine, Primary, Recent, Lead, Age
    <3>2. (cut = {} /\ Members /\ Logs /\ NoOwn /\ Resting)'
      BY <2>1 DEF vars, net, db, ElectInv, Members, Logs, NoOwn, Resting, OwnBest, Better, Live, Alive
    <3>3. (Beating /\ Source /\ Departed /\ Heard)'
      BY <2>1, <3>1 DEF vars, net, ElectInv, Beating, Source, Departed, Heard, Alive
    <3>4. (Outdated /\ Alone)'
      BY <2>1, <3>1 DEF vars, net, ElectInv, Outdated, Alone, Old, Young, Live
    <3> QED
      BY <3>2, <3>3, <3>4 DEF ElectInv
  <2>2. ASSUME NEW n \in Nodes, Evaluate(n) PROVE ElectInv'
    BY <2>2, StayReplica, LeadInv
  <2>3. ASSUME NEW n \in Nodes, StartElection(n) \/ Boot(n, FALSE) \/ Boot(n, TRUE) \/ Crash(n)
        PROVE  ElectInv'
    BY <2>3, StartElectionInv, BootInv, CrashInv
  <2>4. ASSUME \/ \E n \in Nodes : Drain(n) \/ Replicate(n)
               \/ \E m, k \in Nodes : Hear(m, k) \/ Suspect(m, k)
        PROVE  ElectInv'
    BY <2>4, ViewsInv
  <2>5. ASSUME NEW m \in Nodes, NEW j \in Nodes, NEW k \in Nodes, Gossip(m, j, k) PROVE ElectInv'
    BY <2>5, GossipInv
  <2>6. CASE Tick
    BY <2>6, TickInv
  <2>7. ~Partition /\ ~Heal
    BY DEF Partition, Heal, Timing, ElectInv
  <2> QED
    BY <2>1, <2>2, <2>3, <2>4, <2>5, <2>6, <2>7 DEF Next
<1> QED
  BY <1>1, <1>2, ElectionTypeCorrect, PTL DEF Spec

\* While the network does not split there is never a second primary, for any
\* number of nodes and however they join, crash and come back, provided gossip
\* delivers a claim in less than a heartbeat (Timing): the startup grace and the
\* claim's TTL leave room for it.
THEOREM NeverTwoPrimaries ==
  ASSUME Timing
  PROVE  Spec => []OnePrimary
<1>1. ElectInv /\ TypeOK => OnePrimary
  <2> SUFFICES ASSUME ElectInv, TypeOK PROVE OnePrimary
    OBVIOUS
  <2>1. CASE Primaries = {}
    BY <2>1, FS_EmptySet DEF OnePrimary
  <2>2. CASE Primaries # {}
    <3>1. PICK p \in Primaries : TRUE
      BY <2>2
    <3>2. Primaries = {p}
      BY <3>1 DEF Primaries, ElectInv, Alone, Lead, Primary, TypeOK
    <3> QED
      BY <3>2, FS_Singleton DEF OnePrimary
  <2> QED
    BY <2>1, <2>2
<1> QED
  BY <1>1, ElectionInvariant, PTL

\* A healthy incumbent is never deposed: a primary stays primary for as long as
\* its process runs, whichever nodes join, crash and come back, lower ones
\* included (issue #314), for any number of nodes and under the same Timing.
THEOREM IncumbentStays ==
  ASSUME Timing
  PROVE  Spec => IncumbentKept
<1>1. TypeOK /\ ElectInv /\ [Next]_vars => [\A n \in Primaries : n \in up' => role'[n] = n]_vars
  <2> SUFFICES ASSUME TypeOK, ElectInv, Next, NEW n \in Nodes, Primary(n), n \in up'
               PROVE  role'[n] = n
    BY DEF Primaries, Primary, TypeOK
  <2>1. ASSUME NEW m \in Nodes, StartElection(m) PROVE role'[n] = n
    BY <2>1 DEF StartElection, Assume, Primary, TypeOK
  <2>2. ASSUME NEW m \in Nodes, Evaluate(m) PROVE role'[n] = n
    BY <2>2, KeepsRole DEF Evaluate, Assume, Primary, TypeOK
  <2>3. ASSUME NEW m \in Nodes, Crash(m) PROVE role'[n] = n
    BY <2>3 DEF Crash, Primary, TypeOK
  <2>4. ASSUME \/ \E m \in Nodes : Boot(m, FALSE) \/ Boot(m, TRUE) \/ Drain(m) \/ Replicate(m)
               \/ \E m, k \in Nodes : Hear(m, k) \/ Suspect(m, k)
               \/ \E m, j, k \in Nodes : Gossip(m, j, k)
               \/ Tick \/ Partition \/ Heal
        PROVE  role'[n] = n
    <3>1. role' = role
      BY <2>4 DEF Boot, Drain, Replicate, Hear, Suspect, Gossip, Tick, Partition, Heal
    <3> QED
      BY <3>1 DEF Primary
  <2> QED
    BY <2>1, <2>2, <2>3, <2>4 DEF Next
<1> QED
  BY <1>1, ElectionInvariant, PTL DEF Spec, IncumbentKept
=============================================================================
