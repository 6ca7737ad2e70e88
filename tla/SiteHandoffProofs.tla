-------------------------- MODULE SiteHandoffProofs --------------------------
(***************************************************************************)
(* Proofs about SiteHandoff, for any set of nodes: the state keeps its     *)
(* type, the epoch of an elected owner's copy only moves forward, and an   *)
(* empty copy is not written to before the grace.                          *)
(***************************************************************************)
EXTENDS SiteHandoff, SeqLemmas, TLAPS

Rows == Nodes \X (Nat \ {0})

SnapT == [log : Nodes \cup {0}, wm : Nat, epoch : Nat, rows : SUBSET Rows]

DbT == [rows : SUBSET Rows, epoch : Nat, source : Nodes \cup {0}, wm : Nat, wms : [Nodes -> Nat]]

TailRec == [src : Nodes \cup {0}, pc : {"none", "seed", "dial", "adopt", "resume", "switch", "on"},
            next : Nat, discard : BOOLEAN, snap : SnapT, epoch : Nat]

\* A stream has a source.
TailT == {s \in TailRec : s.pc # "none" => s.src \in Nodes}

TaskT == [pc : {"off", "idle", "probe", "search", "install", "mark", "write"},
          own : Version, best : Version, cand : SUBSET Nodes, todo : SUBSET Nodes,
          discard : BOOLEAN, missed : BOOLEAN, past : BOOLEAN, snap : SnapT, epoch : Nat]

Views == {"gone", "alive", "draining"}

\* The types, with those of the snapshots in flight that TypeOK leaves out.
Types ==
  /\ up \subseteq Nodes /\ grace \subseteq up /\ held \subseteq up
  /\ reset \subseteq up /\ adv \subseteq Nodes
  /\ known \in [Nodes -> [Nodes -> Views]]
  /\ db \in [Nodes -> DbT]
  /\ tail \in [Nodes -> TailT]
  /\ task \in [Nodes -> TaskT]
  /\ cdc \in [Nodes -> Seq({"create", "row"})]
  /\ leader \in [Nodes -> Nodes \cup {0}]
  /\ gate \in [Nodes -> {"Pending", "Ready", "Blocked"}]
  /\ faults \in 0..MaxFaults

\* What a process keeps in memory ends with it.
Stopped == \A n \in Nodes : n \notin up => leader[n] = 0 /\ tail[n] = NoTail /\ task[n] = Off

\* A settle round never asks its own node.
NotItself == \A n \in Nodes : n \notin task[n].cand /\ n \notin task[n].todo

\* A running node is a member in its own view, so that somebody owns the site.
SelfMember == \A n \in up : known[n][n] # "gone"

SiteInv == Types /\ Stopped /\ NotItself /\ SelfMember

\* First returns a member of the set.
LEMMA FirstIsMember ==
  ASSUME NEW S, S \subseteq Nat, S # {}
  PROVE  First(S) \in S
BY LowestExists DEF First

\* Some node owns the site in the view of every running node (hrw_owner).
LEMMA OwnerIsNode ==
  ASSUME Types, SelfMember, NEW n \in up
  PROVE  Owner(n) \in Nodes
<1>1. n \in Alive(n) /\ Alive(n) \subseteq Nodes /\ Alive(n) # {}
  BY DEF Types, SelfMember, Alive
<1>2. Nodes \subseteq Nat
  BY ConstantsAssumption
<1> DEFINE staying == {k \in Alive(n) : known[n][k] = "alive"}
<1>3. CASE staying = {}
  BY <1>1, <1>2, <1>3, FirstIsMember DEF Owner
<1>4. CASE staying # {}
  <2>1. First(staying) \in staying
    BY <1>1, <1>2, <1>4, FirstIsMember
  <2> QED
    BY <2>1, <1>1, <1>4 DEF Owner
<1> QED
  BY <1>3, <1>4

\* The version of a copy is a pair of numbers (read_site_version).
LEMMA VersionType ==
  ASSUME Types, NEW n \in Nodes
  PROVE  SiteVersion(n) \in Version
<1>1. db[n] \in DbT /\ cdc[n] \in Seq({"create", "row"})
  BY DEF Types
<1>2. Len(cdc[n]) \in Nat
  BY <1>1
<1> QED
  BY <1>1, <1>2 DEF SiteVersion, Version, DbT

\* The values tasks, streams and copies start from have their types.
LEMMA ConstantTypes ==
  /\ Zero \in Version
  /\ NoSnap \in SnapT
  /\ NoTail \in TailT
  /\ Idle \in TaskT
  /\ Off \in TaskT
<1>1. Zero \in Version
  BY DEF Zero, Version
<1>2. NoSnap \in SnapT
  BY DEF NoSnap, SnapT
<1>3. NoTail \in TailT
  BY <1>2 DEF NoTail, TailT, TailRec
<1>4. Idle \in TaskT
  BY <1>1, <1>2 DEF Idle, TaskT
<1>5. Off \in TaskT
  BY <1>4 DEF Off, TaskT
<1> QED
  BY <1>1, <1>2, <1>3, <1>4, <1>5

\* What a node dumps of itself (serve_snapshot).
LEMMA SnapshotType ==
  ASSUME Types, NEW p \in Nodes
  PROVE  Snapshot(p) \in SnapT
<1>1. db[p] \in DbT /\ cdc[p] \in Seq({"create", "row"})
  BY DEF Types
<1>2. Len(cdc[p]) \in Nat
  BY <1>1
<1> QED
  BY <1>1, <1>2 DEF Snapshot, SnapT, DbT

\* An installation leaves a copy, whose epoch is the higher of the two
\* (install_snapshot).
LEMMA InstallType ==
  ASSUME NEW d \in DbT, NEW s \in SnapT, NEW discard \in BOOLEAN
  PROVE  /\ InstallSnapshot(d, s, discard) \in DbT
         /\ InstallSnapshot(d, s, discard).epoch >= d.epoch
<1>1. /\ d.rows \subseteq Rows /\ s.rows \subseteq Rows /\ d.epoch \in Nat /\ s.epoch \in Nat
      /\ s.wm \in Nat /\ s.log \in Nodes \cup {0} /\ d.wms \in [Nodes -> Nat]
  BY DEF DbT, SnapT
<1> DEFINE e == Larger(d.epoch, s.epoch)
<1>2. e \in Nat /\ e >= d.epoch
  BY <1>1 DEF Larger
<1> DEFINE w == [d.wms EXCEPT ![s.log] = s.wm]
           r == IF discard THEN s.rows ELSE d.rows \cup s.rows
<1>3. w \in [Nodes -> Nat] /\ r \subseteq Rows
  BY <1>1
<1>4. InstallSnapshot(d, s, discard) =
        [rows |-> r, epoch |-> e, source |-> s.log, wm |-> s.wm, wms |-> w]
  BY DEF InstallSnapshot
<1> HIDE DEF e, w, r
<1> QED
  BY <1>1, <1>2, <1>3, <1>4 DEF DbT

\* The higher of two epochs.
LEMMA LargerIsHigher ==
  ASSUME NEW a \in Nat, NEW b \in Nat
  PROVE  Larger(a, b) \in Nat /\ Larger(a, b) >= a
BY DEF Larger

\* A round that searches, and one whose copy is settled, are tasks.
LEMMA RoundType ==
  ASSUME NEW n \in Nodes, NEW t \in TaskT, n \notin t.cand, NEW fresher \in BOOLEAN
  PROVE  /\ Searching(t, fresher) \in TaskT /\ n \notin Searching(t, fresher).cand
         /\ n \notin Searching(t, fresher).todo
         /\ Marking(t) \in TaskT /\ n \notin Marking(t).cand /\ n \notin Marking(t).todo
<1>1. /\ t.own \in Version /\ t.best \in Version /\ t.epoch \in Nat
      /\ t.cand \subseteq Nodes /\ t.past \in BOOLEAN
  BY DEF TaskT
<1>2. t.own.epoch \in Nat /\ t.best.epoch \in Nat
  BY <1>1 DEF Version
<1> DEFINE e == Larger(t.own.epoch, t.best.epoch)
           f == Larger(t.epoch, e)
<1>3. e \in Nat
  BY <1>2, LargerIsHigher
<1> HIDE DEF e
<1>4. f \in Nat
  BY <1>1, <1>3, LargerIsHigher
<1> HIDE DEF f
<1>5. Idle \in TaskT /\ Idle.cand = {} /\ Idle.todo = {}
  BY ConstantTypes DEF Idle
<1>6. Marking(t) = [Idle EXCEPT !.pc = "mark", !.epoch = f]
  BY DEF Marking, e, f
<1>7. Searching(t, fresher) = [Idle EXCEPT !.pc = "search", !.todo = t.cand, !.discard = fresher,
                                           !.past = t.past, !.epoch = e]
  BY DEF Searching, e
<1> QED
  BY <1>1, <1>3, <1>4, <1>5, <1>6, <1>7 DEF TaskT

\* A settle round that goes on, and one that reached its end, are tasks.
LEMMA DecideType ==
  ASSUME NEW n \in Nodes, NEW t \in TaskT, n \notin t.cand, n \notin t.todo
  PROVE  DecideWarm(t) \in TaskT /\ n \notin DecideWarm(t).cand /\ n \notin DecideWarm(t).todo
<1>1. DecideWarm(t) = t \/ DecideWarm(t) = Searching(t, TRUE) \/ DecideWarm(t) = Marking(t)
  BY DEF DecideWarm
<1> QED
  BY <1>1, RoundType

\* A task that is idle or off asks nobody.
LEMMA IdleTask ==
  ASSUME NEW n
  PROVE  /\ n \notin Idle.cand /\ n \notin Idle.todo
         /\ n \notin Off.cand /\ n \notin Off.todo
BY DEF Idle, Off

\* A step of one running node's settle task that gives it a task and a gate and
\* changes no other memory but the copy.
LEMMA SettleKeepsInv ==
  ASSUME SiteInv, NEW n \in up, NEW t \in TaskT, n \notin t.cand, n \notin t.todo,
         NEW g \in {"Pending", "Ready", "Blocked"},
         task' = [task EXCEPT ![n] = t],
         gate' = [gate EXCEPT ![n] = g],
         db' \in [Nodes -> DbT], adv' \subseteq Nodes,
         UNCHANGED <<mem, cdc, leader, reset, tail>>
  PROVE  SiteInv'
<1>1. Types'
  BY DEF SiteInv, Types, mem
<1>2. Stopped'
  BY DEF SiteInv, Types, Stopped, mem
<1>3. NotItself'
  BY DEF SiteInv, Types, NotItself
<1>4. SelfMember'
  BY DEF SiteInv, SelfMember, mem
<1> QED
  BY <1>1, <1>2, <1>3, <1>4 DEF SiteInv

\* A round begins with the peers its view reports alive, itself left out
\* (settle_round).
LEMMA BeginRoundInv ==
  ASSUME SiteInv, NEW n \in Nodes, BeginRound(n)
  PROVE  SiteInv'
<1>1. n \in up
  BY DEF BeginRound, Runs
<1>2. UNCHANGED <<mem, db, cdc, leader, reset, tail, adv>>
  BY DEF BeginRound
<1>3. db' \in [Nodes -> DbT] /\ adv' \subseteq Nodes /\ Adverts \subseteq Nodes
      /\ gate[n] \in {"Pending", "Ready", "Blocked"} /\ Alive(n) \subseteq Nodes
  BY <1>2 DEF SiteInv, Types, Adverts, Alive
<1> DEFINE Round(advert) == [Idle EXCEPT !.own = SiteVersion(n), !.best = advert,
                                          !.cand = Candidates(n), !.todo = Candidates(n),
                                          !.past = n \in grace]
<1>4. PICK advert \in {Zero} \cup {SiteVersion(k) : k \in Adverts \ {n}} :
        \/ Settle(n, Idle, "Pending") \/ Settle(n, Searching(Round(advert), FALSE), gate[n])
        \/ Settle(n, Off, "Ready")
        \/ Settle(n, DecideWarm([Round(advert) EXCEPT !.pc = "probe"]), gate[n])
  BY DEF BeginRound
<1> DEFINE round == Round(advert)
           probe == [round EXCEPT !.pc = "probe"]
<1>5. advert \in Version /\ SiteVersion(n) \in Version
  BY <1>3, <1>4, VersionType, ConstantTypes DEF SiteInv
<1>6. round \in TaskT /\ n \notin round.cand /\ n \notin round.todo
  <2> DEFINE past == n \in grace
             others == Candidates(n)
  <2>1. past \in BOOLEAN
    OBVIOUS
  <2>2. Idle \in TaskT
    BY ConstantTypes
  <2>3. others \subseteq Nodes /\ n \notin others
    BY <1>3 DEF Candidates
  <2>4. round = [Idle EXCEPT !.own = SiteVersion(n), !.best = advert, !.cand = others,
                             !.todo = others, !.past = past]
    OBVIOUS
  <2> HIDE DEF past, others, round
  <2> QED
    BY <1>5, <2>1, <2>2, <2>3, <2>4 DEF TaskT
<1>7. \/ Settle(n, Idle, "Pending") \/ Settle(n, Searching(round, FALSE), gate[n])
      \/ Settle(n, Off, "Ready") \/ Settle(n, DecideWarm(probe), gate[n])
  BY <1>4
<1> HIDE DEF round
<1>8. probe \in TaskT /\ n \notin probe.cand /\ n \notin probe.todo
  BY <1>6 DEF TaskT
<1> HIDE DEF probe
<1>9. \E t \in TaskT, g \in {"Pending", "Ready", "Blocked"} :
        n \notin t.cand /\ n \notin t.todo /\ Settle(n, t, g)
  BY <1>3, <1>6, <1>7, <1>8, RoundType, DecideType, IdleTask, ConstantTypes
<1> QED
  BY <1>1, <1>2, <1>3, <1>9, SettleKeepsInv DEF Settle

\* Asking one peer for its version (probe_peer_version).
LEMMA ProbeVersionInv ==
  ASSUME SiteInv, NEW n \in Nodes, ProbeVersion(n)
  PROVE  SiteInv'
<1> DEFINE t == task[n]
           p == First(t.todo)
           b == IF Answers(p, n) THEN Fresher(SiteVersion(p), t.best) ELSE t.best
           u == [t EXCEPT !.todo = t.todo \ {p}, !.best = b]
<1>1. n \in up /\ UNCHANGED <<mem, db, cdc, leader, reset, tail, gate, adv>>
      /\ task' = [task EXCEPT ![n] = DecideWarm(u)]
  BY DEF ProbeVersion, Runs
<1>2. t \in TaskT /\ n \notin t.cand /\ n \notin t.todo
  BY DEF SiteInv, Types, NotItself
<1>3. Answers(p, n) => p \in Nodes
  BY DEF Answers, SiteInv, Types
<1>4. b \in Version
  BY <1>2, <1>3, VersionType DEF Fresher, SiteInv, TaskT
<1> HIDE DEF t, p, b
<1>5. u \in TaskT /\ n \notin u.cand /\ n \notin u.todo
  BY <1>2, <1>4 DEF TaskT
<1> HIDE DEF u
<1>6. DecideWarm(u) \in TaskT /\ n \notin DecideWarm(u).cand /\ n \notin DecideWarm(u).todo
  BY <1>5, DecideType
<1>7. gate' = [gate EXCEPT ![n] = gate[n]] /\ gate[n] \in {"Pending", "Ready", "Blocked"}
      /\ db' \in [Nodes -> DbT] /\ adv' \subseteq Nodes
  BY <1>1 DEF SiteInv, Types
<1> QED
  BY <1>1, <1>6, <1>7, SettleKeepsInv

\* Asking one peer for its copy (the search of a cold owner).
LEMMA AskForCopyInv ==
  ASSUME SiteInv, NEW n \in Nodes, AskForCopy(n)
  PROVE  SiteInv'
<1> DEFINE t == task[n]
           p == First(t.todo)
           u == [t EXCEPT !.pc = "install", !.snap = Snapshot(p), !.todo = {}]
           v == [t EXCEPT !.todo = t.todo \ {p}, !.missed = t.missed \/ ~Answers(p, n)]
           w == IF Answers(p, n) /\ db[p].rows # {} THEN u ELSE v
<1>1. n \in up /\ UNCHANGED <<mem, db, cdc, leader, reset, tail, gate, adv>>
      /\ task' = [task EXCEPT ![n] = w]
  BY DEF AskForCopy, Runs
<1>2. t \in TaskT /\ n \notin t.cand /\ n \notin t.todo
  BY DEF SiteInv, Types, NotItself
<1>3. Answers(p, n) => p \in Nodes
  BY DEF Answers, SiteInv, Types
<1>4. Answers(p, n) => Snapshot(p) \in SnapT
  BY <1>3, SnapshotType DEF SiteInv
<1> HIDE DEF t, p
<1>5. Answers(p, n) => u \in TaskT /\ n \notin u.cand /\ n \notin u.todo
  BY <1>2, <1>4 DEF TaskT
<1>6. (t.missed \/ ~Answers(p, n)) \in BOOLEAN
  OBVIOUS
<1>7. v \in TaskT /\ n \notin v.cand /\ n \notin v.todo
  BY <1>2, <1>6 DEF TaskT
<1> HIDE DEF u, v
<1>8. w \in TaskT /\ n \notin w.cand /\ n \notin w.todo
  BY <1>5, <1>7
<1> HIDE DEF w
<1>9. gate' = [gate EXCEPT ![n] = gate[n]] /\ gate[n] \in {"Pending", "Ready", "Blocked"}
      /\ db' \in [Nodes -> DbT] /\ adv' \subseteq Nodes
  BY <1>1 DEF SiteInv, Types
<1> QED
  BY <1>1, <1>8, <1>9, SettleKeepsInv

\* Installing the fetched copy under the seed lock, or serving what is there.
LEMMA InstallCopyInv ==
  ASSUME SiteInv, NEW n \in Nodes, InstallCopy(n)
  PROVE  SiteInv'
<1> DEFINE t == task[n]
<1>1. n \in up /\ UNCHANGED <<mem, cdc, leader, reset, tail, adv>>
  BY DEF InstallCopy, Runs
<1>2. t \in TaskT /\ n \notin t.cand /\ n \notin t.todo /\ db \in [Nodes -> DbT]
      /\ gate \in [Nodes -> {"Pending", "Ready", "Blocked"}] /\ adv' \subseteq Nodes
  BY <1>1 DEF SiteInv, Types, NotItself
<1>3. \/ Settle(n, Off, "Ready") /\ UNCHANGED db
      \/ /\ db' = [db EXCEPT ![n] = InstallSnapshot(db[n], t.snap, t.discard)]
         /\ task' = [task EXCEPT ![n] = Marking(t)]
         /\ UNCHANGED gate
  BY DEF InstallCopy
<1> HIDE DEF t
<1>4. CASE Settle(n, Off, "Ready") /\ UNCHANGED db
  BY <1>1, <1>2, <1>4, ConstantTypes, IdleTask, SettleKeepsInv DEF Settle
<1>5. CASE /\ db' = [db EXCEPT ![n] = InstallSnapshot(db[n], t.snap, t.discard)]
           /\ task' = [task EXCEPT ![n] = Marking(t)]
           /\ UNCHANGED gate
  <2>1. t.snap \in SnapT /\ t.discard \in BOOLEAN /\ db[n] \in DbT
    BY <1>2 DEF TaskT
  <2>2. InstallSnapshot(db[n], t.snap, t.discard) \in DbT
    BY <2>1, InstallType
  <2>3. db' \in [Nodes -> DbT]
    BY <1>2, <1>5, <2>2
  <2>4. gate' = [gate EXCEPT ![n] = gate[n]] /\ gate[n] \in {"Pending", "Ready", "Blocked"}
    BY <1>2, <1>5
  <2> QED
    BY <1>1, <1>2, <1>5, <2>3, <2>4, RoundType, SettleKeepsInv
<1> QED
  BY <1>3, <1>4, <1>5

\* An install that fails leaves the copy and blocks the site.
LEMMA InstallFailsInv ==
  ASSUME SiteInv, NEW n \in Nodes, InstallFails(n)
  PROVE  SiteInv'
<1>1. n \in up /\ UNCHANGED <<mem, db, cdc, leader, reset, tail, adv>> /\ Settle(n, Idle, "Blocked")
  BY DEF InstallFails, Runs
<1>2. db' \in [Nodes -> DbT] /\ adv' \subseteq Nodes
  BY <1>1 DEF SiteInv, Types
<1> QED
  BY <1>1, <1>2, ConstantTypes, IdleTask, SettleKeepsInv DEF Settle

\* The verdict of a search that found nothing (handoff_verdict).
LEMMA NoCopyFoundInv ==
  ASSUME SiteInv, NEW n \in Nodes, NoCopyFound(n)
  PROVE  SiteInv'
<1> DEFINE t == task[n]
<1>1. n \in up /\ UNCHANGED <<mem, db, cdc, leader, reset, tail, adv>>
  BY DEF NoCopyFound, Runs
<1>2. t \in TaskT /\ n \notin t.cand /\ n \notin t.todo /\ db' \in [Nodes -> DbT]
      /\ gate[n] \in {"Pending", "Ready", "Blocked"} /\ adv' \subseteq Nodes
  BY <1>1 DEF SiteInv, Types, NotItself
<1>3. \/ Settle(n, Idle, "Blocked") \/ Settle(n, Idle, "Pending") \/ Settle(n, Marking(t), gate[n])
  BY DEF NoCopyFound
<1> HIDE DEF t
<1>4. \E u \in TaskT, g \in {"Pending", "Ready", "Blocked"} :
        n \notin u.cand /\ n \notin u.todo /\ Settle(n, u, g)
  BY <1>2, <1>3, RoundType, IdleTask, ConstantTypes
<1> QED
  BY <1>1, <1>2, <1>4, SettleKeepsInv DEF Settle

\* The epoch a settling owner marks is a number above the persisted one, although
\* the round read its own earlier (next_owner_epoch).
LEMMA NextEpochIsHigher ==
  ASSUME SiteInv, NEW n \in Nodes
  PROVE  NextOwnerEpoch(n) \in Nat /\ NextOwnerEpoch(n) > db[n].epoch
<1>1. db[n] \in DbT /\ task[n] \in TaskT
  BY DEF SiteInv, Types
<1>2. db[n].epoch \in Nat /\ task[n].epoch \in Nat
  BY <1>1 DEF DbT, TaskT
<1> QED
  BY <1>2 DEF NextOwnerEpoch, Larger

\* Reading the persisted epoch (settle_owner_version).
LEMMA ReadEpochInv ==
  ASSUME SiteInv, NEW n \in Nodes, ReadEpoch(n)
  PROVE  SiteInv'
<1> DEFINE t == [task[n] EXCEPT !.pc = "write", !.epoch = NextOwnerEpoch(n)]
<1>1. n \in up /\ UNCHANGED <<mem, db, cdc, leader, reset, tail, gate, adv>>
      /\ task' = [task EXCEPT ![n].pc = "write", ![n].epoch = NextOwnerEpoch(n)]
  BY DEF ReadEpoch, Runs
<1>2. task[n] \in TaskT /\ n \notin task[n].cand /\ n \notin task[n].todo /\ task \in [Nodes -> TaskT]
  BY DEF SiteInv, Types, NotItself
<1>3. NextOwnerEpoch(n) \in Nat
  BY NextEpochIsHigher
<1>4. t \in TaskT /\ n \notin t.cand /\ n \notin t.todo
  BY <1>2, <1>3 DEF TaskT
<1>5. task' = [task EXCEPT ![n] = t]
  BY <1>1, <1>2
<1> HIDE DEF t
<1>6. gate' = [gate EXCEPT ![n] = gate[n]] /\ gate[n] \in {"Pending", "Ready", "Blocked"}
      /\ db' \in [Nodes -> DbT] /\ adv' \subseteq Nodes
  BY <1>1 DEF SiteInv, Types
<1> QED
  BY <1>1, <1>4, <1>5, <1>6, SettleKeepsInv

\* Writing the new epoch and opening the gate, or opening it without.
LEMMA WriteEpochInv ==
  ASSUME SiteInv, NEW n \in Nodes, WriteEpoch(n) \/ PersistFails(n)
  PROVE  SiteInv'
<1>1. n \in up /\ UNCHANGED <<mem, cdc, leader, reset, tail>> /\ Settle(n, Off, "Ready")
      /\ db' \in {db, [db EXCEPT ![n].epoch = task[n].epoch]} /\ adv' \subseteq adv \cup {n}
  BY DEF WriteEpoch, PersistFails, Runs
<1>2. db \in [Nodes -> DbT] /\ adv' \subseteq Nodes /\ task[n] \in TaskT
  BY <1>1 DEF SiteInv, Types
<1>3. task[n].epoch \in Nat
  BY <1>2 DEF TaskT
<1>4. db' \in [Nodes -> DbT]
  BY <1>1, <1>2, <1>3 DEF DbT
<1> QED
  BY <1>1, <1>2, <1>4, ConstantTypes, IdleTask, SettleKeepsInv DEF Settle

\* A step of the driver of one running node: it moves its stream and its copy,
\* may begin a settle task, and nothing else.
LEMMA DriverKeepsInv ==
  ASSUME SiteInv, NEW n \in up, NEW s \in TailT, NEW d \in DbT,
         tail' = [tail EXCEPT ![n] = s], db' = [db EXCEPT ![n] = d],
         task' = task \/ task' = [task EXCEPT ![n] = Idle],
         NEW l \in Nodes \cup {0}, leader' = [leader EXCEPT ![n] = l],
         reset' \subseteq reset \cup {n}, adv' \subseteq adv \cup {n},
         UNCHANGED <<mem, cdc, gate>>
  PROVE  SiteInv'
<1>1. Types'
  BY ConstantTypes DEF SiteInv, Types, mem
<1>2. Stopped'
  BY DEF SiteInv, Types, Stopped, mem
<1>3. NotItself'
  BY IdleTask DEF SiteInv, Types, NotItself
<1>4. SelfMember'
  BY DEF SiteInv, SelfMember, mem
<1> QED
  BY <1>1, <1>2, <1>3, <1>4 DEF SiteInv

\* What a step that leaves the driver's role alone needs.
LEMMA StreamKeepsInv ==
  ASSUME SiteInv, NEW n \in up, NEW s \in TailT, NEW d \in DbT,
         tail' = [tail EXCEPT ![n] = s], db' = [db EXCEPT ![n] = d],
         reset' \subseteq reset \cup {n},
         UNCHANGED <<mem, cdc, leader, gate, task, adv>>
  PROVE  SiteInv'
<1>1. leader[n] \in Nodes \cup {0} /\ leader' = [leader EXCEPT ![n] = leader[n]]
  BY DEF SiteInv, Types
<1> QED
  BY <1>1, DriverKeepsInv

\* A stream that is not there, and the copy as it was.
LEMMA Untouched ==
  ASSUME SiteInv, NEW n \in up
  PROVE  /\ n \in Nodes
         /\ db[n] \in DbT /\ db = [db EXCEPT ![n] = db[n]]
         /\ tail[n] \in TailT /\ tail = [tail EXCEPT ![n] = tail[n]]
BY DEF SiteInv, Types

\* The driver follows the elected role, and a promotion starts a settle task.
LEMMA ObserveRoleInv ==
  ASSUME SiteInv, NEW n \in Nodes, ObserveRole(n)
  PROVE  SiteInv'
<1>1. /\ n \in up /\ UNCHANGED <<mem, db, cdc, gate>>
      /\ leader' = [leader EXCEPT ![n] = Elected(n)]
      /\ task' = task \/ task' = [task EXCEPT ![n] = Idle]
      /\ tail' = [tail EXCEPT ![n] = NoTail]
      /\ reset' \subseteq reset \cup {n} /\ adv' \subseteq adv \cup {n}
  BY DEF ObserveRole
<1>2. Elected(n) \in Nodes \cup {0}
  BY <1>1, OwnerIsNode DEF Elected, SiteInv
<1> QED
  BY <1>1, <1>2, Untouched, ConstantTypes, DriverKeepsInv

\* A stream about to dial.
LEMMA DialingType ==
  ASSUME NEW o \in Nodes
  PROVE  Dialing(o) \in TailT
BY ConstantTypes DEF Dialing, TailT, TailRec

\* An attempt of the replica's driver: fetch a snapshot, or dial.
LEMMA StartAttemptInv ==
  ASSUME SiteInv, NEW n \in Nodes, StartAttempt(n)
  PROVE  SiteInv'
<1> DEFINE o == leader[n]
           none == db[n].source = 0 /\ Cold(db[n])
<1>1. n \in up /\ UNCHANGED <<mem, cdc, leader, reset, gate, task, adv>>
      /\ o \notin {0, n}
  BY DEF StartAttempt
<1>2. o \in Nodes
  BY <1>1 DEF SiteInv, Types
<1>3. db[n] \in DbT /\ db = [db EXCEPT ![n] = db[n]]
  BY <1>1, Untouched
<1>4. CASE /\ tail' = [tail EXCEPT ![n] = [Dialing(o) EXCEPT !.pc = "seed", !.discard = ~none,
                                                            !.snap = Snapshot(o)]]
           /\ UNCHANGED db
  <2> DEFINE c == ~none
             s == [Dialing(o) EXCEPT !.pc = "seed", !.discard = c, !.snap = Snapshot(o)]
  <2>1. c \in BOOLEAN
    OBVIOUS
  <2>2. Snapshot(o) \in SnapT /\ Dialing(o) \in TailT /\ Dialing(o).src \in Nodes
    BY <1>2, SnapshotType, DialingType DEF SiteInv, Dialing, NoTail
  <2>3. tail' = [tail EXCEPT ![n] = s]
    BY <1>4
  <2> HIDE DEF c
  <2>4. s \in TailT
    BY <2>1, <2>2 DEF TailT, TailRec
  <2> HIDE DEF s
  <2> QED
    BY <1>1, <1>3, <1>4, <2>3, <2>4, StreamKeepsInv
<1>5. CASE /\ db' = [db EXCEPT ![n].source = IF @ = 0 THEN n ELSE @]
           /\ tail' = [tail EXCEPT ![n] = Dialing(o)]
  <2> DEFINE d == [db[n] EXCEPT !.source = IF db[n].source = 0 THEN n ELSE db[n].source]
  <2>1. d \in DbT
    BY <1>3 DEF DbT
  <2>2. db' = [db EXCEPT ![n] = d]
    BY <1>5
  <2>3. Dialing(o) \in TailT
    BY <1>2, DialingType
  <2> HIDE DEF d
  <2> QED
    BY <1>1, <1>5, <2>1, <2>2, <2>3, StreamKeepsInv
<1> QED
  BY <1>4, <1>5 DEF StartAttempt

\* Installing the snapshot of a bootstrap.
LEMMA SeedInv ==
  ASSUME SiteInv, NEW n \in Nodes, Seed(n)
  PROVE  SiteInv'
<1> DEFINE s == tail[n].snap
<1>1. n \in up /\ UNCHANGED <<mem, cdc, leader, gate, task, adv>> /\ reset' \subseteq reset \cup {n}
      /\ tail[n].pc = "seed"
  BY DEF Seed
<1>2. /\ db[n] \in DbT /\ db = [db EXCEPT ![n] = db[n]] /\ tail[n] \in TailT
  BY <1>1, Untouched
<1>3. s \in SnapT /\ tail[n].discard \in BOOLEAN /\ tail[n].src \in Nodes
  BY <1>1, <1>2 DEF TailT, TailRec
<1>4. CASE tail' = [tail EXCEPT ![n] = NoTail] /\ UNCHANGED db
  BY <1>1, <1>2, <1>4, ConstantTypes, StreamKeepsInv
<1>5. CASE /\ tail' = [tail EXCEPT ![n] = Dialing(tail[n].src)]
           /\ db' = [db EXCEPT ![n] = InstallSnapshot(db[n], s, tail[n].discard)]
  <2>1. InstallSnapshot(db[n], s, tail[n].discard) \in DbT
    BY <1>2, <1>3, InstallType
  <2>2. Dialing(tail[n].src) \in TailT
    BY <1>3, DialingType
  <2> QED
    BY <1>1, <1>5, <2>1, <2>2, StreamKeepsInv
<1> QED
  BY <1>4, <1>5 DEF Seed

\* The Hello of a stream.
LEMMA HelloInv ==
  ASSUME SiteInv, NEW n \in Nodes, Hello(n)
  PROVE  SiteInv'
<1> DEFINE e == db[tail[n].src].epoch
           a == [tail[n] EXCEPT !.pc = "adopt", !.epoch = e]
           r == [tail[n] EXCEPT !.pc = "resume"]
<1>1. n \in up /\ UNCHANGED <<mem, db, cdc, leader, reset, gate, task, adv>> /\ tail[n].src \in up
  BY DEF Hello, Ships
<1>2. /\ db[n] \in DbT /\ tail[n] \in TailT /\ db[tail[n].src] \in DbT
      /\ db = [db EXCEPT ![n] = db[n]] /\ tail \in [Nodes -> TailT] /\ tail[n].src \in Nodes
  BY <1>1 DEF SiteInv, Types
<1>3. e \in Nat
  BY <1>2 DEF DbT
<1>4. a \in TailT /\ r \in TailT
  BY <1>2, <1>3 DEF TailT, TailRec
<1>5. tail' = [tail EXCEPT ![n] = a] \/ tail' = [tail EXCEPT ![n] = r]
  BY <1>2 DEF Hello
<1> HIDE DEF e, a, r
<1> QED
  BY <1>1, <1>2, <1>4, <1>5, StreamKeepsInv

\* Writing the owner's epoch, or failing to.
LEMMA AdoptInv ==
  ASSUME SiteInv, NEW n \in Nodes, Adopt(n)
  PROVE  SiteInv'
<1> DEFINE d == [db[n] EXCEPT !.epoch = tail[n].epoch]
           s == [tail[n] EXCEPT !.pc = "resume", !.epoch = 0]
<1>1. n \in up /\ UNCHANGED <<mem, cdc, leader, reset, gate, task, adv>>
      /\ tail[n].pc = "adopt"
  BY DEF Adopt
<1>2. /\ db[n] \in DbT /\ tail[n] \in TailT /\ db = [db EXCEPT ![n] = db[n]]
      /\ db \in [Nodes -> DbT] /\ tail \in [Nodes -> TailT]
  BY DEF SiteInv, Types
<1>3. tail[n].epoch \in Nat /\ s \in TailT
  BY <1>1, <1>2 DEF TailT, TailRec
<1>4. d \in DbT
  BY <1>2, <1>3 DEF DbT
<1>5. tail' = [tail EXCEPT ![n] = s] /\ (db' = [db EXCEPT ![n] = d] \/ db' = db)
  BY <1>2 DEF Adopt
<1> HIDE DEF d, s
<1> QED
  BY <1>1, <1>2, <1>3, <1>4, <1>5, StreamKeepsInv

\* Resolving the watermark, first commit when the log changes.
LEMMA SubscribeInv ==
  ASSUME SiteInv, NEW n \in Nodes, Subscribe(n)
  PROVE  SiteInv'
<1> DEFINE o == tail[n].src
           d == db[n]
<1>1. n \in up /\ UNCHANGED <<mem, cdc, leader, reset, gate, task, adv>>
      /\ tail[n].pc = "resume"
  BY DEF Subscribe
<1>2. /\ d \in DbT /\ tail[n] \in TailT
      /\ db \in [Nodes -> DbT] /\ tail \in [Nodes -> TailT]
  BY <1>1 DEF SiteInv, Types
<1>3. /\ d.wm \in Nat /\ d.wms \in [Nodes -> Nat] /\ d.source \in Nodes \cup {0}
      /\ o \in Nodes \cup {0}
  BY <1>2 DEF DbT, TailT, TailRec
<1>4. CASE /\ tail' = [tail EXCEPT ![n].pc = "on", ![n].next = d.wm + 1]
           /\ UNCHANGED db
  <2> DEFINE s == [tail[n] EXCEPT !.pc = "on", !.next = d.wm + 1]
  <2>1. db' = [db EXCEPT ![n] = d] /\ tail' = [tail EXCEPT ![n] = s]
    BY <1>2, <1>4
  <2>2. d.wm + 1 \in Nat
    BY <1>3
  <2>3. s \in TailT
    BY <1>1, <1>2, <2>2 DEF TailT, TailRec
  <2> HIDE DEF s
  <2> QED
    BY <1>1, <1>2, <2>1, <2>3, StreamKeepsInv
<1>5. CASE /\ db' = [db EXCEPT ![n] = [d EXCEPT !.wms[d.source] = d.wm, !.wm = d.wms[o]]]
           /\ tail' = [tail EXCEPT ![n].pc = "switch"]
  <2> DEFINE w == [d.wms EXCEPT ![d.source] = d.wm]
             f == [d EXCEPT !.wms = w, !.wm = d.wms[o]]
             s == [tail[n] EXCEPT !.pc = "switch"]
  <2>1. w \in [Nodes -> Nat]
    BY <1>3
  <2>2. db' = [db EXCEPT ![n] = f] /\ tail' = [tail EXCEPT ![n] = s]
    BY <1>2, <1>5
  <2> HIDE DEF w
  <2>3. d.wms[o] \in Nat
    BY <1>1, <1>2, <1>3 DEF TailT
  <2>4. f \in DbT
    BY <1>2, <1>3, <2>1, <2>3 DEF DbT
  <2>5. s \in TailT
    BY <1>1, <1>2 DEF TailT, TailRec
  <2> HIDE DEF f, s
  <2> QED
    BY <1>1, <2>2, <2>4, <2>5, StreamKeepsInv
<1> QED
  BY <1>4, <1>5 DEF Subscribe

\* Second commit when the log changes: the name of the new log.
LEMMA SetSourceInv ==
  ASSUME SiteInv, NEW n \in Nodes, SetSource(n)
  PROVE  SiteInv'
<1> DEFINE d == [db[n] EXCEPT !.source = tail[n].src]
           s == [tail[n] EXCEPT !.pc = "on", !.next = db[n].wm + 1]
<1>1. n \in up /\ UNCHANGED <<mem, cdc, leader, reset, gate, task, adv>>
      /\ tail[n].pc = "switch"
  BY DEF SetSource
<1>2. db[n] \in DbT /\ tail[n] \in TailT /\ db \in [Nodes -> DbT] /\ tail \in [Nodes -> TailT]
  BY DEF SiteInv, Types
<1>3. d \in DbT /\ s \in TailT
  <2>1. db[n].wm + 1 \in Nat /\ tail[n].src \in Nodes \cup {0}
    BY <1>2 DEF DbT, TailT, TailRec
  <2>2. d \in DbT
    BY <1>2, <2>1 DEF DbT
  <2>3. s \in TailT
    BY <1>1, <1>2, <2>1 DEF TailT, TailRec
  <2> QED
    BY <2>2, <2>3
<1>4. db' = [db EXCEPT ![n] = d] /\ tail' = [tail EXCEPT ![n] = s]
  BY <1>2 DEF SetSource
<1> HIDE DEF d, s
<1> QED
  BY <1>1, <1>3, <1>4, StreamKeepsInv

\* Applying one entry of the owner's log, a schema collision included.
LEMMA ApplyBatchInv ==
  ASSUME SiteInv, NEW n \in Nodes, ApplyBatch(n)
  PROVE  SiteInv'
<1> DEFINE o == tail[n].src
           i == tail[n].next
           s == [tail[n] EXCEPT !.next = i + 1]
<1>1. n \in up /\ UNCHANGED <<mem, cdc, leader, gate, task, adv>> /\ o \in up
  BY DEF ApplyBatch, Shippable
<1>2. db[n] \in DbT /\ tail[n] \in TailT /\ db \in [Nodes -> DbT] /\ tail \in [Nodes -> TailT]
      /\ o \in Nodes
  BY <1>1 DEF SiteInv, Types
<1>3. i \in Nat /\ s \in TailT /\ db[n].wm \in Nat
  BY <1>2 DEF TailT, TailRec, DbT
<1>4. CASE tail' = [tail EXCEPT ![n].next = i + 1] /\ UNCHANGED <<db, reset>>
  <2>1. tail' = [tail EXCEPT ![n] = s] /\ db' = [db EXCEPT ![n] = db[n]]
    BY <1>2, <1>4
  <2> QED
    BY <1>1, <1>2, <1>3, <1>4, <2>1, StreamKeepsInv
<1>5. CASE tail' = [tail EXCEPT ![n] = NoTail] /\ reset' = reset \cup {n} /\ UNCHANGED db
  <2>1. db' = [db EXCEPT ![n] = db[n]]
    BY <1>2, <1>5
  <2> QED
    BY <1>1, <1>2, <1>5, <2>1, ConstantTypes, StreamKeepsInv
<1>6. CASE /\ ~(i <= db[n].wm)
           /\ db' = [db EXCEPT ![n].rows = @ \cup {<<o, i>>}, ![n].wm = i]
           /\ tail' = [tail EXCEPT ![n].next = i + 1]
           /\ UNCHANGED reset
  <2> DEFINE d == [db[n] EXCEPT !.rows = db[n].rows \cup {<<o, i>>}, !.wm = i]
  <2>1. <<o, i>> \in Rows
    BY <1>2, <1>3, <1>6 DEF Rows
  <2>2. d \in DbT
    BY <1>2, <1>3, <2>1 DEF DbT
  <2>3. db' = [db EXCEPT ![n] = d] /\ tail' = [tail EXCEPT ![n] = s]
    BY <1>2, <1>6
  <2> HIDE DEF d, s
  <2> QED
    BY <1>1, <1>3, <1>6, <2>2, <2>3, StreamKeepsInv
<1> QED
  BY <1>4, <1>5, <1>6 DEF ApplyBatch

\* A stream that ends.
LEMMA LoseStreamInv ==
  ASSUME SiteInv, NEW n \in Nodes, LoseStream(n)
  PROVE  SiteInv'
<1>1. n \in up /\ UNCHANGED <<mem, db, cdc, leader, reset, gate, task, adv>>
      /\ tail' = [tail EXCEPT ![n] = NoTail]
  BY DEF LoseStream
<1> QED
  BY <1>1, Untouched, ConstantTypes, StreamKeepsInv

\* A write through the gate appends to the node's log.
LEMMA WriteInv ==
  ASSUME SiteInv, NEW n \in Nodes, Write(n)
  PROVE  SiteInv'
<1> DEFINE c == Append(cdc[n], IF db[n].rows = {} THEN "create" ELSE "row")
           d == [db[n] EXCEPT !.rows = db[n].rows \cup {<<n, Len(cdc[n]) + 1>>}]
<1>1. n \in up /\ UNCHANGED <<mem, leader, reset, tail, gate, task, adv>>
  BY DEF Write, Serves, SiteInv, Types
<1>2. db[n] \in DbT /\ cdc[n] \in Seq({"create", "row"}) /\ db \in [Nodes -> DbT]
      /\ cdc \in [Nodes -> Seq({"create", "row"})]
  BY DEF SiteInv, Types
<1>3. Len(cdc[n]) + 1 \in Nat \ {0} /\ c \in Seq({"create", "row"})
  BY <1>2
<1>4. <<n, Len(cdc[n]) + 1>> \in Rows
  BY <1>3 DEF Rows
<1>5. d \in DbT
  BY <1>2, <1>4 DEF DbT
<1>6. db' = [db EXCEPT ![n] = d] /\ cdc' = [cdc EXCEPT ![n] = c]
  BY <1>2 DEF Write
<1> HIDE DEF c, d
<1>7. Types'
  BY <1>1, <1>3, <1>5, <1>6 DEF SiteInv, Types, mem
<1> QED
  BY <1>1, <1>7 DEF SiteInv, Stopped, NotItself, SelfMember, mem

\* A local session is opened or closed on a running node.
LEMMA SessionInv ==
  ASSUME SiteInv, NEW n \in Nodes, OpenSession(n) \/ CloseSession(n)
  PROVE  SiteInv'
<1>1. /\ UNCHANGED <<up, known, grace, faults, db, cdc, leader, reset, tail, gate, task, adv>>
      /\ held' \subseteq up
  BY DEF OpenSession, CloseSession, Serves, SiteInv, Types
<1> QED
  BY <1>1 DEF SiteInv, Types, Stopped, NotItself, SelfMember

\* Gossip changes the view of a running node, never its view of itself.
LEMMA GossipStepInv ==
  ASSUME SiteInv, NEW n \in Nodes, GossipStep(n)
  PROVE  SiteInv'
<1>1. PICK k \in Nodes : Hear(n, k) \/ Suspect(n, k)
  BY DEF GossipStep
<1>2. \E v \in Views : n # k /\ known' = [known EXCEPT ![n][k] = v]
  BY <1>1 DEF Hear, Suspect, SiteInv, Types, Views
<1>3. UNCHANGED <<up, grace, held, faults, db, cdc, leader, reset, tail, gate, task, adv>>
  BY <1>1 DEF Hear, Suspect
<1>4. known' \in [Nodes -> [Nodes -> Views]] /\ \A m \in Nodes : known'[m][m] = known[m][m]
  BY <1>2 DEF SiteInv, Types
<1> QED
  BY <1>3, <1>4 DEF SiteInv, Types, Stopped, NotItself, SelfMember

\* A grace that passes, an advert that lapses.
LEMMA TimerStepInv ==
  ASSUME SiteInv, NEW n \in Nodes, TimerStep(n)
  PROVE  SiteInv'
<1>1. /\ UNCHANGED <<up, known, held, faults, db, cdc, leader, reset, tail, gate, task>>
      /\ grace' \subseteq up /\ adv' \subseteq adv
  BY DEF TimerStep, Lapse, PassGrace, mem, SiteInv, Types
<1> QED
  BY <1>1 DEF SiteInv, Types, Stopped, NotItself, SelfMember

\* The end of a process, however it comes.
LEMMA StopInv ==
  ASSUME SiteInv, NEW n \in Nodes, Stop(n), faults' \in 0..MaxFaults
  PROVE  SiteInv'
<1>1. /\ up' = up \ {n} /\ grace' = grace \ {n} /\ held' = held \ {n} /\ reset' = reset \ {n}
      /\ known' = [known EXCEPT ![n] = [k \in Nodes |-> "gone"]]
      /\ leader' = [leader EXCEPT ![n] = 0]
      /\ tail' \in [Nodes -> TailT] /\ tail'[n] = NoTail
      /\ \A m \in Nodes : tail'[m] = NoTail \/ tail'[m] = tail[m]
      /\ task' = [task EXCEPT ![n] = Off] /\ gate' = [gate EXCEPT ![n] = "Pending"]
      /\ adv' \subseteq adv \cup {n} /\ UNCHANGED <<db, cdc>>
  BY ConstantTypes DEF Stop, Settle, SiteInv, Types
<1>2. Types'
  BY <1>1, ConstantTypes DEF SiteInv, Types, Views
<1>3. Stopped'
  BY <1>1 DEF SiteInv, Types, Stopped
<1>4. NotItself'
  BY <1>1, IdleTask DEF SiteInv, Types, NotItself
<1>5. SelfMember'
  BY <1>1 DEF SiteInv, Types, SelfMember
<1> QED
  BY <1>2, <1>3, <1>4, <1>5 DEF SiteInv

\* One more fault within the bound is counted.
LEMMA FaultsCount ==
  ASSUME SiteInv, faults < MaxFaults
  PROVE  faults + 1 \in 0..MaxFaults
BY ConstantsAssumption DEF SiteInv, Types

\* Announcing the leave, which stops the drivers.
LEMMA DrainInv ==
  ASSUME SiteInv, NEW n \in Nodes, Drain(n)
  PROVE  SiteInv'
<1>1. /\ n \in up /\ faults' \in 0..MaxFaults
      /\ known' = [known EXCEPT ![n][n] = "draining"]
      /\ leader' = [leader EXCEPT ![n] = 0]
      /\ task' = [task EXCEPT ![n] = Off] \/ task' = task
      /\ adv' \subseteq adv \cup {n}
      /\ UNCHANGED <<up, grace, held, db, cdc, reset, tail, gate>>
  BY FaultsCount DEF Drain
<1>2. Types'
  <2>1. task' \in [Nodes -> TaskT] /\ leader' \in [Nodes -> Nodes \cup {0}]
    BY <1>1, ConstantTypes DEF SiteInv, Types
  <2>2. known' \in [Nodes -> [Nodes -> Views]]
    BY <1>1 DEF SiteInv, Types, Views
  <2> QED
    BY <1>1, <2>1, <2>2 DEF SiteInv, Types
<1>3. Stopped'
  BY <1>1 DEF SiteInv, Types, Stopped
<1>4. NotItself'
  BY <1>1, IdleTask DEF SiteInv, Types, NotItself
<1>5. SelfMember'
  BY <1>1 DEF SiteInv, Types, SelfMember
<1> QED
  BY <1>2, <1>3, <1>4, <1>5 DEF SiteInv

\* A start gives a node its own view and a settle task.
LEMMA StartInv ==
  ASSUME SiteInv, NEW n \in Nodes, Start(n)
  PROVE  SiteInv'
<1>1. /\ up' = up \cup {n} /\ known' = [known EXCEPT ![n][n] = "alive"]
      /\ task' = [task EXCEPT ![n] = Idle]
      /\ UNCHANGED <<grace, held, faults, db, cdc, leader, reset, tail, gate, adv>>
  BY DEF Start
<1>2. Types'
  BY <1>1, ConstantTypes DEF SiteInv, Types, Views
<1>3. Stopped'
  BY <1>1 DEF SiteInv, Types, Stopped
<1>4. NotItself'
  BY <1>1, IdleTask DEF SiteInv, Types, NotItself
<1>5. SelfMember'
  BY <1>1 DEF SiteInv, Types, SelfMember
<1> QED
  BY <1>2, <1>3, <1>4, <1>5 DEF SiteInv

\* The invariant holds before the first start.
LEMMA InitInv == Init => SiteInv
<1> SUFFICES ASSUME Init PROVE SiteInv
  OBVIOUS
<1>1. [rows |-> {}, epoch |-> 0, source |-> 0, wm |-> 0, wms |-> [k \in Nodes |-> 0]] \in DbT
  <2>1. [k \in Nodes |-> 0] \in [Nodes -> Nat] /\ {} \subseteq Rows
    OBVIOUS
  <2> QED
    BY <2>1 DEF DbT
<1>2. <<>> \in Seq({"create", "row"}) /\ 0 \in 0..MaxFaults
  BY ConstantsAssumption
<1>3. Types
  BY <1>1, <1>2, ConstantTypes DEF Init, Types, Views
<1> QED
  BY <1>3, IdleTask DEF Init, SiteInv, Stopped, NotItself, SelfMember

\* Every step keeps the invariant.
LEMMA SiteStep == SiteInv /\ [Next]_vars => SiteInv'
<1> SUFFICES ASSUME SiteInv, [Next]_vars PROVE SiteInv'
  OBVIOUS
<1>1. CASE UNCHANGED vars
  BY <1>1 DEF SiteInv, Types, Stopped, NotItself, SelfMember, vars, mem
<1>2. ASSUME NEW n \in Nodes, SettleStep(n) PROVE SiteInv'
  BY <1>2, BeginRoundInv, ProbeVersionInv, AskForCopyInv, InstallCopyInv, InstallFailsInv,
     NoCopyFoundInv, ReadEpochInv, WriteEpochInv DEF SettleStep
<1>3. ASSUME NEW n \in Nodes, DriverStep(n) PROVE SiteInv'
  BY <1>3, ObserveRoleInv, StartAttemptInv, SeedInv, HelloInv, AdoptInv, SubscribeInv,
     SetSourceInv, ApplyBatchInv, LoseStreamInv DEF DriverStep
<1>4. ASSUME NEW n \in Nodes, SessionStep(n) \/ GossipStep(n) \/ TimerStep(n) PROVE SiteInv'
  BY <1>4, SessionInv, WriteInv, GossipStepInv, TimerStepInv DEF SessionStep
<1>5. ASSUME NEW n \in Nodes, Crash(n) \/ Leave(n) PROVE SiteInv'
  <2>1. Stop(n) /\ faults' \in 0..MaxFaults
    BY <1>5, FaultsCount DEF Crash, Leave, SiteInv, Types
  <2> QED
    BY <2>1, StopInv
<1>6. ASSUME NEW n \in Nodes, Drain(n) \/ Start(n) PROVE SiteInv'
  BY <1>6, DrainInv, StartInv
<1> QED
  BY <1>1, <1>2, <1>3, <1>4, <1>5, <1>6 DEF Next

\* The invariant holds in every reachable state.
LEMMA SiteInvAlways == Spec => []SiteInv
BY InitInv, SiteStep, PTL DEF Spec

\* The state of the hand-off keeps its type, what a process keeps in memory ends
\* with it, and a settle round never asks its own node, for any set of nodes.
THEOREM SiteTypeCorrect == Spec => []TypeOK
<1>1. SiteInv => TypeOK
  <2> SUFFICES ASSUME SiteInv PROVE TypeOK
    OBVIOUS
  <2>1. ASSUME NEW n \in Nodes
        PROVE  /\ db[n].rows \subseteq Nodes \X (Nat \ {0})
               /\ {db[n].epoch, db[n].wm} \subseteq Nat
               /\ db[n].source \in Nodes \cup {0}
               /\ db[n].wms \in [Nodes -> Nat]
    BY DEF SiteInv, Types, DbT, Rows
  <2>2. ASSUME NEW n \in Nodes
        PROVE  /\ tail[n].src \in Nodes \cup {0} /\ {tail[n].next, tail[n].epoch} \subseteq Nat
               /\ tail[n].pc \in {"none", "seed", "dial", "adopt", "resume", "switch", "on"}
    BY DEF SiteInv, Types, TailT, TailRec
  <2>3. ASSUME NEW n \in Nodes
        PROVE  /\ task[n].pc \in {"off", "idle", "probe", "search", "install", "mark", "write"}
               /\ task[n].epoch \in Nat
               /\ {task[n].own, task[n].best} \subseteq Version
               /\ task[n].cand \cup task[n].todo \subseteq Nodes \ {n}
               /\ {task[n].discard, task[n].missed, task[n].past} \subseteq BOOLEAN
    BY DEF SiteInv, Types, TaskT, NotItself
  <2> QED
    BY <2>1, <2>2, <2>3 DEF SiteInv, Types, Stopped, TypeOK, Views
<1> QED
  BY <1>1, SiteInvAlways, PTL

-----------------------------------------------------------------------------
(* What one node's step leaves of the others.                              *)

NodeStep(n) ==
  \/ SettleStep(n) \/ DriverStep(n)
  \/ SessionStep(n) \/ GossipStep(n) \/ TimerStep(n)
  \/ Crash(n) \/ Drain(n) \/ Leave(n) \/ Start(n)

\* A step of n leaves what m keeps; it may end the stream m has from n.
Elsewhere(n) ==
  \A m \in Nodes \ {n} :
    /\ leader'[m] = leader[m] /\ task'[m] = task[m] /\ gate'[m] = gate[m]
    /\ db'[m] = db[m] /\ cdc'[m] = cdc[m]
    /\ tail'[m] = tail[m] \/ tail'[m] = NoTail
    /\ (m \in grace' <=> m \in grace) /\ (m \in held' <=> m \in held)

\* A settle task, a driver, a session and a process touch their own node only.
LEMMA StepsAreLocal ==
  ASSUME SiteInv, NEW n \in Nodes, NodeStep(n)
  PROVE  Elsewhere(n)
<1> USE DEF Elsewhere
<1>1. /\ leader \in [Nodes -> Nodes \cup {0}] /\ task \in [Nodes -> TaskT] /\ db \in [Nodes -> DbT]
      /\ gate \in [Nodes -> {"Pending", "Ready", "Blocked"}] /\ tail \in [Nodes -> TailT]
      /\ cdc \in [Nodes -> Seq({"create", "row"})]
  BY DEF SiteInv, Types
<1>2. CASE BeginRound(n)
  <2>1. UNCHANGED <<mem, db, cdc, leader, reset, tail, adv>>
        /\ \E t, g : task' = [task EXCEPT ![n] = t] /\ gate' = [gate EXCEPT ![n] = g]
    BY <1>2 DEF BeginRound, Settle
  <2> QED
    BY <1>1, <2>1 DEF mem
<1>3. CASE ProbeVersion(n) \/ AskForCopy(n) \/ ReadEpoch(n)
  <2>1. UNCHANGED <<mem, db, cdc, leader, tail, gate>>
    BY <1>3 DEF ProbeVersion, AskForCopy, ReadEpoch
  <2>2. \A m \in Nodes \ {n} : task'[m] = task[m]
    BY <1>1, <1>3 DEF ProbeVersion, AskForCopy, ReadEpoch
  <2> QED
    BY <2>1, <2>2 DEF mem
<1>4. CASE InstallCopy(n) \/ InstallFails(n) \/ NoCopyFound(n)
  BY <1>1, <1>4 DEF InstallCopy, InstallFails, NoCopyFound, Settle, mem
<1>5. CASE WriteEpoch(n) \/ PersistFails(n)
  BY <1>1, <1>5 DEF WriteEpoch, PersistFails, Settle, mem
<1>6. CASE ObserveRole(n)
  BY <1>1, <1>6 DEF ObserveRole, mem
<1>7. CASE StartAttempt(n) \/ Seed(n)
  BY <1>1, <1>7 DEF StartAttempt, Seed, mem
<1>8. CASE Hello(n) \/ Adopt(n) \/ Subscribe(n)
  BY <1>1, <1>8 DEF Hello, Adopt, Subscribe, mem
<1>9. CASE SetSource(n) \/ ApplyBatch(n) \/ LoseStream(n)
  BY <1>1, <1>9 DEF SetSource, ApplyBatch, LoseStream, mem
<1>10. CASE SessionStep(n)
  BY <1>1, <1>10 DEF SessionStep, OpenSession, CloseSession, Write, mem
<1>11. CASE GossipStep(n)
  BY <1>11 DEF GossipStep, Hear, Suspect
<1>12. CASE TimerStep(n)
  BY <1>12 DEF TimerStep, Lapse, PassGrace, mem
<1>13. CASE Crash(n) \/ Leave(n)
  <2>1. Stop(n)
    BY <1>13 DEF Crash, Leave
  <2> QED
    BY <1>1, <2>1 DEF Stop, Settle
<1>14. CASE Drain(n) \/ Start(n)
  BY <1>1, <1>14 DEF Drain, Start
<1> QED
  BY <1>2, <1>3, <1>4, <1>5, <1>6, <1>7, <1>8, <1>9, <1>10, <1>11, <1>12, <1>13, <1>14
     DEF NodeStep, SettleStep, DriverStep

-----------------------------------------------------------------------------
(* The epoch of an elected owner.                                          *)

\* An elected owner tails nobody, so that between the two statements of its
\* settle task nothing else writes the epoch.
OwnerPart(n) ==
  leader[n] = n =>
    /\ tail[n] = NoTail
    /\ task[n].pc = "write" => task[n].epoch > db[n].epoch

OwnerInv == \A n \in Nodes : OwnerPart(n)

\* A step of n's settle task.
LEMMA SettleOwner ==
  ASSUME SiteInv, NEW n \in Nodes, OwnerPart(n), SettleStep(n)
  PROVE  /\ OwnerPart(n)'
         /\ leader[n] = n => db'[n].epoch >= db[n].epoch
<1>1. /\ task \in [Nodes -> TaskT] /\ db \in [Nodes -> DbT] /\ task[n] \in TaskT /\ db[n] \in DbT
      /\ db[n].epoch \in Nat /\ task[n].epoch \in Nat
  BY DEF SiteInv, Types, DbT, TaskT
<1>2. UNCHANGED <<leader, tail>>
  BY DEF SettleStep, BeginRound, ProbeVersion, AskForCopy, InstallCopy, InstallFails, NoCopyFound,
         ReadEpoch, WriteEpoch, PersistFails
<1>3. Idle.pc # "write" /\ Off.pc # "write"
      /\ \A t : Marking(t).pc # "write" /\ \A f : Searching(t, f).pc # "write"
  BY DEF Idle, Off, Marking, Searching
<1>4. CASE BeginRound(n)
  <2> DEFINE Round(advert) == [Idle EXCEPT !.own = SiteVersion(n), !.best = advert,
                                           !.cand = Candidates(n), !.todo = Candidates(n),
                                           !.past = n \in grace]
  <2>1. PICK advert :
          \E t \in {Idle, Off, Searching(Round(advert), FALSE),
                   DecideWarm([Round(advert) EXCEPT !.pc = "probe"])} :
            task' = [task EXCEPT ![n] = t]
    BY <1>4 DEF BeginRound, Settle
  <2> DEFINE probe == [Round(advert) EXCEPT !.pc = "probe"]
             search == Searching(Round(advert), FALSE)
  <2>2. probe.pc # "write" /\ search.pc # "write"
    BY <1>3 DEF Idle
  <2>3. task'[n].pc # "write"
    <3>1. task'[n] \in {Idle, Off, search, DecideWarm(probe)}
      BY <1>1, <2>1
    <3> HIDE DEF probe, search
    <3>2. DecideWarm(probe).pc # "write"
      BY <1>3, <2>2 DEF DecideWarm
    <3> QED
      BY <1>3, <2>2, <3>1, <3>2
  <2>4. UNCHANGED db
    BY <1>4 DEF BeginRound
  <2> QED
    BY <1>1, <1>2, <2>3, <2>4 DEF OwnerPart
<1>5. CASE ProbeVersion(n)
  <2> DEFINE t == task[n]
             p == First(t.todo)
             b == IF Answers(p, n) THEN Fresher(SiteVersion(p), t.best) ELSE t.best
             u == [t EXCEPT !.todo = t.todo \ {p}, !.best = b]
  <2>1. task'[n] = DecideWarm(u) /\ t.pc = "probe" /\ UNCHANGED db
    BY <1>1, <1>5 DEF ProbeVersion, Runs
  <2>2. u.pc = t.pc
    BY <1>1 DEF TaskT
  <2> HIDE DEF u
  <2>3. DecideWarm(u).pc # "write"
    BY <1>3, <2>1, <2>2 DEF DecideWarm
  <2> QED
    BY <1>1, <1>2, <2>1, <2>3 DEF OwnerPart
<1>6. CASE AskForCopy(n)
  <2>1. task'[n].pc \in {"search", "install"} /\ UNCHANGED db
    BY <1>1, <1>6 DEF AskForCopy, Runs, TaskT
  <2> QED
    BY <1>1, <1>2, <2>1 DEF OwnerPart
<1>7. CASE InstallCopy(n)
  <2>1. task'[n].pc # "write"
    BY <1>1, <1>3, <1>7 DEF InstallCopy, Settle
  <2>2. task[n].snap \in SnapT /\ task[n].discard \in BOOLEAN
    BY <1>1 DEF TaskT
  <2>3. db'[n] = db[n] \/ db'[n] = InstallSnapshot(db[n], task[n].snap, task[n].discard)
    BY <1>1, <1>7 DEF InstallCopy
  <2>4. db'[n].epoch >= db[n].epoch
    BY <1>1, <2>2, <2>3, InstallType
  <2> QED
    BY <1>2, <2>1, <2>4 DEF OwnerPart
<1>8. CASE InstallFails(n) \/ NoCopyFound(n) \/ PersistFails(n)
  <2>1. task'[n].pc # "write" /\ UNCHANGED db
    BY <1>1, <1>3, <1>8 DEF InstallFails, NoCopyFound, PersistFails, Settle
  <2> QED
    BY <1>1, <1>2, <2>1 DEF OwnerPart
<1>9. CASE ReadEpoch(n)
  <2>1. task'[n].epoch = NextOwnerEpoch(n) /\ UNCHANGED db
    BY <1>1, <1>9 DEF ReadEpoch, TaskT
  <2> QED
    BY <1>1, <1>2, <2>1, NextEpochIsHigher DEF OwnerPart
<1>10. CASE WriteEpoch(n)
  <2>1. task'[n].pc # "write" /\ db'[n].epoch = task[n].epoch /\ task[n].pc = "write"
    BY <1>1, <1>3, <1>10 DEF WriteEpoch, Settle, Runs, DbT
  <2> QED
    BY <1>1, <1>2, <2>1 DEF OwnerPart
<1> QED
  BY <1>4, <1>5, <1>6, <1>7, <1>8, <1>9, <1>10 DEF SettleStep

\* A step of n's driver: a stream that moves is not an elected owner's, and a
\* promotion waits for the statements under way.
LEMMA DriverOwner ==
  ASSUME SiteInv, NEW n \in Nodes, OwnerPart(n), DriverStep(n)
  PROVE  /\ OwnerPart(n)'
         /\ leader[n] = n => db'[n].epoch >= db[n].epoch
<1>1. /\ task \in [Nodes -> TaskT] /\ db \in [Nodes -> DbT] /\ db[n].epoch \in Nat
      /\ tail \in [Nodes -> TailT] /\ leader \in [Nodes -> Nodes \cup {0}]
      /\ 0 \notin Nodes /\ NoTail.pc = "none"
  BY ConstantsAssumption DEF SiteInv, Types, DbT, NoTail
<1>2. CASE ObserveRole(n)
  <2>1. /\ leader'[n] = Elected(n) /\ tail'[n] = NoTail /\ UNCHANGED db
        /\ task[n].pc # "write" /\ (task'[n] = task[n] \/ task'[n] = Idle)
    BY <1>1, <1>2 DEF ObserveRole, Midway
  <2> QED
    BY <1>1, <2>1 DEF OwnerPart, Idle
<1>3. CASE StartAttempt(n)
  <2>1. leader[n] # n /\ UNCHANGED leader
    BY <1>3 DEF StartAttempt
  <2> QED
    BY <2>1 DEF OwnerPart
<1>4. CASE Seed(n) \/ Hello(n) \/ Adopt(n) \/ Subscribe(n) \/ SetSource(n) \/ ApplyBatch(n) \/ LoseStream(n)
  <2>1. tail[n].pc # "none" /\ UNCHANGED leader
    BY <1>4 DEF Seed, Hello, Adopt, Subscribe, SetSource, ApplyBatch, LoseStream
  <2>2. leader[n] # n
    BY <1>1, <2>1 DEF OwnerPart
  <2> QED
    BY <2>1, <2>2 DEF OwnerPart
<1> QED
  BY <1>2, <1>3, <1>4 DEF DriverStep

\* Requests, gossip, timers and processes.
LEMMA OtherOwner ==
  ASSUME SiteInv, NEW n \in Nodes, OwnerPart(n),
         \/ SessionStep(n) \/ GossipStep(n) \/ TimerStep(n)
         \/ Crash(n) \/ Drain(n) \/ Leave(n) \/ Start(n)
  PROVE  /\ OwnerPart(n)'
         /\ leader[n] = n => db'[n].epoch >= db[n].epoch
<1>1. /\ task \in [Nodes -> TaskT] /\ db \in [Nodes -> DbT] /\ db[n].epoch \in Nat
      /\ leader \in [Nodes -> Nodes \cup {0}] /\ 0 \notin Nodes
  BY ConstantsAssumption DEF SiteInv, Types, DbT
<1>2. db'[n].epoch = db[n].epoch
  BY <1>1 DEF SessionStep, OpenSession, CloseSession, Write, GossipStep, Hear, Suspect, TimerStep, Lapse,
              PassGrace, Crash, Drain, Leave, Stop, Start, DbT
<1>3. CASE SessionStep(n) \/ GossipStep(n) \/ TimerStep(n)
  <2>1. UNCHANGED <<leader, tail, task>>
    BY <1>3 DEF SessionStep, OpenSession, CloseSession, Write, GossipStep, Hear, Suspect, TimerStep,
                Lapse, PassGrace
  <2> QED
    BY <1>1, <1>2, <2>1 DEF OwnerPart
<1>4. CASE Crash(n) \/ Drain(n) \/ Leave(n)
  <2>1. leader'[n] = 0
    BY <1>1, <1>4 DEF Crash, Drain, Leave, Stop
  <2> QED
    BY <1>1, <1>2, <2>1 DEF OwnerPart
<1>5. CASE Start(n)
  <2>1. UNCHANGED <<leader, tail>> /\ task'[n] = Idle
    BY <1>1, <1>5 DEF Start
  <2> QED
    BY <1>1, <1>2, <2>1 DEF OwnerPart, Idle
<1> QED
  BY <1>3, <1>4, <1>5

\* Every step keeps it and lets no elected owner's epoch fall.
LEMMA OwnerStep ==
  ASSUME SiteInv, OwnerInv, NEW n \in Nodes, NodeStep(n)
  PROVE  OwnerInv' /\ \A m \in Nodes : leader[m] = m => db'[m].epoch >= db[m].epoch
<1>1. OwnerPart(n)' /\ (leader[n] = n => db'[n].epoch >= db[n].epoch)
  BY SettleOwner, DriverOwner, OtherOwner DEF NodeStep, OwnerInv
<1>2. ASSUME NEW m \in Nodes \ {n}
      PROVE  OwnerPart(m)' /\ db'[m].epoch >= db[m].epoch
  <2>1. db[m].epoch \in Nat
    BY DEF SiteInv, Types, DbT
  <2>2. Elsewhere(n)
    BY StepsAreLocal
  <2> QED
    BY <2>1, <2>2 DEF OwnerInv, OwnerPart, Elsewhere
<1> QED
  BY <1>1, <1>2 DEF OwnerInv

\* The epoch of an elected owner's copy never falls, and the one its settle task
\* is about to record is above it, whatever was installed since the round read
\* its own (settle_owner_version, apply_snapshot).
THEOREM OwnersEpochRises == Spec => OwnerEpochRises
<1>1. Init => OwnerInv
  BY ConstantsAssumption DEF Init, OwnerInv, OwnerPart
<1>2. SiteInv /\ OwnerInv /\ [Next]_vars => OwnerInv'
  <2>1. CASE UNCHANGED vars
    BY <2>1 DEF OwnerInv, OwnerPart, vars
  <2>2. CASE Next
    BY <2>2, OwnerStep DEF Next, NodeStep
  <2> QED
    BY <2>1, <2>2
<1>3. SiteInv /\ OwnerInv /\ [Next]_vars
        => [\A n \in Nodes : leader[n] = n =>
              /\ db'[n].epoch >= db[n].epoch
              /\ task[n].pc = "write" => task[n].epoch > db[n].epoch]_vars
  BY OwnerStep DEF Next, NodeStep, OwnerInv, OwnerPart
<1> QED
  BY <1>1, <1>2, <1>3, SiteInvAlways, PTL DEF Spec, OwnerEpochRises
-----------------------------------------------------------------------------
(* The first write to an empty copy.                                       *)

\* A cursor or a log of its own: the copy is not empty.
Tracks(n) == db[n].wm # 0 \/ cdc[n] # <<>> \/ \E k \in Nodes : db[n].wms[k] # 0

\* Snapshots in flight that have a position have rows.
SnapsPart(n) ==
  /\ tail[n].snap.wm # 0 => tail[n].snap.rows # {}
  /\ task[n].pc = "install" => task[n].snap.rows # {}

\* A round remembers the grace only when it has passed.
RoundPart(n) ==
  /\ task[n].pc = "probe" => task[n].past
  /\ task[n].past => n \in grace

\* A gate that is or is about to be open on an empty copy is a node's past the grace.
GatePart(n) ==
  task[n].pc \in {"mark", "write"} \/ gate[n] = "Ready" \/ n \in held
    => n \in grace \/ db[n].rows # {}

FoundPart(n) == (Tracks(n) => db[n].rows # {}) /\ SnapsPart(n) /\ RoundPart(n) /\ GatePart(n)

FoundInv == \A n \in Nodes : FoundPart(n)

\* A step of n's settle task that leaves the copy.
LEMMA TaskKeepsFound ==
  ASSUME SiteInv, NEW n \in Nodes, FoundPart(n), NEW t, NEW g,
         task'[n] = t, gate'[n] = g,
         UNCHANGED <<mem, db, cdc, leader, reset, tail>>,
         t.pc = "install" => t.snap.rows # {},
         t.pc = "probe" => t.past, t.past => n \in grace,
         t.pc \in {"mark", "write"} \/ g = "Ready" => n \in grace \/ db[n].rows # {} \/ gate[n] = "Ready"
  PROVE  FoundPart(n)'
<1>1. SnapsPart(n)'
  BY DEF FoundPart, SnapsPart
<1>2. RoundPart(n)'
  BY DEF RoundPart, mem
<1>3. GatePart(n)'
  BY DEF FoundPart, GatePart, mem
<1>4. Tracks(n)' => db'[n].rows # {}
  BY DEF FoundPart, Tracks
<1> QED
  BY <1>1, <1>2, <1>3, <1>4 DEF FoundPart

\* The shapes of a round.
LEMMA RoundShapes ==
  ASSUME NEW t \in TaskT, NEW f \in BOOLEAN
  PROVE  /\ Searching(t, f).pc = "search" /\ Searching(t, f).past = t.past
         /\ Marking(t).pc = "mark" /\ ~Marking(t).past
         /\ Idle.pc = "idle" /\ ~Idle.past /\ Off.pc = "off" /\ ~Off.past
<1>1. t.past \in BOOLEAN
  BY DEF TaskT
<1> QED
  BY <1>1 DEF Searching, Marking, Idle, Off

\* The verdict of a warm round past the grace.
LEMMA DecideShapes ==
  ASSUME NEW t \in TaskT, t.pc = "probe", t.past
  PROVE  \/ DecideWarm(t).pc \in {"probe", "search"} /\ DecideWarm(t).past
         \/ DecideWarm(t).pc = "mark" /\ ~DecideWarm(t).past
<1>1. DecideWarm(t) \in {t, Searching(t, TRUE), Marking(t)}
  BY DEF DecideWarm
<1>2. Searching(t, TRUE).pc = "search" /\ Searching(t, TRUE).past
  BY RoundShapes
<1>3. Marking(t).pc = "mark" /\ ~Marking(t).past
  BY RoundShapes
<1> QED
  BY <1>1, <1>2, <1>3

\* An install leaves no empty copy where there was one with rows, and a copy
\* with a position has rows.
LEMMA InstallRows ==
  ASSUME NEW d \in DbT, NEW s \in SnapT, NEW discard \in BOOLEAN,
         s.wm # 0 => s.rows # {}, discard => s.rows # {},
         d.wm # 0 \/ (\E k \in Nodes : d.wms[k] # 0) => d.rows # {}
  PROVE  LET e == InstallSnapshot(d, s, discard)
         IN  /\ d.rows # {} \/ s.rows # {} => e.rows # {}
             /\ e.wm # 0 \/ (\E k \in Nodes : e.wms[k] # 0) => e.rows # {}
<1> DEFINE e == InstallSnapshot(d, s, discard)
<1>1. d.wms \in [Nodes -> Nat]
  BY DEF DbT
<1>2. /\ e.rows = IF discard THEN s.rows ELSE d.rows \cup s.rows
      /\ e.wm = s.wm /\ e.wms = [d.wms EXCEPT ![s.log] = s.wm]
  BY DEF InstallSnapshot
<1> HIDE DEF e
<1>3. d.rows # {} \/ s.rows # {} => e.rows # {}
  BY <1>2
<1>4. ASSUME NEW k \in Nodes, e.wms[k] # 0 PROVE e.rows # {}
  <2>1. e.wms[k] = s.wm \/ e.wms[k] = d.wms[k]
    BY <1>1, <1>2
  <2> QED
    BY <1>3, <1>4, <2>1
<1> QED
  BY <1>2, <1>3, <1>4 DEF e

\* The beginning of a round.
LEMMA BeginFound ==
  ASSUME SiteInv, NEW n \in Nodes, FoundPart(n), BeginRound(n)
  PROVE  FoundPart(n)'
<1> DEFINE Round(advert) == [Idle EXCEPT !.own = SiteVersion(n), !.best = advert,
                                         !.cand = Candidates(n), !.todo = Candidates(n),
                                         !.past = n \in grace]
           Probe(advert) == [Round(advert) EXCEPT !.pc = "probe"]
<1>1. UNCHANGED <<mem, db, cdc, leader, reset, tail>>
      /\ task \in [Nodes -> TaskT] /\ gate \in [Nodes -> {"Pending", "Ready", "Blocked"}]
  BY DEF BeginRound, SiteInv, Types
<1>2. PICK advert \in {Zero} \cup {SiteVersion(k) : k \in Adverts \ {n}} :
        \/ Settle(n, Idle, "Pending")
        \/ Settle(n, Searching(Round(advert), FALSE), gate[n])
        \/ n \in grace /\ Settle(n, Off, "Ready")
        \/ n \in grace /\ Settle(n, DecideWarm(Probe(advert)), gate[n])
  BY DEF BeginRound
<1>3. Round(advert) \in TaskT /\ (Round(advert).past <=> n \in grace)
  <2>1. advert \in Version /\ SiteVersion(n) \in Version /\ Candidates(n) \subseteq Nodes
    BY <1>2, VersionType, ConstantTypes DEF SiteInv, Types, Adverts, Candidates, Alive
  <2> DEFINE past == n \in grace
             c == Candidates(n)
  <2>2. past \in BOOLEAN /\ Idle \in TaskT /\ c \subseteq Nodes
    BY <2>1, ConstantTypes
  <2>3. Round(advert) = [Idle EXCEPT !.own = SiteVersion(n), !.best = advert, !.cand = c,
                                     !.todo = c, !.past = past]
    OBVIOUS
  <2> HIDE DEF past, c, Round
  <2>4. Round(advert) \in TaskT
    BY <2>1, <2>2, <2>3 DEF TaskT
  <2>5. Round(advert).past = past
    BY <2>2, <2>3 DEF TaskT
  <2> QED
    BY <2>4, <2>5 DEF past
<1> DEFINE r == Round(advert)
           p == Probe(advert)
<1>4. p = [r EXCEPT !.pc = "probe"]
  OBVIOUS
<1> HIDE DEF Round, Probe, r
<1>5. p \in TaskT /\ p.pc = "probe" /\ p.past = r.past
  BY <1>3, <1>4 DEF TaskT, r
<1> HIDE DEF p
<1>6. CASE Settle(n, Idle, "Pending")
  <2>1. task'[n] = Idle /\ gate'[n] = "Pending"
    BY <1>1, <1>6 DEF Settle
  <2>2. Idle.pc = "idle" /\ ~Idle.past
    BY DEF Idle
  <2> QED
    BY <1>1, <2>1, <2>2, TaskKeepsFound
<1>7. CASE Settle(n, Searching(r, FALSE), gate[n])
  <2>1. task'[n] = Searching(r, FALSE) /\ gate'[n] = gate[n]
    BY <1>1, <1>7 DEF Settle
  <2>2. Searching(r, FALSE).pc = "search" /\ Searching(r, FALSE).past = r.past
    BY <1>3, RoundShapes DEF r
  <2>3. r.past => n \in grace
    BY <1>3 DEF r
  <2> QED
    BY <1>1, <2>1, <2>2, <2>3, TaskKeepsFound
<1>8. CASE n \in grace /\ Settle(n, Off, "Ready")
  <2>1. task'[n] = Off /\ gate'[n] = "Ready"
    BY <1>1, <1>8 DEF Settle
  <2>2. Off.pc = "off" /\ ~Off.past
    BY DEF Off, Idle
  <2> QED
    BY <1>1, <1>8, <2>1, <2>2, TaskKeepsFound
<1>9. CASE n \in grace /\ Settle(n, DecideWarm(p), gate[n])
  <2>1. task'[n] = DecideWarm(p) /\ gate'[n] = gate[n]
    BY <1>1, <1>9 DEF Settle
  <2>2. p.past
    BY <1>3, <1>5, <1>9 DEF r
  <2>3. \/ DecideWarm(p).pc \in {"probe", "search"} /\ DecideWarm(p).past
        \/ DecideWarm(p).pc = "mark" /\ ~DecideWarm(p).past
    BY <1>5, <2>2, DecideShapes
  <2> QED
    BY <1>1, <1>9, <2>1, <2>3, TaskKeepsFound
<1> QED
  BY <1>2, <1>6, <1>7, <1>8, <1>9 DEF r, p

\* Questions to the peers.
LEMMA AskFound ==
  ASSUME SiteInv, NEW n \in Nodes, FoundPart(n), ProbeVersion(n) \/ AskForCopy(n)
  PROVE  FoundPart(n)'
<1> DEFINE t == task[n]
           p == First(t.todo)
<1>1. /\ UNCHANGED <<mem, db, cdc, leader, reset, tail, gate>>
      /\ task \in [Nodes -> TaskT] /\ t \in TaskT
      /\ gate' = gate
  BY DEF ProbeVersion, AskForCopy, SiteInv, Types
<1>2. t.past \in BOOLEAN
  BY <1>1 DEF TaskT
<1>3. CASE ProbeVersion(n)
  <2> DEFINE b == IF Answers(p, n) THEN Fresher(SiteVersion(p), t.best) ELSE t.best
             u == [t EXCEPT !.todo = t.todo \ {p}, !.best = b]
  <2>1. task'[n] = DecideWarm(u) /\ t.pc = "probe"
    BY <1>1, <1>3 DEF ProbeVersion, Runs
  <2>2. t.past /\ n \in grace
    BY <2>1 DEF FoundPart, RoundPart
  <2>3. Answers(p, n) => p \in Nodes
    BY DEF Answers, SiteInv, Types
  <2>4. b \in Version
    BY <1>1, <2>3, VersionType DEF Fresher, SiteInv, TaskT
  <2> HIDE DEF t, p, b
  <2>5. u \in TaskT /\ u.pc = t.pc /\ u.past = t.past
    BY <1>1, <2>4 DEF TaskT
  <2> HIDE DEF u
  <2>6. \/ DecideWarm(u).pc \in {"probe", "search"} /\ DecideWarm(u).past
        \/ DecideWarm(u).pc = "mark" /\ ~DecideWarm(u).past
    BY <2>1, <2>2, <2>5, DecideShapes
  <2> QED
    BY <1>1, <2>1, <2>2, <2>6, TaskKeepsFound
<1>4. CASE AskForCopy(n)
  <2> DEFINE c == t.missed \/ ~Answers(p, n)
             u == [t EXCEPT !.pc = "install", !.snap = Snapshot(p), !.todo = {}]
             v == [t EXCEPT !.todo = t.todo \ {p}, !.missed = c]
  <2>1. /\ t.pc = "search"
        /\ task'[n] = IF Answers(p, n) /\ db[p].rows # {} THEN u ELSE v
    BY <1>1, <1>4 DEF AskForCopy, Runs
  <2>2. t.past => n \in grace
    BY DEF FoundPart, RoundPart
  <2>3. Snapshot(p).rows = db[p].rows
    BY DEF Snapshot
  <2> HIDE DEF t, p, c
  <2>4. /\ u.pc = "install" /\ u.past = t.past /\ u.snap = Snapshot(p)
        /\ v.pc = t.pc /\ v.past = t.past
    BY <1>1 DEF TaskT
  <2> HIDE DEF u, v
  <2>5. CASE Answers(p, n) /\ db[p].rows # {}
    <3>1. task'[n] = u /\ u.snap.rows # {}
      BY <2>1, <2>3, <2>4, <2>5
    <3> QED
      BY <1>1, <1>2, <2>2, <2>4, <3>1, TaskKeepsFound
  <2>6. CASE ~(Answers(p, n) /\ db[p].rows # {})
    <3>1. task'[n] = v
      BY <2>1, <2>6
    <3> QED
      BY <1>1, <1>2, <2>1, <2>2, <2>4, <3>1, TaskKeepsFound
  <2> QED
    BY <2>5, <2>6
<1> QED
  BY <1>3, <1>4

\* Installing a copy, which has rows, or serving the one that is no longer cold.
LEMMA InstallFound ==
  ASSUME SiteInv, NEW n \in Nodes, FoundPart(n), InstallCopy(n) \/ InstallFails(n)
  PROVE  FoundPart(n)'
<1> DEFINE t == task[n]
           e == InstallSnapshot(db[n], t.snap, t.discard)
<1>1. /\ UNCHANGED <<mem, cdc, leader, reset, tail>>
      /\ task \in [Nodes -> TaskT] /\ t \in TaskT /\ db \in [Nodes -> DbT] /\ db[n] \in DbT
      /\ gate \in [Nodes -> {"Pending", "Ready", "Blocked"}] /\ t.pc = "install"
  BY DEF InstallCopy, InstallFails, Runs, SiteInv, Types
<1>2. t.snap \in SnapT /\ t.discard \in BOOLEAN /\ t.snap.rows # {}
  BY <1>1 DEF FoundPart, SnapsPart, TaskT
<1>3. Idle.pc = "idle" /\ ~Idle.past /\ Off.pc = "off" /\ ~Off.past /\ Marking(t).pc = "mark" /\ ~Marking(t).past
  BY <1>1, RoundShapes
<1>4. CASE InstallFails(n)
  <2>1. task'[n] = Idle /\ gate'[n] = "Blocked" /\ UNCHANGED db
    BY <1>1, <1>4 DEF InstallFails, Settle
  <2> QED
    BY <1>1, <1>3, <2>1, TaskKeepsFound
<1>5. CASE ~Cold(db[n]) /\ Settle(n, Off, "Ready") /\ UNCHANGED db
  <2>1. task'[n] = Off /\ gate'[n] = "Ready"
    BY <1>1, <1>5 DEF Settle
  <2>2. db[n].rows # {}
    BY <1>5 DEF Cold, FoundPart, Tracks
  <2> QED
    BY <1>1, <1>3, <1>5, <2>1, <2>2, TaskKeepsFound
<1>6. CASE db' = [db EXCEPT ![n] = e] /\ task' = [task EXCEPT ![n] = Marking(t)] /\ UNCHANGED gate
  <2>1. db'[n] = e /\ task'[n] = Marking(t) /\ gate'[n] = gate[n]
    BY <1>1, <1>6
  <2>2. e.rows # {}
    BY <1>1, <1>2 DEF InstallSnapshot
  <2> HIDE DEF t, e
  <2>3. SnapsPart(n)'
    BY <1>1, <1>3, <2>1 DEF FoundPart, SnapsPart
  <2>4. RoundPart(n)'
    BY <1>3, <2>1 DEF RoundPart
  <2>5. GatePart(n)'
    BY <2>1, <2>2 DEF GatePart
  <2> QED
    BY <2>1, <2>2, <2>3, <2>4, <2>5 DEF FoundPart
<1> QED
  BY <1>4, <1>5, <1>6 DEF InstallCopy

\* The verdict of a search that found nothing, and the epoch of the new stint.
LEMMA VerdictFound ==
  ASSUME SiteInv, NEW n \in Nodes, FoundPart(n),
         NoCopyFound(n) \/ ReadEpoch(n) \/ WriteEpoch(n) \/ PersistFails(n)
  PROVE  FoundPart(n)'
<1> DEFINE t == task[n]
<1>1. /\ UNCHANGED <<mem, cdc, leader, reset, tail>>
      /\ task \in [Nodes -> TaskT] /\ t \in TaskT /\ db \in [Nodes -> DbT] /\ db[n] \in DbT
      /\ gate \in [Nodes -> {"Pending", "Ready", "Blocked"}]
  BY DEF NoCopyFound, ReadEpoch, WriteEpoch, PersistFails, SiteInv, Types
<1>2. t.past \in BOOLEAN
  BY <1>1 DEF TaskT
<1>3. Idle.pc = "idle" /\ ~Idle.past /\ Off.pc = "off" /\ ~Off.past /\ Marking(t).pc = "mark" /\ ~Marking(t).past
  BY <1>1, RoundShapes
<1>4. CASE NoCopyFound(n)
  <2>1. UNCHANGED db /\ \/ task'[n] = Idle /\ gate'[n] \in {"Blocked", "Pending"}
                        \/ t.past /\ task'[n] = Marking(t) /\ gate'[n] = gate[n]
    BY <1>1, <1>4 DEF NoCopyFound, Settle
  <2>2. t.past => n \in grace
    BY DEF FoundPart, RoundPart
  <2>3. CASE task'[n] = Idle /\ gate'[n] \in {"Blocked", "Pending"}
    BY <1>1, <1>3, <2>1, <2>3, TaskKeepsFound
  <2>4. CASE t.past /\ task'[n] = Marking(t) /\ gate'[n] = gate[n]
    BY <1>1, <1>3, <2>1, <2>2, <2>4, TaskKeepsFound
  <2> QED
    BY <2>1, <2>3, <2>4
<1>5. t.pc \in {"mark", "write"} => n \in grace \/ db[n].rows # {}
  BY DEF FoundPart, GatePart
<1>6. t.past => n \in grace
  BY DEF FoundPart, RoundPart
<1>7. CASE ReadEpoch(n)
  <2> DEFINE u == [t EXCEPT !.pc = "write", !.epoch = NextOwnerEpoch(n)]
  <2>1. t.pc = "mark" /\ task'[n] = u /\ UNCHANGED <<db, gate>>
    BY <1>1, <1>7 DEF ReadEpoch, Runs
  <2> HIDE DEF t
  <2>2. u.pc = "write" /\ u.past = t.past
    BY <1>1 DEF TaskT
  <2> HIDE DEF u
  <2>3. u.past => n \in grace
    BY <1>6, <2>2
  <2> QED
    BY <1>1, <1>5, <2>1, <2>2, <2>3, TaskKeepsFound
<1>8. CASE PersistFails(n)
  <2>1. t.pc \in {"mark", "write"} /\ task'[n] = Off /\ gate'[n] = "Ready" /\ UNCHANGED db
    BY <1>1, <1>8 DEF PersistFails, Settle
  <2> QED
    BY <1>1, <1>3, <1>5, <2>1, TaskKeepsFound
<1>9. CASE WriteEpoch(n)
  <2>1. /\ t.pc = "write" /\ task'[n] = Off /\ gate'[n] = "Ready"
        /\ db'[n].rows = db[n].rows /\ db'[n].wm = db[n].wm /\ db'[n].wms = db[n].wms
    BY <1>1, <1>9 DEF WriteEpoch, Settle, Runs, DbT
  <2> HIDE DEF t
  <2>2. SnapsPart(n)'
    BY <1>1, <1>3, <2>1 DEF FoundPart, SnapsPart
  <2>3. RoundPart(n)'
    BY <1>3, <2>1 DEF RoundPart
  <2>4. GatePart(n)'
    BY <1>1, <1>5, <2>1 DEF GatePart, mem
  <2>5. Tracks(n)' => db'[n].rows # {}
    BY <1>1, <2>1 DEF FoundPart, Tracks
  <2> QED
    BY <2>2, <2>3, <2>4, <2>5 DEF FoundPart
<1> QED
  BY <1>4, <1>7, <1>8, <1>9

\* A step of n's driver that keeps the rows it had, and rows wherever the copy
\* has a position.
LEMMA StreamKeepsFound ==
  ASSUME SiteInv, NEW n \in Nodes, FoundPart(n), UNCHANGED <<mem, cdc, gate>>,
         task'[n] = task[n] \/ task'[n] = Idle,
         tail'[n].snap.wm # 0 => tail'[n].snap.rows # {},
         db[n].rows # {} => db'[n].rows # {},
         db'[n].wm # 0 \/ (\E k \in Nodes : db'[n].wms[k] # 0) => db'[n].rows # {}
  PROVE  FoundPart(n)'
<1>1. Idle.pc = "idle" /\ ~Idle.past
  BY DEF Idle
<1>2. SnapsPart(n)'
  BY <1>1 DEF FoundPart, SnapsPart
<1>3. RoundPart(n)'
  BY <1>1 DEF FoundPart, RoundPart, mem
<1>4. GatePart(n)'
  BY <1>1 DEF FoundPart, GatePart, mem
<1>5. Tracks(n)' => db'[n].rows # {}
  BY DEF FoundPart, Tracks
<1> QED
  BY <1>2, <1>3, <1>4, <1>5 DEF FoundPart

\* A step of n's driver.
LEMMA DriverFound ==
  ASSUME SiteInv, FoundInv, NEW n \in Nodes, DriverStep(n)
  PROVE  FoundPart(n)'
<1>1. /\ task \in [Nodes -> TaskT] /\ db \in [Nodes -> DbT] /\ db[n] \in DbT
      /\ tail \in [Nodes -> TailT] /\ tail[n] \in TailT /\ leader[n] \in Nodes \cup {0}
  BY DEF SiteInv, Types
<1>2. FoundPart(n) /\ NoTail.snap.wm = 0
  BY DEF FoundInv, NoTail, NoSnap
<1>3. /\ tail[n].snap.wm # 0 => tail[n].snap.rows # {}
      /\ db[n].wm # 0 \/ (\E k \in Nodes : db[n].wms[k] # 0) => db[n].rows # {}
  BY <1>2 DEF FoundPart, SnapsPart, Tracks
<1>4. UNCHANGED <<mem, cdc, gate>> /\ (task'[n] = task[n] \/ task'[n] = Idle)
  BY <1>1 DEF DriverStep, ObserveRole, StartAttempt, Seed, Hello, Adopt, Subscribe, SetSource, ApplyBatch,
              LoseStream
<1>5. CASE ObserveRole(n) \/ LoseStream(n)
  <2>1. tail'[n] = NoTail /\ UNCHANGED db
    BY <1>1, <1>5 DEF ObserveRole, LoseStream
  <2> QED
    BY <1>2, <1>3, <1>4, <2>1, StreamKeepsFound
<1>6. CASE StartAttempt(n)
  <2> DEFINE o == leader[n]
  <2>1. o \in Nodes
    BY <1>1, <1>6 DEF StartAttempt
  <2>2. Snapshot(o).wm # 0 => Snapshot(o).rows # {}
    <3>1. cdc[o] \in Seq({"create", "row"}) /\ FoundPart(o)
      BY <2>1 DEF SiteInv, Types, FoundInv
    <3>2. Len(cdc[o]) # 0 => db[o].rows # {}
      BY <3>1 DEF FoundPart, Tracks
    <3> QED
      BY <3>2 DEF Snapshot
  <2>3. tail'[n].snap = Snapshot(o) \/ tail'[n].snap = NoSnap
    <3>1. \/ tail'[n] = Dialing(o)
          \/ \E c : tail'[n] = [Dialing(o) EXCEPT !.pc = "seed", !.discard = c, !.snap = Snapshot(o)]
      BY <1>1, <1>6 DEF StartAttempt
    <3> QED
      BY <3>1 DEF Dialing, NoTail
  <2>4. db'[n].rows = db[n].rows /\ db'[n].wm = db[n].wm /\ db'[n].wms = db[n].wms
    BY <1>1, <1>6 DEF StartAttempt, DbT
  <2>5. tail'[n].snap.wm # 0 => tail'[n].snap.rows # {}
    BY <2>2, <2>3 DEF NoSnap
  <2> QED
    BY <1>2, <1>3, <1>4, <2>4, <2>5, StreamKeepsFound
<1>7. CASE Seed(n)
  <2>1. tail[n].snap \in SnapT /\ tail[n].discard \in BOOLEAN
    BY <1>1 DEF TailT, TailRec
  <2>2. Dialing(tail[n].src).snap.wm = 0
    BY DEF Dialing, NoTail, NoSnap
  <2>3. tail'[n] \in {NoTail, Dialing(tail[n].src)}
    BY <1>1, <1>7 DEF Seed
  <2>4. tail'[n].snap.wm = 0
    BY <1>2, <2>2, <2>3
  <2>5. CASE UNCHANGED db
    BY <1>2, <1>3, <1>4, <2>4, <2>5, StreamKeepsFound
  <2>6. CASE /\ tail[n].discard => tail[n].snap.rows # {}
             /\ db' = [db EXCEPT ![n] = InstallSnapshot(db[n], tail[n].snap, tail[n].discard)]
    <3>1. db'[n] = InstallSnapshot(db[n], tail[n].snap, tail[n].discard)
      BY <1>1, <2>6
    <3>2. /\ db[n].rows # {} => db'[n].rows # {}
          /\ db'[n].wm # 0 \/ (\E k \in Nodes : db'[n].wms[k] # 0) => db'[n].rows # {}
      BY <1>1, <1>3, <2>1, <2>6, <3>1, InstallRows
    <3> QED
      BY <1>2, <1>4, <2>4, <3>2, StreamKeepsFound
  <2> QED
    BY <1>7, <2>5, <2>6 DEF Seed
<1>8. CASE Hello(n) \/ Adopt(n) \/ SetSource(n)
  <2>1. tail'[n].snap = tail[n].snap
    BY <1>1, <1>8 DEF Hello, Adopt, SetSource, TailT, TailRec
  <2>2. db'[n].rows = db[n].rows /\ db'[n].wm = db[n].wm /\ db'[n].wms = db[n].wms
    BY <1>1, <1>8 DEF Hello, Adopt, SetSource, DbT
  <2> QED
    BY <1>2, <1>3, <1>4, <2>1, <2>2, StreamKeepsFound
<1>9. CASE Subscribe(n)
  <2> DEFINE o == tail[n].src
             d == db[n]
  <2>1. tail'[n].snap = tail[n].snap /\ o \in Nodes
    BY <1>1, <1>9 DEF Subscribe, TailT, TailRec
  <2>2. CASE UNCHANGED db
    BY <1>2, <1>3, <1>4, <2>1, <2>2, StreamKeepsFound
  <2>3. CASE db' = [db EXCEPT ![n] = [d EXCEPT !.wms[d.source] = d.wm, !.wm = d.wms[o]]]
    <3>1. d.wms \in [Nodes -> Nat]
      BY <1>1 DEF DbT
    <3>2. db'[n].rows = d.rows /\ db'[n].wm = d.wms[o] /\ db'[n].wms = [d.wms EXCEPT ![d.source] = d.wm]
      BY <1>1, <2>3 DEF DbT
    <3>3. \A k \in Nodes : db'[n].wms[k] \in {d.wms[k], d.wm}
      BY <3>1, <3>2
    <3>4. db'[n].wm # 0 \/ (\E k \in Nodes : db'[n].wms[k] # 0) => db'[n].rows # {}
      BY <1>3, <2>1, <3>2, <3>3
    <3> QED
      BY <1>2, <1>3, <1>4, <2>1, <3>2, <3>4, StreamKeepsFound
  <2> QED
    BY <1>9, <2>2, <2>3 DEF Subscribe
<1>10. CASE ApplyBatch(n)
  <2>1. tail'[n].snap = tail[n].snap \/ tail'[n] = NoTail
    BY <1>1, <1>10 DEF ApplyBatch, TailT, TailRec
  <2>2. db'[n] = db[n] \/ db'[n].rows # {}
    BY <1>1, <1>10 DEF ApplyBatch, DbT
  <2> QED
    BY <1>2, <1>3, <1>4, <2>1, <2>2, StreamKeepsFound
<1> QED
  BY <1>5, <1>6, <1>7, <1>8, <1>9, <1>10 DEF DriverStep

\* Requests, gossip, timers and processes.
LEMMA OtherFound ==
  ASSUME SiteInv, NEW n \in Nodes, FoundPart(n),
         \/ SessionStep(n) \/ GossipStep(n) \/ TimerStep(n)
         \/ Crash(n) \/ Drain(n) \/ Leave(n) \/ Start(n)
  PROVE  FoundPart(n)'
<1>1. /\ task \in [Nodes -> TaskT] /\ db \in [Nodes -> DbT] /\ db[n] \in DbT
      /\ gate \in [Nodes -> {"Pending", "Ready", "Blocked"}] /\ grace \subseteq up
  BY DEF SiteInv, Types
<1>2. Idle.pc = "idle" /\ ~Idle.past /\ Off.pc = "off" /\ ~Off.past /\ NoTail.snap.wm = 0
  BY DEF Idle, Off, NoTail, NoSnap
<1>3. CASE OpenSession(n) \/ CloseSession(n) \/ GossipStep(n) \/ TimerStep(n)
  <2>1. /\ UNCHANGED <<db, cdc, tail, gate, task>> /\ grace \subseteq grace'
        /\ n \in held' => n \in held \/ gate[n] = "Ready"
    BY <1>3 DEF OpenSession, CloseSession, Serves, GossipStep, Hear, Suspect, TimerStep, Lapse, PassGrace, mem
  <2> QED
    BY <2>1 DEF FoundPart, SnapsPart, RoundPart, GatePart, Tracks
<1>4. CASE Write(n)
  <2>1. UNCHANGED <<mem, tail, gate, task>> /\ db'[n].rows # {}
    BY <1>1, <1>4 DEF Write, DbT
  <2> QED
    BY <2>1 DEF FoundPart, SnapsPart, RoundPart, GatePart, mem
<1>5. CASE Crash(n) \/ Leave(n)
  <2>1. /\ tail'[n] = NoTail /\ task'[n] = Off /\ gate'[n] = "Pending" /\ n \notin held'
        /\ UNCHANGED <<db, cdc>>
    BY <1>1, <1>5 DEF Crash, Leave, Stop, Settle
  <2> QED
    BY <1>2, <2>1 DEF FoundPart, SnapsPart, RoundPart, GatePart, Tracks
<1>6. CASE Drain(n) \/ Start(n)
  <2>1. /\ UNCHANGED <<db, cdc, tail, gate, grace, held>>
        /\ task'[n] \in {task[n], Idle, Off}
    BY <1>1, <1>6 DEF Drain, Start
  <2>2. SnapsPart(n)'
    BY <1>2, <2>1 DEF FoundPart, SnapsPart
  <2>3. RoundPart(n)'
    BY <1>2, <2>1 DEF FoundPart, RoundPart
  <2>4. GatePart(n)'
    BY <1>2, <2>1 DEF FoundPart, GatePart
  <2> QED
    BY <2>1, <2>2, <2>3, <2>4 DEF FoundPart, Tracks
<1> QED
  BY <1>3, <1>4, <1>5, <1>6 DEF SessionStep

\* Every step keeps it.
LEMMA FoundStep ==
  ASSUME SiteInv, FoundInv, NEW n \in Nodes, NodeStep(n)
  PROVE  FoundInv'
<1>1. FoundPart(n)'
  <2>1. FoundPart(n)
    BY DEF FoundInv
  <2>2. CASE SettleStep(n)
    BY <2>1, <2>2, BeginFound, AskFound, InstallFound, VerdictFound DEF SettleStep
  <2>3. CASE DriverStep(n)
    BY <2>3, DriverFound
  <2> QED
    BY <2>1, <2>2, <2>3, OtherFound DEF NodeStep
<1>2. ASSUME NEW m \in Nodes \ {n} PROVE FoundPart(m)'
  <2>1. Elsewhere(n) /\ FoundPart(m) /\ NoTail.snap.wm = 0
    BY StepsAreLocal DEF FoundInv, NoTail, NoSnap
  <2>2. SnapsPart(m)'
    BY <2>1 DEF Elsewhere, FoundPart, SnapsPart
  <2>3. RoundPart(m)' /\ GatePart(m)'
    BY <2>1 DEF Elsewhere, FoundPart, RoundPart, GatePart
  <2>4. Tracks(m)' => db'[m].rows # {}
    BY <2>1 DEF Elsewhere, FoundPart, Tracks
  <2> QED
    BY <2>2, <2>3, <2>4 DEF FoundPart
<1> QED
  BY <1>1, <1>2 DEF FoundInv

\* A write to an empty copy is one of a node past the grace.
LEMMA FirstWrite ==
  ASSUME SiteInv, FoundInv, NEW n \in Nodes, NodeStep(n),
         NEW m \in Nodes, Len(cdc'[m]) > Len(cdc[m]), db[m].rows = {}
  PROVE  m \in grace
<1>1. Len(cdc[m]) \in Nat /\ FoundPart(m) /\ cdc \in [Nodes -> Seq({"create", "row"})]
  BY DEF SiteInv, Types, FoundInv
<1>2. cdc'[m] # cdc[m]
  BY <1>1
<1>3. Write(n) /\ n = m
  <2>1. n = m
    BY <1>2, StepsAreLocal DEF Elsewhere
  <2>2. CASE SettleStep(n)
    BY <1>2, <2>2 DEF SettleStep, BeginRound, ProbeVersion, AskForCopy, InstallCopy, InstallFails,
                      NoCopyFound, ReadEpoch, WriteEpoch, PersistFails
  <2>3. CASE DriverStep(n)
    BY <1>2, <2>3 DEF DriverStep, ObserveRole, StartAttempt, Seed, Hello, Adopt, Subscribe, SetSource,
                      ApplyBatch, LoseStream
  <2>4. CASE OpenSession(n) \/ CloseSession(n) \/ GossipStep(n) \/ TimerStep(n)
    BY <1>2, <2>4 DEF OpenSession, CloseSession, GossipStep, Hear, Suspect, TimerStep, Lapse, PassGrace
  <2>5. CASE Crash(n) \/ Drain(n) \/ Leave(n) \/ Start(n)
    BY <1>2, <2>5 DEF Crash, Drain, Leave, Stop, Start
  <2> QED
    BY <2>1, <2>2, <2>3, <2>4, <2>5 DEF NodeStep, SessionStep
<1> QED
  BY <1>1, <1>3 DEF Write, Serves, FoundPart, GatePart

\* No site is founded before the grace: an empty copy takes its first write only
\* in a process that ran the plane for HANDOFF_SETTLE_GRACE, for any set of nodes
\* and any crashes (handoff_verdict, the gate, local_db_is_cold).
THEOREM FoundingWaits == Spec => FoundsAfterGrace
<1>1. Init => FoundInv
  <2> SUFFICES ASSUME Init, NEW n \in Nodes PROVE FoundPart(n)
    BY DEF FoundInv
  <2>1. /\ db[n].rows = {} /\ db[n].wm = 0 /\ \A k \in Nodes : db[n].wms[k] = 0
        /\ cdc[n] = <<>> /\ tail[n] = NoTail /\ task[n] = Idle /\ gate[n] = "Pending" /\ held = {}
    BY DEF Init
  <2>2. Idle.pc = "idle" /\ ~Idle.past /\ NoTail.snap.wm = 0
    BY DEF Idle, NoTail, NoSnap
  <2> QED
    BY <2>1, <2>2 DEF FoundPart, SnapsPart, RoundPart, GatePart, Tracks
<1>2. SiteInv /\ FoundInv /\ [Next]_vars => FoundInv'
  <2>1. CASE UNCHANGED vars
    BY <2>1 DEF FoundInv, FoundPart, SnapsPart, RoundPart, GatePart, Tracks, vars, mem
  <2>2. CASE Next
    BY <2>2, FoundStep DEF Next, NodeStep
  <2> QED
    BY <2>1, <2>2
<1>3. SiteInv /\ FoundInv /\ [Next]_vars
        => [\A n \in Nodes : Len(cdc'[n]) > Len(cdc[n]) /\ db[n].rows = {} => n \in grace]_vars
  BY FirstWrite DEF Next, NodeStep
<1> QED
  BY <1>1, <1>2, <1>3, SiteInvAlways, PTL DEF Spec, FoundsAfterGrace
=============================================================================
