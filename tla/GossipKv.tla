------------------------------ MODULE GossipKv ------------------------------
(***************************************************************************)
(* The small-value tier of the clustered key-value store: the write hooks  *)
(* of KvReplicator, the coalescing GossipWriter, the gossip applier with   *)
(* its applied map, and the verify/prune maintenance loop.  Every node     *)
(* keeps, for each key, a local copy and the stamp of the write it last    *)
(* applied; writes are published in the node's own chitchat state and      *)
(* reach the peers' appliers through gossip, in any order.                 *)
(*                                                                         *)
(* Nodes are past their catch-up gate and in the key's replica set, so a   *)
(* read-modify-write starts from the local copy (resolve_for_update).      *)
(*                                                                         *)
(* One key is modelled.  Keys share no state but the writer's capacity,    *)
(* and MayShed lets other keys fill the queue at any moment.               *)
(***************************************************************************)
EXTENDS Integers, FiniteSets

CONSTANTS
  Nodes,       \* node ids; the number is the node's tag, the tie-breaker
  Workers,     \* threads that execute commands: pairs <<node, index>>
  Commands,    \* the commands the workers issue
  Values,      \* what a command may write
  Wall,        \* readings the wall clock may return, in any order
  Drift,       \* MAX_OBSERVED_DRIFT_MS
  MaxOps,      \* bound: commands issued in a behaviour
  MayShed,     \* other keys may fill the queues: PENDING_CAP, RETIRE_CAP, VERIFY_CAP
  MayPrune,    \* records may grow older than APPLIED_HORIZON
  MayCrash     \* nodes may stop

ASSUME ConstantsAssumption ==
  /\ Nodes \subseteq Nat \ {0} /\ IsFiniteSet(Nodes)
  /\ Workers \subseteq Nodes \X Nat
  /\ Commands \subseteq {"set", "setex", "del", "incr", "expire"}
  /\ Values \subseteq Nat \ {0}
  /\ Wall \subseteq Nat /\ Drift \in Nat /\ MaxOps \in Nat
  /\ {MayShed, MayPrune, MayCrash} \subseteq BOOLEAN

VARIABLES
  clock,    \* clock[n]: every stamp n issues from now on is above it
  applied,  \* applied[n]: the stamp of the write n last applied (Zero: no record)
  store,    \* store[n]: n's local copy
  pending,  \* pending[n]: the operation queued in n's GossipWriter
  retire,   \* retire[n]: the peer stamp that superseded n's own copy
  batch,    \* batch[n]: taken from the queue, waiting for the chitchat lock
  view,     \* view[m][n]: n's chitchat state as m knows it; view[n][n] is n's own
  verify,   \* verify[n]: the key awaits verification at n
  worker,   \* worker[w]: the command w executes and how far it is
  lapsed,   \* the deadlines that have passed
  up,       \* the nodes that run
  shed,     \* shed[n]: publishes dropped at the capacity of the queue
  ops,      \* commands issued so far
  lost,     \* history: an expired write, or a marker, went before a peer heard of it
  log       \* history: the writes a node has accepted, as entries

node  == <<clock, applied, store, verify>>
queue == <<pending, retire, batch, shed>>
vars  == <<node, queue, view, worker, lapsed, up, ops, lost, log>>

-----------------------------------------------------------------------------
(* Stamps: gossip_kv::Stamp, ordered lexicographically.                    *)

Zero == [write |-> 0, tag |-> 0]
Stamp == [write : Nat, tag : Nodes] \cup {Zero}

Newer(s, t) == s.write > t.write \/ (s.write = t.write /\ s.tag > t.tag)
LaterOf(s, t) == IF Newer(s, t) THEN s ELSE t

MaxOf(a, b) == IF a > b THEN a ELSE b
MinOf(a, b) == IF a < b THEN a ELSE b

\* clamp_observed: a stamp too far ahead of this node's clock is not followed.
ClampObserved(write, now) == MinOf(write, now + Drift)

\* mutant: two threads that read the same millisecond get the same stamp.
NextAfterSameTick(n, now, seen) ==
  LET floor == IF seen = Zero THEN 0 ELSE ClampObserved(seen.write, now) + 1
  IN  [write |-> MaxOf(MaxOf(now, clock[n]), floor), tag |-> n]

\* mutant: the stamp does not carry the node that issued it.
NextAfterUntagged(n, now, seen) ==
  LET floor == IF seen = Zero THEN 0 ELSE ClampObserved(seen.write, now) + 1
  IN  [write |-> MaxOf(MaxOf(now, clock[n] + 1), floor), tag |-> 0]

\* StampClock::next_after: above everything this node issued and, within the
\* drift allowance, above the stamp it has seen for the key.
NextAfter(n, now, seen) ==
  LET floor == IF seen = Zero THEN 0 ELSE ClampObserved(seen.write, now) + 1
  IN  [write |-> MaxOf(MaxOf(now, clock[n] + 1), floor), tag |-> n]

-----------------------------------------------------------------------------
(* Entries: what a node publishes under the key.  A deadline is named by   *)
(* the stamp of the write that set it; Zero is "no expiry".                *)

Gone == 0
Entry == [stamp : Stamp, val : Nat, exp : Stamp]
NoEntry == [stamp |-> Zero, val |-> Gone, exp |-> Zero]

NoBatch == [op |-> NoEntry, ret |-> Zero]

Copy == [val : Nat, exp : Stamp]
NoCopy == [val |-> Gone, exp |-> Zero]

\* What a reader of n's store finds: an expired copy reads as absent.
Visible(n) == IF store[n].exp \in lapsed THEN Gone ELSE store[n].val

\* What an entry reads as: a tombstone and an expired value are both "gone".
Payload(e) == IF e.exp \in lapsed THEN NoCopy ELSE [val |-> e.val, exp |-> e.exp]

Versioned == [ver : Nat, entry : Entry]

Idle == [pc |-> "idle", cmd |-> "none", stamp |-> Zero, val |-> Gone, exp |-> Zero]
Worker == [pc : {"idle", "rmw", "stamped", "applied"},
           cmd : {"none", "set", "setex", "del", "incr", "expire"},
           stamp : Stamp, val : Nat, exp : Stamp]

Home(w) == w[1]

Init ==
  /\ clock = [n \in Nodes |-> 0]
  /\ applied = [n \in Nodes |-> Zero]
  /\ store = [n \in Nodes |-> NoCopy]
  /\ pending = [n \in Nodes |-> NoEntry]
  /\ retire = [n \in Nodes |-> Zero]
  /\ batch = [n \in Nodes |-> NoBatch]
  /\ view = [m \in Nodes |-> [n \in Nodes |-> [ver |-> 0, entry |-> NoEntry]]]
  /\ verify = [n \in Nodes |-> FALSE]
  /\ worker = [w \in Workers |-> Idle]
  /\ lapsed = {}
  /\ up = Nodes
  /\ shed = [n \in Nodes |-> 0]
  /\ ops = 0
  /\ lost = FALSE
  /\ log = {}

-----------------------------------------------------------------------------
(* apply_if_newer: the record and the local write are one step under the   *)
(* key's slot.  Accepts is its verdict, Record its effect on the map.      *)

AcceptsByTime(n, s) == s.write > applied[n].write  \* mutant: no tie-break
Accepts(n, s) == Newer(s, applied[n])
Record(n, s) == applied' = [applied EXCEPT ![n] = s]

\* The entry a worker's command stands for, given the value it carries.
EntryOf(w, val) == [stamp |-> worker[w].stamp, val |-> val, exp |-> worker[w].exp]

\* A command takes its stamp (stamp_after_applied / new_write_after), which
\* also fixes its deadline, before it touches the store.
TakeStamp(w, now, cmd, val, exp) ==
  LET n == Home(w)
      s == NextAfter(n, now, applied[n])
  IN  /\ clock' = [clock EXCEPT ![n] = s.write]
      /\ worker' = [worker EXCEPT ![w] =
            [pc |-> "stamped", cmd |-> cmd, stamp |-> s, val |-> val,
             exp |-> IF cmd \in {"setex", "expire"} THEN s ELSE exp]]
      /\ UNCHANGED <<applied, store, verify, queue, view, lapsed, up, lost, log>>

Begin(w) ==
  /\ Home(w) \in up
  /\ worker[w].pc = "idle"
  /\ ops < MaxOps
  /\ ops' = ops + 1

\* replicate_set and replicate_broadcast, replicate_remove, replicate_expire:
\* first step.
Issue(w) ==
  /\ Begin(w)
  /\ \E now \in Wall :
       \/ \E cmd \in Commands \cap {"set", "setex"}, v \in Values :
            TakeStamp(w, now, cmd, v, Zero)
       \/ \E cmd \in Commands \cap {"del", "expire"} :
            TakeStamp(w, now, cmd, Gone, Zero)

\* incr_by_with_ttl: the read-modify-write happens under the shard lock, with
\* no stamp; the total and its deadline are captured for the publish.
Incr(w) ==
  /\ Begin(w)
  /\ "incr" \in Commands
  /\ LET n == Home(w)
         copy == IF Visible(n) = Gone THEN [val |-> 1, exp |-> Zero]
                                      ELSE [store[n] EXCEPT !.val = @ + 1]
     IN  /\ store' = [store EXCEPT ![n] = copy]
         /\ worker' = [worker EXCEPT ![w] =
               [pc |-> "rmw", cmd |-> "incr", stamp |-> Zero, val |-> copy.val, exp |-> copy.exp]]
  /\ UNCHANGED <<clock, applied, verify, queue, view, lapsed, up, lost, log>>

\* replicate_published: the stamp of a read-modify-write is taken afterwards.
StampPublished(w) ==
  /\ Home(w) \in up
  /\ worker[w].pc = "rmw"
  /\ \E now \in Wall : TakeStamp(w, now, "incr", worker[w].val, worker[w].exp)
  /\ UNCHANGED ops

\* The local write a command runs under the slot.  expire_local drops an
\* expired copy, and changes nothing when there is none.
LocalWrite(w) ==
  LET n == Home(w) IN
  CASE worker[w].cmd \in {"set", "setex"} -> [val |-> worker[w].val, exp |-> worker[w].exp]
    [] worker[w].cmd = "del"  -> NoCopy
    [] worker[w].cmd = "incr" -> store[n]
    [] OTHER -> IF Visible(n) = Gone THEN NoCopy ELSE [store[n] EXCEPT !.exp = worker[w].exp]

\* The write is newer than what this node has: record it and write the local
\* copy.  An expire that finds no copy has recorded its stamp and ends here.
ApplyLocal(w) ==
  LET n == Home(w) IN
  /\ n \in up
  /\ worker[w].pc = "stamped"
  /\ Accepts(n, worker[w].stamp)
  /\ Record(n, worker[w].stamp)
  /\ store' = [store EXCEPT ![n] = LocalWrite(w)]
  /\ IF worker[w].cmd = "expire" /\ Visible(n) = Gone
     THEN /\ worker' = [worker EXCEPT ![w] = Idle]
          /\ UNCHANGED log
     ELSE /\ worker' = [worker EXCEPT ![w].pc = "applied"]
          /\ log' = log \cup
               {EntryOf(w, IF worker[w].cmd = "expire" THEN Visible(n) ELSE worker[w].val)}
  /\ UNCHANGED <<clock, verify, queue, view, lapsed, up, ops, lost>>

\* mutant: the local copy is written although a newer write landed.
SkipLocalButWrite(w) ==
  /\ Home(w) \in up
  /\ worker[w].pc = "stamped"
  /\ ~Accepts(Home(w), worker[w].stamp)
  /\ store' = [store EXCEPT ![Home(w)] = LocalWrite(w)]
  /\ worker' = [worker EXCEPT ![w] = Idle]
  /\ UNCHANGED <<clock, applied, verify, queue, view, lapsed, up, ops, lost, log>>

\* Apply::Skip: a newer write already landed; this one is neither kept nor
\* published.
SkipLocal(w) ==
  /\ Home(w) \in up
  /\ worker[w].pc = "stamped"
  /\ ~Accepts(Home(w), worker[w].stamp)
  /\ worker' = [worker EXCEPT ![w] = Idle]
  /\ UNCHANGED <<node, queue, view, lapsed, up, ops, lost, log>>

\* mutant: a queued operation is never replaced.
EnqueueFirst(n, e) == IF pending[n] = NoEntry THEN [pending EXCEPT ![n] = e] ELSE pending

\* GossipWriter::enqueue: coalesce with a queued operation, keep the newer.
Enqueue(n, e) ==
  IF Newer(e.stamp, pending[n].stamp) THEN [pending EXCEPT ![n] = e] ELSE pending

\* The value a publish carries.  replicate_expire reads the store again, after
\* the slot was released.
Published(w) == IF worker[w].cmd = "expire" THEN Visible(Home(w)) ELSE worker[w].val

\* What the command does to the store after the slot is released: remove_at
\* removes the local copy a second time.
AfterPublish(w) == IF worker[w].cmd = "del" THEN NoCopy ELSE store[Home(w)]

\* An expire whose copy is gone when it reads it again publishes nothing.
NothingToPublish(w) == worker[w].cmd = "expire" /\ Published(w) = Gone

\* gossip_set_queued / remove_at: queue the publish.  A key that is not queued
\* is shed when the other keys fill the map.
Publish(w) ==
  LET n == Home(w) IN
  /\ n \in up
  /\ worker[w].pc = "applied"
  /\ \/ /\ NothingToPublish(w)
        /\ UNCHANGED <<pending, shed>>
     \/ /\ ~NothingToPublish(w)
        /\ pending' = Enqueue(n, EntryOf(w, Published(w)))
        /\ UNCHANGED shed
     \/ /\ ~NothingToPublish(w) /\ MayShed /\ pending[n] = NoEntry
        /\ shed' = [shed EXCEPT ![n] = @ + 1]
        /\ UNCHANGED pending
  /\ store' = [store EXCEPT ![n] = AfterPublish(w)]
  /\ worker' = [worker EXCEPT ![w] = Idle]
  /\ UNCHANGED <<clock, applied, verify, retire, batch, view, lapsed, up, ops, lost, log>>

-----------------------------------------------------------------------------
(* The writer's drain task, and its sweep.                                 *)

\* take_batch: the queue is emptied before the chitchat lock is held.
TakeBatch(n) ==
  /\ n \in up
  /\ batch[n] = NoBatch
  /\ pending[n] # NoEntry \/ retire[n] # Zero
  /\ batch' = [batch EXCEPT ![n] = [op |-> pending[n], ret |-> retire[n]]]
  /\ pending' = [pending EXCEPT ![n] = NoEntry]
  /\ retire' = [retire EXCEPT ![n] = Zero]
  /\ UNCHANGED <<node, shed, view, worker, lapsed, up, ops, lost, log>>

\* mutant: chitchat's plain set, whatever lands last stays.
SetAlways(own, e) == IF e # NoEntry /\ e.exp \notin lapsed THEN e ELSE own

\* set_if_newer on the node's own state; a value that expired while it was
\* queued never enters it.
SetIfNewer(own, e) == IF e.exp \notin lapsed /\ Newer(e.stamp, own.stamp) THEN e ELSE own

\* A retirement deletes the own copy only if it really is older.
RetireOwn(own, superseded) == IF own # NoEntry /\ Newer(superseded, own.stamp) THEN NoEntry ELSE own

\* A change of n's own chitchat state takes the next version.
SetOwn(n, e) ==
  view' = IF e = view[n][n].entry THEN view
          ELSE [view EXCEPT ![n][n] = [ver |-> @.ver + 1, entry |-> e]]

\* The drain finds that the TTL of a write ended while it was queued.
ExpiredInQueue(n) ==
  batch[n].op.exp \in lapsed /\ Newer(batch[n].op.stamp, view[n][n].entry.stamp)

ApplyBatch(n) ==
  /\ n \in up
  /\ batch[n] # NoBatch
  /\ SetOwn(n, RetireOwn(SetIfNewer(view[n][n].entry, batch[n].op), batch[n].ret))
  /\ batch' = [batch EXCEPT ![n] = NoBatch]
  /\ lost' = (lost \/ ExpiredInQueue(n))
  /\ UNCHANGED <<node, pending, retire, shed, worker, lapsed, up, ops, log>>

\* is_garbage: a value EXPIRED_SLACK_MS past its expiry, or a marker past
\* TOMBSTONE_LIFETIME.
IsGarbage(e) == e # NoEntry /\ (e.val = Gone \/ e.exp \in lapsed)

\* The sweep asks no peer whether it has heard of what goes.
Sweep(n) ==
  /\ n \in up
  /\ IsGarbage(view[n][n].entry)
  /\ SetOwn(n, NoEntry)
  /\ lost' = (lost \/ \E m \in up : view[m][n] # view[n][n])
  /\ UNCHANGED <<node, queue, worker, lapsed, up, ops, log>>

-----------------------------------------------------------------------------
(* Gossip and the applier.                                                 *)

\* One exchange brings m a later version of n's state from k, who may be n or
\* a relay.  The applier's callback runs on it, except for a deletion, which
\* chitchat does not announce.  Other keys may have filled the retire map
\* (RETIRE_CAP) and the verify set (VERIFY_CAP).
Gossip(m, k, n) ==
  LET e == view[k][n].entry IN
  /\ {m, k} \subseteq up /\ m # n
  /\ view[k][n].ver > view[m][n].ver
  /\ view' = [view EXCEPT ![m][n] = view[k][n]]
  /\ IF e = NoEntry
     THEN UNCHANGED <<applied, store, verify, retire>>
     ELSE /\ \/ retire' = [retire EXCEPT ![m] = LaterOf(e.stamp, @)]
             \/ MayShed /\ retire[m] = Zero /\ UNCHANGED retire
          /\ IF Accepts(m, e.stamp)
             THEN /\ Record(m, e.stamp)
                  /\ store' = [store EXCEPT ![m] = Payload(e)]
                  /\ \/ verify' = [verify EXCEPT ![m] = @ \/ applied[m] = Zero]
                     \/ MayShed /\ UNCHANGED verify
             ELSE UNCHANGED <<applied, store, verify>>
  /\ UNCHANGED <<clock, pending, batch, shed, worker, lapsed, up, ops, lost, log>>

\* resolve_locked: the newest entry in any node's state or in the queue.
Candidates(n) == {view[n][k].entry : k \in Nodes} \cup {pending[n]}
Resolve(n) == {e \in Candidates(n) : \A f \in Candidates(n) : ~Newer(f.stamp, e.stamp)}

\* verify_keys: re-derive the winner, and apply it if it beats the record.
Verify(n) ==
  /\ n \in up
  /\ verify[n]
  /\ verify' = [verify EXCEPT ![n] = FALSE]
  /\ \E e \in Resolve(n) :
       IF e # NoEntry /\ Accepts(n, e.stamp)
       THEN /\ Record(n, e.stamp)
            /\ store' = [store EXCEPT ![n] = Payload(e)]
       ELSE UNCHANGED <<applied, store>>
  /\ UNCHANGED <<clock, queue, view, worker, lapsed, up, ops, lost, log>>

\* Nothing waits at n: its workers, its drain and its verify pass are done.
QuietAt(n) ==
  /\ \A w \in Workers : Home(w) = n => worker[w] = Idle
  /\ pending[n] = NoEntry /\ retire[n] = Zero /\ batch[n] = NoBatch
  /\ ~verify[n]

\* prune_applied: the record is older than the horizon (600 s).  Every command
\* and every loop (50 ms, 1 s) has overtaken it by then, and so has the clock of
\* this node; gossip itself may still be behind.
Prune(n) ==
  /\ n \in up
  /\ MayPrune
  /\ applied[n] # Zero
  /\ \A m \in up : QuietAt(m)
  /\ clock' = [clock EXCEPT ![n] = MaxOf(@, applied[n].write)]
  /\ Record(n, Zero)
  /\ UNCHANGED <<store, verify, queue, view, worker, lapsed, up, ops, lost, log>>

-----------------------------------------------------------------------------
(* The environment: deadlines pass, nodes stop.                            *)

Lapse(s) ==
  /\ s \notin lapsed
  /\ lapsed' = lapsed \cup {s}
  /\ UNCHANGED <<node, queue, view, worker, up, ops, lost, log>>

Crash(n) ==
  /\ MayCrash
  /\ n \in up /\ up # {n}
  /\ up' = up \ {n}
  /\ UNCHANGED <<node, queue, view, worker, lapsed, ops, lost, log>>

Next ==
  \/ \E w \in Workers : Issue(w) \/ Incr(w) \/ StampPublished(w)
                          \/ ApplyLocal(w) \/ SkipLocal(w) \/ Publish(w)
  \/ \E n \in Nodes : TakeBatch(n) \/ ApplyBatch(n) \/ Sweep(n)
                          \/ Verify(n) \/ Prune(n) \/ Crash(n)
  \/ \E m, k, n \in Nodes : Gossip(m, k, n)
  \/ \E e \in log : e.exp # Zero /\ Lapse(e.exp)

Spec == Init /\ [][Next]_vars

\* Every task keeps running: a worker finishes its command, the drain wakes at
\* least every DRAIN_IDLE, gossip rounds and the verify loop are periodic.
FairSpec ==
  /\ Spec
  /\ \A w \in Workers : WF_vars(StampPublished(w) \/ ApplyLocal(w) \/ SkipLocal(w) \/ Publish(w))
  /\ \A n \in Nodes : WF_vars(TakeBatch(n) \/ ApplyBatch(n)) /\ WF_vars(Verify(n))
  /\ \A m, n \in Nodes : WF_vars(\E k \in Nodes : Gossip(m, k, n))

-----------------------------------------------------------------------------
(* Properties.                                                             *)

TypeOK ==
  /\ clock \in [Nodes -> Nat]
  /\ applied \in [Nodes -> Stamp]
  /\ store \in [Nodes -> Copy]
  /\ pending \in [Nodes -> Entry]
  /\ retire \in [Nodes -> Stamp]
  /\ batch \in [Nodes -> [op : Entry, ret : Stamp]]
  /\ view \in [Nodes -> [Nodes -> Versioned]]
  /\ verify \in [Nodes -> BOOLEAN]
  /\ worker \in [Workers -> Worker]
  /\ lapsed \subseteq Stamp
  /\ up \subseteq Nodes
  /\ shed \in [Nodes -> Nat]
  /\ ops \in Nat
  /\ lost \in BOOLEAN
  /\ log \subseteq Entry

\* Nothing is on its way: every command finished, every queue is drained, and
\* all running nodes know the same chitchat states.
Quiescent ==
  /\ \A n \in up : QuietAt(n)
  /\ \A m, k \in up : view[m] = view[k]

\* One stamp names one write: no two accepted writes share a stamp, and none
\* shares it with a write a thread is about to apply, which the slot's check
\* would drop without a trace.  Whatever the wall clocks return, however the
\* threads of a node interleave (StampClock::next_after).
OneWritePerStamp ==
  /\ \A e, f \in log : e.stamp = f.stamp => e = f
  /\ \A w \in Workers : worker[w].pc = "stamped" =>
       /\ \A e \in log : e.stamp # worker[w].stamp
       /\ \A v \in Workers \ {w} : worker[v].pc = "stamped" => worker[v].stamp # worker[w].stamp

\* A local copy is never a value other than the one the applied map vouches
\* for (apply_if_newer holds the slot across record and local write).  A copy
\* may be missing.
NoStaleCopy ==
  \A n \in up : applied[n] # Zero /\ Visible(n) # Gone =>
    \E e \in log : e.stamp = applied[n] /\ store[n] = [val |-> e.val, exp |-> e.exp]

\* No write left the writers on its way to the peers: none was shed, and none
\* expired before every peer had heard of it.
NothingLost == ~lost /\ \A n \in Nodes : shed[n] = 0

\* Once nothing is on its way, every node reads the same value: what Stamp's doc
\* calls "every node converge on one winner".  Three things the code does not
\* promise against are excepted: a publish shed at the capacity of the queue, a
\* value that expired, or a marker that was swept, before a peer heard of it,
\* and a second node stopping (README, section 4).
StoresConverge ==
  Quiescent /\ NothingLost /\ Cardinality(Nodes \ up) <= 1
    => \A m, k \in up : Visible(m) = Visible(k)

\* The write a node has recorded as the last is the newest one any node
\* accepted: no accepted write is lost on its way through the coalescing queue,
\* the batches, the retirements and the appliers, and a pruned record is only
\* rebuilt from the newest write.
NewestWriteWins ==
  Quiescent /\ up = Nodes /\ NothingLost =>
     \A n \in Nodes, e \in log : applied[n] # Zero => ~Newer(e.stamp, applied[n])

\* A node's own gossip state never goes back to an older write of its own,
\* although its queue may hand it writes out of order (set_if_newer).
OwnStateAdvances ==
  [][\A n \in Nodes : view'[n][n].entry # NoEntry =>
        ~Newer(view[n][n].entry.stamp, view'[n][n].entry.stamp)]_vars

\* With workers that stop, the nodes end up reading the same value and stay so.
EventuallyConverged == <>[](\A m, k \in up : Visible(m) = Visible(k))

=============================================================================
