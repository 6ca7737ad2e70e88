--------------------------- MODULE GossipKvProofs ---------------------------
(***************************************************************************)
(* Proofs about GossipKv, for any number of nodes, threads and commands:   *)
(* types, stamps that name one write, own states that only advance, copies *)
(* that match the record, and convergence.                                 *)
(***************************************************************************)
EXTENDS GossipKv, TLAPS

-----------------------------------------------------------------------------
(* The operators the actions are built from.                               *)

\* Every stamp a clock issues is a real one, tagged with its node and above
\* everything the node issued before (StampClock::next_after).
LEMMA NextAfterLemma ==
  ASSUME NEW n \in Nodes, NEW now \in Nat, NEW seen \in Stamp,
         clock \in [Nodes -> Nat]
  PROVE  /\ NextAfter(n, now, seen) \in [write : Nat, tag : Nodes]
         /\ NextAfter(n, now, seen).tag = n
         /\ NextAfter(n, now, seen).write > clock[n]
<1>1. Drift \in Nat BY ConstantsAssumption
<1>2. seen.write \in Nat BY DEF Stamp, Zero
<1> QED BY <1>1, <1>2 DEF NextAfter, ClampObserved, MaxOf, MinOf

\* The constants of entries and copies have their types.
LEMMA ConstantTypes ==
  /\ Zero \in Stamp
  /\ NoEntry \in Entry
  /\ NoBatch \in [op : Entry, ret : Stamp]
  /\ NoCopy \in Copy
  /\ Idle \in Worker
<1>1. Zero \in Stamp BY DEF Stamp
<1>2. NoEntry \in Entry BY <1>1 DEF NoEntry, Entry, Gone
<1>3. NoBatch \in [op : Entry, ret : Stamp] BY <1>1, <1>2 DEF NoBatch
<1>4. NoCopy \in Copy BY <1>1 DEF NoCopy, Copy, Gone
<1>5. Idle \in Worker BY <1>1 DEF Idle, Worker, Gone
<1> QED BY <1>1, <1>2, <1>3, <1>4, <1>5

\* What an entry reads as is a copy.
LEMMA PayloadType == ASSUME NEW e \in Entry PROVE Payload(e) \in Copy
BY ConstantTypes DEF Payload, Entry, Copy

-----------------------------------------------------------------------------
(* Type correctness.                                                       *)

\* Taking a stamp, the first step of every command.
LEMMA TakeStampType ==
  ASSUME TypeOK, NEW w \in Workers, NEW now \in Wall,
         NEW cmd \in {"set", "setex", "del", "incr", "expire"}, NEW val \in Nat, NEW exp \in Stamp,
         TakeStamp(w, now, cmd, val, exp), ops' \in Nat
  PROVE  TypeOK'
<1> USE DEF TypeOK
<1>1. Home(w) \in Nodes BY ConstantsAssumption DEF Home
<1>2. now \in Nat BY ConstantsAssumption
<1> DEFINE n == Home(w)
           s == NextAfter(n, now, applied[n])
<1>3. s \in [write : Nat, tag : Nodes] BY <1>1, <1>2, NextAfterLemma
<1>4. s \in Stamp BY <1>3 DEF Stamp
<1>5. clock' = [clock EXCEPT ![n] = s.write] BY DEF TakeStamp
<1>6. clock' \in [Nodes -> Nat] BY <1>1, <1>3, <1>5
<1>7. worker' = [worker EXCEPT ![w] =
            [pc |-> "stamped", cmd |-> cmd, stamp |-> s, val |-> val,
             exp |-> IF cmd \in {"setex", "expire"} THEN s ELSE exp]]
  BY DEF TakeStamp
<1>8. [pc |-> "stamped", cmd |-> cmd, stamp |-> s, val |-> val,
       exp |-> IF cmd \in {"setex", "expire"} THEN s ELSE exp] \in Worker
  BY <1>4 DEF Worker
<1>9. worker' \in [Workers -> Worker] BY <1>7, <1>8
<1> QED BY <1>6, <1>9 DEF TakeStamp, queue

\* The entry a command carries, and the copy it writes.
LEMMA EntryOfType ==
  ASSUME TypeOK, NEW w \in Workers, NEW val \in Nat
  PROVE  EntryOf(w, val) \in Entry
BY DEF EntryOf, Entry, TypeOK, Worker

\* What a command writes under the slot is a copy.
LEMMA LocalWriteType ==
  ASSUME TypeOK, NEW w \in Workers
  PROVE  LocalWrite(w) \in Copy /\ Visible(Home(w)) \in Nat
<1>1. Home(w) \in Nodes BY ConstantsAssumption DEF Home
<1>2. store[Home(w)] \in Copy /\ worker[w] \in Worker BY <1>1 DEF TypeOK
<1>3. [val |-> worker[w].val, exp |-> worker[w].exp] \in Copy BY <1>2 DEF Worker, Copy
<1>4. [store[Home(w)] EXCEPT !.exp = worker[w].exp] \in Copy BY <1>2 DEF Worker, Copy
<1>5. Visible(Home(w)) \in Nat BY <1>2 DEF Visible, Copy, Gone
<1> QED BY <1>2, <1>3, <1>4, <1>5, ConstantTypes DEF LocalWrite

\* Every action keeps the state well typed.
LEMMA StepTypeOK == TypeOK /\ [Next]_vars => TypeOK'
<1> SUFFICES ASSUME TypeOK, [Next]_vars PROVE TypeOK'
  OBVIOUS
<1> USE ConstantTypes DEF TypeOK, node, queue
<1>0. \A w \in Workers : Home(w) \in Nodes BY ConstantsAssumption DEF Home
<1>1. ASSUME NEW w \in Workers, Issue(w) PROVE TypeOK'
  <2>1. ops' \in Nat BY <1>1, ConstantsAssumption DEF Issue, Begin
  <2>2. PICK now \in Wall :
          \/ \E cmd \in Commands \cap {"set", "setex"}, v \in Values :
               TakeStamp(w, now, cmd, v, Zero)
          \/ \E cmd \in Commands \cap {"del", "expire"} :
               TakeStamp(w, now, cmd, Gone, Zero)
    BY <1>1 DEF Issue
  <2>3. Values \subseteq Nat /\ Gone \in Nat BY ConstantsAssumption DEF Gone
  <2>4. CASE \E cmd \in Commands \cap {"set", "setex"}, v \in Values :
               TakeStamp(w, now, cmd, v, Zero)
    BY <2>1, <2>3, <2>4, TakeStampType
  <2>5. CASE \E cmd \in Commands \cap {"del", "expire"} : TakeStamp(w, now, cmd, Gone, Zero)
    BY <2>1, <2>3, <2>5, TakeStampType
  <2> QED BY <2>2, <2>4, <2>5
<1>2. ASSUME NEW w \in Workers, Incr(w) PROVE TypeOK'
  <2> DEFINE n == Home(w)
             copy == IF Visible(n) = Gone THEN [val |-> 1, exp |-> Zero]
                                          ELSE [store[n] EXCEPT !.val = @ + 1]
  <2>1. copy \in Copy
    <3>1. store[n] \in Copy BY <1>0
    <3>2. store[n].val + 1 \in Nat BY <3>1 DEF Copy
    <3>3. [store[n] EXCEPT !.val = @ + 1] \in Copy BY <3>1, <3>2 DEF Copy
    <3>4. [val |-> 1, exp |-> Zero] \in Copy BY DEF Copy
    <3> QED BY <3>3, <3>4
  <2>2. store' = [store EXCEPT ![n] = copy] BY <1>2 DEF Incr
  <2>3. worker' = [worker EXCEPT ![w] =
          [pc |-> "rmw", cmd |-> "incr", stamp |-> Zero, val |-> copy.val, exp |-> copy.exp]]
    BY <1>2 DEF Incr
  <2>4. [pc |-> "rmw", cmd |-> "incr", stamp |-> Zero, val |-> copy.val, exp |-> copy.exp] \in Worker
    BY <2>1 DEF Copy, Worker
  <2>5. store' \in [Nodes -> Copy] BY <1>0, <2>1, <2>2
  <2>6. worker' \in [Workers -> Worker] BY <2>3, <2>4
  <2>7. ops' \in Nat BY <1>2 DEF Incr, Begin
  <2> QED BY <1>2, <2>5, <2>6, <2>7 DEF Incr
<1>3. ASSUME NEW w \in Workers, StampPublished(w) PROVE TypeOK'
  <2>1. worker[w].val \in Nat /\ worker[w].exp \in Stamp BY DEF Worker
  <2> QED BY <1>3, <2>1, TakeStampType DEF StampPublished
<1>4. ASSUME NEW w \in Workers, ApplyLocal(w) PROVE TypeOK'
  <2>1. worker[w] \in Worker OBVIOUS
  <2>2. applied' \in [Nodes -> Stamp] BY <1>0, <1>4, <2>1 DEF ApplyLocal, Record, Worker
  <2>3. store' \in [Nodes -> Copy] BY <1>0, <1>4, LocalWriteType DEF ApplyLocal
  <2>4. worker' \in [Workers -> Worker]
    <3>1. [worker[w] EXCEPT !.pc = "applied"] \in Worker BY <2>1 DEF Worker
    <3> QED BY <1>4, <3>1 DEF ApplyLocal
  <2>5. log' \subseteq Entry
    <3>1. (IF worker[w].cmd = "expire" THEN Visible(Home(w)) ELSE worker[w].val) \in Nat
      BY <2>1, LocalWriteType DEF Worker
    <3> QED BY <1>4, <3>1, EntryOfType DEF ApplyLocal
  <2> QED BY <1>4, <2>2, <2>3, <2>4, <2>5 DEF ApplyLocal
<1>5. ASSUME NEW w \in Workers, SkipLocal(w) PROVE TypeOK'
  BY <1>5 DEF SkipLocal
<1>6. ASSUME NEW w \in Workers, Publish(w) PROVE TypeOK'
  <2>1. Published(w) \in Nat BY LocalWriteType DEF Published, Worker
  <2>2. EntryOf(w, Published(w)) \in Entry BY <2>1, EntryOfType
  <2>3. Enqueue(Home(w), EntryOf(w, Published(w))) \in [Nodes -> Entry]
    BY <1>0, <2>2 DEF Enqueue
  <2>4. pending' \in [Nodes -> Entry] BY <1>6, <2>3 DEF Publish
  <2>5. shed' \in [Nodes -> Nat]
    <3>1. shed' = shed \/ shed' = [shed EXCEPT ![Home(w)] = @ + 1] BY <1>6 DEF Publish
    <3>2. shed[Home(w)] + 1 \in Nat BY <1>0
    <3> QED BY <1>0, <3>1, <3>2
  <2>6. store' \in [Nodes -> Copy] BY <1>0, <1>6 DEF Publish, AfterPublish
  <2>7. worker' \in [Workers -> Worker] BY <1>6 DEF Publish
  <2> QED BY <1>6, <2>4, <2>5, <2>6, <2>7 DEF Publish
<1>7. ASSUME NEW n \in Nodes, TakeBatch(n) PROVE TypeOK'
  BY <1>7 DEF TakeBatch
<1>8. ASSUME NEW n \in Nodes, NEW e \in Entry, SetOwn(n, e) PROVE view' \in [Nodes -> [Nodes -> Versioned]]
  <2>1. view[n] \in [Nodes -> Versioned] /\ view[n][n].ver + 1 \in Nat BY DEF Versioned
  <2>2. [view[n] EXCEPT ![n] = [ver |-> view[n][n].ver + 1, entry |-> e]] \in [Nodes -> Versioned]
    BY <2>1, <1>8 DEF Versioned
  <2> QED BY <1>8, <2>2 DEF SetOwn
<1>9. ASSUME NEW n \in Nodes, ApplyBatch(n) PROVE TypeOK'
  <2>1. RetireOwn(SetIfNewer(view[n][n].entry, batch[n].op), batch[n].ret) \in Entry
    BY DEF RetireOwn, SetIfNewer, Versioned
  <2>2. view' \in [Nodes -> [Nodes -> Versioned]] BY <1>8, <1>9, <2>1 DEF ApplyBatch
  <2> QED BY <1>9, <2>2 DEF ApplyBatch
<1>10. ASSUME NEW n \in Nodes, Sweep(n) PROVE TypeOK'
  <2>1. view' \in [Nodes -> [Nodes -> Versioned]] BY <1>8, <1>10 DEF Sweep
  <2> QED BY <1>10, <2>1 DEF Sweep
<1>11. ASSUME NEW n \in Nodes, Verify(n) PROVE TypeOK'
  <2>1. Candidates(n) \subseteq Entry BY DEF Candidates, Versioned
  <2>2. PICK e \in Resolve(n) :
          IF e # NoEntry /\ Accepts(n, e.stamp)
          THEN Record(n, e.stamp) /\ store' = [store EXCEPT ![n] = Payload(e)]
          ELSE UNCHANGED <<applied, store>>
    BY <1>11 DEF Verify
  <2>3. e \in Entry BY <2>1, <2>2 DEF Resolve
  <2>4. e.stamp \in Stamp /\ Payload(e) \in Copy BY <2>3, PayloadType DEF Entry
  <2>5. applied' \in [Nodes -> Stamp] /\ store' \in [Nodes -> Copy] BY <2>2, <2>4 DEF Record
  <2> QED BY <1>11, <2>5 DEF Verify
<1>12. ASSUME NEW n \in Nodes, Prune(n) PROVE TypeOK'
  <2>1. applied[n].write \in Nat BY DEF Stamp, Zero
  <2>2. clock' \in [Nodes -> Nat] BY <1>12, <2>1 DEF Prune, MaxOf
  <2> QED BY <1>12, <2>2 DEF Prune, Record
<1>13. ASSUME NEW n \in Nodes, Crash(n) PROVE TypeOK'
  BY <1>13 DEF Crash
<1>14. ASSUME NEW m \in Nodes, NEW k \in Nodes, NEW n \in Nodes, Gossip(m, k, n) PROVE TypeOK'
  <2> DEFINE e == view[k][n].entry
  <2>1. view[k][n] \in Versioned /\ view[m] \in [Nodes -> Versioned] OBVIOUS
  <2>2. e \in Entry /\ e.stamp \in Stamp BY <2>1 DEF Versioned, Entry
  <2>3. Payload(e) \in Copy BY <2>2, PayloadType
  <2>4. view' \in [Nodes -> [Nodes -> Versioned]] BY <1>14, <2>1 DEF Gossip
  <2>5. LaterOf(e.stamp, retire[m]) \in Stamp BY <2>2 DEF LaterOf
  <2>6. retire' \in [Nodes -> Stamp] BY <1>14, <2>5 DEF Gossip
  <2>7. applied' \in [Nodes -> Stamp] /\ store' \in [Nodes -> Copy]
    BY <1>14, <2>2, <2>3, ZenonT(60) DEF Gossip, Record
  <2>8. verify' \in [Nodes -> BOOLEAN]
    <3>1. verify' = verify \/ verify' = [verify EXCEPT ![m] = @ \/ applied[m] = Zero]
      BY <1>14 DEF Gossip
    <3> QED BY <3>1
  <2> QED BY <1>14, <2>4, <2>6, <2>7, <2>8 DEF Gossip
<1>15. ASSUME NEW e \in log, Lapse(e.exp) PROVE TypeOK'
  <2>1. e.exp \in Stamp BY DEF Entry
  <2> QED BY <1>15, <2>1 DEF Lapse
<1>16. CASE UNCHANGED vars BY <1>16 DEF vars
<1> QED
  BY <1>1, <1>2, <1>3, <1>4, <1>5, <1>6, <1>7, <1>9, <1>10, <1>11, <1>12, <1>13, <1>14, <1>15, <1>16
  DEF Next

\* The state of every node is well typed in every reachable state, for all
\* sets of nodes, threads, commands and clock readings (TypeOK).
THEOREM TypeCorrect == Spec => []TypeOK
<1>1. Init => TypeOK
  <2>1. Init => lost \in BOOLEAN BY DEF Init
  <2> QED BY <2>1, ConstantTypes DEF Init, TypeOK, Versioned
<1> QED BY <1>1, StepTypeOK, PTL DEF Spec

-----------------------------------------------------------------------------
(* One stamp, one write.  OneWritePerStamp is not inductive by itself: a    *)
(* new stamp differs from the old ones because they are below the clock.    *)

StampsBelowClock ==
  /\ \A e \in log : e.stamp.tag \in Nodes /\ e.stamp.write <= clock[e.stamp.tag]
  /\ \A w \in Workers : worker[w].pc = "stamped" =>
       worker[w].stamp.tag = Home(w) /\ worker[w].stamp.write <= clock[Home(w)]

StampInv == OneWritePerStamp /\ StampsBelowClock

\* A step that leaves the clocks, the threads and the history alone.
LEMMA StampInvUnchanged ==
  StampInv /\ UNCHANGED <<clock, worker, log>> => StampInv'
BY DEF StampInv, OneWritePerStamp, StampsBelowClock

\* A thread that leaves its command, or does not hold a stamp yet.
LEMMA StampInvLeave ==
  ASSUME TypeOK, StampInv, NEW w \in Workers, NEW r \in Worker, r.pc # "stamped",
         worker' = [worker EXCEPT ![w] = r], UNCHANGED <<clock, log>>
  PROVE  StampInv'
<1>1. \A v \in Workers : worker'[v].pc = "stamped" => v # w /\ worker'[v] = worker[v]
  BY DEF TypeOK
<1>2. OneWritePerStamp' BY <1>1 DEF StampInv, OneWritePerStamp
<1>3. StampsBelowClock' BY <1>1 DEF StampInv, StampsBelowClock
<1> QED BY <1>2, <1>3 DEF StampInv

\* The clock hands out a stamp above every one of its node's.
LEMMA TakeStampInv ==
  ASSUME TypeOK, StampInv, NEW w \in Workers, NEW now \in Wall, NEW cmd, NEW val, NEW exp,
         TakeStamp(w, now, cmd, val, exp)
  PROVE  StampInv'
<1> DEFINE n == Home(w)
           s == NextAfter(n, now, applied[n])
<1>1. n \in Nodes BY ConstantsAssumption DEF Home
<1>2. applied[n] \in Stamp /\ now \in Nat /\ clock \in [Nodes -> Nat]
  BY <1>1, ConstantsAssumption DEF TypeOK
<1>3. s \in [write : Nat, tag : Nodes] /\ s.tag = n /\ s.write > clock[n]
  BY <1>1, <1>2, NextAfterLemma
<1>4. clock' = [clock EXCEPT ![n] = s.write] BY DEF TakeStamp
<1>5. /\ worker'[w].pc = "stamped" /\ worker'[w].stamp = s
      /\ \A v \in Workers \ {w} : worker'[v] = worker[v]
  BY DEF TakeStamp, TypeOK
<1>6. log' = log BY DEF TakeStamp
<1>7. \A k \in Nodes : clock[k] \in Nat /\ clock'[k] \in Nat /\ clock[k] <= clock'[k]
  BY <1>1, <1>2, <1>3, <1>4
<1>8. clock'[n] = s.write BY <1>1, <1>2, <1>4
<1>9. \A e \in log : e.stamp \in Stamp BY DEF TypeOK, Entry
<1>10. \A e \in log : e.stamp.write \in Nat BY <1>9 DEF Stamp, Zero
<1>11. \A v \in Workers : Home(v) \in Nodes /\ worker[v].stamp \in Stamp
  BY ConstantsAssumption DEF Home, TypeOK, Worker
<1>12. \A v \in Workers : worker[v].stamp.write \in Nat BY <1>11 DEF Stamp, Zero
<1> HIDE DEF s, n
<1>13. \A e \in log : e.stamp # s
  BY <1>1, <1>2, <1>3, <1>10 DEF StampInv, StampsBelowClock
<1>14. \A v \in Workers : worker[v].pc = "stamped" => worker[v].stamp # s
  BY <1>1, <1>2, <1>3, <1>11, <1>12 DEF StampInv, StampsBelowClock
<1>15. OneWritePerStamp'
  BY <1>5, <1>6, <1>13, <1>14 DEF StampInv, OneWritePerStamp
<1>16. StampsBelowClock'
  <2>1. \A e \in log' : e.stamp.tag \in Nodes /\ e.stamp.write <= clock'[e.stamp.tag]
    BY <1>6, <1>7, <1>10 DEF StampInv, StampsBelowClock
  <2>2. ASSUME NEW v \in Workers, worker'[v].pc = "stamped"
        PROVE  worker'[v].stamp.tag = Home(v) /\ worker'[v].stamp.write <= clock'[Home(v)]
    <3>1. CASE v = w BY <3>1, <1>3, <1>5, <1>8 DEF n
    <3>2. CASE v # w
      BY <3>2, <2>2, <1>5, <1>7, <1>11, <1>12 DEF StampInv, StampsBelowClock
    <3> QED BY <3>1, <3>2
  <2> QED BY <2>1, <2>2 DEF StampsBelowClock
<1> QED BY <1>15, <1>16 DEF StampInv

\* Every action keeps the invariant.
LEMMA StepStampInv == TypeOK /\ StampInv /\ [Next]_vars => StampInv'
<1> SUFFICES ASSUME TypeOK, StampInv, [Next]_vars PROVE StampInv'
  OBVIOUS
<1>0. Idle \in Worker /\ Idle.pc # "stamped" BY ConstantTypes DEF Idle
<1>1. ASSUME NEW w \in Workers, Issue(w) PROVE StampInv'
  BY <1>1, TakeStampInv DEF Issue
<1>2. ASSUME NEW w \in Workers, Incr(w) PROVE StampInv'
  <2>1. \A v \in Workers : worker'[v].pc = "stamped" => v # w /\ worker'[v] = worker[v]
    BY <1>2 DEF Incr, TypeOK
  <2>2. worker'[w] \in Worker /\ worker' = [worker EXCEPT ![w] = worker'[w]]
    BY <1>2, StepTypeOK DEF TypeOK, Next, Incr
  <2> QED BY <1>2, <2>1, <2>2, StampInvLeave DEF Incr
<1>3. ASSUME NEW w \in Workers, StampPublished(w) PROVE StampInv'
  BY <1>3, TakeStampInv DEF StampPublished
<1>4. ASSUME NEW w \in Workers, ApplyLocal(w) PROVE StampInv'
  <2>1. CASE worker[w].cmd = "expire" /\ Visible(Home(w)) = Gone
    BY <1>0, <1>4, <2>1, StampInvLeave DEF ApplyLocal
  <2>2. CASE ~(worker[w].cmd = "expire" /\ Visible(Home(w)) = Gone)
    <3> DEFINE f == EntryOf(w, IF worker[w].cmd = "expire" THEN Visible(Home(w)) ELSE worker[w].val)
    <3>1. log' = log \cup {f} /\ f.stamp = worker[w].stamp
      BY <1>4, <2>2 DEF ApplyLocal, EntryOf
    <3> HIDE DEF f
    <3>2. worker[w].pc = "stamped" /\ clock' = clock BY <1>4 DEF ApplyLocal
    <3>3. worker' = [worker EXCEPT ![w].pc = "applied"] BY <1>4, <2>2 DEF ApplyLocal
    <3>4. \A v \in Workers : worker'[v].pc = "stamped" => v # w /\ worker'[v] = worker[v]
      BY <3>3 DEF TypeOK, Worker
    <3>5. \A e \in log : e.stamp # f.stamp
      BY <3>1, <3>2 DEF StampInv, OneWritePerStamp
    <3>6. \A v \in Workers \ {w} : worker[v].pc = "stamped" => worker[v].stamp # f.stamp
      BY <3>1, <3>2 DEF StampInv, OneWritePerStamp
    <3>7. OneWritePerStamp'
      BY <3>1, <3>4, <3>5, <3>6 DEF StampInv, OneWritePerStamp
    <3>8. f.stamp.tag \in Nodes /\ f.stamp.write <= clock[f.stamp.tag]
      BY <3>1, <3>2, ConstantsAssumption DEF StampInv, StampsBelowClock, Home
    <3>9. StampsBelowClock'
      BY <3>1, <3>2, <3>4, <3>8 DEF StampInv, StampsBelowClock
    <3> QED BY <3>7, <3>9 DEF StampInv
  <2> QED BY <2>1, <2>2
<1>5. ASSUME NEW w \in Workers, SkipLocal(w) PROVE StampInv'
  BY <1>0, <1>5, StampInvLeave DEF SkipLocal, node
<1>6. ASSUME NEW w \in Workers, Publish(w) PROVE StampInv'
  BY <1>0, <1>6, StampInvLeave DEF Publish
<1>7. ASSUME NEW n \in Nodes, TakeBatch(n) \/ ApplyBatch(n) \/ Sweep(n) \/ Crash(n) PROVE StampInv'
  BY <1>7, StampInvUnchanged DEF TakeBatch, ApplyBatch, Sweep, Crash, node
<1>8. ASSUME NEW n \in Nodes, Verify(n) PROVE StampInv'
  BY <1>8, StampInvUnchanged DEF Verify
<1>9. ASSUME NEW n \in Nodes, Prune(n) PROVE StampInv'
  <2>1. worker' = worker /\ log' = log BY <1>9 DEF Prune
  <2>2. clock' = [clock EXCEPT ![n] = MaxOf(@, applied[n].write)] BY <1>9 DEF Prune
  <2>3. applied[n].write \in Nat BY DEF TypeOK, Stamp, Zero
  <2>4. \A k \in Nodes : clock[k] \in Nat /\ clock'[k] \in Nat /\ clock[k] <= clock'[k]
    BY <2>2, <2>3 DEF TypeOK, MaxOf
  <2>5. OneWritePerStamp' BY <2>1 DEF StampInv, OneWritePerStamp
  <2>6. \A e \in log : e.stamp.write \in Nat BY DEF TypeOK, Entry, Stamp, Zero
  <2>7. \A v \in Workers : Home(v) \in Nodes /\ worker[v].stamp.write \in Nat
    BY ConstantsAssumption DEF Home, TypeOK, Worker, Stamp, Zero
  <2>8. StampsBelowClock'
    BY <2>1, <2>4, <2>6, <2>7 DEF StampInv, StampsBelowClock
  <2> QED BY <2>5, <2>8 DEF StampInv
<1>10. ASSUME NEW m \in Nodes, NEW k \in Nodes, NEW n \in Nodes, Gossip(m, k, n) PROVE StampInv'
  BY <1>10, StampInvUnchanged DEF Gossip
<1>11. ASSUME NEW e \in log, Lapse(e.exp) PROVE StampInv'
  BY <1>11, StampInvUnchanged DEF Lapse, node
<1>12. CASE UNCHANGED vars BY <1>12, StampInvUnchanged DEF vars, node
<1> QED
  BY <1>1, <1>2, <1>3, <1>4, <1>5, <1>6, <1>7, <1>8, <1>9, <1>10, <1>11, <1>12 DEF Next

\* No two writes of the cluster ever carry one stamp, for any number of nodes
\* and threads and whatever the wall clocks return, standing still and going
\* back included (StampClock::next_after, OneWritePerStamp).
THEOREM StampsAreUnique == Spec => []OneWritePerStamp
<1>1. Init => StampInv
  BY DEF Init, StampInv, OneWritePerStamp, StampsBelowClock, Idle
<1>2. StampInv => OneWritePerStamp BY DEF StampInv
<1> QED BY <1>1, <1>2, TypeCorrect, StepStampInv, PTL DEF Spec

-----------------------------------------------------------------------------
(* The published state only advances.                                      *)

\* Stamps are strictly ordered: none is newer than itself, and of two at most
\* one is newer than the other.
LEMMA NewerStrict ==
  ASSUME NEW s \in Stamp, NEW t \in Stamp
  PROVE  ~Newer(s, s) /\ (Newer(s, t) => ~Newer(t, s))
<1>1. s.write \in Nat /\ t.write \in Nat BY DEF Stamp, Zero
<1>2. s.tag \in Nodes \cup {0} /\ t.tag \in Nodes \cup {0} BY DEF Stamp, Zero
<1>3. Nodes \subseteq Nat BY ConstantsAssumption
<1>4. \A x \in Nodes \cup {0} : x \in Nat BY <1>3
<1>5. s.tag \in Nat /\ t.tag \in Nat BY <1>2, <1>4
<1> QED BY <1>1, <1>5 DEF Newer

\* What one step may do to a node's own entry.
OwnAdvances(n) ==
  view'[n][n].entry # NoEntry => ~Newer(view[n][n].entry.stamp, view'[n][n].entry.stamp)

\* Setting the own entry changes no other node's.
LEMMA SetOwnAdvances ==
  ASSUME TypeOK, NEW n \in Nodes, NEW e \in Entry, SetOwn(n, e),
         e # NoEntry => ~Newer(view[n][n].entry.stamp, e.stamp),
         NEW k \in Nodes
  PROVE  OwnAdvances(k)
<1>1. view[k][k].entry \in Entry /\ view[k][k].entry.stamp \in Stamp BY DEF TypeOK, Versioned, Entry
<1>2. ~Newer(view[k][k].entry.stamp, view[k][k].entry.stamp) BY <1>1, NewerStrict
<1>3. CASE view' = view BY <1>2, <1>3 DEF OwnAdvances
<1>4. CASE view' # view
  <2>1. view' = [view EXCEPT ![n][n] = [ver |-> @.ver + 1, entry |-> e]] BY <1>4 DEF SetOwn
  <2>2. k # n => view'[k][k] = view[k][k] BY <2>1 DEF TypeOK
  <2>3. view'[n][n].entry = e BY <2>1 DEF TypeOK
  <2> QED BY <1>2, <2>2, <2>3 DEF OwnAdvances
<1> QED BY <1>3, <1>4

\* A node's own gossip state never goes back to an older write of its own,
\* although the queue may hand it writes out of order (set_if_newer and the
\* retirements of apply_batch, OwnStateAdvances).
THEOREM PublishedStateAdvances == Spec => OwnStateAdvances
<1>1. ASSUME TypeOK, [Next]_vars, NEW j \in Nodes PROVE OwnAdvances(j)
  <2>1. \A k \in Nodes : view[k][k].entry \in Entry /\ view[k][k].entry.stamp \in Stamp
    BY <1>1 DEF TypeOK, Versioned, Entry
  <2>2. CASE UNCHANGED view
    BY <2>1, <2>2, NewerStrict DEF OwnAdvances
  <2>3. ASSUME NEW n \in Nodes, ApplyBatch(n) PROVE OwnAdvances(j)
    <3> DEFINE own == view[n][n].entry
               set == SetIfNewer(own, batch[n].op)
               e == RetireOwn(set, batch[n].ret)
    <3>1. batch[n].op \in Entry BY <1>1 DEF TypeOK
    <3>2. set \in Entry /\ ~Newer(own.stamp, set.stamp)
      <4>1. set = own \/ (set = batch[n].op /\ Newer(set.stamp, own.stamp)) BY DEF SetIfNewer
      <4>2. batch[n].op.stamp \in Stamp BY <3>1 DEF Entry
      <4> QED BY <2>1, <3>1, <4>1, <4>2, NewerStrict
    <3>3. e = set \/ e = NoEntry BY DEF RetireOwn
    <3>4. e \in Entry BY <3>2, <3>3, ConstantTypes
    <3>5. SetOwn(n, e) BY <2>3 DEF ApplyBatch
    <3> QED BY <1>1, <3>2, <3>3, <3>4, <3>5, SetOwnAdvances
  <2>4. ASSUME NEW n \in Nodes, Sweep(n) PROVE OwnAdvances(j)
    BY <1>1, <2>4, ConstantTypes, SetOwnAdvances DEF Sweep
  <2>5. ASSUME NEW m \in Nodes, NEW k \in Nodes, NEW n \in Nodes, Gossip(m, k, n) PROVE OwnAdvances(j)
    <3>1. m # n /\ view' = [view EXCEPT ![m][n] = view[k][n]] BY <2>5 DEF Gossip
    <3>2. view'[j][j] = view[j][j] BY <1>1, <3>1 DEF TypeOK
    <3> QED BY <2>1, <3>2, NewerStrict DEF OwnAdvances
  <2>6. ASSUME NEW w \in Workers,
               Issue(w) \/ Incr(w) \/ StampPublished(w) \/ ApplyLocal(w) \/ SkipLocal(w) \/ Publish(w)
        PROVE  UNCHANGED view
    BY <2>6 DEF Issue, Incr, StampPublished, TakeStamp, ApplyLocal, SkipLocal, Publish
  <2>7. ASSUME NEW n \in Nodes, TakeBatch(n) \/ Verify(n) \/ Prune(n) \/ Crash(n)
        PROVE  UNCHANGED view
    BY <2>7 DEF TakeBatch, Verify, Prune, Crash
  <2>8. ASSUME NEW e \in log, Lapse(e.exp) PROVE UNCHANGED view
    BY <2>8 DEF Lapse
  <2>9. CASE UNCHANGED vars BY <2>2, <2>9 DEF vars
  <2> QED BY <1>1, <2>2, <2>3, <2>4, <2>5, <2>6, <2>7, <2>8, <2>9 DEF Next
<1>2. TypeOK /\ [Next]_vars =>
        [\A n \in Nodes : view'[n][n].entry # NoEntry =>
           ~Newer(view[n][n].entry.stamp, view'[n][n].entry.stamp)]_vars
  BY <1>1 DEF OwnAdvances
<1> QED BY <1>2, TypeCorrect, PTL DEF Spec, OwnStateAdvances

-----------------------------------------------------------------------------
(* The local copy is the recorded write's.  Whatever is queued, published or *)
(* known of a peer was accepted somewhere, and what a node has recorded is   *)
(* what it holds, unless the copy is gone.                                   *)

Accepted(e) == e = NoEntry \/ e \in log

TrafficAccepted ==
  /\ \A n \in Nodes : Accepted(pending[n]) /\ Accepted(batch[n].op)
  /\ \A m, n \in Nodes : Accepted(view[m][n].entry)
  /\ \A w \in Workers :
       /\ worker[w].pc # "idle" => worker[w].cmd \in {"set", "setex", "del"} /\ worker[w].pc # "rmw"
       /\ worker[w].pc = "applied" => EntryOf(w, worker[w].val) \in log

CopyOf(e) == [val |-> e.val, exp |-> e.exp]

RecordedCopy(n) == store[n] = NoCopy \/ \E e \in log : e.stamp = applied[n] /\ store[n] = CopyOf(e)

CopyInv == TrafficAccepted /\ \A n \in Nodes : applied[n] # Zero => RecordedCopy(n)

\* Landing an accepted entry, as the applier and the verify pass do.
LEMMA LandEntry ==
  ASSUME TypeOK, CopyInv, NEW n \in Nodes, NEW e \in log, log' = log,
         applied' = [applied EXCEPT ![n] = e.stamp], store' = [store EXCEPT ![n] = Payload(e)]
  PROVE  \A k \in Nodes : applied'[k] # Zero => RecordedCopy(k)'
<1>1. applied'[n] = e.stamp /\ store'[n] = Payload(e) BY DEF TypeOK
<1>2. Payload(e) = NoCopy \/ Payload(e) = CopyOf(e) BY DEF Payload, CopyOf
<1>3. RecordedCopy(n)' BY <1>1, <1>2 DEF RecordedCopy
<1>4. \A k \in Nodes \ {n} : applied'[k] = applied[k] /\ store'[k] = store[k] BY DEF TypeOK
<1> QED BY <1>3, <1>4 DEF CopyInv, RecordedCopy

\* Every step of a system whose commands are SET, SETEX and DEL keeps it.
LEMMA StepCopyInv ==
  ASSUME Commands \subseteq {"set", "setex", "del"}, TypeOK, CopyInv, [Next]_vars
  PROVE  CopyInv'
<1> DEFINE Copies == \A n \in Nodes : applied[n] # Zero => RecordedCopy(n)
<1>0. \A w \in Workers : Home(w) \in Nodes BY ConstantsAssumption DEF Home
<1>a. ASSUME UNCHANGED <<pending, batch, view, log>>,
             \A w \in Workers : worker'[w] = worker[w] \/ worker'[w] = Idle
      PROVE  TrafficAccepted'
  <2>1. \A w \in Workers : worker'[w].pc # "idle" => worker'[w] = worker[w] BY <1>a DEF Idle
  <2> QED BY <1>a, <2>1 DEF CopyInv, TrafficAccepted, Accepted, EntryOf
<1>b. ASSUME UNCHANGED <<applied, store, log>> PROVE Copies'
  BY <1>b DEF CopyInv, RecordedCopy
<1>1. ASSUME NEW w \in Workers, NEW now \in Wall, NEW cmd \in {"set", "setex", "del"},
             NEW val, NEW exp, TakeStamp(w, now, cmd, val, exp)
      PROVE  CopyInv'
  <2>1. Copies' BY <1>1, <1>b DEF TakeStamp
  <2>2. UNCHANGED <<pending, batch, view, log>> BY <1>1 DEF TakeStamp, queue
  <2>3. worker'[w].pc = "stamped" /\ worker'[w].cmd = cmd BY <1>1 DEF TakeStamp, TypeOK
  <2>4. \A v \in Workers \ {w} : worker'[v] = worker[v] BY <1>1 DEF TakeStamp, TypeOK
  <2>5. TrafficAccepted'
    BY <2>2, <2>3, <2>4 DEF CopyInv, TrafficAccepted, Accepted, EntryOf
  <2> QED BY <2>1, <2>5 DEF CopyInv
<1>2. ASSUME NEW w \in Workers, Issue(w) PROVE CopyInv'
  <2>1. Commands \cap {"set", "setex"} \subseteq {"set", "setex", "del"}
        /\ Commands \cap {"del", "expire"} \subseteq {"set", "setex", "del"}
    OBVIOUS
  <2> QED BY <1>1, <1>2, <2>1 DEF Issue
<1>3. ASSUME NEW w \in Workers, Incr(w) PROVE CopyInv'
  BY <1>3 DEF Incr
<1>4. ASSUME NEW w \in Workers, StampPublished(w) PROVE CopyInv'
  BY <1>4 DEF StampPublished, CopyInv, TrafficAccepted
<1>5. ASSUME NEW w \in Workers, ApplyLocal(w) PROVE CopyInv'
  <2> DEFINE n == Home(w)
             f == EntryOf(w, worker[w].val)
  <2>1. worker[w].pc = "stamped" /\ worker[w].cmd \in {"set", "setex", "del"}
    BY <1>5 DEF ApplyLocal, CopyInv, TrafficAccepted
  <2>2. /\ log' = log \cup {f}
        /\ worker' = [worker EXCEPT ![w].pc = "applied"]
        /\ applied' = [applied EXCEPT ![n] = worker[w].stamp]
        /\ store' = [store EXCEPT ![n] = LocalWrite(w)]
        /\ UNCHANGED <<pending, batch, view>>
    BY <1>5, <2>1 DEF ApplyLocal, Record, queue
  <2>3. LocalWrite(w) = NoCopy \/ LocalWrite(w) = CopyOf(f)
    BY <2>1 DEF LocalWrite, CopyOf, EntryOf
  <2>4. f.stamp = worker[w].stamp BY DEF EntryOf
  <2>5. applied'[n] = worker[w].stamp /\ store'[n] = LocalWrite(w) BY <1>0, <2>2 DEF TypeOK
  <2>6. \A k \in Nodes \ {n} : applied'[k] = applied[k] /\ store'[k] = store[k]
    BY <2>2 DEF TypeOK
  <2>7. Copies'
    <3> HIDE DEF f
    <3>1. RecordedCopy(n)' BY <2>2, <2>3, <2>4, <2>5 DEF RecordedCopy
    <3> QED BY <2>2, <2>6, <3>1 DEF CopyInv, RecordedCopy
  <2>8. worker'[w] = [worker[w] EXCEPT !.pc = "applied"] BY <2>2 DEF TypeOK
  <2>9. /\ worker'[w].cmd = worker[w].cmd /\ worker'[w].pc = "applied"
        /\ worker'[w].stamp = worker[w].stamp /\ worker'[w].val = worker[w].val
        /\ worker'[w].exp = worker[w].exp
    BY <2>8 DEF TypeOK, Worker
  <2>10. EntryOf(w, worker[w].val)' = f BY <2>9 DEF EntryOf
  <2>11. \A v \in Workers \ {w} : worker'[v] = worker[v] BY <2>2 DEF TypeOK
  <2>12. TrafficAccepted'
    BY <2>1, <2>2, <2>9, <2>10, <2>11 DEF CopyInv, TrafficAccepted, Accepted, EntryOf
  <2> QED BY <2>7, <2>12 DEF CopyInv
<1>6. ASSUME NEW w \in Workers, SkipLocal(w) PROVE CopyInv'
  <2>1. \A v \in Workers : worker'[v] = worker[v] \/ worker'[v] = Idle
    BY <1>6 DEF SkipLocal, TypeOK
  <2> QED BY <1>6, <1>a, <1>b, <2>1 DEF SkipLocal, node, queue, CopyInv
<1>7. ASSUME NEW w \in Workers, Publish(w) PROVE CopyInv'
  <2> DEFINE n == Home(w)
             f == EntryOf(w, worker[w].val)
  <2>1. f \in log /\ worker[w].cmd \in {"set", "setex", "del"}
    BY <1>7 DEF Publish, CopyInv, TrafficAccepted
  <2>2. Published(w) = worker[w].val BY <2>1 DEF Published
  <2>3. pending' = pending \/ pending' = [pending EXCEPT ![n] = f]
    BY <1>7, <2>2 DEF Publish, Enqueue
  <2>4. \A k \in Nodes : pending'[k] = pending[k] \/ pending'[k] = f
    BY <1>0, <2>3 DEF TypeOK
  <2>5. UNCHANGED <<batch, view, log, applied>> BY <1>7 DEF Publish
  <2>6. \A v \in Workers : worker'[v] = worker[v] \/ worker'[v] = Idle
    BY <1>7 DEF Publish, TypeOK
  <2>7. \A v \in Workers : worker'[v].pc # "idle" => worker'[v] = worker[v] BY <2>6 DEF Idle
  <2>8. TrafficAccepted'
    <3> HIDE DEF f
    <3> QED BY <2>1, <2>4, <2>5, <2>7 DEF CopyInv, TrafficAccepted, Accepted, EntryOf
  <2>9. \A k \in Nodes : store'[k] = store[k] \/ store'[k] = NoCopy
    BY <1>0, <1>7 DEF Publish, AfterPublish, TypeOK
  <2>10. Copies' BY <2>5, <2>9 DEF CopyInv, RecordedCopy
  <2> QED BY <2>8, <2>10 DEF CopyInv
<1>8. ASSUME NEW n \in Nodes, TakeBatch(n) PROVE CopyInv'
  <2>1. \A k \in Nodes : /\ pending'[k] = pending[k] \/ pending'[k] = NoEntry
                         /\ batch'[k].op \in {batch[k].op, pending[k]}
    BY <1>8 DEF TakeBatch, TypeOK
  <2>2. TrafficAccepted' BY <1>8, <2>1 DEF TakeBatch, CopyInv, TrafficAccepted, Accepted, EntryOf
  <2> QED BY <1>8, <1>b, <2>2 DEF TakeBatch, node, CopyInv
<1>9. ASSUME NEW n \in Nodes, NEW e, Accepted(e), SetOwn(n, e),
             UNCHANGED <<pending, worker, log>>, \A k \in Nodes : batch'[k].op \in {batch[k].op, NoEntry}
      PROVE  TrafficAccepted'
  <2>1. \A m, k \in Nodes : view'[m][k].entry = view[m][k].entry \/ view'[m][k].entry = e
    BY <1>9 DEF SetOwn, TypeOK
  <2> QED BY <1>9, <2>1 DEF CopyInv, TrafficAccepted, Accepted, EntryOf
<1>10. ASSUME NEW n \in Nodes, ApplyBatch(n) PROVE CopyInv'
  <2> DEFINE e == RetireOwn(SetIfNewer(view[n][n].entry, batch[n].op), batch[n].ret)
  <2>1. e \in {view[n][n].entry, batch[n].op, NoEntry} BY DEF RetireOwn, SetIfNewer
  <2>2. Accepted(e) BY <2>1 DEF CopyInv, TrafficAccepted, Accepted
  <2>3. SetOwn(n, e) /\ UNCHANGED <<pending, worker, log, applied, store>>
    BY <1>10 DEF ApplyBatch, node
  <2>4. \A k \in Nodes : batch'[k].op \in {batch[k].op, NoEntry}
    BY <1>10 DEF ApplyBatch, TypeOK, NoBatch
  <2> HIDE DEF e
  <2>5. TrafficAccepted' BY <1>9, <2>2, <2>3, <2>4
  <2> QED BY <1>b, <2>3, <2>5 DEF CopyInv
<1>11. ASSUME NEW n \in Nodes, Sweep(n) PROVE CopyInv'
  <2>1. Accepted(NoEntry) /\ SetOwn(n, NoEntry) /\ UNCHANGED <<pending, batch, worker, log, applied, store>>
    BY <1>11 DEF Sweep, Accepted, node, queue
  <2>2. TrafficAccepted' BY <1>9, <2>1
  <2> QED BY <1>b, <2>1, <2>2 DEF CopyInv
<1>12. ASSUME NEW n \in Nodes, Verify(n) PROVE CopyInv'
  <2>1. TrafficAccepted' BY <1>12, <1>a DEF Verify, queue
  <2>2. PICK e \in Resolve(n) :
          IF e # NoEntry /\ Accepts(n, e.stamp)
          THEN Record(n, e.stamp) /\ store' = [store EXCEPT ![n] = Payload(e)]
          ELSE UNCHANGED <<applied, store>>
    BY <1>12 DEF Verify
  <2>3. Accepted(e) BY <2>2 DEF Resolve, Candidates, CopyInv, TrafficAccepted
  <2>4. log' = log BY <1>12 DEF Verify
  <2>5. CASE UNCHANGED <<applied, store>> BY <1>b, <2>1, <2>4, <2>5 DEF CopyInv
  <2>6. CASE e # NoEntry /\ Accepts(n, e.stamp)
    BY <2>1, <2>2, <2>3, <2>4, <2>6, LandEntry DEF Accepted, Record, CopyInv
  <2> QED BY <2>2, <2>5, <2>6
<1>13. ASSUME NEW n \in Nodes, Prune(n) PROVE CopyInv'
  <2>1. TrafficAccepted' BY <1>13, <1>a DEF Prune, queue
  <2>2. applied'[n] = Zero /\ \A k \in Nodes \ {n} : applied'[k] = applied[k]
    BY <1>13 DEF Prune, Record, TypeOK
  <2>3. Copies' BY <1>13, <2>2 DEF Prune, CopyInv, RecordedCopy
  <2> QED BY <2>1, <2>3 DEF CopyInv
<1>14. ASSUME NEW n \in Nodes, Crash(n) PROVE CopyInv'
  BY <1>14, <1>a, <1>b DEF Crash, node, queue, CopyInv
<1>15. ASSUME NEW m \in Nodes, NEW k \in Nodes, NEW n \in Nodes, Gossip(m, k, n) PROVE CopyInv'
  <2> DEFINE e == view[k][n].entry
  <2>1. Accepted(e) BY DEF CopyInv, TrafficAccepted
  <2>2. view' = [view EXCEPT ![m][n] = view[k][n]] /\ UNCHANGED <<pending, batch, worker, log>>
    BY <1>15 DEF Gossip
  <2>3. \A i, j \in Nodes : view'[i][j].entry = view[i][j].entry \/ view'[i][j].entry = e
    BY <2>2 DEF TypeOK
  <2>4. TrafficAccepted'
    BY <2>1, <2>2, <2>3 DEF CopyInv, TrafficAccepted, Accepted, EntryOf
  <2>5. CASE UNCHANGED <<applied, store>> BY <1>b, <2>2, <2>4, <2>5 DEF CopyInv
  <2>6. CASE e # NoEntry /\ Accepts(m, e.stamp)
    <3>1. applied' = [applied EXCEPT ![m] = e.stamp] /\ store' = [store EXCEPT ![m] = Payload(e)]
      BY <1>15, <2>6 DEF Gossip, Record
    <3> QED BY <2>1, <2>2, <2>4, <2>6, <3>1, LandEntry DEF Accepted, CopyInv
  <2>7. UNCHANGED <<applied, store>> \/ (e # NoEntry /\ Accepts(m, e.stamp))
    BY <1>15 DEF Gossip
  <2> QED BY <2>5, <2>6, <2>7
<1>16. ASSUME NEW e \in log, Lapse(e.exp) PROVE CopyInv'
  BY <1>16, <1>a, <1>b DEF Lapse, node, queue, CopyInv
<1>17. CASE UNCHANGED vars
  BY <1>17, <1>a, <1>b DEF vars, node, queue, CopyInv
<1> QED
  BY <1>2, <1>3, <1>4, <1>5, <1>6, <1>7, <1>8, <1>10, <1>11, <1>12, <1>13, <1>14, <1>15, <1>16, <1>17
  DEF Next

\* With SET, SETEX and DEL, whatever a node's readers find is the value of the
\* very write its applied map has on record: no interleaving of threads,
\* applier, verify pass, pruning, shedding and crashes leaves a stale copy
\* (apply_if_newer, NoStaleCopy).
THEOREM CopiesAreRecorded ==
  ASSUME Commands \subseteq {"set", "setex", "del"}
  PROVE  Spec => []NoStaleCopy
<1>1. Init => CopyInv
  BY DEF Init, CopyInv, TrafficAccepted, Accepted, Idle, NoBatch
<1>2. TypeOK /\ CopyInv /\ [Next]_vars => CopyInv' BY StepCopyInv
<1>3. TypeOK /\ CopyInv => NoStaleCopy
  <2> SUFFICES ASSUME TypeOK, CopyInv, NEW n \in up, applied[n] # Zero, Visible(n) # Gone
               PROVE  \E e \in log : e.stamp = applied[n] /\ store[n] = [val |-> e.val, exp |-> e.exp]
    BY DEF NoStaleCopy
  <2>1. n \in Nodes BY DEF TypeOK
  <2>2. store[n] # NoCopy BY DEF Visible, NoCopy, Gone
  <2> QED BY <2>1, <2>2 DEF CopyInv, RecordedCopy, CopyOf
<1> QED BY <1>1, <1>2, <1>3, TypeCorrect, PTL DEF Spec


-----------------------------------------------------------------------------
(* Convergence.  Commands are SET and SETEX (section 4 of the README says   *)
(* why not the others).  Pruning is for keys without deadlines, and only    *)
(* while the verify set has room.                                           *)

Converging ==
  /\ Commands \subseteq {"set", "setex"}
  /\ ~(MayShed /\ MayPrune)
  /\ "setex" \in Commands => ~MayPrune

Sound == TypeOK /\ StampInv /\ CopyInv

\* Stamps are totally ordered, Zero first.
LEMMA StampOrder ==
  /\ \A s \in Stamp : ~Newer(s, s) /\ ~Newer(Zero, s)
  /\ \A s, t \in Stamp : Newer(s, t) => ~Newer(t, s)
  /\ \A r, s, t \in Stamp : ~Newer(r, s) /\ ~Newer(s, t) => ~Newer(r, t)
  /\ \A s, t \in Stamp : ~Newer(s, t) /\ ~Newer(t, s) => s = t
<1>1. \A s \in Stamp : s = [write |-> s.write, tag |-> s.tag] /\ s.write \in Nat /\ s.tag \in Nat
  <2> SUFFICES ASSUME NEW s \in Stamp
               PROVE  s = [write |-> s.write, tag |-> s.tag] /\ s.write \in Nat /\ s.tag \in Nat
    OBVIOUS
  <2>1. Nodes \subseteq Nat BY ConstantsAssumption
  <2>2. CASE s \in [write : Nat, tag : Nodes] BY <2>1, <2>2
  <2>3. CASE s = Zero BY <2>3 DEF Zero
  <2> QED BY <2>2, <2>3 DEF Stamp
<1>2. Zero.write = 0 /\ Zero.tag = 0 BY DEF Zero
<1>3. \A s \in Stamp : ~Newer(s, s) /\ ~Newer(Zero, s) BY <1>1, <1>2 DEF Newer
<1>4. \A s, t \in Stamp : Newer(s, t) => ~Newer(t, s) BY <1>1 DEF Newer
<1>5. \A r, s, t \in Stamp : ~Newer(r, s) /\ ~Newer(s, t) => ~Newer(r, t) BY <1>1 DEF Newer
<1>6. ASSUME NEW s \in Stamp, NEW t \in Stamp, ~Newer(s, t), ~Newer(t, s) PROVE s = t
  <2>1. s.write = t.write /\ s.tag = t.tag BY <1>1, <1>6 DEF Newer
  <2> QED BY <1>1, <2>1
<1> QED BY <1>3, <1>4, <1>5, <1>6

\* An accepted write has a stamp of its own, above Zero.
LEMMA AcceptedStamps ==
  ASSUME TypeOK, StampInv
  PROVE  \A e \in log : e.stamp \in Stamp /\ Newer(e.stamp, Zero) /\ e.stamp # Zero /\ e # NoEntry
<1> SUFFICES ASSUME NEW e \in log
             PROVE  e.stamp \in Stamp /\ Newer(e.stamp, Zero) /\ e.stamp # Zero /\ e # NoEntry
  OBVIOUS
<1>1. e.stamp \in Stamp /\ e.stamp.tag \in Nodes BY DEF TypeOK, Entry, StampInv, StampsBelowClock
<1>2. e.stamp.write \in Nat /\ e.stamp.tag \in Nat \ {0}
  <2>1. e.stamp.tag \in Nat \ {0} BY <1>1, ConstantsAssumption
  <2> QED BY <1>1, <2>1 DEF Stamp, Zero
<1>3. Newer(e.stamp, Zero) BY <1>2 DEF Newer, Zero
<1> QED BY <1>1, <1>2, <1>3 DEF Zero, NoEntry

\* Every stamp in use is a stamp.
LEMMA StampsTyped ==
  ASSUME TypeOK
  PROVE  /\ \A n \in Nodes : /\ {applied[n], retire[n], pending[n].stamp, batch[n].op.stamp, batch[n].ret}
                                  \subseteq Stamp
                             /\ clock[n] \in Nat
         /\ \A m, n \in Nodes : view[m][n].entry.stamp \in Stamp
         /\ \A w \in Workers : Home(w) \in Nodes /\ worker[w].stamp \in Stamp
         /\ Zero \in Stamp
<1>1. \A w \in Workers : Home(w) \in Nodes BY ConstantsAssumption DEF Home
<1> QED BY <1>1, ConstantTypes DEF TypeOK, Entry, Versioned, Worker

-----------------------------------------------------------------------------
(* What the steps of a command do, under these commands.                    *)

\* A command takes a stamp above its node's clock that no write has.
LEMMA IssueEffect ==
  ASSUME Converging, Sound, NEW w \in Workers, Issue(w)
  PROVE  /\ worker'[w].pc = "stamped" /\ worker'[w].cmd \in Commands
         /\ worker'[w].stamp \in Stamp /\ worker'[w].stamp.write > clock[Home(w)]
         /\ \A e \in log : e.stamp # worker'[w].stamp
         /\ worker'[w].exp = IF worker'[w].cmd = "setex" THEN worker'[w].stamp ELSE Zero
         /\ worker'[w].val # Gone
         /\ \A v \in Workers \ {w} : worker'[v] = worker[v]
         /\ \A n \in Nodes : clock'[n] >= clock[n]
         /\ UNCHANGED <<applied, store, verify, queue, view, lapsed, up, lost, log>>
<1> DEFINE n == Home(w)
<1>1. n \in Nodes BY ConstantsAssumption DEF Home
<1>2. PICK now \in Wall, cmd \in Commands \cap {"set", "setex"}, v \in Values : TakeStamp(w, now, cmd, v, Zero)
  BY DEF Issue, Converging
<1> DEFINE s == NextAfter(n, now, applied[n])
<1>3. s \in [write : Nat, tag : Nodes] /\ s.write > clock[n]
  BY <1>1, ConstantsAssumption, NextAfterLemma DEF Sound, TypeOK
<1>4. /\ clock' = [clock EXCEPT ![n] = s.write]
      /\ worker' = [worker EXCEPT ![w] =
            [pc |-> "stamped", cmd |-> cmd, stamp |-> s, val |-> v,
             exp |-> IF cmd \in {"setex", "expire"} THEN s ELSE Zero]]
      /\ UNCHANGED <<applied, store, verify, queue, view, lapsed, up, lost, log>>
  BY <1>2 DEF TakeStamp
<1> HIDE DEF s
<1>5. /\ worker'[w] = [pc |-> "stamped", cmd |-> cmd, stamp |-> s, val |-> v,
                       exp |-> IF cmd = "setex" THEN s ELSE Zero]
      /\ \A u \in Workers \ {w} : worker'[u] = worker[u]
  BY <1>2, <1>4 DEF Sound, TypeOK
<1>6. \A k \in Nodes : clock'[k] >= clock[k] BY <1>1, <1>3, <1>4 DEF Sound, TypeOK
<1>7. \A e \in log : e.stamp # s
  <2>1. [Next]_vars BY DEF Next
  <2>2. StampInv' BY <2>1, StepStampInv DEF Sound
  <2> QED BY <1>4, <1>5, <2>2 DEF StampInv, OneWritePerStamp
<1>8. v # Gone BY <1>2, ConstantsAssumption DEF Gone
<1> QED BY <1>2, <1>3, <1>4, <1>5, <1>6, <1>7, <1>8 DEF Stamp


(* Deadlines: only SETEX sets one, named by its own stamp, and none passes  *)
(* that was not set.                                                        *)

Timed(r) == /\ r.exp \in {Zero, r.stamp} /\ (r.exp # Zero => "setex" \in Commands)
            /\ r.val # Gone

DeadlineInv ==
  /\ \A s \in lapsed : s # Zero /\ \E e \in log : e.exp = s
  /\ \A e \in log : Timed(e)
  /\ \A w \in Workers : worker[w].pc # "idle" => worker[w].cmd \in {"set", "setex"} /\ Timed(worker[w])

\* A write newer than the record is recorded, written and accepted at once.
LEMMA ApplyLocalEffect ==
  ASSUME Sound, DeadlineInv, NEW w \in Workers, ApplyLocal(w),
         NEW n, n = Home(w), NEW f, f = EntryOf(w, worker[w].val)
  PROVE  /\ worker[w].pc = "stamped" /\ Newer(f.stamp, applied[n])
         /\ f.stamp = worker[w].stamp /\ f.val = worker[w].val /\ f.exp = worker[w].exp
         /\ log' = log \cup {f}
         /\ applied'[n] = f.stamp /\ store'[n] = CopyOf(f)
         /\ \A k \in Nodes \ {n} : applied'[k] = applied[k] /\ store'[k] = store[k]
         /\ worker'[w] = [worker[w] EXCEPT !.pc = "applied"]
         /\ \A v \in Workers \ {w} : worker'[v] = worker[v]
         /\ UNCHANGED <<clock, verify, queue, view, lapsed, up, lost>>
<1>1. n \in Nodes BY StampsTyped DEF Sound
<1>2. worker[w].pc = "stamped" BY DEF ApplyLocal
<1>3. worker[w].cmd \in {"set", "setex"} BY <1>2 DEF DeadlineInv
<1>4. /\ applied' = [applied EXCEPT ![n] = worker[w].stamp]
      /\ store' = [store EXCEPT ![n] = [val |-> worker[w].val, exp |-> worker[w].exp]]
      /\ worker' = [worker EXCEPT ![w].pc = "applied"]
      /\ log' = log \cup {f}
      /\ Newer(worker[w].stamp, applied[n])
      /\ UNCHANGED <<clock, verify, queue, view, lapsed, up, lost>>
  BY <1>3 DEF ApplyLocal, Record, LocalWrite, Accepts
<1>5. f.stamp = worker[w].stamp /\ f.val = worker[w].val /\ f.exp = worker[w].exp BY DEF EntryOf
<1> QED BY <1>1, <1>2, <1>4, <1>5 DEF Sound, TypeOK, CopyOf

\* A publish that is not shed leaves the queue at or above both writes.
LEMMA PublishEffect ==
  ASSUME Sound, DeadlineInv, NEW w \in Workers, Publish(w),
         NEW n, n = Home(w), NEW f, f = EntryOf(w, worker[w].val)
  PROVE  /\ worker[w].pc = "applied" /\ f \in log
         /\ f.stamp = worker[w].stamp /\ f.val = worker[w].val /\ f.exp = worker[w].exp
         /\ worker'[w] = Idle /\ \A v \in Workers \ {w} : worker'[v] = worker[v]
         /\ \A k \in Nodes \ {n} : pending'[k] = pending[k]
         /\ pending'[n] \in {pending[n], f} /\ ~Newer(pending[n].stamp, pending'[n].stamp)
         /\ (\A k \in Nodes : shed'[k] = 0) =>
              (\A k \in Nodes : shed[k] = 0) /\ ~Newer(f.stamp, pending'[n].stamp)
         /\ store' = store
         /\ UNCHANGED <<clock, applied, verify, retire, batch, view, lapsed, up, lost, log>>
<1>1. n \in Nodes BY StampsTyped DEF Sound
<1>2. worker[w].pc = "applied" BY DEF Publish
<1>3. worker[w].cmd \in {"set", "setex"} BY <1>2 DEF DeadlineInv
<1>4. f \in log BY <1>2 DEF Sound, CopyInv, TrafficAccepted
<1>5. f.stamp = worker[w].stamp /\ f.val = worker[w].val /\ f.exp = worker[w].exp BY DEF EntryOf
<1>6. f.stamp \in Stamp /\ pending[n].stamp \in Stamp BY <1>1, <1>5, StampsTyped DEF Sound
<1>7. ~NothingToPublish(w) /\ Published(w) = worker[w].val /\ AfterPublish(w) = store[n]
  BY <1>3 DEF NothingToPublish, Published, AfterPublish
<1>8. store' = store BY <1>1, <1>7 DEF Publish, Sound, TypeOK
<1>9. worker'[w] = Idle /\ \A v \in Workers \ {w} : worker'[v] = worker[v]
  BY DEF Publish, Sound, TypeOK
<1>10. CASE pending' = Enqueue(n, f) /\ UNCHANGED shed
  <2>1. pending' = IF Newer(f.stamp, pending[n].stamp) THEN [pending EXCEPT ![n] = f] ELSE pending
    BY <1>10 DEF Enqueue
  <2>2. \A k \in Nodes \ {n} : pending'[k] = pending[k] BY <2>1 DEF Sound, TypeOK
  <2>3. CASE Newer(f.stamp, pending[n].stamp)
    <3>1. pending'[n] = f BY <1>1, <2>1, <2>3 DEF Sound, TypeOK
    <3> QED BY <1>1, <1>2, <1>4, <1>5, <1>6, <1>8, <1>9, <1>10, <2>2, <2>3, <3>1, StampOrder DEF Publish
  <2>4. CASE ~Newer(f.stamp, pending[n].stamp)
    BY <1>1, <1>2, <1>4, <1>5, <1>6, <1>8, <1>9, <1>10, <2>1, <2>2, <2>4, StampOrder DEF Publish
  <2> QED BY <2>3, <2>4
<1>11. CASE shed' = [shed EXCEPT ![n] = @ + 1] /\ UNCHANGED pending
  <2>1. shed'[n] # 0 BY <1>1, <1>11 DEF Sound, TypeOK
  <2> QED BY <1>1, <1>2, <1>4, <1>5, <1>6, <1>8, <1>9, <1>11, <2>1, StampOrder DEF Publish
<1> QED BY <1>7, <1>10, <1>11 DEF Publish

\* Landing an entry of a peer, as the applier and the verify pass do.
Lands(n, e) ==
  /\ e \in log /\ Newer(e.stamp, applied[n])
  /\ applied'[n] = e.stamp /\ store'[n] = Payload(e)
  /\ \A k \in Nodes \ {n} : applied'[k] = applied[k] /\ store'[k] = store[k]

\* One exchange: the applier takes what is newer than its record, and asks for
\* verification when there was none.
LEMMA GossipEffect ==
  ASSUME Sound, NEW m \in Nodes, NEW k \in Nodes, NEW n \in Nodes, Gossip(m, k, n),
         NEW e, e = view[k][n].entry
  PROVE  /\ m # n /\ Accepted(e) /\ view'[m][n].entry = e
         /\ \A i, j \in Nodes : i # m \/ j # n => view'[i][j] = view[i][j]
         /\ \A i \in Nodes : retire'[i] = retire[i] \/ (e # NoEntry /\ retire'[i] = e.stamp)
         /\ \A i \in Nodes \ {m} : verify'[i] = verify[i]
         /\ verify[m] => verify'[m]
         /\ \/ Lands(m, e) /\ (~MayShed /\ applied[m] = Zero => verify'[m])
            \/ ~Newer(e.stamp, applied[m]) /\ UNCHANGED <<applied, store, verify>>
         /\ UNCHANGED <<clock, pending, batch, shed, worker, lapsed, up, lost, log>>
<1>1. Accepted(e) BY DEF Sound, CopyInv, TrafficAccepted
<1>2. m # n /\ view' = [view EXCEPT ![m][n] = view[k][n]] BY DEF Gossip
<1>3. view'[m][n].entry = e /\ \A i, j \in Nodes : i # m \/ j # n => view'[i][j] = view[i][j]
  BY <1>2 DEF Sound, TypeOK
<1>4. UNCHANGED <<clock, pending, batch, shed, worker, lapsed, up, lost, log>> BY DEF Gossip
<1>5. \A i \in Nodes : retire'[i] = retire[i] \/ (e # NoEntry /\ retire'[i] = e.stamp)
  <2>1. CASE retire' = retire BY <2>1
  <2>2. CASE e # NoEntry /\ retire' = [retire EXCEPT ![m] = LaterOf(e.stamp, @)]
    BY <2>2 DEF LaterOf, Sound, TypeOK
  <2> QED BY <2>1, <2>2 DEF Gossip
<1>6. CASE e = NoEntry
  <2>1. UNCHANGED <<applied, store, verify>> BY <1>6 DEF Gossip
  <2>2. ~Newer(e.stamp, applied[m]) BY <1>6, StampOrder, StampsTyped DEF Sound, NoEntry
  <2> QED BY <1>1, <1>2, <1>3, <1>4, <1>5, <2>1, <2>2
<1>7. CASE e # NoEntry /\ ~Accepts(m, e.stamp)
  <2>1. UNCHANGED <<applied, store, verify>> BY <1>7 DEF Gossip
  <2> QED BY <1>1, <1>2, <1>3, <1>4, <1>5, <1>7, <2>1 DEF Accepts
<1>8. CASE e # NoEntry /\ Accepts(m, e.stamp)
  <2>1. /\ applied' = [applied EXCEPT ![m] = e.stamp] /\ store' = [store EXCEPT ![m] = Payload(e)]
        /\ \/ verify' = [verify EXCEPT ![m] = @ \/ applied[m] = Zero]
           \/ MayShed /\ UNCHANGED verify
    BY <1>8 DEF Gossip, Record
  <2>2. Lands(m, e) BY <1>1, <1>8, <2>1 DEF Lands, Accepts, Accepted, Sound, TypeOK
  <2>3. /\ \A i \in Nodes \ {m} : verify'[i] = verify[i]
        /\ verify[m] => verify'[m]
        /\ ~MayShed /\ applied[m] = Zero => verify'[m]
    BY <2>1 DEF Sound, TypeOK
  <2> QED BY <1>1, <1>2, <1>3, <1>4, <1>5, <2>2, <2>3
<1> QED BY <1>6, <1>7, <1>8

\* The verify pass leaves the record at or above everything the node knows of.
LEMMA VerifyEffect ==
  ASSUME Sound, NEW n \in Nodes, Verify(n)
  PROVE  /\ ~verify'[n] /\ verify[n] /\ \A k \in Nodes \ {n} : verify'[k] = verify[k]
         /\ \E e : /\ \A k \in Nodes : ~Newer(view[n][k].entry.stamp, e.stamp)
                   /\ Accepted(e)
                   /\ \/ Lands(n, e)
                      \/ ~Newer(e.stamp, applied[n]) /\ UNCHANGED <<applied, store>>
         /\ UNCHANGED <<clock, queue, view, worker, lapsed, up, lost, log>>
<1>1. PICK e \in Resolve(n) :
        IF e # NoEntry /\ Accepts(n, e.stamp)
        THEN Record(n, e.stamp) /\ store' = [store EXCEPT ![n] = Payload(e)]
        ELSE UNCHANGED <<applied, store>>
  BY DEF Verify
<1>2. Accepted(e) BY <1>1 DEF Resolve, Candidates, Sound, CopyInv, TrafficAccepted
<1>3. \A k \in Nodes : ~Newer(view[n][k].entry.stamp, e.stamp) BY <1>1 DEF Resolve, Candidates
<1>4. ~verify'[n] /\ verify[n] /\ \A k \in Nodes \ {n} : verify'[k] = verify[k]
  BY DEF Verify, Sound, TypeOK
<1>5. UNCHANGED <<clock, queue, view, worker, lapsed, up, lost, log>> BY DEF Verify
<1>6. Lands(n, e) \/ (~Newer(e.stamp, applied[n]) /\ UNCHANGED <<applied, store>>)
  <2>1. CASE e # NoEntry /\ Accepts(n, e.stamp)
    BY <1>1, <1>2, <2>1 DEF Lands, Record, Accepts, Accepted, Sound, TypeOK
  <2>2. CASE e = NoEntry
    BY <1>1, <2>2, StampOrder, StampsTyped DEF Sound, NoEntry
  <2>3. CASE ~Accepts(n, e.stamp) BY <1>1, <2>3 DEF Accepts
  <2> QED BY <2>1, <2>2, <2>3
<1> QED BY <1>2, <1>3, <1>4, <1>5, <1>6

\* The drain moves an operation from the queue to the batch, and the newest of
\* batch and own state into the own state, unless a peer has superseded it.
LEMMA TakeBatchEffect ==
  ASSUME TypeOK, NEW n \in Nodes, TakeBatch(n)
  PROVE  /\ batch[n] = NoBatch
         /\ batch'[n] = [op |-> pending[n], ret |-> retire[n]]
         /\ pending'[n] = NoEntry /\ retire'[n] = Zero
         /\ \A k \in Nodes \ {n} : pending'[k] = pending[k] /\ retire'[k] = retire[k] /\ batch'[k] = batch[k]
         /\ UNCHANGED <<node, shed, view, worker, lapsed, up, lost, log>>
BY DEF TakeBatch, TypeOK

\* What the drain makes of a node's own entry.
Drained(n) == RetireOwn(SetIfNewer(view[n][n].entry, batch[n].op), batch[n].ret)

\* Setting the own entry leaves every other entry, and every other view, alone.
LEMMA OwnEffect ==
  ASSUME TypeOK, NEW n \in Nodes, NEW e, SetOwn(n, e)
  PROVE  /\ view'[n][n].entry = e
         /\ \A i, j \in Nodes : i # n \/ j # n => view'[i][j] = view[i][j]
BY DEF SetOwn, TypeOK

\* The batch is gone and the own entry is what the drain made of it.
LEMMA ApplyBatchEffect ==
  ASSUME TypeOK, NEW n \in Nodes, ApplyBatch(n)
  PROVE  /\ view'[n][n].entry = Drained(n)
         /\ \A i, j \in Nodes : i # n \/ j # n => view'[i][j] = view[i][j]
         /\ batch'[n] = NoBatch /\ \A k \in Nodes \ {n} : batch'[k] = batch[k]
         /\ lost' = (lost \/ ExpiredInQueue(n))
         /\ UNCHANGED <<node, pending, retire, shed, worker, lapsed, up, log>>
<1>1. SetOwn(n, Drained(n)) BY DEF ApplyBatch, Drained
<1> HIDE DEF Drained
<1>2. /\ view'[n][n].entry = Drained(n)
      /\ \A i, j \in Nodes : i # n \/ j # n => view'[i][j] = view[i][j]
  BY <1>1, OwnEffect
<1> QED BY <1>2 DEF ApplyBatch, TypeOK

\* A sweep empties the own state.
LEMMA SweepEffect ==
  ASSUME TypeOK, NEW n \in Nodes, Sweep(n)
  PROVE  /\ view'[n][n].entry = NoEntry
         /\ \A i, j \in Nodes : i # n \/ j # n => view'[i][j] = view[i][j]
         /\ lost' = (lost \/ \E m \in up : view[m][n] # view[n][n])
         /\ UNCHANGED <<node, queue, worker, lapsed, up, log>>
<1>1. SetOwn(n, NoEntry) BY DEF Sweep
<1> QED BY <1>1, OwnEffect DEF Sweep


\* Every step keeps the deadlines in order.
LEMMA StepDeadlineInv ==
  ASSUME Converging, Sound, DeadlineInv, [Next]_vars
  PROVE  DeadlineInv'
<1>0. Idle.pc = "idle" BY DEF Idle
<1>a. ASSUME UNCHANGED <<worker, lapsed, log>> PROVE DeadlineInv'
  BY <1>a DEF DeadlineInv, Timed
<1>1. ASSUME NEW w \in Workers, Issue(w) PROVE DeadlineInv'
  <2>1. /\ worker'[w].pc = "stamped" /\ worker'[w].cmd \in Commands
        /\ \A e \in log : e.stamp # worker'[w].stamp
        /\ worker'[w].exp = IF worker'[w].cmd = "setex" THEN worker'[w].stamp ELSE Zero
        /\ worker'[w].val # Gone
        /\ \A v \in Workers \ {w} : worker'[v] = worker[v]
        /\ UNCHANGED <<queue, lapsed, up, lost, log>>
    BY <1>1, IssueEffect
  <2>2. Timed(worker[w])' /\ worker'[w].cmd \in {"set", "setex"} BY <2>1 DEF Timed, Converging
  <2> QED BY <2>1, <2>2 DEF DeadlineInv, Timed
<1>2. ASSUME NEW w \in Workers, Incr(w) \/ StampPublished(w) PROVE DeadlineInv'
  BY <1>2 DEF Incr, StampPublished, Converging, Sound, CopyInv, TrafficAccepted
<1>3. ASSUME NEW w \in Workers, ApplyLocal(w) PROVE DeadlineInv'
  <2> DEFINE f == EntryOf(w, worker[w].val)
             n == Home(w)
  <2>1. /\ worker[w].pc = "stamped"
        /\ f.stamp = worker[w].stamp /\ f.val = worker[w].val /\ f.exp = worker[w].exp
        /\ log' = log \cup {f}
        /\ worker'[w] = [worker[w] EXCEPT !.pc = "applied"]
        /\ \A v \in Workers \ {w} : worker'[v] = worker[v]
        /\ UNCHANGED <<queue, lapsed, up>>
    BY <1>3, ApplyLocalEffect
  <2> HIDE DEF f
  <2>2. /\ worker'[w].cmd = worker[w].cmd /\ worker'[w].stamp = worker[w].stamp
        /\ worker'[w].val = worker[w].val /\ worker'[w].exp = worker[w].exp
    BY <2>1 DEF Sound, TypeOK, Worker
  <2>3. Timed(f) /\ Timed(worker[w])' /\ worker'[w].cmd \in {"set", "setex"}
    BY <2>1, <2>2 DEF Timed, DeadlineInv
  <2>4. \A s \in lapsed' : s # Zero /\ \E e \in log' : e.exp = s BY <2>1 DEF DeadlineInv
  <2>5. \A e \in log' : Timed(e)' BY <2>1, <2>3 DEF DeadlineInv, Timed
  <2>6. \A v \in Workers : worker'[v].pc # "idle" =>
          worker'[v].cmd \in {"set", "setex"} /\ Timed(worker[v])'
    <3>1. \A v \in Workers \ {w} : worker'[v].pc # "idle" =>
            worker'[v].cmd \in {"set", "setex"} /\ Timed(worker[v])'
      BY <2>1 DEF DeadlineInv, Timed
    <3> QED BY <2>3, <3>1
  <2> QED BY <2>4, <2>5, <2>6 DEF DeadlineInv
<1>4. ASSUME NEW w \in Workers, worker'[w] = Idle, \A v \in Workers \ {w} : worker'[v] = worker[v],
             UNCHANGED <<lapsed, log>>
      PROVE  DeadlineInv'
  BY <1>0, <1>4 DEF DeadlineInv, Timed
<1>5. ASSUME NEW w \in Workers, SkipLocal(w) PROVE DeadlineInv'
  BY <1>4, <1>5 DEF SkipLocal, queue, Sound, TypeOK
<1>6. ASSUME NEW w \in Workers, Publish(w) PROVE DeadlineInv'
  BY <1>4, <1>6 DEF Publish, Sound, TypeOK
<1>7. ASSUME NEW n \in Nodes, TakeBatch(n) \/ ApplyBatch(n) \/ Sweep(n) \/ Verify(n) \/ Prune(n) \/ Crash(n)
      PROVE  DeadlineInv'
  BY <1>7, <1>a DEF TakeBatch, ApplyBatch, Sweep, Verify, Prune, Crash
<1>11. ASSUME NEW m \in Nodes, NEW k \in Nodes, NEW n \in Nodes, Gossip(m, k, n) PROVE DeadlineInv'
  BY <1>11, <1>a DEF Gossip
<1>12. ASSUME NEW e \in log, e.exp # Zero, Lapse(e.exp) PROVE DeadlineInv'
  BY <1>12 DEF Lapse, DeadlineInv, Timed
<1>13. CASE UNCHANGED vars
  BY <1>13, <1>a DEF vars, queue
<1> QED
  BY <1>1, <1>2, <1>3, <1>5, <1>6, <1>7, <1>11, <1>12, <1>13 DEF Next


-----------------------------------------------------------------------------
(* What is on its way from a node, the record has already passed; and only  *)
(* an accepted write retires another.                                       *)

Passed ==
  /\ \A n \in Nodes : ~Newer(pending[n].stamp, applied[n]) /\ ~Newer(batch[n].op.stamp, applied[n])
  /\ \A w \in Workers : worker[w].pc = "applied" => ~Newer(worker[w].stamp, applied[Home(w)])

Superseding(s) == s = Zero \/ \E e \in log : e.stamp = s

Retiring == \A n \in Nodes : Superseding(retire[n]) /\ Superseding(batch[n].ret)

QueueInv == Passed /\ Retiring

\* A step after which no record is older keeps what the records have passed.
LEMMA PassedKept ==
  ASSUME TypeOK, TypeOK', Passed,
         \A n \in Nodes : ~Newer(applied[n], applied'[n]),
         \A n \in Nodes : /\ pending'[n].stamp \in {pending[n].stamp, batch[n].op.stamp, Zero}
                          /\ batch'[n].op.stamp \in {pending[n].stamp, batch[n].op.stamp, Zero},
         \A w \in Workers : worker'[w].pc = "applied" =>
             worker[w].pc = "applied" /\ worker'[w].stamp = worker[w].stamp
  PROVE  Passed'
<1>1. /\ \A n \in Nodes : {applied[n], pending[n].stamp, batch[n].op.stamp} \subseteq Stamp
      /\ \A w \in Workers : Home(w) \in Nodes /\ worker[w].stamp \in Stamp
  BY StampsTyped
<1>2. \A n \in Nodes : applied'[n] \in Stamp BY DEF TypeOK
<1>3. \A n \in Nodes : /\ ~Newer(pending'[n].stamp, applied'[n])
                       /\ ~Newer(batch'[n].op.stamp, applied'[n])
  BY <1>1, <1>2, StampOrder DEF Passed
<1>4. \A w \in Workers : worker'[w].pc = "applied" => ~Newer(worker'[w].stamp, applied'[Home(w)])
  BY <1>1, <1>2, StampOrder DEF Passed
<1> QED BY <1>3, <1>4 DEF Passed

\* The record of a landed entry is not older than the one before.
LEMMA LandingAdvances ==
  ASSUME TypeOK, StampInv, NEW n \in Nodes, NEW e, Lands(n, e)
  PROVE  \A k \in Nodes : ~Newer(applied[k], applied'[k])
<1>1. \A k \in Nodes : applied[k] \in Stamp BY StampsTyped
<1>2. e.stamp \in Stamp BY AcceptedStamps DEF Lands
<1> QED BY <1>1, <1>2, StampOrder DEF Lands

\* Every step keeps it.
LEMMA StepQueueInv ==
  ASSUME Converging, Sound, DeadlineInv, QueueInv, [Next]_vars, TypeOK'
  PROVE  QueueInv'
<1>0. Idle.pc = "idle" /\ NoEntry.stamp = Zero /\ NoBatch.op = NoEntry /\ NoBatch.ret = Zero
  BY DEF Idle, NoEntry, NoBatch
<1>t. /\ \A n \in Nodes : {applied[n], pending[n].stamp, batch[n].op.stamp} \subseteq Stamp
      /\ \A w \in Workers : Home(w) \in Nodes /\ worker[w].stamp \in Stamp
  BY StampsTyped DEF Sound
<1>s. \A n \in Nodes : ~Newer(applied[n], applied[n]) BY <1>t, StampOrder
<1>r. ASSUME UNCHANGED <<retire, batch>>, log \subseteq log' PROVE Retiring'
  BY <1>r DEF QueueInv, Retiring, Superseding
<1>a. ASSUME UNCHANGED <<applied, queue, log>>,
             \A w \in Workers : worker'[w] = worker[w] \/ worker'[w].pc # "applied"
      PROVE  QueueInv'
  <2>1. Passed' BY <1>a, <1>s, PassedKept DEF Sound, QueueInv, queue
  <2> QED BY <1>a, <1>r, <2>1 DEF QueueInv, queue
<1>1. ASSUME NEW w \in Workers, Issue(w) PROVE QueueInv'
  <2>1. /\ worker'[w].pc = "stamped" /\ \A v \in Workers \ {w} : worker'[v] = worker[v]
        /\ UNCHANGED <<applied, queue, log>>
    BY <1>1, IssueEffect
  <2> QED BY <1>a, <2>1
<1>2. ASSUME NEW w \in Workers, Incr(w) \/ StampPublished(w) PROVE QueueInv'
  BY <1>2 DEF Incr, StampPublished, Converging, Sound, CopyInv, TrafficAccepted
<1>3. ASSUME NEW w \in Workers, ApplyLocal(w) PROVE QueueInv'
  <2> DEFINE f == EntryOf(w, worker[w].val)
             n == Home(w)
  <2>1. /\ Newer(worker[w].stamp, applied[n]) /\ f.stamp = worker[w].stamp
        /\ log' = log \cup {f}
        /\ applied'[n] = worker[w].stamp
        /\ \A k \in Nodes \ {n} : applied'[k] = applied[k]
        /\ worker'[w] = [worker[w] EXCEPT !.pc = "applied"]
        /\ \A v \in Workers \ {w} : worker'[v] = worker[v]
        /\ UNCHANGED queue
    BY <1>3, ApplyLocalEffect
  <2> HIDE DEF f
  <2>2. worker'[w].stamp = worker[w].stamp BY <2>1 DEF Sound, TypeOK, Worker
  <2>3. \A k \in Nodes : ~Newer(applied[k], applied'[k]) BY <1>t, <1>s, <2>1, StampOrder
  <2>4. \A k \in Nodes : applied'[k] \in Stamp BY DEF TypeOK
  <2>5. \A k \in Nodes : ~Newer(pending[k].stamp, applied'[k]) /\ ~Newer(batch[k].op.stamp, applied'[k])
    BY <1>t, <2>3, <2>4, StampOrder DEF QueueInv, Passed
  <2>6. \A v \in Workers : worker'[v].pc = "applied" => ~Newer(worker'[v].stamp, applied'[Home(v)])
    <3>1. ~Newer(worker'[w].stamp, applied'[Home(w)]) BY <1>t, <2>1, <2>2, StampOrder
    <3>2. \A v \in Workers \ {w} : worker'[v].pc = "applied" => ~Newer(worker'[v].stamp, applied'[Home(v)])
      BY <1>t, <2>1, <2>3, <2>4, StampOrder DEF QueueInv, Passed
    <3> QED BY <3>1, <3>2
  <2>7. Passed' BY <2>1, <2>5, <2>6 DEF Passed, queue
  <2> QED BY <1>r, <2>1, <2>7 DEF QueueInv, queue
<1>4. ASSUME NEW w \in Workers, SkipLocal(w) PROVE QueueInv'
  <2>1. \A v \in Workers : worker'[v] = worker[v] \/ worker'[v] = Idle
    BY <1>4 DEF SkipLocal, Sound, TypeOK
  <2> QED BY <1>0, <1>4, <1>a, <2>1 DEF SkipLocal, node
<1>5. ASSUME NEW w \in Workers, Publish(w) PROVE QueueInv'
  <2> DEFINE f == EntryOf(w, worker[w].val)
             n == Home(w)
  <2>1. /\ worker[w].pc = "applied" /\ f.stamp = worker[w].stamp
        /\ worker'[w] = Idle /\ \A v \in Workers \ {w} : worker'[v] = worker[v]
        /\ \A k \in Nodes \ {n} : pending'[k] = pending[k]
        /\ pending'[n] \in {pending[n], f}
        /\ UNCHANGED <<applied, retire, batch, log>>
    BY <1>5, PublishEffect
  <2> HIDE DEF f
  <2>2. \A k \in Nodes : ~Newer(pending'[k].stamp, applied[k]) BY <1>t, <2>1 DEF QueueInv, Passed
  <2>3. Passed' BY <1>0, <2>1, <2>2 DEF QueueInv, Passed
  <2> QED BY <1>r, <2>1, <2>3 DEF QueueInv
<1>6. ASSUME NEW n \in Nodes, TakeBatch(n) PROVE QueueInv'
  <2>1. /\ batch'[n] = [op |-> pending[n], ret |-> retire[n]] /\ pending'[n] = NoEntry /\ retire'[n] = Zero
        /\ \A k \in Nodes \ {n} : pending'[k] = pending[k] /\ retire'[k] = retire[k] /\ batch'[k] = batch[k]
        /\ UNCHANGED <<node, worker, log>>
    BY <1>6, TakeBatchEffect DEF Sound
  <2>2. batch'[n].op = pending[n] /\ batch'[n].ret = retire[n] BY <2>1
  <2>3. Passed' BY <1>0, <1>s, <2>1, <2>2, PassedKept DEF Sound, QueueInv, node
  <2>4. Retiring' BY <1>0, <2>1, <2>2 DEF QueueInv, Retiring, Superseding
  <2> QED BY <2>3, <2>4 DEF QueueInv
<1>7. ASSUME NEW n \in Nodes, ApplyBatch(n) PROVE QueueInv'
  <2>1. /\ batch'[n] = NoBatch /\ \A k \in Nodes \ {n} : batch'[k] = batch[k]
        /\ UNCHANGED <<node, pending, retire, worker, log>>
    BY <1>7, ApplyBatchEffect DEF Sound
  <2>2. Passed' BY <1>0, <1>s, <2>1, PassedKept DEF Sound, QueueInv, node
  <2>3. Retiring' BY <1>0, <2>1 DEF QueueInv, Retiring, Superseding
  <2> QED BY <2>2, <2>3 DEF QueueInv
<1>8. ASSUME NEW n \in Nodes, Sweep(n) \/ Crash(n) PROVE QueueInv'
  BY <1>8, <1>a DEF Sweep, Crash, node
<1>9. ASSUME NEW n \in Nodes, Verify(n) PROVE QueueInv'
  <2>1. /\ UNCHANGED <<queue, worker, log>>
        /\ \E e : Lands(n, e) \/ UNCHANGED <<applied, store>>
    BY <1>9, VerifyEffect
  <2>2. \A k \in Nodes : ~Newer(applied[k], applied'[k]) BY <1>s, <2>1, LandingAdvances DEF Sound
  <2>3. Passed' BY <2>1, <2>2, PassedKept DEF Sound, QueueInv, queue
  <2> QED BY <1>r, <2>1, <2>3 DEF QueueInv, queue
<1>10. ASSUME NEW n \in Nodes, Prune(n) PROVE QueueInv'
  <2>1. QuietAt(n) /\ UNCHANGED <<queue, worker, log>> BY <1>10 DEF Prune
  <2>2. applied'[n] = Zero /\ \A k \in Nodes \ {n} : applied'[k] = applied[k]
    BY <1>10 DEF Prune, Record, Sound, TypeOK
  <2>3. \A w \in Workers : Home(w) = n => worker[w] = Idle BY <2>1 DEF QuietAt
  <2>4. pending[n] = NoEntry /\ batch[n] = NoBatch BY <2>1 DEF QuietAt
  <2>5. ~Newer(Zero, Zero) BY StampOrder, ConstantTypes
  <2>6. Passed' BY <1>0, <1>t, <2>1, <2>2, <2>3, <2>4, <2>5 DEF QueueInv, Passed, queue
  <2> QED BY <1>r, <2>1, <2>6 DEF QueueInv, queue
<1>11. ASSUME NEW m \in Nodes, NEW k \in Nodes, NEW n \in Nodes, Gossip(m, k, n) PROVE QueueInv'
  <2> DEFINE e == view[k][n].entry
  <2>1. /\ Accepted(e)
        /\ \A i \in Nodes : retire'[i] = retire[i] \/ (e # NoEntry /\ retire'[i] = e.stamp)
        /\ Lands(m, e) \/ UNCHANGED <<applied, store, verify>>
        /\ UNCHANGED <<pending, batch, worker, log>>
    BY <1>11, GossipEffect DEF Sound
  <2> HIDE DEF e
  <2>2. \A i \in Nodes : ~Newer(applied[i], applied'[i]) BY <1>s, <2>1, LandingAdvances DEF Sound
  <2>3. Passed' BY <2>1, <2>2, PassedKept DEF Sound, QueueInv
  <2>4. Retiring' BY <2>1 DEF QueueInv, Retiring, Superseding, Accepted
  <2> QED BY <2>3, <2>4 DEF QueueInv
<1>12. ASSUME NEW e \in log, Lapse(e.exp) PROVE QueueInv'
  BY <1>12, <1>a DEF Lapse, node
<1>13. CASE UNCHANGED vars
  BY <1>13, <1>a DEF vars, node
<1> QED
  BY <1>1, <1>2, <1>3, <1>4, <1>5, <1>6, <1>7, <1>8, <1>9, <1>10, <1>11, <1>12, <1>13 DEF Next


-----------------------------------------------------------------------------
(* The write a node's copy reads as.  It is the recorded one, or the one    *)
(* recorded before the record was pruned; nothing the node knows of is      *)
(* newer, unless a verification is due, and the next command at the node    *)
(* will be newer still.                                                     *)

Reads(n, e) == store[n] = CopyOf(e) \/ (store[n] = NoCopy /\ e.exp \in lapsed)

IsLatest(n, e) ==
  /\ Accepted(e)
  /\ Reads(n, e)
  /\ applied[n] # Zero \/ ~MayPrune => applied[n] = e.stamp
  /\ ~verify[n] \/ ~MayPrune => \A k \in Nodes : ~Newer(view[n][k].entry.stamp, e.stamp)
  /\ applied[n] = Zero =>
       /\ ~verify[n] /\ e.stamp.write <= clock[n]
       /\ \A w \in Workers : Home(w) = n /\ worker[w].pc = "stamped" => Newer(worker[w].stamp, e.stamp)

LatestInv == \A n \in Nodes : \E e : IsLatest(n, e)

\* A step that changes neither the copy of a node nor its record, and shows it
\* nothing newer than the record.
LEMMA LatestKept ==
  ASSUME Sound, TypeOK', NEW n \in Nodes, \E e : IsLatest(n, e),
         applied'[n] = applied[n], store'[n] = store[n], verify'[n] = verify[n],
         clock'[n] >= clock[n], log \subseteq log', lapsed \subseteq lapsed',
         \A k \in Nodes : \/ view'[n][k].entry.stamp = view[n][k].entry.stamp
                          \/ ~Newer(view'[n][k].entry.stamp, applied[n]),
         \A w \in Workers : Home(w) = n /\ worker'[w].pc = "stamped" =>
             \/ worker'[w].stamp \in Stamp /\ worker'[w].stamp.write > clock[n]
             \/ worker[w].pc = "stamped" /\ worker'[w].stamp = worker[w].stamp
  PROVE  \E e : IsLatest(n, e)'
<1>1. PICK e : IsLatest(n, e) OBVIOUS
<1>2. e.stamp \in Stamp /\ applied[n] \in Stamp
  BY <1>1, AcceptedStamps, StampsTyped, ConstantTypes DEF Sound, IsLatest, Accepted, NoEntry
<1>3. Accepted(e)' /\ Reads(n, e)' BY <1>1 DEF IsLatest, Accepted, Reads
<1>4. ASSUME ~verify'[n] \/ ~MayPrune, NEW k \in Nodes
      PROVE  ~Newer(view'[n][k].entry.stamp, e.stamp)
  <2>1. view'[n][k].entry.stamp \in Stamp BY DEF TypeOK, Versioned, Entry
  <2>2. ~Newer(applied[n], e.stamp) BY <1>1, <1>2, StampOrder DEF IsLatest
  <2> QED BY <1>1, <1>2, <1>4, <2>1, <2>2, StampOrder DEF IsLatest
<1>5. ASSUME applied[n] = Zero
      PROVE  /\ ~verify'[n] /\ e.stamp.write <= clock'[n]
             /\ \A w \in Workers : Home(w) = n /\ worker'[w].pc = "stamped" => Newer(worker'[w].stamp, e.stamp)
  <2>1. ~verify[n] /\ e.stamp.write <= clock[n] BY <1>1, <1>5 DEF IsLatest
  <2>2. clock[n] \in Nat /\ clock'[n] \in Nat /\ e.stamp.write \in Nat BY <1>2 DEF Sound, TypeOK, Stamp, Zero
  <2>3. ASSUME NEW w \in Workers, Home(w) = n, worker'[w].pc = "stamped"
        PROVE  Newer(worker'[w].stamp, e.stamp)
    <3>1. CASE worker'[w].stamp \in Stamp /\ worker'[w].stamp.write > clock[n]
      <4>1. worker'[w].stamp.write \in Nat BY <3>1 DEF Stamp, Zero
      <4> QED BY <2>1, <2>2, <3>1, <4>1 DEF Newer
    <3>2. CASE worker[w].pc = "stamped" /\ worker'[w].stamp = worker[w].stamp
      BY <1>1, <1>5, <2>3, <3>2 DEF IsLatest
    <3> QED BY <2>3, <3>1, <3>2
  <2> QED BY <2>1, <2>2, <2>3
<1>6. IsLatest(n, e)' BY <1>1, <1>3, <1>4, <1>5 DEF IsLatest
<1> QED BY <1>6

\* Landing a newer entry makes it the write the copy reads as.
LEMMA LatestLands ==
  ASSUME Converging, Sound, NEW n \in Nodes, NEW e, Lands(n, e), UNCHANGED <<lapsed, log>>,
         ~verify'[n] \/ ~MayPrune => \A k \in Nodes : ~Newer(view'[n][k].entry.stamp, e.stamp)
  PROVE  IsLatest(n, e)'
<1>1. e \in log /\ applied'[n] = e.stamp /\ store'[n] = Payload(e) BY DEF Lands
<1>2. e.stamp # Zero BY <1>1, AcceptedStamps DEF Sound
<1>3. Accepted(e)' /\ Reads(n, e)' BY <1>1 DEF Accepted, Reads, Payload, CopyOf
<1> QED BY <1>1, <1>2, <1>3 DEF IsLatest

\* What the node knows of is not newer than what it reads, nor than anything
\* newer than its record, unless the record was pruned.
LEMMA KnownIsOlder ==
  ASSUME Sound, NEW n \in Nodes, NEW d, IsLatest(n, d), ~verify[n] \/ ~MayPrune,
         NEW s \in Stamp, Newer(s, applied[n]), applied[n] # Zero \/ ~MayPrune
  PROVE  \A k \in Nodes : ~Newer(view[n][k].entry.stamp, s)
<1>1. applied[n] = d.stamp /\ applied[n] \in Stamp BY StampsTyped DEF Sound, IsLatest
<1>2. \A k \in Nodes : view[n][k].entry.stamp \in Stamp BY StampsTyped DEF Sound
<1> QED BY <1>1, <1>2, StampOrder DEF IsLatest


\* Every step keeps a latest write at every node.
LEMMA StepLatestInv ==
  ASSUME Converging, Sound, DeadlineInv, QueueInv, LatestInv, [Next]_vars, TypeOK'
  PROVE  LatestInv'
<1> SUFFICES ASSUME NEW j \in Nodes PROVE \E e : IsLatest(j, e)'
  BY DEF LatestInv
<1>0. Idle.pc = "idle" /\ NoEntry.stamp = Zero BY DEF Idle, NoEntry
<1>l. \E e : IsLatest(j, e) BY DEF LatestInv
<1>t. /\ \A n \in Nodes : {applied[n], pending[n].stamp, batch[n].op.stamp} \subseteq Stamp
      /\ \A w \in Workers : Home(w) \in Nodes /\ worker[w].stamp \in Stamp
      /\ clock[j] \in Nat /\ clock[j] >= clock[j]
  BY StampsTyped DEF Sound
<1>a. ASSUME UNCHANGED <<applied, store, verify, clock, log>>, lapsed \subseteq lapsed',
             \A w \in Workers : worker'[w] = worker[w] \/ worker'[w].pc # "stamped",
             \A k \in Nodes : \/ view'[j][k].entry.stamp = view[j][k].entry.stamp
                              \/ ~Newer(view'[j][k].entry.stamp, applied[j])
      PROVE  \E e : IsLatest(j, e)'
  BY <1>a, <1>l, <1>t, LatestKept
<1>1. ASSUME NEW w \in Workers, Issue(w) PROVE \E e : IsLatest(j, e)'
  <2>1. /\ worker'[w].stamp \in Stamp /\ worker'[w].stamp.write > clock[Home(w)]
        /\ \A v \in Workers \ {w} : worker'[v] = worker[v]
        /\ clock'[j] >= clock[j]
        /\ UNCHANGED <<applied, store, verify, view, lapsed, log>>
    BY <1>1, IssueEffect
  <2> QED BY <1>l, <2>1, LatestKept
<1>2. ASSUME NEW w \in Workers, Incr(w) \/ StampPublished(w) PROVE \E e : IsLatest(j, e)'
  BY <1>2 DEF Incr, StampPublished, Converging, Sound, CopyInv, TrafficAccepted
<1>3. ASSUME NEW w \in Workers, ApplyLocal(w) PROVE \E e : IsLatest(j, e)'
  <2> DEFINE n == Home(w)
  <2>0. PICK f : f = EntryOf(w, worker[w].val) OBVIOUS
  <2>1. /\ worker[w].pc = "stamped" /\ Newer(f.stamp, applied[n]) /\ f.stamp = worker[w].stamp
        /\ log' = log \cup {f}
        /\ applied'[n] = f.stamp /\ store'[n] = CopyOf(f)
        /\ \A k \in Nodes \ {n} : applied'[k] = applied[k] /\ store'[k] = store[k]
        /\ worker'[w] = [worker[w] EXCEPT !.pc = "applied"]
        /\ \A v \in Workers \ {w} : worker'[v] = worker[v]
        /\ UNCHANGED <<clock, verify, view, lapsed>>
    BY <1>3, <2>0, ApplyLocalEffect
  <2>2. worker'[w].pc # "stamped" BY <2>1 DEF Sound, TypeOK, Worker
  <2>3. CASE j # n
    BY <1>l, <1>t, <2>1, <2>2, <2>3, LatestKept
  <2>4. CASE j = n
    <3>1. PICK d : IsLatest(j, d) BY <1>l
    <3>2. f.stamp \in Stamp /\ f.stamp # Zero
      BY <1>t, <2>1, <2>4, StampOrder
    <3>3. ASSUME ~verify[j] \/ ~MayPrune, NEW k \in Nodes PROVE ~Newer(view[j][k].entry.stamp, f.stamp)
      <4>1. CASE applied[j] # Zero \/ ~MayPrune
        BY <2>1, <2>4, <3>1, <3>2, <3>3, <4>1, KnownIsOlder
      <4>2. CASE applied[j] = Zero /\ MayPrune
        <5>1. Newer(f.stamp, d.stamp) BY <2>1, <2>4, <3>1, <4>2 DEF IsLatest
        <5>2. ~Newer(view[j][k].entry.stamp, d.stamp) BY <3>1, <3>3 DEF IsLatest
        <5>3. d.stamp \in Stamp /\ view[j][k].entry.stamp \in Stamp
          BY <3>1, AcceptedStamps, StampsTyped, ConstantTypes DEF Sound, IsLatest, Accepted, NoEntry
        <5> QED BY <3>2, <5>1, <5>2, <5>3, StampOrder
      <4> QED BY <4>1, <4>2
    <3>4. Accepted(f)' /\ Reads(j, f)' BY <2>1, <2>4 DEF Accepted, Reads
    <3>5. IsLatest(j, f)' BY <2>1, <2>4, <3>2, <3>3, <3>4 DEF IsLatest
    <3> QED BY <3>5
  <2> QED BY <2>3, <2>4
<1>4. ASSUME NEW w \in Workers, SkipLocal(w) PROVE \E e : IsLatest(j, e)'
  <2>1. \A v \in Workers : worker'[v] = worker[v] \/ worker'[v] = Idle
    BY <1>4 DEF SkipLocal, Sound, TypeOK
  <2> QED BY <1>0, <1>4, <1>a, <2>1 DEF SkipLocal, node
<1>5. ASSUME NEW w \in Workers, Publish(w) PROVE \E e : IsLatest(j, e)'
  <2>1. /\ worker'[w] = Idle /\ \A v \in Workers \ {w} : worker'[v] = worker[v]
        /\ UNCHANGED <<store, clock, applied, verify, view, lapsed, log>>
    BY <1>5, PublishEffect
  <2> QED BY <1>0, <1>a, <2>1
<1>6. ASSUME NEW n \in Nodes, TakeBatch(n) PROVE \E e : IsLatest(j, e)'
  BY <1>6, <1>a DEF TakeBatch, node
<1>7. ASSUME NEW n \in Nodes, ApplyBatch(n) PROVE \E e : IsLatest(j, e)'
  <2>1. /\ view'[n][n].entry = Drained(n)
        /\ \A i, k \in Nodes : i # n \/ k # n => view'[i][k] = view[i][k]
        /\ UNCHANGED <<node, worker, lapsed, log>>
    BY <1>7, ApplyBatchEffect DEF Sound
  <2>2. Drained(n) \in {view[n][n].entry, batch[n].op, NoEntry} BY DEF Drained, RetireOwn, SetIfNewer
  <2>3. ~Newer(batch[n].op.stamp, applied[n]) /\ ~Newer(Zero, applied[n])
    BY <1>t, StampOrder DEF QueueInv, Passed
  <2>4. \A k \in Nodes : \/ view'[j][k].entry.stamp = view[j][k].entry.stamp
                         \/ ~Newer(view'[j][k].entry.stamp, applied[j])
    BY <1>0, <2>1, <2>2, <2>3
  <2> QED BY <1>a, <2>1, <2>4 DEF node
<1>8. ASSUME NEW n \in Nodes, Sweep(n) PROVE \E e : IsLatest(j, e)'
  <2>1. /\ view'[n][n].entry = NoEntry
        /\ \A i, k \in Nodes : i # n \/ k # n => view'[i][k] = view[i][k]
        /\ UNCHANGED <<node, worker, lapsed, log>>
    BY <1>8, SweepEffect DEF Sound
  <2>2. \A k \in Nodes : \/ view'[j][k].entry.stamp = view[j][k].entry.stamp
                         \/ ~Newer(view'[j][k].entry.stamp, applied[j])
    BY <1>0, <1>t, <2>1, StampOrder
  <2> QED BY <1>a, <2>1, <2>2 DEF node
<1>9. ASSUME NEW n \in Nodes, Verify(n) PROVE \E e : IsLatest(j, e)'
  <2>1. /\ ~verify'[n] /\ verify[n] /\ \A k \in Nodes \ {n} : verify'[k] = verify[k]
        /\ UNCHANGED <<clock, view, worker, lapsed, log>>
    BY <1>9, VerifyEffect
  <2>2. PICK e : /\ \A k \in Nodes : ~Newer(view[n][k].entry.stamp, e.stamp)
                 /\ Accepted(e)
                 /\ \/ Lands(n, e)
                    \/ ~Newer(e.stamp, applied[n]) /\ UNCHANGED <<applied, store>>
    BY <1>9, VerifyEffect
  <2>3. CASE j # n
    <3>1. applied'[j] = applied[j] /\ store'[j] = store[j] BY <2>2, <2>3 DEF Lands
    <3> QED BY <1>l, <1>t, <2>1, <2>3, <3>1, LatestKept
  <2>4. CASE j = n /\ Lands(n, e)
    <3>1. IsLatest(j, e)' BY <2>1, <2>2, <2>4, LatestLands
    <3> QED BY <3>1
  <2>5. CASE j = n /\ ~Newer(e.stamp, applied[n]) /\ UNCHANGED <<applied, store>>
    <3>1. PICK d : IsLatest(j, d) BY <1>l
    <3>2. applied[j] # Zero /\ applied[j] = d.stamp BY <2>1, <2>5, <3>1 DEF IsLatest
    <3>3. e.stamp \in Stamp
      BY <2>2, AcceptedStamps, ConstantTypes DEF Sound, Accepted, NoEntry, Stamp
    <3>4. \A k \in Nodes : ~Newer(view[j][k].entry.stamp, d.stamp)
      BY <1>t, <2>2, <2>5, <3>2, <3>3, StampOrder, StampsTyped DEF Sound
    <3>5. IsLatest(j, d)' BY <2>1, <2>5, <3>1, <3>2, <3>4 DEF IsLatest, Accepted, Reads
    <3> QED BY <3>5
  <2> QED BY <2>2, <2>3, <2>4, <2>5
<1>10. ASSUME NEW n \in Nodes, Prune(n) PROVE \E e : IsLatest(j, e)'
  <2>1. /\ MayPrune /\ applied[n] # Zero /\ QuietAt(n)
        /\ clock' = [clock EXCEPT ![n] = MaxOf(@, applied[n].write)]
        /\ applied' = [applied EXCEPT ![n] = Zero]
        /\ UNCHANGED <<store, verify, view, worker, lapsed, log>>
    BY <1>10 DEF Prune, Record
  <2>2. applied'[n] = Zero /\ \A k \in Nodes \ {n} : applied'[k] = applied[k] /\ clock'[k] = clock[k]
    BY <2>1 DEF Sound, TypeOK
  <2>3. CASE j # n BY <1>l, <1>t, <2>1, <2>2, <2>3, LatestKept
  <2>4. CASE j = n
    <3>1. PICK d : IsLatest(j, d) BY <1>l
    <3>2. applied[j] = d.stamp BY <2>1, <2>4, <3>1 DEF IsLatest
    <3>3. applied[j].write \in Nat BY <1>t DEF Stamp, Zero
    <3>4. d.stamp.write <= clock'[j] BY <1>t, <2>1, <2>4, <3>2, <3>3 DEF MaxOf, Sound, TypeOK
    <3>5. ~verify[j] /\ \A w \in Workers : Home(w) = j => worker[w] = Idle BY <2>1, <2>4 DEF QuietAt
    <3>6. IsLatest(j, d)' BY <1>0, <2>1, <2>2, <2>4, <3>1, <3>4, <3>5 DEF IsLatest, Accepted, Reads
    <3> QED BY <3>6
  <2> QED BY <2>3, <2>4
<1>11. ASSUME NEW n \in Nodes, Crash(n) PROVE \E e : IsLatest(j, e)'
  BY <1>11, <1>a DEF Crash, node
<1>12. ASSUME NEW m \in Nodes, NEW k \in Nodes, NEW n \in Nodes, Gossip(m, k, n)
       PROVE  \E e : IsLatest(j, e)'
  <2>0. PICK e : e = view[k][n].entry OBVIOUS
  <2>1. /\ view'[m][n].entry = e
        /\ \A i, h \in Nodes : i # m \/ h # n => view'[i][h] = view[i][h]
        /\ \A i \in Nodes \ {m} : verify'[i] = verify[i]
        /\ verify[m] => verify'[m]
        /\ \/ Lands(m, e) /\ (~MayShed /\ applied[m] = Zero => verify'[m])
           \/ ~Newer(e.stamp, applied[m]) /\ UNCHANGED <<applied, store, verify>>
        /\ UNCHANGED <<clock, worker, lapsed, log>>
    BY <1>12, <2>0, GossipEffect
  <2>2. CASE j # m
    <3>1. applied'[j] = applied[j] /\ store'[j] = store[j] BY <2>1, <2>2 DEF Lands
    <3> QED BY <1>l, <1>t, <2>1, <2>2, <3>1, LatestKept
  <2>3. CASE j = m /\ ~Newer(e.stamp, applied[m]) /\ UNCHANGED <<applied, store, verify>>
    <3>1. \A h \in Nodes : \/ view'[j][h].entry.stamp = view[j][h].entry.stamp
                           \/ ~Newer(view'[j][h].entry.stamp, applied[j])
      BY <2>1, <2>3
    <3> QED BY <1>a, <2>1, <2>3, <3>1
  <2>4. CASE j = m /\ Lands(m, e) /\ (~MayShed /\ applied[m] = Zero => verify'[m])
    <3>1. PICK d : IsLatest(j, d) BY <1>l
    <3>2. e.stamp \in Stamp /\ Newer(e.stamp, applied[j]) BY <2>4, AcceptedStamps DEF Lands, Sound
    <3>3. ASSUME ~verify'[j] \/ ~MayPrune, NEW h \in Nodes PROVE ~Newer(view'[j][h].entry.stamp, e.stamp)
      <4>1. (~verify[j] \/ ~MayPrune) /\ (applied[j] # Zero \/ ~MayPrune)
        BY <2>1, <2>4, <3>3, ConstantsAssumption DEF Converging
      <4>2. ~Newer(view[j][h].entry.stamp, e.stamp) BY <3>1, <3>2, <4>1, KnownIsOlder
      <4>3. ~Newer(e.stamp, e.stamp) BY <3>2, StampOrder
      <4> QED BY <2>1, <2>4, <4>2, <4>3
    <3>4. IsLatest(j, e)' BY <2>1, <2>4, <3>3, LatestLands
    <3> QED BY <3>4
  <2> QED BY <2>1, <2>2, <2>3, <2>4
<1>13. ASSUME NEW e \in log, Lapse(e.exp) PROVE \E d : IsLatest(j, d)'
  BY <1>13, <1>a DEF Lapse, node
<1>14. CASE UNCHANGED vars
  BY <1>14, <1>a DEF vars, node
<1> QED
  BY <1>1, <1>2, <1>3, <1>4, <1>5, <1>6, <1>7, <1>8, <1>9, <1>10, <1>11, <1>12, <1>13, <1>14 DEF Next


-----------------------------------------------------------------------------
(* No accepted write is lost.  While nothing was shed, no write expired     *)
(* unheard of and no node stopped, some node holds it or a newer one, in a  *)
(* thread, its queue, its batch or its own state; or every node has         *)
(* recorded it or a newer one, and the sweep has removed it.                *)

Whole == up = Nodes /\ NothingLost

Holds(n, s) ==
  \/ ~Newer(s, pending[n].stamp)
  \/ ~Newer(s, batch[n].op.stamp)
  \/ ~Newer(s, view[n][n].entry.stamp)
  \/ \E w \in Workers : Home(w) = n /\ worker[w].pc = "applied" /\ ~Newer(s, worker[w].stamp)

Recorded(s) == ~MayPrune /\ \A n \in Nodes : ~Newer(s, applied[n])

Safe(s) == Recorded(s) \/ \E n \in Nodes : Holds(n, s)

Carried == Whole => \A e \in log : Safe(e.stamp)

\* Whoever holds a write holds the older ones.
LEMMA HoldsOlder ==
  ASSUME TypeOK, NEW n \in Nodes, NEW s \in Stamp, NEW t \in Stamp, ~Newer(s, t), Holds(n, t)
  PROVE  Holds(n, s)
<1>1. /\ {pending[n].stamp, batch[n].op.stamp, view[n][n].entry.stamp} \subseteq Stamp
      /\ \A w \in Workers : worker[w].stamp \in Stamp
  BY StampsTyped
<1> QED BY <1>1, StampOrder DEF Holds

\* A step keeps every write safe if it does so for the writes some node holds.
LEMMA CarriedKept ==
  ASSUME TypeOK, TypeOK', StampInv, Carried, Whole' => Whole, log' = log,
         ~MayPrune => \A n \in Nodes : ~Newer(applied[n], applied'[n]),
         ASSUME Whole', NEW e \in log, NEW n \in Nodes, Holds(n, e.stamp) PROVE Safe(e.stamp)'
  PROVE  Carried'
<1> SUFFICES ASSUME Whole', NEW e \in log PROVE Safe(e.stamp)'
  BY DEF Carried
<1>1. CASE Recorded(e.stamp)
  <2>1. e.stamp \in Stamp BY AcceptedStamps
  <2>2. \A n \in Nodes : applied[n] \in Stamp /\ applied'[n] \in Stamp BY DEF TypeOK
  <2> QED BY <1>1, <2>1, <2>2, StampOrder DEF Recorded, Safe
<1>2. CASE \E n \in Nodes : Holds(n, e.stamp) BY <1>2
<1> QED BY <1>1, <1>2 DEF Carried, Safe

\* A retirement never takes the last copy: the write that superseded the own
\* entry is safe elsewhere (the drain's set_if_newer and retirement).
LEMMA DrainKeepsWrites ==
  ASSUME Sound, TypeOK', DeadlineInv, QueueInv, Carried, NEW n \in Nodes, ApplyBatch(n)
  PROVE  Carried'
<1> DEFINE own == view[n][n].entry
           op == batch[n].op
           ret == batch[n].ret
           set == SetIfNewer(own, op)
<1>1. /\ view'[n][n].entry = Drained(n)
      /\ \A i, j \in Nodes : i # n \/ j # n => view'[i][j] = view[i][j]
      /\ batch'[n] = NoBatch /\ \A k \in Nodes \ {n} : batch'[k] = batch[k]
      /\ lost' = (lost \/ ExpiredInQueue(n))
      /\ UNCHANGED <<node, pending, shed, worker, up, log>>
  BY ApplyBatchEffect DEF Sound
<1>2. /\ {own.stamp, op.stamp, ret} \subseteq Stamp
      /\ \A k \in Nodes : applied[k] \in Stamp
  BY StampsTyped DEF Sound
<1>3. Whole' => Whole BY <1>1 DEF Whole, NothingLost
<1>4. \A k \in Nodes : ~Newer(applied[k], applied'[k]) BY <1>1, <1>2, StampOrder DEF node
<1>5. ASSUME Whole', NEW e \in log, NEW k \in Nodes, Holds(k, e.stamp) PROVE Safe(e.stamp)'
  <2>1. e.stamp \in Stamp BY AcceptedStamps DEF Sound
  <2>2. op.exp \notin lapsed \/ ~Newer(op.stamp, own.stamp)
    BY <1>1, <1>5 DEF ExpiredInQueue, Whole, NothingLost
  <2>3. set.stamp \in Stamp /\ ~Newer(own.stamp, set.stamp) /\ ~Newer(op.stamp, set.stamp)
    BY <1>2, <2>2, StampOrder DEF SetIfNewer
  <2>4. ASSUME NEW i \in Nodes \ {n}, NEW s, Holds(i, s) PROVE Holds(i, s)'
    BY <1>1, <2>4 DEF Holds
  <2>5. ASSUME NEW s, Holds(n, s), Newer(s, op.stamp), Newer(s, own.stamp) PROVE Holds(n, s)'
    BY <1>1, <2>5 DEF Holds
  <2>6. CASE Drained(n) = set
    <3>1. CASE k # n BY <1>5, <2>4, <3>1 DEF Safe
    <3>2. CASE k = n /\ (Newer(e.stamp, op.stamp) /\ Newer(e.stamp, own.stamp))
      BY <1>5, <2>5, <3>2 DEF Safe
    <3>3. CASE k = n /\ ~(Newer(e.stamp, op.stamp) /\ Newer(e.stamp, own.stamp))
      <4>1. ~Newer(e.stamp, set.stamp) BY <1>2, <2>1, <2>3, <3>3, StampOrder
      <4>2. Holds(n, e.stamp)' BY <1>1, <2>6, <4>1 DEF Holds
      <4> QED BY <4>2 DEF Safe
    <3> QED BY <3>1, <3>2, <3>3
  <2>7. CASE Drained(n) # set
    <3>1. Newer(ret, set.stamp) BY <2>7 DEF Drained, RetireOwn
    <3>2. ret # Zero BY <2>3, <3>1, StampOrder
    <3>3. PICK g \in log : g.stamp = ret BY <3>2 DEF QueueInv, Retiring, Superseding
    <3>4. Safe(g.stamp) BY <1>3, <1>5, <3>3 DEF Carried
    <3>5. g.stamp \in Stamp /\ Newer(g.stamp, op.stamp) /\ Newer(g.stamp, own.stamp)
      BY <1>2, <2>3, <3>1, <3>3, StampOrder
    <3>6. CASE k # n BY <1>5, <2>4, <3>6 DEF Safe
    <3>7. CASE k = n /\ (Newer(e.stamp, op.stamp) /\ Newer(e.stamp, own.stamp))
      BY <1>5, <2>5, <3>7 DEF Safe
    <3>8. CASE k = n /\ ~(Newer(e.stamp, op.stamp) /\ Newer(e.stamp, own.stamp))
      <4>1. ~Newer(e.stamp, g.stamp) BY <1>2, <2>1, <3>5, <3>8, StampOrder
      <4>2. CASE Recorded(g.stamp)
        <5>1. Recorded(e.stamp)' BY <1>1, <1>2, <2>1, <3>5, <4>1, <4>2, StampOrder DEF Recorded, node
        <5> QED BY <5>1 DEF Safe
      <4>3. ASSUME NEW i \in Nodes \ {n}, Holds(i, g.stamp) PROVE Safe(e.stamp)'
        <5>1. Holds(i, e.stamp) BY <2>1, <3>5, <4>1, <4>3, HoldsOlder DEF Sound
        <5> QED BY <2>4, <5>1 DEF Safe
      <4>4. CASE Holds(n, g.stamp)
        <5>1. \/ ~Newer(g.stamp, pending[n].stamp)
              \/ \E w \in Workers : Home(w) = n /\ worker[w].pc = "applied" /\ ~Newer(g.stamp, worker[w].stamp)
          BY <3>5, <4>4 DEF Holds
        <5>2. pending[n].stamp \in Stamp /\ \A w \in Workers : worker[w].stamp \in Stamp
          BY StampsTyped DEF Sound
        <5>3. Holds(n, e.stamp)' BY <1>1, <2>1, <3>5, <4>1, <5>1, <5>2, StampOrder DEF Holds
        <5> QED BY <5>3 DEF Safe
      <4> QED BY <3>4, <4>2, <4>3, <4>4 DEF Safe
    <3> QED BY <3>6, <3>7, <3>8
  <2> QED BY <2>6, <2>7
<1> QED BY <1>1, <1>3, <1>4, <1>5, CarriedKept DEF Sound


\* The sweep removes a marker only when every node has recorded its write.
LEMMA SweepKeepsWrites ==
  ASSUME Converging, Sound, TypeOK', DeadlineInv, LatestInv, Carried, NEW n \in Nodes, Sweep(n)
  PROVE  Carried'
<1> DEFINE own == view[n][n].entry
<1>1. /\ view'[n][n].entry = NoEntry
      /\ \A i, j \in Nodes : i # n \/ j # n => view'[i][j] = view[i][j]
      /\ lost' = (lost \/ \E m \in up : view[m][n] # view[n][n])
      /\ UNCHANGED <<node, queue, worker, up, log>>
  BY SweepEffect DEF Sound
<1>2. own \in log BY DEF Sweep, IsGarbage, Sound, CopyInv, TrafficAccepted, Accepted
<1>3. "setex" \in Commands /\ ~MayPrune
  <2>1. own.exp \in lapsed BY <1>2 DEF Sweep, IsGarbage, DeadlineInv, Timed
  <2>2. own.exp # Zero BY <2>1 DEF DeadlineInv
  <2> QED BY <1>2, <2>2 DEF DeadlineInv, Timed, Converging
<1>4. \A k \in Nodes : applied[k] \in Stamp /\ view[k][n].entry.stamp \in Stamp BY StampsTyped DEF Sound
<1>5. Whole' => Whole BY <1>1 DEF Whole, NothingLost, queue
<1>6. \A k \in Nodes : ~Newer(applied[k], applied'[k]) BY <1>1, <1>4, StampOrder DEF node
<1>7. ASSUME Whole', NEW e \in log, NEW k \in Nodes, Holds(k, e.stamp) PROVE Safe(e.stamp)'
  <2>1. CASE k = n /\ ~Newer(e.stamp, own.stamp)
    <3>1. \A m \in Nodes : view[m][n].entry = own BY <1>1, <1>7 DEF Whole, NothingLost
    <3>2. \A m \in Nodes : ~Newer(view[m][n].entry.stamp, applied[m]) BY <1>3 DEF LatestInv, IsLatest
    <3>3. e.stamp \in Stamp BY AcceptedStamps DEF Sound
    <3>4. \A m \in Nodes : ~Newer(e.stamp, applied[m]) BY <1>4, <2>1, <3>1, <3>2, <3>3, StampOrder
    <3>5. Recorded(e.stamp)' BY <1>1, <1>3, <3>4 DEF Recorded, node
    <3> QED BY <3>5 DEF Safe
  <2>2. CASE k # n \/ Newer(e.stamp, own.stamp)
    <3>1. Holds(k, e.stamp)' BY <1>1, <1>7, <2>2 DEF Holds, queue
    <3> QED BY <3>1 DEF Safe
  <2> QED BY <2>1, <2>2
<1> QED BY <1>1, <1>5, <1>6, <1>7, CarriedKept DEF Sound

\* Every step keeps every accepted write safe.
LEMMA StepCarried ==
  ASSUME Converging, Sound, DeadlineInv, QueueInv, LatestInv, Carried, [Next]_vars, TypeOK'
  PROVE  Carried'
<1>0. Idle.pc = "idle" /\ NoEntry.stamp = Zero /\ NoBatch.op = NoEntry BY DEF Idle, NoEntry, NoBatch
<1>t. /\ \A n \in Nodes : {applied[n], pending[n].stamp, batch[n].op.stamp} \subseteq Stamp
      /\ \A w \in Workers : Home(w) \in Nodes /\ worker[w].stamp \in Stamp
  BY StampsTyped DEF Sound
<1>s. \A n \in Nodes : ~Newer(applied[n], applied[n]) BY <1>t, StampOrder
<1>a. ASSUME UNCHANGED <<pending, batch, shed, up, lost, log>>,
             \A n \in Nodes : view'[n][n] = view[n][n],
             \A w \in Workers : worker[w].pc = "applied" => worker'[w] = worker[w],
             ~MayPrune => \A n \in Nodes : ~Newer(applied[n], applied'[n])
      PROVE  Carried'
  <2>1. \A n \in Nodes, e \in log : Holds(n, e.stamp) => Holds(n, e.stamp)' BY <1>a DEF Holds
  <2>2. Whole' => Whole BY <1>a DEF Whole, NothingLost
  <2>3. ASSUME Whole', NEW e \in log, NEW n \in Nodes, Holds(n, e.stamp) PROVE Safe(e.stamp)'
    BY <2>1, <2>3 DEF Safe
  <2> QED BY <1>a, <2>2, <2>3, CarriedKept DEF Sound
<1>1. ASSUME NEW w \in Workers, Issue(w) PROVE Carried'
  <2>1. worker[w].pc = "idle" BY <1>1 DEF Issue, Begin
  <2>2. \A v \in Workers \ {w} : worker'[v] = worker[v] BY <1>1, IssueEffect
  <2>3. UNCHANGED <<applied, queue, view, up, lost, log>> BY <1>1, IssueEffect
  <2> QED BY <1>a, <1>s, <2>1, <2>2, <2>3 DEF queue
<1>2. ASSUME NEW w \in Workers, Incr(w) \/ StampPublished(w) PROVE Carried'
  BY <1>2 DEF Incr, StampPublished, Converging, Sound, CopyInv, TrafficAccepted
<1>3. ASSUME NEW w \in Workers, ApplyLocal(w) PROVE Carried'
  <2> DEFINE n == Home(w)
  <2>0. PICK f : f = EntryOf(w, worker[w].val) OBVIOUS
  <2>1. /\ worker[w].pc = "stamped" /\ Newer(f.stamp, applied[n]) /\ f.stamp = worker[w].stamp
        /\ log' = log \cup {f}
        /\ applied'[n] = f.stamp
        /\ \A k \in Nodes \ {n} : applied'[k] = applied[k]
        /\ worker'[w] = [worker[w] EXCEPT !.pc = "applied"]
        /\ \A v \in Workers \ {w} : worker'[v] = worker[v]
        /\ UNCHANGED <<queue, view, up, lost>>
    BY <1>3, <2>0, ApplyLocalEffect
  <2>2. worker'[w].pc = "applied" /\ worker'[w].stamp = f.stamp BY <2>1 DEF Sound, TypeOK, Worker
  <2>3. \A k \in Nodes : ~Newer(applied[k], applied'[k]) BY <1>t, <1>s, <2>1, StampOrder
  <2>4. SUFFICES ASSUME Whole', NEW e \in log' PROVE Safe(e.stamp)'
    BY DEF Carried
  <2>5. Whole BY <2>1, <2>4 DEF Whole, NothingLost, queue
  <2>6. CASE e = f
    <3>1. ~Newer(f.stamp, f.stamp) BY <1>t, <2>1, StampOrder
    <3>2. Holds(n, e.stamp)' BY <2>2, <2>6, <3>1 DEF Holds
    <3> QED BY <1>t, <3>2 DEF Safe
  <2>7. CASE e \in log
    <3>1. e.stamp \in Stamp BY <2>7, AcceptedStamps DEF Sound
    <3>2. CASE Recorded(e.stamp)
      <4>1. \A k \in Nodes : applied'[k] \in Stamp BY DEF TypeOK
      <4>2. Recorded(e.stamp)' BY <1>t, <2>3, <3>1, <3>2, <4>1, StampOrder DEF Recorded
      <4> QED BY <4>2 DEF Safe
    <3>3. ASSUME NEW k \in Nodes, Holds(k, e.stamp) PROVE Safe(e.stamp)'
      <4>1. Holds(k, e.stamp)' BY <2>1, <3>3 DEF Holds, queue
      <4> QED BY <4>1 DEF Safe
    <3> QED BY <2>5, <2>7, <3>2, <3>3 DEF Carried, Safe
  <2> QED BY <2>1, <2>6, <2>7
<1>4. ASSUME NEW w \in Workers, SkipLocal(w) PROVE Carried'
  <2>1. worker[w].pc = "stamped" /\ \A v \in Workers \ {w} : worker'[v] = worker[v]
    BY <1>4 DEF SkipLocal, Sound, TypeOK
  <2> QED BY <1>4, <1>a, <1>s, <2>1 DEF SkipLocal, node, queue
<1>5. ASSUME NEW w \in Workers, Publish(w) PROVE Carried'
  <2> DEFINE n == Home(w)
  <2>0. PICK f : f = EntryOf(w, worker[w].val) OBVIOUS
  <2>1. /\ f \in log /\ f.stamp = worker[w].stamp
        /\ worker'[w] = Idle /\ \A v \in Workers \ {w} : worker'[v] = worker[v]
        /\ \A k \in Nodes \ {n} : pending'[k] = pending[k]
        /\ ~Newer(pending[n].stamp, pending'[n].stamp)
        /\ (\A k \in Nodes : shed'[k] = 0) =>
             (\A k \in Nodes : shed[k] = 0) /\ ~Newer(f.stamp, pending'[n].stamp)
        /\ UNCHANGED <<applied, batch, view, up, lost, log>>
    BY <1>5, <2>0, PublishEffect
  <2>2. Whole' => Whole /\ ~Newer(f.stamp, pending'[n].stamp) BY <2>1 DEF Whole, NothingLost
  <2>3. pending'[n].stamp \in Stamp BY <1>t DEF TypeOK, Entry
  <2>4. ASSUME Whole', NEW e \in log, NEW k \in Nodes, Holds(k, e.stamp) PROVE Safe(e.stamp)'
    <3>1. e.stamp \in Stamp BY AcceptedStamps DEF Sound
    <3>2. CASE k # n
      <4>1. Holds(k, e.stamp)' BY <2>1, <2>4, <3>2 DEF Holds
      <4> QED BY <4>1 DEF Safe
    <3>3. CASE k = n
      <4>1. Holds(n, e.stamp)' BY <1>t, <2>1, <2>2, <2>3, <2>4, <3>1, <3>3, StampOrder DEF Holds
      <4> QED BY <1>t, <4>1 DEF Safe
    <3> QED BY <3>2, <3>3
  <2> QED BY <1>s, <2>1, <2>2, <2>4, CarriedKept DEF Sound
<1>6. ASSUME NEW n \in Nodes, TakeBatch(n) PROVE Carried'
  <2>1. /\ batch[n] = NoBatch
        /\ batch'[n] = [op |-> pending[n], ret |-> retire[n]] /\ pending'[n] = NoEntry
        /\ \A k \in Nodes \ {n} : pending'[k] = pending[k] /\ batch'[k] = batch[k]
        /\ UNCHANGED <<node, shed, view, worker, up, lost, log>>
    BY <1>6, TakeBatchEffect DEF Sound
  <2>2. batch'[n].op = pending[n] /\ batch[n].op = pending'[n] BY <1>0, <2>1
  <2>3. \A k \in Nodes, e \in log : Holds(k, e.stamp) => Holds(k, e.stamp)'
    BY <2>1, <2>2 DEF Holds
  <2>4. Whole' => Whole BY <2>1 DEF Whole, NothingLost
  <2>5. ASSUME Whole', NEW e \in log, NEW k \in Nodes, Holds(k, e.stamp) PROVE Safe(e.stamp)'
    BY <2>3, <2>5 DEF Safe
  <2> QED BY <1>s, <2>1, <2>4, <2>5, CarriedKept DEF Sound, node
<1>7. ASSUME NEW n \in Nodes, ApplyBatch(n) PROVE Carried' BY <1>7, DrainKeepsWrites
<1>8. ASSUME NEW n \in Nodes, Sweep(n) PROVE Carried' BY <1>8, SweepKeepsWrites
<1>9. ASSUME NEW n \in Nodes, Verify(n) PROVE Carried'
  <2>1. /\ UNCHANGED <<queue, view, worker, up, lost, log>>
        /\ \E e : Lands(n, e) \/ UNCHANGED <<applied, store>>
    BY <1>9, VerifyEffect
  <2>2. \A k \in Nodes : ~Newer(applied[k], applied'[k]) BY <1>s, <2>1, LandingAdvances DEF Sound
  <2> QED BY <1>a, <2>1, <2>2 DEF queue
<1>10. ASSUME NEW n \in Nodes, Prune(n) PROVE Carried'
  BY <1>10, <1>a DEF Prune, queue
<1>11. ASSUME NEW n \in Nodes, Crash(n) PROVE Carried'
  <2>1. up' # Nodes BY <1>11 DEF Crash
  <2> QED BY <2>1 DEF Carried, Whole, NothingLost
<1>12. ASSUME NEW m \in Nodes, NEW k \in Nodes, NEW n \in Nodes, Gossip(m, k, n) PROVE Carried'
  <2> DEFINE e == view[k][n].entry
  <2>1. /\ m # n
        /\ \A i, j \in Nodes : i # m \/ j # n => view'[i][j] = view[i][j]
        /\ Lands(m, e) \/ UNCHANGED <<applied, store, verify>>
        /\ UNCHANGED <<pending, batch, shed, worker, up, lost, log>>
    BY <1>12, GossipEffect
  <2>2. \A i \in Nodes : ~Newer(applied[i], applied'[i]) BY <1>s, <2>1, LandingAdvances DEF Sound
  <2>3. \A i \in Nodes : view'[i][i] = view[i][i] BY <2>1
  <2> QED BY <1>a, <2>1, <2>2, <2>3
<1>13. ASSUME NEW e \in log, Lapse(e.exp) PROVE Carried'
  BY <1>13, <1>a, <1>s DEF Lapse, node, queue
<1>14. CASE UNCHANGED vars
  BY <1>14, <1>a, <1>s DEF vars, node, queue
<1> QED
  BY <1>1, <1>2, <1>3, <1>4, <1>5, <1>6, <1>7, <1>8, <1>9, <1>10, <1>11, <1>12, <1>13, <1>14 DEF Next


ConvInv == Sound /\ DeadlineInv /\ QueueInv /\ LatestInv /\ Carried

\* The invariant holds at the start and through every step.
LEMMA ConvInvariant == ASSUME Converging PROVE Spec => []ConvInv
<1>1. Init => ConvInv
  <2> SUFFICES ASSUME Init PROVE ConvInv
    OBVIOUS
  <2> USE ConstantTypes
  <2>0. lost \in BOOLEAN BY DEF Init
  <2>1. TypeOK BY <2>0 DEF Init, TypeOK, Versioned
  <2>2. StampInv BY DEF Init, StampInv, OneWritePerStamp, StampsBelowClock, Idle
  <2>3. CopyInv BY DEF Init, CopyInv, TrafficAccepted, Accepted, Idle, NoBatch
  <2>4. DeadlineInv
    BY DEF Init, DeadlineInv, Idle
  <2>5. ~Newer(Zero, Zero) BY StampOrder
  <2>6. QueueInv
    BY <2>5 DEF Init, QueueInv, Passed, Retiring, Superseding, NoEntry, NoBatch, Idle
  <2>7. LatestInv
    <3>1. ASSUME NEW n \in Nodes PROVE IsLatest(n, NoEntry)
      <4>1. Accepted(NoEntry) /\ Reads(n, NoEntry) BY DEF Init, Accepted, Reads, CopyOf, NoEntry, NoCopy
      <4> QED BY <2>5, <4>1 DEF Init, IsLatest, NoEntry, Idle, Zero
    <3> QED BY <3>1 DEF LatestInv
  <2>8. Carried BY DEF Init, Carried
  <2> QED BY <2>1, <2>2, <2>3, <2>4, <2>6, <2>7, <2>8 DEF ConvInv, Sound
<1>2. ConvInv /\ [Next]_vars => ConvInv'
  <2> SUFFICES ASSUME ConvInv, [Next]_vars PROVE ConvInv'
    OBVIOUS
  <2>1. Sound /\ DeadlineInv /\ QueueInv /\ LatestInv /\ Carried BY DEF ConvInv
  <2>2. Commands \subseteq {"set", "setex", "del"} BY DEF Converging
  <2>3. TypeOK' /\ StampInv' /\ CopyInv' BY <2>1, <2>2, StepTypeOK, StepStampInv, StepCopyInv DEF Sound
  <2>4. DeadlineInv' BY <2>1, StepDeadlineInv
  <2>5. QueueInv' BY <2>1, <2>3, StepQueueInv
  <2>6. LatestInv' BY <2>1, <2>3, StepLatestInv
  <2>7. Carried' BY <2>1, <2>3, StepCarried
  <2> QED BY <2>3, <2>4, <2>5, <2>6, <2>7 DEF ConvInv, Sound
<1> QED BY <1>1, <1>2, PTL DEF Spec

\* When nothing is on its way, what a node's copy reads as is the newest write
\* any node accepted.
LEMMA AtRestTheNewest ==
  ASSUME ConvInv, Quiescent, Whole, NEW m \in Nodes, NEW d, IsLatest(m, d), NEW e \in log
  PROVE  ~Newer(e.stamp, d.stamp)
<1>1. e.stamp \in Stamp /\ Newer(e.stamp, Zero) BY AcceptedStamps DEF ConvInv, Sound
<1>2. d.stamp \in Stamp
  BY AcceptedStamps, ConstantTypes DEF ConvInv, Sound, IsLatest, Accepted, NoEntry, Stamp
<1>3. \A n \in Nodes : QuietAt(n) /\ view[n] = view[m] BY DEF Quiescent, Whole, NothingLost
<1>4. CASE Recorded(e.stamp) BY <1>4 DEF Recorded, IsLatest
<1>5. ASSUME NEW n \in Nodes, Holds(n, e.stamp) PROVE ~Newer(e.stamp, d.stamp)
  <2>1. pending[n].stamp = Zero /\ batch[n].op.stamp = Zero BY <1>3 DEF QuietAt, NoBatch, NoEntry
  <2>2. \A w \in Workers : Home(w) = n => worker[w].pc = "idle" BY <1>3 DEF QuietAt, Idle
  <2>3. ~Newer(e.stamp, view[n][n].entry.stamp) BY <1>1, <1>5, <2>1, <2>2 DEF Holds
  <2>4. view[m][n].entry.stamp = view[n][n].entry.stamp /\ view[m][n].entry.stamp \in Stamp
    BY <1>3, StampsTyped DEF ConvInv, Sound
  <2>5. ~verify[m] BY <1>3 DEF QuietAt
  <2>6. ~Newer(view[m][n].entry.stamp, d.stamp) BY <2>5 DEF IsLatest
  <2> QED BY <1>1, <1>2, <2>3, <2>4, <2>6, StampOrder
<1> QED BY <1>4, <1>5 DEF ConvInv, Carried, Safe

\* The last write a node has on record is the newest any node accepted, once
\* nothing is on its way, every node runs and nothing was lost (shed, expired or
\* swept before a peer heard of it): through threads, coalescing queues, batches,
\* retirements, relays and pruned records, for any number of nodes and threads
\* (NewestWriteWins).
THEOREM TheNewestWins == ASSUME Converging PROVE Spec => []NewestWriteWins
<1>1. ConvInv => NewestWriteWins
  <2> SUFFICES ASSUME ConvInv, Quiescent, Whole, NEW n \in Nodes, NEW e \in log, applied[n] # Zero
               PROVE  ~Newer(e.stamp, applied[n])
    BY DEF NewestWriteWins, Whole, NothingLost
  <2>1. PICK d : IsLatest(n, d) BY DEF ConvInv, LatestInv
  <2>2. applied[n] = d.stamp BY <2>1 DEF IsLatest
  <2> QED BY <2>1, <2>2, AtRestTheNewest
<1> QED BY <1>1, ConvInvariant, PTL

\* Every node reads the same value once nothing is on its way and nothing was
\* lost, as long as no node stops (StoresConverge): "every node converge on one
\* winner", for any number of nodes and threads and whatever the clocks read.
THEOREM ReplicasConverge ==
  ASSUME Converging, ~MayCrash
  PROVE  Spec => []StoresConverge
<1>1. Init => up = Nodes BY DEF Init
<1>2. up = Nodes /\ [Next]_vars => (up = Nodes)'
  BY DEF Next, vars, Issue, Begin, Incr, StampPublished, TakeStamp, ApplyLocal, SkipLocal, Publish,
         TakeBatch, ApplyBatch, Sweep, Verify, Prune, Crash, Gossip, Lapse
<1>3. Spec => [](up = Nodes) BY <1>1, <1>2, PTL DEF Spec
<1>4. ConvInv /\ up = Nodes => StoresConverge
  <2> SUFFICES ASSUME ConvInv, Quiescent, Whole, NEW m \in Nodes, NEW k \in Nodes
               PROVE  Visible(m) = Visible(k)
    BY DEF StoresConverge, Whole, NothingLost
  <2>1. PICK d : IsLatest(m, d) BY DEF ConvInv, LatestInv
  <2>2. PICK e : IsLatest(k, e) BY DEF ConvInv, LatestInv
  <2>3. Accepted(d) /\ Accepted(e) BY <2>1, <2>2 DEF IsLatest
  <2>4. d = e
    <3>1. CASE d \in log /\ e \in log
      <4>1. ~Newer(d.stamp, e.stamp) /\ ~Newer(e.stamp, d.stamp) BY <2>1, <2>2, <3>1, AtRestTheNewest
      <4>2. d.stamp = e.stamp BY <3>1, <4>1, AcceptedStamps, StampOrder DEF ConvInv, Sound
      <4> QED BY <3>1, <4>2 DEF ConvInv, Sound, StampInv, OneWritePerStamp
    <3>2. CASE d = NoEntry /\ e = NoEntry BY <3>2
    <3>3. \A f \in log : Newer(f.stamp, Zero) BY AcceptedStamps DEF ConvInv, Sound
    <3>4. NoEntry.stamp = Zero BY DEF NoEntry
    <3> QED BY <2>1, <2>2, <2>3, <3>1, <3>2, <3>3, <3>4, AtRestTheNewest DEF Accepted
  <2>5. Zero \notin lapsed BY DEF ConvInv, DeadlineInv
  <2>6. ASSUME NEW n \in Nodes, Reads(n, d)
        PROVE  Visible(n) = IF d.exp \in lapsed THEN Gone ELSE d.val
    BY <2>5, <2>6 DEF Reads, Visible, CopyOf, NoCopy
  <2> QED BY <2>1, <2>2, <2>4, <2>6 DEF IsLatest
<1> QED BY <1>3, <1>4, ConvInvariant, PTL
=============================================================================
