--------------------------- MODULE HandoffProofs ----------------------------
(***************************************************************************)
(* Proofs about Handoff, for any callers and threads, any capacity and any *)
(* number of retirements.                                                  *)
(*                                                                         *)
(* The argument follows a delivery.  A thread that waits is on the idle    *)
(* stack or owed a delivery by exactly one party, until its mailbox turns  *)
(* READY; a mailbox holds a job only from the store to the take.  What is  *)
(* left over of a delivery is the unpark, which may come when the thread   *)
(* is long elsewhere and concerns nobody but a thread that still sleeps.   *)
(***************************************************************************)
EXTENDS Handoff, SeqLemmas, FiniteSetTheorems

CallerPlaces == {"new", "full", "counted", "enabled", "asleep", "baton", "enough",
                 "done", "refused", "closing"}
ThreadPlaces == {"recv", "closed", "announced", "parked", "asleep", "take", "work",
                 "gone", "dropWait", "dropTake", "reroute", "rerouting"}
Waiting == {"announced", "parked", "asleep", "dropWait"}
AcceptedPlaces == {"done", "baton", "enough"}

\* TypeOK without the bound of the queue, and the places.
Types ==
    /\ queue \in Seq(Callers)
    /\ idle \in Seq(Threads) /\ closed \in BOOLEAN
    /\ slot \in [Threads -> {"READY", "PARKED"} \cup Announced]
    /\ mail \in [Threads -> Callers \cup {NoJob}]
    /\ held \in [Threads -> Callers \cup {NoJob}]
    /\ token \in [Threads -> BOOLEAN]
    /\ out \in [Parties -> Seq(Threads)]
    /\ dpc \in [Parties -> {"store", "swap", "unpark"}]
    /\ permit \in BOOLEAN /\ line \in Seq(Callers)
    /\ ntf \in [Callers -> {"none", "wait", "one", "all", "consumed"}]
    /\ cpc \in [Callers \cup {Closer} -> CallerPlaces]
    /\ tpc \in [Threads -> ThreadPlaces]
    /\ served \subseteq Callers /\ deaths \in 0..MaxDeaths

\* The threads party p still has to deliver to; a head that only waits for its
\* unpark has got its delivery.
Owed(p) == IF dpc[p] = "unpark" THEN ToSet(Tail(out[p])) ELSE ToSet(out[p])

\* Deliveries are made by a caller that was accepted, a thread that re-routes
\* its job and the closer, one thread at a time.
OutShape ==
    /\ \A p \in Parties : IsInjective(out[p]) /\ (out[p] = <<>> => dpc[p] = "store")
    /\ \A c \in Callers : cpc[c] \notin AcceptedPlaces => out[c] = <<>>
    /\ \A t \in Threads : tpc[t] # "rerouting" => out[t] = <<>>
    /\ cpc[Closer] = "new" => out[Closer] = <<>>

\* No thread is owed two deliveries.
OwedApart == \A p, q \in Parties : p # q => Owed(p) \cap Owed(q) = {}

\* A thread that is owed a delivery waits for it, off the idle stack, with an
\* empty mailbox until the parcel is stored.
OwedWait ==
    \A p \in Parties : \A t \in Owed(p) :
        /\ t \notin ToSet(idle) /\ tpc[t] \in Waiting /\ slot[t] # "READY"
        /\ mail[t] = IF dpc[p] = "swap" /\ t = Head(out[p]) THEN Parcel(p) ELSE NoJob

\* A thread on the idle stack is there once, waits, and nobody has written to it.
IdleWait ==
    /\ IsInjective(idle)
    /\ \A t \in ToSet(idle) :
         tpc[t] \in Waiting \ {"dropWait"} /\ slot[t] # "READY" /\ mail[t] = NoJob

\* A thread that waits can be found: it is idle or owed a delivery.
WaitersFound ==
    \A t \in Threads : tpc[t] \in Waiting /\ slot[t] # "READY" =>
        t \in ToSet(idle) \/ \E p \in Parties : t \in Owed(p)

\* A thread that sleeps announced the park, so the party that makes its mailbox
\* READY sees it and unparks it.
Parks ==
    \A t \in Threads :
        /\ tpc[t] \in {"parked", "asleep"} => slot[t] \in {"PARKED", "READY"}
        /\ tpc[t] = "asleep" /\ slot[t] = "READY" =>
             token[t] \/ \E p \in Parties : /\ dpc[p] = "unpark" /\ out[p] # <<>>
                                            /\ Head(out[p]) = t

\* A thread has a job in its hands only to run or to re-route it, and one in
\* its mailbox only while it waits for it or is about to take it.
HandPlaces ==
    \A t \in Threads :
        /\ held[t] # NoJob <=> tpc[t] \in {"work", "reroute", "rerouting"}
        /\ mail[t] # NoJob => tpc[t] \in Waiting \cup {"take", "dropTake"}

\* Every job in the dispatcher was accepted.
AcceptedJobs == {c \in Callers : cpc[c] \in AcceptedPlaces}
JobsAccepted ==
    /\ ToSet(queue) \subseteq AcceptedJobs /\ served \subseteq AcceptedJobs
    /\ \A t \in Threads : {held[t], mail[t]} \subseteq AcceptedJobs \cup {NoJob}

\* A job beyond the capacity came from a thread that retired.
Dropping == {t \in Threads : tpc[t] \in {"dropWait", "dropTake", "reroute", "rerouting"}}
QueueBound ==
    /\ IsFiniteSet(Dropping) /\ Cardinality(Dropping) <= deaths
    /\ Len(queue) + Cardinality(Dropping) <= Capacity + deaths

\* A job is delivered to one thread; only a close has many to wake.
OneParcel == \A p \in Parties \ {Closer} : out[p] # <<>> => Tail(out[p]) = <<>>

\* The inductive invariant.
HandInv ==
    /\ Types /\ OutShape /\ OwedApart /\ OwedWait /\ IdleWait /\ WaitersFound /\ Parks
    /\ HandPlaces /\ JobsAccepted /\ QueueBound /\ IdleOnlyWhenEmpty /\ OneParcel

-----------------------------------------------------------------------------
(* Operators.                                                              *)

\* take_idle finds a thread when there is one.
LEMMA TakeIdleFinds ==
    ASSUME idle \in Seq(Threads), idle # <<>>
    PROVE  TakeIdle \in 1..Len(idle)
<1>1. Len(idle) \in Nat \ {0}
  BY EmptySeq, LenProperties
<1>2. CASE Spinning = {}
  BY <1>1, <1>2 DEF TakeIdle
<1>3. CASE Spinning # {}
  <2>1. Spinning \subseteq 1..Len(idle)
    BY DEF Spinning
  <2>a. IsFiniteSet(1..Len(idle))
    BY <1>1, FS_Interval
  <2>b. IsFiniteSet(Spinning)
    BY <2>1, <2>a, FS_Subset
  <2>2. IsFiniteSet(Spinning) /\ Spinning \subseteq Nat
    BY <1>1, <2>1, <2>b
  <2>3. \E i \in Spinning : \A k \in Spinning : i >= k
    BY <1>3, <2>2, HighestExists
  <2>4. \E i \in Spinning : \A k \in Spinning : k <= i
    BY <2>2, <2>3
  <2>5. TakeIdle \in Spinning
    BY <1>3, <2>4 DEF TakeIdle
  <2> QED BY <2>1, <2>5
<1> QED BY <1>2, <1>3

\* retain takes one element away.
LEMMA WithoutEffect ==
    ASSUME NEW S, NEW s \in Seq(S), NEW x, IsInjective(s)
    PROVE  /\ Without(s, x) \in Seq(S) /\ IsInjective(Without(s, x))
           /\ ToSet(Without(s, x)) = ToSet(s) \ {x}
<1>1. CASE x \notin ToSet(s)
  BY <1>1 DEF Without
<1>2. CASE x \in ToSet(s)
  <2> DEFINE i == CHOOSE j \in DOMAIN s : s[j] = x
  <2>1. i \in DOMAIN s /\ s[i] = x
    BY <1>2 DEF ToSet
  <2>2. i \in 1..Len(s) /\ Without(s, x) = RemoveAt(s, i)
    BY <1>2, <2>1, LenProperties DEF Without
  <2> HIDE DEF i
  <2> QED BY <2>1, <2>2, RemoveMiddle, ContentsAreRange
<1> QED BY <1>1, <1>2

\* retain keeps the type of a queue.
LEMMA WithoutType ==
    ASSUME NEW S, NEW s \in Seq(S), NEW x
    PROVE  Without(s, x) \in Seq(S)
<1>1. CASE x \notin ToSet(s)
  BY <1>1 DEF Without
<1>2. CASE x \in ToSet(s)
  <2> DEFINE i == CHOOSE j \in DOMAIN s : s[j] = x
  <2>1. i \in 1..Len(s) /\ Without(s, x) = RemoveAt(s, i)
    BY <1>2, LenProperties DEF Without, ToSet
  <2> HIDE DEF i
  <2>2. SubSeq(s, 1, i - 1) \in Seq(S) /\ SubSeq(s, i + 1, Len(s)) \in Seq(S)
    BY <2>1, SubSeqProperties, LenProperties, ElementOfSeq
  <2> QED BY <2>1, <2>2 DEF RemoveAt
<1> QED BY <1>1, <1>2

-----------------------------------------------------------------------------
(* Types.                                                                  *)

NotifyTypes ==
    /\ permit \in BOOLEAN /\ line \in Seq(Callers)
    /\ ntf \in [Callers -> {"none", "wait", "one", "all", "consumed"}]

\* Notify keeps its types.
LEMMA NotifyKeepsTypes ==
    ASSUME NotifyTypes,
           \/ NotifyIfWaited \/ NotifyOne \/ NotifyWaiters
           \/ (\E c \in Callers : DropNotified(c)) \/ UNCHANGED space
    PROVE  NotifyTypes'
<1> DEFINE N == [Callers -> {"none", "wait", "one", "all", "consumed"}]
<1>1. ASSUME NEW n \in N, NotifyOneFrom(n) PROVE NotifyTypes'
  <2>1. CASE line = <<>>
    BY <1>1, <2>1 DEF NotifyOneFrom, NotifyTypes
  <2>2. CASE line # <<>>
    <3>1. Head(line) \in Callers /\ Tail(line) \in Seq(Callers)
      BY <2>2, PopFront DEF NotifyTypes
    <3> QED BY <1>1, <2>2, <3>1 DEF NotifyOneFrom, NotifyTypes
  <2> QED BY <2>1, <2>2
<1>2. CASE UNCHANGED space
  BY <1>2 DEF space, NotifyTypes
<1>3. ntf \in N
  BY DEF NotifyTypes
<1>4. CASE NotifyOne \/ NotifyIfWaited
  BY <1>1, <1>2, <1>3, <1>4 DEF NotifyOne, NotifyIfWaited
<1>5. CASE NotifyWaiters
  BY <1>5 DEF NotifyWaiters, NotifyTypes
<1>6. ASSUME NEW c \in Callers, DropNotified(c) PROVE NotifyTypes'
  <2>1. [ntf EXCEPT ![c] = "none"] \in N
    BY <1>3
  <2>2. CASE ntf[c] = "one"
    BY <1>1, <1>6, <2>1, <2>2 DEF DropNotified
  <2>3. CASE ntf[c] # "one"
    BY <1>6, <2>1, <2>3, WithoutType DEF DropNotified, NotifyTypes
  <2> QED BY <2>2, <2>3
<1> QED BY <1>2, <1>4, <1>5, <1>6

\* A job that finds an idle thread takes it off the stack.
LEMMA HandOverIdle ==
    ASSUME idle \in Seq(Threads), IsInjective(idle), idle # <<>>
    PROVE  LET t == idle[TakeIdle] IN
           /\ t \in Threads /\ t \in ToSet(idle)
           /\ RemoveAt(idle, TakeIdle) \in Seq(Threads)
           /\ IsInjective(RemoveAt(idle, TakeIdle))
           /\ ToSet(RemoveAt(idle, TakeIdle)) = ToSet(idle) \ {t}
           /\ <<t>> \in Seq(Threads) /\ <<t>> # <<>> /\ ToSet(<<t>>) = {t}
           /\ Head(<<t>>) = t /\ Tail(<<t>>) = <<>> /\ IsInjective(<<t>>)
<1> DEFINE i == TakeIdle
           t == idle[i]
<1>1. i \in 1..Len(idle)
  BY TakeIdleFinds
<1> HIDE DEF i
<1>2. t \in Threads /\ t \in Range(idle)
  BY <1>1, ElementOfSeq, RangeMember
<1>3. /\ RemoveAt(idle, i) \in Seq(Threads) /\ IsInjective(RemoveAt(idle, i))
      /\ ToSet(RemoveAt(idle, i)) = ToSet(idle) \ {t}
  BY <1>1, RemoveMiddle, ContentsAreRange
<1> HIDE DEF t
<1>4. /\ <<t>> \in Seq(Threads) /\ <<t>> # <<>> /\ Head(<<t>>) = t /\ Tail(<<t>>) = <<>>
      /\ Range(<<t>>) = {t} /\ IsInjective(<<t>>)
  BY <1>2, OneElement
<1> QED BY <1>2, <1>3, <1>4, ContentsAreRange DEF t, i

\* A caller is accepted and its job goes to an idle thread or into the queue.
LEMMA AcceptTypes ==
    ASSUME Types, IsInjective(idle), NEW c \in Callers, Accept(c)
    PROVE  /\ queue' \in Seq(Callers) /\ idle' \in Seq(Threads)
           /\ out' \in [Parties -> Seq(Threads)]
           /\ dpc' \in [Parties -> {"store", "swap", "unpark"}]
<1>1. CASE idle = <<>>
  <2>1. queue' = Append(queue, c) /\ UNCHANGED <<idle, out, dpc>>
    BY <1>1 DEF Accept, post
  <2>2. Append(queue, c) \in Seq(Callers)
    BY PushBack DEF Types
  <2> QED BY <2>1, <2>2 DEF Types
<1>2. CASE idle # <<>>
  <2>1. /\ idle' = RemoveAt(idle, TakeIdle) /\ out' = [out EXCEPT ![c] = <<idle[TakeIdle]>>]
        /\ UNCHANGED <<queue, dpc>>
    BY <1>2 DEF Accept, Post
  <2>2. RemoveAt(idle, TakeIdle) \in Seq(Threads) /\ <<idle[TakeIdle]>> \in Seq(Threads)
    BY <1>2, HandOverIdle DEF Types
  <2> QED BY <2>1, <2>2 DEF Types
<1> QED BY <1>1, <1>2

\* A delivery keeps the types.
LEMMA DeliverTypes ==
    ASSUME Types, NEW p \in Parties, Deliver(p)
    PROVE  Types'
<1> USE DEF state, boxes, threads, post, space
<1>a. out[p] \in Seq(Threads) /\ out[p] # <<>>
  BY DEF Deliver, Store, Swap, Unpark, Types
<1>b. Head(out[p]) \in Threads /\ Tail(out[p]) \in Seq(Threads)
  BY <1>a, PopFront
<1>c. Parcel(p) \in Callers \cup {NoJob}
  BY DEF Parcel, Types, Parties
<1>1. CASE Store(p)
  BY <1>1, <1>b, <1>c DEF Store, Types
<1>2. CASE Swap(p)
  BY <1>2, <1>b DEF Swap, Types
<1>3. CASE Unpark(p)
  BY <1>3, <1>b DEF Unpark, Types
<1> QED BY <1>1, <1>2, <1>3 DEF Deliver

\* A caller's step keeps the types.
LEMMA CallerTypes ==
    ASSUME Types, IsInjective(idle), NEW c \in Callers,
           TryPush(c) \/ CallerStep(c) \/ Cancel(c)
    PROVE  Types'
<1> USE DEF state, boxes, threads, post, space, CallerPlaces
<1>a. NotifyTypes
  BY DEF Types, NotifyTypes
<1>1. CASE TryPush(c)
  <2>1. /\ queue' \in Seq(Callers) /\ idle' \in Seq(Threads)
        /\ out' \in [Parties -> Seq(Threads)]
        /\ dpc' \in [Parties -> {"store", "swap", "unpark"}]
    BY <1>1, AcceptTypes DEF TryPush, Types
  <2>2. cpc' \in [Callers \cup {Closer} -> CallerPlaces]
    BY <1>1 DEF TryPush, Types
  <2> QED BY <1>1, <2>1, <2>2 DEF TryPush, Types
<1>2. CASE CountWaiter(c)
  BY <1>2 DEF CountWaiter, Types
<1>3. CASE Enable(c)
  <2>1. Append(line, c) \in Seq(Callers)
    BY PushBack DEF Types
  <2>2. NotifyTypes'
    BY <1>3, <2>1, <1>a DEF Enable, NotifyTypes
  <2> QED BY <1>3, <2>2 DEF Enable, Types, NotifyTypes
<1>4. CASE Retry(c)
  <2>1. /\ queue' \in Seq(Callers) /\ idle' \in Seq(Threads)
        /\ out' \in [Parties -> Seq(Threads)]
        /\ dpc' \in [Parties -> {"store", "swap", "unpark"}]
    BY <1>4, AcceptTypes DEF Retry, Types
  <2>2. cpc' \in [Callers \cup {Closer} -> CallerPlaces]
    BY <1>4 DEF Retry, Types
  <2>3. NotifyTypes'
    BY <1>4, <1>a, NotifyKeepsTypes DEF Retry
  <2> QED BY <1>4, <2>1, <2>2, <2>3 DEF Retry, Types, NotifyTypes
<1>5. CASE PassBaton(c)
  <2>1. NotifyTypes'
    BY <1>5, <1>a, NotifyKeepsTypes DEF PassBaton
  <2> QED BY <1>5, <2>1 DEF PassBaton, Types, NotifyTypes
<1>6. CASE PushReturns(c)
  <2>1. NotifyTypes'
    BY <1>6, <1>a, NotifyKeepsTypes DEF PushReturns
  <2> QED BY <1>6, <2>1 DEF PushReturns, Types, NotifyTypes
<1>7. CASE WakeCaller(c)
  BY <1>7 DEF WakeCaller, Types
<1>8. CASE Cancel(c)
  <2>1. NotifyTypes'
    BY <1>8, <1>a, NotifyKeepsTypes DEF Cancel
  <2> QED BY <1>8, <2>1 DEF Cancel, Types, NotifyTypes
<1> QED BY <1>1, <1>2, <1>3, <1>4, <1>5, <1>6, <1>7, <1>8 DEF CallerStep

\* Closing keeps the types.
LEMMA CloseTypes ==
    ASSUME Types, Close \/ CloseNotifies
    PROVE  Types'
<1> USE DEF state, boxes, threads, post, space, CallerPlaces
<1>1. CASE Close
  BY <1>1 DEF Close, Post, Types, Parties
<1>2. CASE CloseNotifies
  <2>1. NotifyTypes'
    BY <1>2, NotifyKeepsTypes DEF CloseNotifies, Types, NotifyTypes
  <2> QED BY <1>2, <2>1 DEF CloseNotifies, Types, NotifyTypes
<1> QED BY <1>1, <1>2

\* A thread's step keeps the types.
LEMMA ThreadTypes ==
    ASSUME Types, IsInjective(idle), HandPlaces, NEW t \in Threads,
           ThreadStep(t) \/ SpuriousWake(t) \/ Retire(t) \/ RegisterWorker(t)
    PROVE  Types'
<1> USE DEF state, boxes, threads, post, space, ThreadPlaces, Announced
<1>a. NotifyTypes
  BY DEF Types, NotifyTypes
<1>1. CASE PopQueued(t)
  <2>1. Head(queue) \in Callers /\ Tail(queue) \in Seq(Callers)
    BY <1>1, PopFront DEF PopQueued, Types
  <2>2. NotifyTypes'
    BY <1>1, <1>a, NotifyKeepsTypes DEF PopQueued
  <2> QED BY <1>1, <2>1, <2>2 DEF PopQueued, Types, NotifyTypes
<1>2. CASE Announce(t)
  <2>1. Append(idle, t) \in Seq(Threads)
    BY PushBack DEF Types
  <2>2. NotifyTypes'
    BY <1>2, <1>a, NotifyKeepsTypes DEF Announce
  <2> QED BY <1>2, <2>1, <2>2 DEF Announce, Types, NotifyTypes
<1>3. CASE RecvClosed(t) \/ Poll(t) \/ ParkCas(t) \/ CheckReady(t) \/ SpuriousWake(t)
  BY <1>3 DEF RecvClosed, Poll, ParkCas, CheckReady, SpuriousWake, Types
<1>4. CASE Wake(t) \/ DropWait(t) \/ RegisterWorker(t)
  BY <1>4 DEF Wake, DropWait, RegisterWorker, Types
<1>9. CASE TakeMail(t)
  BY <1>9 DEF TakeMail, Types
<1>10. CASE DropTake(t)
  BY <1>10 DEF DropTake, Types
<1>5. CASE Finish(t)
  <2>1. held[t] \in Callers
    BY <1>5 DEF Finish, HandPlaces, Types
  <2> QED BY <1>5, <2>1 DEF Finish, Types
<1>6. CASE ReRouted(t)
  BY <1>6 DEF ReRouted, Types
<1>7. CASE Retire(t)
  <2>1. Without(idle, t) \in Seq(Threads)
    BY WithoutType DEF Types
  <2>2. deaths' \in 0..MaxDeaths
    BY <1>7, HandoffAssumption DEF Retire, Types
  <2> QED BY <1>7, <2>1, <2>2 DEF Retire, Types
<1>8. CASE ReRoute(t)
  <2>1. CASE idle # <<>>
    <3>1. RemoveAt(idle, TakeIdle) \in Seq(Threads) /\ <<idle[TakeIdle]>> \in Seq(Threads)
      BY <2>1, HandOverIdle DEF Types
    <3>2. /\ idle' = RemoveAt(idle, TakeIdle) /\ out' = [out EXCEPT ![t] = <<idle[TakeIdle]>>]
          /\ tpc' = [tpc EXCEPT ![t] = "rerouting"] /\ UNCHANGED <<queue, held, dpc>>
      BY <1>8, <2>1 DEF ReRoute, Post
    <3> QED BY <1>8, <3>1, <3>2 DEF ReRoute, Types
  <2>2. CASE idle = <<>>
    <3>1. held[t] \in Callers
      BY <1>8 DEF ReRoute, HandPlaces, Types
    <3>2. Cons(held[t], queue) \in Seq(Callers)
      BY <3>1, JoinQueues, OneElement DEF Cons, Types
    <3> QED BY <1>8, <2>2, <3>2 DEF ReRoute, Types
  <2> QED BY <2>1, <2>2
<1> QED BY <1>1, <1>2, <1>3, <1>4, <1>5, <1>6, <1>7, <1>8, <1>9, <1>10 DEF ThreadStep

-----------------------------------------------------------------------------
(* Deliveries: the parts of the invariant about mailboxes and parking.     *)

Core == /\ OutShape /\ OwedApart /\ OwedWait /\ IdleWait /\ WaitersFound
        /\ Parks /\ HandPlaces

\* The names do not clash.
LEMMA PartiesApart ==
    /\ \A c \in Callers : c \in Parties /\ c \notin Threads /\ c # Closer /\ c # NoJob
    /\ \A t \in Threads : t \in Parties /\ t \notin Callers /\ t # Closer
    /\ Closer \in Parties /\ Closer \notin Callers /\ Closer \notin Threads
BY HandoffAssumption DEF Parties

\* The threads a party owes a delivery, and the head of its list.
LEMMA OwedThreads ==
    ASSUME Types, OutShape, NEW p \in Parties
    PROVE  /\ Owed(p) \subseteq Threads
           /\ out[p] = <<>> => Owed(p) = {}
           /\ out[p] # <<>> =>
                /\ Head(out[p]) \in Threads /\ Head(out[p]) \in ToSet(out[p])
                /\ ToSet(Tail(out[p])) = ToSet(out[p]) \ {Head(out[p])}
                /\ Tail(out[p]) \in Seq(Threads) /\ IsInjective(Tail(out[p]))
                /\ dpc[p] # "unpark" => Owed(p) = ToSet(out[p])
                /\ dpc[p] = "unpark" => Owed(p) = ToSet(out[p]) \ {Head(out[p])}
<1>1. out[p] \in Seq(Threads) /\ IsInjective(out[p])
  BY DEF Types, OutShape
<1>2. CASE out[p] = <<>>
  <2>1. ToSet(<<>>) = {}
    BY DEF ToSet
  <2>2. dpc[p] = "store"
    BY <1>2 DEF OutShape
  <2> QED BY <1>2, <2>1, <2>2 DEF Owed
<1>3. CASE out[p] # <<>>
  <2>1. /\ Head(out[p]) \in Threads /\ Tail(out[p]) \in Seq(Threads)
        /\ ToSet(out[p]) = ToSet(Tail(out[p])) \cup {Head(out[p])}
        /\ IsInjective(Tail(out[p])) /\ Head(out[p]) \notin ToSet(Tail(out[p]))
    BY <1>1, <1>3, PopFront, ContentsAreRange
  <2>2. ToSet(out[p]) \subseteq Threads
    BY <1>1, RangeMember, ContentsAreRange
  <2> QED BY <1>3, <2>1, <2>2 DEF Owed
<1> QED BY <1>2, <1>3

\* A step of thread t that makes no delivery: the parts for the other threads
\* hold as before, and what is left is to look at t.
Moves(t) ==
    /\ UNCHANGED <<out, dpc, cpc>>
    /\ \A u \in Threads : u # t =>
         /\ tpc'[u] = tpc[u] /\ slot'[u] = slot[u] /\ mail'[u] = mail[u]
         /\ held'[u] = held[u] /\ token'[u] = token[u]
         /\ u \in ToSet(idle') <=> u \in ToSet(idle)

\* Such a step keeps Core when t itself ends in a consistent place.
LEMMA MovesKeepsCore ==
    ASSUME Types, Types', Core, NEW t \in Threads, Moves(t),
           out[t] = <<>>, IsInjective(idle'),
           (\E p \in Parties : t \in Owed(p)) =>
             /\ t \notin ToSet(idle') /\ tpc'[t] \in Waiting /\ slot'[t] # "READY"
             /\ mail'[t] = mail[t],
           t \in ToSet(idle') =>
             tpc'[t] \in Waiting \ {"dropWait"} /\ slot'[t] # "READY" /\ mail'[t] = NoJob,
           tpc'[t] \in Waiting /\ slot'[t] # "READY" =>
             t \in ToSet(idle') \/ \E p \in Parties : t \in Owed(p),
           tpc'[t] \in {"parked", "asleep"} => slot'[t] \in {"PARKED", "READY"},
           tpc'[t] = "asleep" /\ slot'[t] = "READY" =>
             token'[t] \/ \E p \in Parties : /\ dpc[p] = "unpark" /\ out[p] # <<>>
                                             /\ Head(out[p]) = t,
           held'[t] # NoJob <=> tpc'[t] \in {"work", "reroute", "rerouting"},
           mail'[t] # NoJob => tpc'[t] \in Waiting \cup {"take", "dropTake"}
    PROVE  Core'
<1> USE PartiesApart
<1>a. /\ OutShape /\ OwedApart /\ OwedWait /\ IdleWait /\ WaitersFound /\ Parks /\ HandPlaces
  BY DEF Core
<1>b. out' = out /\ dpc' = dpc /\ cpc' = cpc /\ \A p \in Parties : Owed(p)' = Owed(p)
  BY DEF Moves, Owed
<1>c. \A u \in Threads : u # t =>
         /\ tpc'[u] = tpc[u] /\ slot'[u] = slot[u] /\ mail'[u] = mail[u]
         /\ held'[u] = held[u] /\ token'[u] = token[u]
         /\ u \in ToSet(idle') <=> u \in ToSet(idle)
  BY DEF Moves
<1>d. ToSet(idle') \subseteq Threads
  BY RangeMember, ContentsAreRange DEF Types
<1>e. ASSUME NEW p \in Parties, dpc[p] = "swap" PROVE Parcel(p)' = Parcel(p)
  <2>1. p # t
    BY <1>a, <1>e DEF OutShape
  <2> QED BY <1>c, <2>1 DEF Parcel, Parties
<1>1. OutShape'
  BY <1>a, <1>b, <1>c DEF OutShape
<1>2. OwedApart'
  BY <1>a, <1>b DEF OwedApart
<1>3. OwedWait'
  <2> SUFFICES ASSUME NEW p \in Parties, NEW u \in Owed(p)
               PROVE  /\ u \notin ToSet(idle') /\ tpc'[u] \in Waiting /\ slot'[u] # "READY"
                      /\ mail'[u] = IF dpc[p] = "swap" /\ u = Head(out[p])
                                      THEN Parcel(p)' ELSE NoJob
    BY <1>b DEF OwedWait
  <2>1. u \in Threads
    BY <1>a, OwedThreads
  <2>2. /\ u \notin ToSet(idle) /\ tpc[u] \in Waiting /\ slot[u] # "READY"
        /\ mail[u] = IF dpc[p] = "swap" /\ u = Head(out[p]) THEN Parcel(p) ELSE NoJob
    BY <1>a DEF OwedWait
  <2>3. CASE u = t
    BY <1>e, <2>2, <2>3
  <2>4. CASE u # t
    BY <1>c, <1>e, <2>1, <2>2, <2>4
  <2> QED BY <2>3, <2>4
<1>4. IdleWait'
  BY <1>a, <1>c, <1>d DEF IdleWait
<1>5. WaitersFound'
  <2> SUFFICES ASSUME NEW u \in Threads, tpc'[u] \in Waiting, slot'[u] # "READY"
               PROVE  u \in ToSet(idle') \/ \E p \in Parties : u \in Owed(p)
    BY <1>b DEF WaitersFound
  <2>1. CASE u = t
    BY <2>1
  <2>2. CASE u # t
    BY <1>a, <1>c, <2>2 DEF WaitersFound
  <2> QED BY <2>1, <2>2
<1>6. Parks'
  <2> SUFFICES ASSUME NEW u \in Threads
               PROVE  /\ tpc'[u] \in {"parked", "asleep"} => slot'[u] \in {"PARKED", "READY"}
                      /\ tpc'[u] = "asleep" /\ slot'[u] = "READY" =>
                           token'[u] \/ \E p \in Parties : /\ dpc[p] = "unpark" /\ out[p] # <<>>
                                                           /\ Head(out[p]) = u
    BY <1>b DEF Parks
  <2>1. CASE u = t
    BY <2>1
  <2>2. CASE u # t
    BY <1>a, <1>c, <2>2 DEF Parks
  <2> QED BY <2>1, <2>2
<1>7. HandPlaces'
  BY <1>a, <1>c DEF HandPlaces
<1> QED BY <1>1, <1>2, <1>3, <1>4, <1>5, <1>6, <1>7 DEF Core

\* A thread's step keeps Core, except for the re-route, which delivers.
LEMMA ThreadKeepsCore ==
    ASSUME Types, Core, NEW t \in Threads, ~ReRoute(t),
           ThreadStep(t) \/ SpuriousWake(t) \/ Retire(t) \/ RegisterWorker(t)
    PROVE  Core'
<1> USE DEF state, boxes, threads, post, Waiting
<1>a. /\ OutShape /\ OwedWait /\ IdleWait /\ WaitersFound /\ Parks /\ HandPlaces
  BY DEF Core
<1>t. Types'
  BY <1>a, ThreadTypes DEF IdleWait
<1>b. /\ tpc \in [Threads -> ThreadPlaces] /\ idle \in Seq(Threads)
      /\ mail \in [Threads -> Callers \cup {NoJob}]
      /\ held \in [Threads -> Callers \cup {NoJob}]
      /\ slot \in [Threads -> {"READY", "PARKED"} \cup Announced]
      /\ token \in [Threads -> BOOLEAN] /\ IsInjective(idle)
  BY <1>a DEF Types, IdleWait
<1>c. /\ (\E p \in Parties : t \in Owed(p)) =>
           t \notin ToSet(idle) /\ tpc[t] \in Waiting /\ slot[t] # "READY"
      /\ t \in ToSet(idle) =>
           tpc[t] \in Waiting \ {"dropWait"} /\ slot[t] # "READY" /\ mail[t] = NoJob
      /\ tpc[t] \in Waiting /\ slot[t] # "READY" =>
           t \in ToSet(idle) \/ \E p \in Parties : t \in Owed(p)
      /\ tpc[t] \in {"parked", "asleep"} => slot[t] \in {"PARKED", "READY"}
      /\ tpc[t] = "asleep" /\ slot[t] = "READY" =>
           token[t] \/ \E p \in Parties : /\ dpc[p] = "unpark" /\ out[p] # <<>>
                                          /\ Head(out[p]) = t
      /\ held[t] # NoJob <=> tpc[t] \in {"work", "reroute", "rerouting"}
      /\ mail[t] # NoJob => tpc[t] \in Waiting \cup {"take", "dropTake"}
      /\ tpc[t] # "rerouting" => out[t] = <<>>
  BY <1>a DEF OutShape, OwedWait, IdleWait, WaitersFound, Parks, HandPlaces
<1>1. CASE PopQueued(t)
  <2>1. /\ Moves(t) /\ idle' = idle /\ tpc'[t] = "work" /\ slot' = slot /\ mail' = mail
    BY <1>1, <1>b DEF PopQueued, Moves
  <2>2. held'[t] # NoJob
    <3>1. Head(queue) \in Callers /\ held'[t] = Head(queue)
      BY <1>1, <1>b, PopFront DEF PopQueued, Types
    <3> QED BY <3>1, PartiesApart
  <2>3. tpc[t] = "recv"
    BY <1>1 DEF PopQueued
  <2> QED BY <1>b, <1>c, <1>t, <2>1, <2>2, <2>3, MovesKeepsCore
<1>2. CASE RecvClosed(t)
  <2>1. /\ Moves(t) /\ idle' = idle /\ tpc'[t] = "closed" /\ slot' = slot /\ mail' = mail
        /\ held' = held /\ tpc[t] = "recv"
    BY <1>2, <1>b DEF RecvClosed, Moves
  <2> QED BY <1>b, <1>c, <1>t, <2>1, MovesKeepsCore
<1>3. CASE Announce(t)
  <2>1. /\ tpc[t] = "recv" /\ tpc'[t] = "announced" /\ slot'[t] \in Announced /\ mail' = mail
        /\ held' = held /\ idle' = Append(idle, t)
    BY <1>3, <1>b DEF Announce
  <2>2. ToSet(idle') = ToSet(idle) \cup {t} /\ IsInjective(idle')
    BY <1>b, <1>c, <2>1, PushBack, ContentsAreRange
  <2>3. Moves(t)
    BY <1>3, <1>b, <2>2 DEF Announce, Moves
  <2> QED BY <1>c, <1>t, <2>1, <2>2, <2>3, MovesKeepsCore DEF Announced
<1>4. CASE Poll(t)
  <2>1. /\ Moves(t) /\ idle' = idle /\ tpc'[t] = "take" /\ slot' = slot /\ mail' = mail
        /\ held' = held /\ tpc[t] = "announced" /\ slot[t] = "READY"
    BY <1>4, <1>b DEF Poll, Moves
  <2> QED BY <1>b, <1>c, <1>t, <2>1, MovesKeepsCore
<1>5. CASE ParkCas(t)
  <2>1. /\ Moves(t) /\ idle' = idle /\ tpc'[t] = "parked" /\ slot'[t] = "PARKED" /\ mail' = mail
        /\ held' = held /\ tpc[t] = "announced" /\ slot[t] # "READY"
    BY <1>5, <1>b DEF ParkCas, Moves, Announced
  <2> QED BY <1>b, <1>c, <1>t, <2>1, MovesKeepsCore
<1>6. CASE CheckReady(t)
  <2>1. /\ Moves(t) /\ idle' = idle /\ slot' = slot /\ mail' = mail
        /\ held' = held /\ tpc[t] = "parked"
        /\ tpc'[t] = IF slot[t] = "READY" THEN "take" ELSE "asleep"
    BY <1>6, <1>b DEF CheckReady, Moves
  <2>2. CASE slot[t] = "READY"
    BY <1>b, <1>c, <1>t, <2>1, <2>2, MovesKeepsCore
  <2>3. CASE slot[t] # "READY"
    BY <1>b, <1>c, <1>t, <2>1, <2>3, MovesKeepsCore
  <2> QED BY <2>2, <2>3
<1>7. CASE Wake(t) \/ SpuriousWake(t)
  <2>1. /\ Moves(t) /\ idle' = idle /\ tpc'[t] = "parked" /\ slot' = slot /\ mail' = mail
        /\ held' = held /\ tpc[t] = "asleep"
    BY <1>7, <1>b DEF Wake, SpuriousWake, Moves
  <2> QED BY <1>b, <1>c, <1>t, <2>1, MovesKeepsCore
<1>8. CASE TakeMail(t) \/ DropTake(t)
  <2>1. /\ Moves(t) /\ idle' = idle /\ slot' = slot /\ mail'[t] = NoJob /\ held'[t] = mail[t]
        /\ tpc[t] \in {"take", "dropTake"}
    BY <1>8, <1>b DEF TakeMail, DropTake, Moves
  <2>2. /\ mail[t] = NoJob => tpc'[t] \in {"recv", "gone"}
        /\ mail[t] # NoJob => tpc'[t] \in {"work", "reroute"}
    BY <1>8, <1>b DEF TakeMail, DropTake
  <2> QED BY <1>b, <1>c, <1>t, <2>1, <2>2, MovesKeepsCore
<1>9. CASE Finish(t)
  <2>1. /\ Moves(t) /\ idle' = idle /\ tpc'[t] = "recv" /\ slot' = slot /\ mail' = mail
        /\ held'[t] = NoJob /\ tpc[t] = "work"
    BY <1>9, <1>b DEF Finish, Moves
  <2> QED BY <1>b, <1>c, <1>t, <2>1, MovesKeepsCore
<1>10. CASE DropWait(t)
  <2>1. /\ Moves(t) /\ idle' = idle /\ tpc'[t] = "dropTake" /\ slot' = slot /\ mail' = mail
        /\ held' = held /\ tpc[t] = "dropWait" /\ slot[t] = "READY"
    BY <1>10, <1>b DEF DropWait, Moves
  <2> QED BY <1>b, <1>c, <1>t, <2>1, MovesKeepsCore
<1>11. CASE ReRouted(t)
  <2>1. /\ Moves(t) /\ idle' = idle /\ tpc'[t] = "gone" /\ slot' = slot /\ mail' = mail
        /\ held'[t] = NoJob /\ tpc[t] = "rerouting" /\ out[t] = <<>>
    BY <1>11, <1>b DEF ReRouted, Moves
  <2> QED BY <1>b, <1>c, <1>t, <2>1, MovesKeepsCore
<1>12. CASE RegisterWorker(t)
  <2>1. /\ Moves(t) /\ idle' = idle /\ tpc'[t] = "recv" /\ slot'[t] = "READY" /\ mail' = mail
        /\ held' = held /\ tpc[t] = "gone"
    BY <1>12, <1>b DEF RegisterWorker, Moves
  <2> QED BY <1>b, <1>c, <1>t, <2>1, MovesKeepsCore
<1>13. CASE Retire(t)
  <2>1. /\ IsInjective(idle') /\ ToSet(idle') = ToSet(idle) \ {t}
    BY <1>13, <1>b, WithoutEffect DEF Retire
  <2>2. Moves(t) /\ slot' = slot /\ mail' = mail /\ held' = held
    BY <1>13, <1>b, <2>1 DEF Retire, Moves
  <2>3. CASE tpc[t] = "recv"
    <3>1. tpc'[t] = "gone"
      BY <1>13, <1>b, <2>3 DEF Retire
    <3> QED BY <1>c, <1>t, <2>1, <2>2, <2>3, <3>1, MovesKeepsCore
  <2>4. CASE tpc[t] = "announced"
    <3>1. CASE t \in ToSet(idle)
      <4>1. tpc'[t] = "dropTake"
        BY <1>13, <1>b, <2>4, <3>1 DEF Retire
      <4> QED BY <1>c, <1>t, <2>1, <2>2, <2>4, <3>1, <4>1, MovesKeepsCore
    <3>2. CASE t \notin ToSet(idle)
      <4>1. tpc'[t] = "dropWait"
        BY <1>13, <1>b, <2>4, <3>2 DEF Retire
      <4> QED BY <1>c, <1>t, <2>1, <2>2, <2>4, <3>2, <4>1, MovesKeepsCore
    <3> QED BY <3>1, <3>2
  <2> QED BY <1>13, <2>3, <2>4 DEF Retire
<1> QED BY <1>1, <1>2, <1>3, <1>4, <1>5, <1>6, <1>7, <1>8, <1>9, <1>10, <1>11, <1>12, <1>13
  DEF ThreadStep

\* A step of callers and of Notify that no thread sees.
Aside ==
    /\ UNCHANGED <<idle, closed, slot, mail, token, tpc, held, out, dpc, served, deaths>>
    /\ \A c \in Callers : cpc[c] \in AcceptedPlaces => cpc'[c] \in AcceptedPlaces
    /\ cpc'[Closer] = "new" => cpc[Closer] = "new"

\* It keeps Core.
LEMMA AsideKeepsCore ==
    ASSUME Core, Aside
    PROVE  Core'
<1> USE DEF Aside
<1>1. OutShape'
  BY DEF Core, OutShape
<1>2. OwedApart' /\ OwedWait' /\ WaitersFound'
  BY DEF Core, OwedApart, OwedWait, WaitersFound, Owed, Parcel
<1>3. IdleWait' /\ Parks' /\ HandPlaces'
  BY DEF Core, IdleWait, Parks, HandPlaces
<1> QED BY <1>1, <1>2, <1>3 DEF Core

\* Party p takes thread v off the idle stack and owes it a delivery.
Hands(p, v) ==
    /\ v \in ToSet(idle) /\ IsInjective(idle') /\ ToSet(idle') = ToSet(idle) \ {v}
    /\ out[p] = <<>> /\ out' = [out EXCEPT ![p] = <<v>>]
    /\ UNCHANGED <<queue, closed, slot, mail, token, held, dpc, served, deaths>>
    /\ cpc'[Closer] = cpc[Closer]
    /\ \/ /\ p \in Callers /\ UNCHANGED tpc /\ cpc'[p] \in AcceptedPlaces
          /\ \A c \in Callers : c # p => cpc'[c] = cpc[c]
       \/ /\ p \in Threads /\ UNCHANGED cpc
          /\ tpc[p] = "reroute" /\ tpc' = [tpc EXCEPT ![p] = "rerouting"]

\* A hand-over keeps Core.
LEMMA HandsKeepsCore ==
    ASSUME Types, Core, NEW p \in Parties, NEW v \in Threads, Hands(p, v)
    PROVE  Core'
<1> USE PartiesApart
<1>a. /\ OutShape /\ OwedApart /\ OwedWait /\ IdleWait /\ WaitersFound /\ Parks /\ HandPlaces
  BY DEF Core
<1>b. /\ v \in ToSet(idle) /\ ToSet(idle') = ToSet(idle) \ {v} /\ IsInjective(idle')
      /\ UNCHANGED <<slot, mail, token, held, dpc>>
      /\ out[p] = <<>> /\ dpc[p] = "store" /\ cpc'[Closer] = cpc[Closer]
  BY <1>a DEF Hands, OutShape
<1>c. out'[p] = <<v>> /\ \A q \in Parties : q # p => out'[q] = out[q]
  BY DEF Hands, Types
<1>d. \A u \in Threads : /\ u = p => tpc[u] = "reroute" /\ tpc'[u] = "rerouting"
                         /\ u # p => tpc'[u] = tpc[u]
  BY DEF Hands, Types
<1>e. \A c \in Callers : IF c = p THEN cpc'[c] \in AcceptedPlaces ELSE cpc'[c] = cpc[c]
  BY DEF Hands
<1>f. /\ <<v>> # <<>> /\ Head(<<v>>) = v /\ Tail(<<v>>) = <<>>
      /\ ToSet(<<v>>) = {v} /\ IsInjective(<<v>>)
  BY OneElement, ContentsAreRange
<1>g. Owed(p)' = {v} /\ Owed(p) = {} /\ \A q \in Parties : q # p => Owed(q)' = Owed(q)
  <2>1. Owed(p)' = {v}
    BY <1>b, <1>c, <1>f DEF Owed
  <2>2. Owed(p) = {}
    BY <1>a, <1>b, OwedThreads
  <2> QED BY <1>b, <1>c, <2>1, <2>2 DEF Owed
<1>h. /\ tpc[v] \in Waiting \ {"dropWait"} /\ slot[v] # "READY" /\ mail[v] = NoJob
      /\ v # p /\ tpc'[v] = tpc[v]
  BY <1>a, <1>b, <1>d DEF IdleWait, Waiting
<1>i. \A q \in Parties : v \notin Owed(q)
  BY <1>a, <1>b DEF OwedWait
<1>1. OutShape'
  <2>1. \A q \in Parties : IsInjective(out'[q]) /\ (out'[q] = <<>> => dpc'[q] = "store")
    BY <1>a, <1>b, <1>c, <1>f DEF OutShape
  <2>2. \A c \in Callers : cpc'[c] \notin AcceptedPlaces => out'[c] = <<>>
    BY <1>a, <1>c, <1>e DEF OutShape
  <2>3. \A u \in Threads : tpc'[u] # "rerouting" => out'[u] = <<>>
    BY <1>a, <1>c, <1>d DEF OutShape
  <2>4. p # Closer
    BY DEF Hands
  <2>5. cpc'[Closer] = "new" => out'[Closer] = <<>>
    BY <1>a, <1>b, <1>c, <2>4 DEF OutShape
  <2> QED BY <2>1, <2>2, <2>3, <2>5 DEF OutShape
<1>2. OwedApart'
  BY <1>a, <1>g, <1>i DEF OwedApart
<1>3. OwedWait'
  <2> SUFFICES ASSUME NEW q \in Parties, NEW u \in Owed(q)'
               PROVE  /\ u \notin ToSet(idle') /\ tpc'[u] \in Waiting /\ slot'[u] # "READY"
                      /\ mail'[u] = IF dpc'[q] = "swap" /\ u = Head(out'[q])
                                      THEN Parcel(q)' ELSE NoJob
    BY DEF OwedWait
  <2>1. CASE q = p
    BY <1>b, <1>g, <1>h, <2>1
  <2>2. CASE q # p
    <3>1. u \in Owed(q) /\ u \in Threads
      BY <1>a, <1>g, <2>2, OwedThreads
    <3>2. /\ u \notin ToSet(idle) /\ tpc[u] \in Waiting /\ slot[u] # "READY"
          /\ mail[u] = IF dpc[q] = "swap" /\ u = Head(out[q]) THEN Parcel(q) ELSE NoJob
      BY <1>a, <3>1 DEF OwedWait
    <3>3. u # p
      BY <1>d, <3>1, <3>2 DEF Waiting
    <3>4. Parcel(q)' = Parcel(q)
      BY <1>b DEF Parcel
    <3> QED BY <1>b, <1>c, <1>d, <2>2, <3>1, <3>2, <3>3, <3>4
  <2> QED BY <2>1, <2>2
<1>4. IdleWait'
  <2>1. ToSet(idle) \subseteq Threads
    BY RangeMember, ContentsAreRange DEF Types
  <2>2. ASSUME NEW u \in ToSet(idle')
        PROVE  tpc'[u] \in Waiting \ {"dropWait"} /\ slot'[u] # "READY" /\ mail'[u] = NoJob
    <3>1. /\ u \in Threads /\ tpc[u] \in Waiting \ {"dropWait"} /\ slot[u] # "READY"
          /\ mail[u] = NoJob
      BY <1>a, <1>b, <2>1, <2>2 DEF IdleWait
    <3>2. u # p
      BY <1>d, <3>1 DEF Waiting
    <3> QED BY <1>b, <1>d, <3>1, <3>2
  <2> QED BY <1>b, <2>2 DEF IdleWait
<1>5. WaitersFound'
  <2> SUFFICES ASSUME NEW u \in Threads, tpc'[u] \in Waiting, slot'[u] # "READY"
               PROVE  u \in ToSet(idle') \/ \E q \in Parties : u \in Owed(q)'
    BY DEF WaitersFound
  <2>1. CASE u = v
    BY <1>g, <2>1
  <2>2. CASE u # v
    <3>1. u # p
      BY <1>d DEF Waiting
    <3>2. u \in ToSet(idle) \/ \E q \in Parties : u \in Owed(q)
      BY <1>a, <1>b, <1>d, <3>1 DEF WaitersFound
    <3> QED BY <1>b, <1>g, <2>2, <3>2
  <2> QED BY <2>1, <2>2
<1>6. Parks'
  <2> SUFFICES ASSUME NEW u \in Threads
               PROVE  /\ tpc'[u] \in {"parked", "asleep"} => slot'[u] \in {"PARKED", "READY"}
                      /\ tpc'[u] = "asleep" /\ slot'[u] = "READY" =>
                           token'[u] \/ \E q \in Parties :
                             dpc'[q] = "unpark" /\ out'[q] # <<>> /\ Head(out'[q]) = u
    BY DEF Parks
  <2>1. CASE u = p
    BY <1>d, <2>1
  <2>2. CASE u # p
    <3>1. tpc'[u] = tpc[u] /\ slot'[u] = slot[u] /\ token'[u] = token[u]
      BY <1>b, <1>d, <2>2
    <3>2. \A q \in Parties : dpc[q] = "unpark" => q # p
      BY <1>b
    <3> QED BY <1>a, <1>b, <1>c, <3>1, <3>2 DEF Parks
  <2> QED BY <2>1, <2>2
<1>7. HandPlaces'
  BY <1>a, <1>b, <1>d DEF HandPlaces, Waiting
<1> QED BY <1>1, <1>2, <1>3, <1>4, <1>5, <1>6, <1>7 DEF Core

\* The parcel is stored: only the head of the list sees it.
LEMMA StoreKeepsCore ==
    ASSUME Types, Core, NEW p \in Parties, Store(p)
    PROVE  Core'
<1> DEFINE h == Head(out[p])
<1>a. /\ OutShape /\ OwedApart /\ OwedWait /\ IdleWait /\ WaitersFound /\ Parks /\ HandPlaces
  BY DEF Core
<1>b. /\ out[p] # <<>> /\ dpc[p] = "store" /\ dpc'[p] = "swap"
      /\ UNCHANGED <<idle, slot, token, tpc, held, cpc, out>>
      /\ \A q \in Parties : q # p => dpc'[q] = dpc[q]
  BY DEF Store, Types, state, threads
<1>c. h \in Threads /\ h \in Owed(p)
  BY <1>a, <1>b, OwedThreads
<1>d. mail'[h] = Parcel(p) /\ \A u \in Threads : u # h => mail'[u] = mail[u]
  BY <1>c DEF Store, Types
<1>e. \A q \in Parties : Owed(q)' = Owed(q) /\ Parcel(q)' = Parcel(q)
  BY <1>b DEF Owed, Parcel
<1> HIDE DEF h
<1>1. OutShape'
  BY <1>a, <1>b DEF OutShape
<1>2. OwedApart'
  BY <1>a, <1>e DEF OwedApart
<1>3. OwedWait'
  <2> SUFFICES ASSUME NEW q \in Parties, NEW u \in Owed(q)
               PROVE  /\ u \notin ToSet(idle) /\ tpc[u] \in Waiting /\ slot[u] # "READY"
                      /\ mail'[u] = IF dpc'[q] = "swap" /\ u = Head(out[q])
                                      THEN Parcel(q) ELSE NoJob
    BY <1>b, <1>e DEF OwedWait
  <2>1. /\ u \notin ToSet(idle) /\ tpc[u] \in Waiting /\ slot[u] # "READY"
        /\ mail[u] = IF dpc[q] = "swap" /\ u = Head(out[q]) THEN Parcel(q) ELSE NoJob
    BY <1>a DEF OwedWait
  <2>2. u \in Threads
    BY <1>a, OwedThreads
  <2>3. CASE q = p
    BY <1>b, <1>d, <2>1, <2>2, <2>3 DEF h
  <2>4. CASE q # p
    <3>1. u # h
      BY <1>a, <1>c, <2>4 DEF OwedApart
    <3> QED BY <1>b, <1>d, <2>1, <2>2, <2>4, <3>1
  <2> QED BY <2>3, <2>4
<1>4. IdleWait'
  <2>1. h \notin ToSet(idle) /\ ToSet(idle) \subseteq Threads
    BY <1>a, <1>c, RangeMember, ContentsAreRange DEF OwedWait, Types
  <2> QED BY <1>a, <1>b, <1>d, <2>1 DEF IdleWait
<1>5. WaitersFound'
  BY <1>a, <1>b, <1>e DEF WaitersFound
<1>6. Parks'
  <2>1. \A q \in Parties : dpc[q] = "unpark" => dpc'[q] = "unpark"
    BY <1>b
  <2> QED BY <1>a, <1>b, <2>1 DEF Parks
<1>7. HandPlaces'
  <2>1. tpc[h] \in Waiting
    BY <1>a, <1>c DEF OwedWait
  <2> QED BY <1>a, <1>b, <1>d, <2>1 DEF HandPlaces
<1> QED BY <1>1, <1>2, <1>3, <1>4, <1>5, <1>6, <1>7 DEF Core

\* The mailbox turns READY: the delivery is made, and a thread that announced
\* its park is owed the unpark.
LEMMA SwapKeepsCore ==
    ASSUME Types, Core, NEW p \in Parties, Swap(p)
    PROVE  Core'
<1> DEFINE h == Head(out[p])
<1>a. /\ OutShape /\ OwedApart /\ OwedWait /\ IdleWait /\ WaitersFound /\ Parks /\ HandPlaces
  BY DEF Core
<1>b. /\ out[p] # <<>> /\ dpc[p] = "swap"
      /\ UNCHANGED <<idle, mail, token, tpc, held, cpc>>
      /\ \A q \in Parties : q # p => dpc'[q] = dpc[q] /\ out'[q] = out[q]
  BY DEF Swap, Types, state, threads
<1>c. /\ h \in Threads /\ h \in Owed(p) /\ Owed(p) = ToSet(out[p])
      /\ ToSet(Tail(out[p])) = Owed(p) \ {h} /\ IsInjective(Tail(out[p]))
  BY <1>a, <1>b, OwedThreads
<1>d. slot'[h] = "READY" /\ \A u \in Threads : u # h => slot'[u] = slot[u]
  BY <1>c DEF Swap, Types
<1>e. \/ slot[h] = "PARKED" /\ dpc'[p] = "unpark" /\ out'[p] = out[p]
      \/ slot[h] # "PARKED" /\ dpc'[p] = "store" /\ out'[p] = Tail(out[p])
  BY DEF Swap, Types
<1>f. Owed(p)' = Owed(p) \ {h} /\ \A q \in Parties : q # p => Owed(q)' = Owed(q)
  BY <1>b, <1>c, <1>e DEF Owed
<1> HIDE DEF h
<1>1. OutShape'
  <2>1. \A q \in Parties : IsInjective(out'[q]) /\ (out'[q] = <<>> => dpc'[q] = "store")
    BY <1>a, <1>b, <1>c, <1>e DEF OutShape
  <2>2. \A q \in Parties : out[q] = <<>> => out'[q] = <<>>
    BY <1>b
  <2> QED BY <1>a, <1>b, <2>1, <2>2, PartiesApart DEF OutShape
<1>2. OwedApart'
  BY <1>a, <1>f DEF OwedApart
<1>3. OwedWait'
  <2> SUFFICES ASSUME NEW q \in Parties, NEW u \in Owed(q)'
               PROVE  /\ u \notin ToSet(idle) /\ tpc[u] \in Waiting /\ slot'[u] # "READY"
                      /\ mail[u] = IF dpc'[q] = "swap" /\ u = Head(out'[q])
                                      THEN Parcel(q)' ELSE NoJob
    BY <1>b DEF OwedWait
  <2>1. u \in Owed(q) /\ u \in Threads
    BY <1>a, <1>f, OwedThreads
  <2>2. /\ u \notin ToSet(idle) /\ tpc[u] \in Waiting /\ slot[u] # "READY"
        /\ mail[u] = IF dpc[q] = "swap" /\ u = Head(out[q]) THEN Parcel(q) ELSE NoJob
    BY <1>a, <2>1 DEF OwedWait
  <2>3. u # h
    BY <1>a, <1>c, <1>f, <2>1 DEF OwedApart
  <2>4. CASE q = p
    BY <1>d, <1>e, <2>1, <2>2, <2>3, <2>4 DEF h
  <2>5. CASE q # p
    <3>1. Parcel(q)' = Parcel(q)
      BY <1>b DEF Parcel
    <3> QED BY <1>b, <1>d, <2>1, <2>2, <2>3, <2>5, <3>1
  <2> QED BY <2>4, <2>5
<1>4. IdleWait'
  <2>1. h \notin ToSet(idle) /\ ToSet(idle) \subseteq Threads
    BY <1>a, <1>c, RangeMember, ContentsAreRange DEF OwedWait, Types
  <2> QED BY <1>a, <1>b, <1>d, <2>1 DEF IdleWait
<1>5. WaitersFound'
  BY <1>a, <1>b, <1>d, <1>f DEF WaitersFound
<1>6. Parks'
  <2> SUFFICES ASSUME NEW u \in Threads
               PROVE  /\ tpc[u] \in {"parked", "asleep"} => slot'[u] \in {"PARKED", "READY"}
                      /\ tpc[u] = "asleep" /\ slot'[u] = "READY" =>
                           token[u] \/ \E q \in Parties :
                             dpc'[q] = "unpark" /\ out'[q] # <<>> /\ Head(out'[q]) = u
    BY <1>b DEF Parks
  <2>1. CASE u = h
    <3>1. slot[h] # "READY"
      BY <1>a, <1>c DEF OwedWait
    <3>2. tpc[h] = "asleep" => slot[h] = "PARKED"
      BY <1>a, <1>c, <3>1 DEF Parks
    <3> QED BY <1>b, <1>d, <1>e, <2>1, <3>2 DEF h
  <2>2. CASE u # h
    <3>1. \A q \in Parties : dpc[q] = "unpark" => dpc'[q] = "unpark" /\ out'[q] = out[q]
      BY <1>b
    <3> QED BY <1>a, <1>d, <2>2, <3>1 DEF Parks
  <2> QED BY <2>1, <2>2
<1>7. HandPlaces'
  BY <1>a, <1>b DEF HandPlaces
<1> QED BY <1>1, <1>2, <1>3, <1>4, <1>5, <1>6, <1>7 DEF Core

\* The unpark sets the token the sleeper waits for.
LEMMA UnparkKeepsCore ==
    ASSUME Types, Core, NEW p \in Parties, Unpark(p)
    PROVE  Core'
<1> DEFINE h == Head(out[p])
<1>a. /\ OutShape /\ OwedApart /\ OwedWait /\ IdleWait /\ WaitersFound /\ Parks /\ HandPlaces
  BY DEF Core
<1>b. /\ out[p] # <<>> /\ dpc[p] = "unpark" /\ dpc'[p] = "store" /\ out'[p] = Tail(out[p])
      /\ UNCHANGED <<idle, slot, mail, tpc, held, cpc>>
      /\ \A q \in Parties : q # p => dpc'[q] = dpc[q] /\ out'[q] = out[q]
  BY DEF Unpark, Types, state, threads
<1>c. h \in Threads /\ IsInjective(Tail(out[p]))
  BY <1>a, <1>b, OwedThreads
<1>d. token'[h] /\ \A u \in Threads : u # h => token'[u] = token[u]
  BY <1>c DEF Unpark, Types
<1>e. \A q \in Parties : Owed(q)' = Owed(q) /\ Parcel(q)' = Parcel(q)
  BY <1>b DEF Owed, Parcel
<1> HIDE DEF h
<1>1. OutShape'
  <2>1. \A q \in Parties : IsInjective(out'[q]) /\ (out'[q] = <<>> => dpc'[q] = "store")
    BY <1>a, <1>b, <1>c DEF OutShape
  <2>2. \A q \in Parties : out[q] = <<>> => out'[q] = <<>>
    BY <1>b
  <2> QED BY <1>a, <1>b, <2>1, <2>2, PartiesApart DEF OutShape
<1>2. OwedApart'
  BY <1>a, <1>e DEF OwedApart
<1>3. OwedWait'
  <2> SUFFICES ASSUME NEW q \in Parties, NEW u \in Owed(q)
               PROVE  /\ u \notin ToSet(idle) /\ tpc[u] \in Waiting /\ slot[u] # "READY"
                      /\ mail[u] = IF dpc'[q] = "swap" /\ u = Head(out'[q])
                                      THEN Parcel(q) ELSE NoJob
    BY <1>b, <1>e DEF OwedWait
  <2>1. /\ u \notin ToSet(idle) /\ tpc[u] \in Waiting /\ slot[u] # "READY"
        /\ mail[u] = IF dpc[q] = "swap" /\ u = Head(out[q]) THEN Parcel(q) ELSE NoJob
    BY <1>a DEF OwedWait
  <2>2. CASE q = p
    BY <1>b, <2>1, <2>2
  <2>3. CASE q # p
    BY <1>b, <2>1, <2>3
  <2> QED BY <2>2, <2>3
<1>4. IdleWait' /\ WaitersFound' /\ HandPlaces'
  BY <1>a, <1>b, <1>e DEF IdleWait, WaitersFound, HandPlaces
<1>5. Parks'
  <2> SUFFICES ASSUME NEW u \in Threads
               PROVE  /\ tpc[u] \in {"parked", "asleep"} => slot[u] \in {"PARKED", "READY"}
                      /\ tpc[u] = "asleep" /\ slot[u] = "READY" =>
                           token'[u] \/ \E q \in Parties :
                             dpc'[q] = "unpark" /\ out'[q] # <<>> /\ Head(out'[q]) = u
    BY <1>b DEF Parks
  <2>1. CASE u = h
    BY <1>a, <1>d, <2>1 DEF Parks
  <2>2. CASE u # h
    <3>1. \A q \in Parties : dpc[q] = "unpark" /\ Head(out[q]) = u =>
                               dpc'[q] = "unpark" /\ out'[q] = out[q]
      BY <1>b, <2>2 DEF h
    <3> QED BY <1>a, <1>d, <2>2, <3>1 DEF Parks
  <2> QED BY <2>1, <2>2
<1> QED BY <1>1, <1>2, <1>3, <1>4, <1>5 DEF Core

\* A close takes every idle thread off the stack and owes each a wake-up.
LEMMA CloseKeepsCore ==
    ASSUME Types, Core, Close
    PROVE  Core'
<1> USE PartiesApart
<1>a. /\ OutShape /\ OwedApart /\ OwedWait /\ IdleWait /\ WaitersFound /\ Parks /\ HandPlaces
  BY DEF Core
<1>b. /\ cpc[Closer] = "new" /\ out[Closer] = <<>> /\ dpc[Closer] = "store" /\ idle' = <<>>
      /\ UNCHANGED <<dpc, slot, mail, token, tpc, held>>
      /\ out'[Closer] = idle /\ \A q \in Parties : q # Closer => out'[q] = out[q]
      /\ cpc'[Closer] = "closing" /\ \A c \in Callers : cpc'[c] = cpc[c]
  BY <1>a DEF Close, Post, OutShape, Types, boxes, threads
<1>c. /\ Owed(Closer)' = ToSet(idle) /\ Owed(Closer) = {}
      /\ \A q \in Parties : q # Closer => Owed(q)' = Owed(q)
  BY <1>a, <1>b, OwedThreads DEF Owed
<1>d. ToSet(<<>>) = {} /\ IsInjective(<<>>) /\ IsInjective(idle)
  BY <1>a, EmptyQueue, ContentsAreRange DEF IdleWait
<1>1. OutShape'
  <2>1. \A q \in Parties : IsInjective(out'[q]) /\ (out'[q] = <<>> => dpc'[q] = "store")
    BY <1>a, <1>b, <1>d DEF OutShape
  <2> QED BY <1>a, <1>b, <2>1 DEF OutShape
<1>2. OwedApart'
  <2>1. \A q \in Parties : Owed(q) \cap ToSet(idle) = {}
    BY <1>a DEF OwedWait
  <2> QED BY <1>a, <1>c, <2>1 DEF OwedApart
<1>3. OwedWait'
  <2> SUFFICES ASSUME NEW q \in Parties, NEW u \in Owed(q)'
               PROVE  /\ u \notin ToSet(<<>>) /\ tpc[u] \in Waiting /\ slot[u] # "READY"
                      /\ mail[u] = IF dpc[q] = "swap" /\ u = Head(out'[q])
                                      THEN Parcel(q)' ELSE NoJob
    BY <1>b DEF OwedWait
  <2>1. CASE q = Closer
    BY <1>a, <1>b, <1>c, <1>d, <2>1 DEF IdleWait
  <2>2. CASE q # Closer
    <3>1. /\ tpc[u] \in Waiting /\ slot[u] # "READY"
          /\ mail[u] = IF dpc[q] = "swap" /\ u = Head(out[q]) THEN Parcel(q) ELSE NoJob
      BY <1>a, <1>c, <2>2 DEF OwedWait
    <3>2. Parcel(q)' = Parcel(q)
      BY <1>b DEF Parcel
    <3> QED BY <1>b, <1>d, <2>2, <3>1, <3>2
  <2> QED BY <2>1, <2>2
<1>4. IdleWait'
  BY <1>b, <1>d DEF IdleWait
<1>5. WaitersFound'
  BY <1>a, <1>b, <1>c DEF WaitersFound
<1>6. Parks'
  <2>1. \A q \in Parties : dpc[q] = "unpark" => q # Closer
    BY <1>b
  <2> QED BY <1>a, <1>b, <2>1 DEF Parks
<1>7. HandPlaces'
  BY <1>a, <1>b DEF HandPlaces
<1> QED BY <1>1, <1>2, <1>3, <1>4, <1>5, <1>6, <1>7 DEF Core

\* A re-route is a hand-over to an idle thread, or the thread's last step.
LEMMA ReRouteKeepsCore ==
    ASSUME Types, Core, NEW t \in Threads, ReRoute(t)
    PROVE  Core'
<1> USE DEF boxes, Waiting
<1>a. /\ OutShape /\ OwedWait /\ IdleWait /\ WaitersFound /\ HandPlaces /\ IsInjective(idle)
  BY DEF Core, IdleWait
<1>b. /\ tpc \in [Threads -> ThreadPlaces] /\ idle \in Seq(Threads)
      /\ held \in [Threads -> Callers \cup {NoJob}] /\ t \in Parties
  BY PartiesApart DEF Types
<1>c. tpc[t] = "reroute" /\ out[t] = <<>> /\ mail[t] = NoJob /\ UNCHANGED cpc
  BY <1>a DEF ReRoute, OutShape, HandPlaces
<1>1. CASE idle # <<>>
  <2> DEFINE v == idle[TakeIdle]
  <2>1. /\ idle' = RemoveAt(idle, TakeIdle) /\ out' = [out EXCEPT ![t] = <<v>>]
        /\ tpc' = [tpc EXCEPT ![t] = "rerouting"]
        /\ UNCHANGED <<queue, closed, slot, mail, token, held, dpc, served, deaths>>
    BY <1>1 DEF ReRoute, Post
  <2>2. /\ v \in Threads /\ v \in ToSet(idle) /\ IsInjective(RemoveAt(idle, TakeIdle))
        /\ ToSet(RemoveAt(idle, TakeIdle)) = ToSet(idle) \ {v}
    BY <1>1, <1>a, <1>b, HandOverIdle
  <2> HIDE DEF v
  <2>3. Hands(t, v)
    BY <1>c, <2>1, <2>2 DEF Hands
  <2> QED BY <1>b, <2>2, <2>3, HandsKeepsCore
<1>2. CASE idle = <<>>
  <2>1. /\ Moves(t) /\ idle' = idle /\ tpc'[t] = "gone" /\ held'[t] = NoJob
        /\ slot' = slot /\ mail' = mail /\ token' = token
    BY <1>2, <1>b, <1>c DEF ReRoute, Moves, post
  <2>2. t \notin ToSet(idle) /\ ~(\E p \in Parties : t \in Owed(p))
    BY <1>a, <1>c DEF IdleWait, OwedWait
  <2>3. Types'
    BY <1>a, ThreadTypes DEF ThreadStep
  <2> QED BY <1>a, <1>c, <2>1, <2>2, <2>3, MovesKeepsCore
<1> QED BY <1>1, <1>2

\* A caller that is accepted takes an idle thread or only joins the queue.
LEMMA AcceptKeepsCore ==
    ASSUME Types, Core, NEW c \in Callers, Accept(c), cpc[c] \notin AcceptedPlaces,
           cpc'[c] \in AcceptedPlaces, \A p \in Callers \cup {Closer} : p # c => cpc'[p] = cpc[p],
           UNCHANGED <<closed, boxes, threads, served, deaths>>
    PROVE  Core'
<1> USE DEF boxes, threads
<1>a. OutShape /\ IdleWait /\ IsInjective(idle) /\ idle \in Seq(Threads)
  BY DEF Core, IdleWait, Types
<1>b. out[c] = <<>> /\ cpc'[Closer] = cpc[Closer] /\ c \in Parties
  BY <1>a, PartiesApart DEF OutShape
<1>1. CASE idle # <<>>
  <2> DEFINE v == idle[TakeIdle]
  <2>1. /\ idle' = RemoveAt(idle, TakeIdle) /\ out' = [out EXCEPT ![c] = <<v>>]
        /\ UNCHANGED <<queue, dpc>>
    BY <1>1 DEF Accept, Post
  <2>2. /\ v \in Threads /\ v \in ToSet(idle) /\ IsInjective(RemoveAt(idle, TakeIdle))
        /\ ToSet(RemoveAt(idle, TakeIdle)) = ToSet(idle) \ {v}
    BY <1>1, <1>a, HandOverIdle
  <2> HIDE DEF v
  <2>3. Hands(c, v)
    BY <1>b, <2>1, <2>2 DEF Hands
  <2> QED BY <1>b, <2>2, <2>3, HandsKeepsCore
<1>2. CASE idle = <<>>
  <2>1. UNCHANGED <<idle, out, dpc>>
    BY <1>2 DEF Accept, post
  <2>2. Aside
    BY <1>b, <2>1 DEF Aside
  <2> QED BY <2>2, AsideKeepsCore
<1> QED BY <1>1, <1>2

\* Where a caller's step leaves it: accepted now, or with the jobs and threads
\* as they were.
LEMMA CallerSteps ==
    ASSUME Types, NEW c \in Callers, TryPush(c) \/ CallerStep(c) \/ Cancel(c)
    PROVE  /\ UNCHANGED <<closed, boxes, threads, served, deaths>>
           /\ cpc' = [cpc EXCEPT ![c] = cpc'[c]]
           /\ \/ /\ Accept(c) /\ cpc[c] \in {"new", "enabled"} /\ cpc'[c] \in AcceptedPlaces
              \/ /\ UNCHANGED <<queue, idle, post>> /\ cpc[c] \notin AcceptedPlaces
                 /\ cpc'[c] \in CallerPlaces \ AcceptedPlaces
                 /\ cpc[c] # "refused"
              \/ /\ UNCHANGED <<queue, idle, post>>
                 /\ cpc[c] \in AcceptedPlaces /\ cpc'[c] \in AcceptedPlaces
<1> USE DEF AcceptedPlaces, CallerPlaces, state
<1>a. cpc \in [Callers \cup {Closer} -> CallerPlaces]
  BY DEF Types
<1>1. CASE TryPush(c)
  <2>1. CASE Accept(c) /\ cpc' = [cpc EXCEPT ![c] = "done"]
    BY <1>1, <1>a, <2>1 DEF TryPush
  <2>2. CASE UNCHANGED <<queue, idle, post>> /\ cpc' = [cpc EXCEPT ![c] = "refused"]
    BY <1>1, <1>a, <2>2 DEF TryPush
  <2>3. CASE UNCHANGED <<queue, idle, post>> /\ cpc' = [cpc EXCEPT ![c] = "full"]
    BY <1>1, <1>a, <2>3 DEF TryPush
  <2> QED BY <1>1, <2>1, <2>2, <2>3 DEF TryPush
<1>2. CASE CountWaiter(c)
  BY <1>2, <1>a DEF CountWaiter
<1>3. CASE Enable(c)
  BY <1>3, <1>a DEF Enable
<1>4. CASE Retry(c)
  <2>1. CASE Accept(c) /\ cpc' = [cpc EXCEPT ![c] = IF Room' THEN "baton" ELSE "enough"]
    <3>1. cpc'[c] \in {"baton", "enough"} /\ cpc' = [cpc EXCEPT ![c] = cpc'[c]]
      BY <1>a, <2>1
    <3> QED BY <1>4, <2>1, <3>1 DEF Retry
  <2>2. CASE UNCHANGED <<queue, idle, post>> /\ cpc' = [cpc EXCEPT ![c] = "refused"]
    BY <1>4, <1>a, <2>2 DEF Retry
  <2>3. CASE UNCHANGED <<queue, idle, post>> /\ cpc' = [cpc EXCEPT ![c] = "asleep"]
    BY <1>4, <1>a, <2>3 DEF Retry
  <2> QED BY <1>4, <2>1, <2>2, <2>3 DEF Retry
<1>5. CASE PassBaton(c)
  BY <1>5, <1>a DEF PassBaton
<1>6. CASE PushReturns(c)
  BY <1>6, <1>a DEF PushReturns
<1>7. CASE WakeCaller(c)
  BY <1>7, <1>a DEF WakeCaller
<1>8. CASE Cancel(c)
  BY <1>8, <1>a DEF Cancel
<1> QED BY <1>1, <1>2, <1>3, <1>4, <1>5, <1>6, <1>7, <1>8 DEF CallerStep

\* A caller's step keeps Core.
LEMMA CallerKeepsCore ==
    ASSUME Types, Core, NEW c \in Callers, TryPush(c) \/ CallerStep(c) \/ Cancel(c)
    PROVE  Core'
<1>a. cpc \in [Callers \cup {Closer} -> CallerPlaces] /\ c # Closer
  BY PartiesApart DEF Types
<1>b. /\ UNCHANGED <<closed, boxes, threads, served, deaths>>
      /\ cpc' = [cpc EXCEPT ![c] = cpc'[c]]
  BY CallerSteps
<1>c. \A p \in Callers \cup {Closer} : p # c => cpc'[p] = cpc[p]
  BY <1>a, <1>b
<1>1. CASE Accept(c) /\ cpc[c] \in {"new", "enabled"} /\ cpc'[c] \in AcceptedPlaces
  <2>1. cpc[c] \notin AcceptedPlaces
    BY <1>1 DEF AcceptedPlaces
  <2> QED BY <1>1, <1>b, <1>c, <2>1, AcceptKeepsCore
<1>2. CASE /\ UNCHANGED <<queue, idle, post>>
           /\ cpc[c] \in AcceptedPlaces => cpc'[c] \in AcceptedPlaces
  <2>1. Aside
    BY <1>2, <1>a, <1>b, <1>c DEF Aside, boxes, threads, post
  <2> QED BY <2>1, AsideKeepsCore
<1> QED BY <1>1, <1>2, CallerSteps

\* Every step keeps Types and Core.
LEMMA NextKeepsCore ==
    ASSUME Types, Core, [Next]_vars
    PROVE  Types' /\ Core'
<1>a. IsInjective(idle) /\ HandPlaces
  BY DEF Core, IdleWait
<1>1. ASSUME NEW p \in Parties, Deliver(p) PROVE Types' /\ Core'
  BY <1>1, DeliverTypes, StoreKeepsCore, SwapKeepsCore, UnparkKeepsCore DEF Deliver
<1>2. ASSUME NEW c \in Callers, TryPush(c) \/ CallerStep(c) \/ Cancel(c)
      PROVE  Types' /\ Core'
  BY <1>2, <1>a, CallerTypes, CallerKeepsCore
<1>3. CASE Close
  BY <1>3, CloseTypes, CloseKeepsCore
<1>4. CASE CloseNotifies
  <2>1. Aside
    BY <1>4, PartiesApart DEF CloseNotifies, Aside, Types, state, boxes, threads, post
  <2> QED BY <1>4, <2>1, CloseTypes, AsideKeepsCore
<1>5. ASSUME NEW t \in Threads,
             ThreadStep(t) \/ SpuriousWake(t) \/ Retire(t) \/ RegisterWorker(t)
      PROVE  Types' /\ Core'
  BY <1>5, <1>a, ThreadTypes, ThreadKeepsCore, ReRouteKeepsCore
<1>6. CASE UNCHANGED vars
  <2> USE <1>6 DEF vars, state, boxes, threads, post, space
  <2>1. Types'
    BY DEF Types
  <2>2. Aside
    BY DEF Aside
  <2> QED BY <2>1, <2>2, AsideKeepsCore
<1> QED BY <1>1, <1>2, <1>3, <1>4, <1>5, <1>6 DEF Next, Terminated

-----------------------------------------------------------------------------
(* Jobs, and the bound of the queue.                                       *)

\* A job in the dispatcher stays one that was accepted.
LEMMA JobsStayAccepted ==
    ASSUME Types, Core, JobsAccepted, Next
    PROVE  JobsAccepted'
<1> USE DEF boxes, threads, state, post
<1> DEFINE A == AcceptedJobs
<1>a. /\ queue \in Seq(Callers) /\ mail \in [Threads -> Callers \cup {NoJob}]
      /\ held \in [Threads -> Callers \cup {NoJob}] /\ tpc \in [Threads -> ThreadPlaces]
      /\ cpc \in [Callers \cup {Closer} -> CallerPlaces]
  BY DEF Types
<1>b. /\ ToSet(queue) \subseteq A /\ served \subseteq A
      /\ \A t \in Threads : held[t] \in A \cup {NoJob} /\ mail[t] \in A \cup {NoJob}
  BY DEF JobsAccepted
<1>c. ASSUME A \subseteq A', ToSet(queue') \subseteq A', served' \subseteq A',
             \A t \in Threads : held'[t] \in A' \cup {NoJob} /\ mail'[t] \in A' \cup {NoJob}
      PROVE  JobsAccepted'
  BY <1>c DEF JobsAccepted
<1>d. ASSUME UNCHANGED cpc PROVE A' = A
  BY <1>d DEF AcceptedJobs
<1>h. ASSUME NEW c \in Callers PROVE c \in A <=> cpc[c] \in AcceptedPlaces
  BY DEF AcceptedJobs
<1>i. ASSUME NEW c \in Callers PROVE c \in A' <=> cpc'[c] \in AcceptedPlaces
  BY DEF AcceptedJobs
<1>j. A \subseteq Callers
  BY DEF AcceptedJobs
<1> HIDE DEF A
<1>1. ASSUME NEW p \in Parties, Deliver(p) PROVE JobsAccepted'
  <2>1. Parcel(p) \in A \cup {NoJob}
    <3>1. out[p] # <<>>
      BY <1>1 DEF Deliver, Store, Swap, Unpark
    <3>2. p \in Callers => cpc[p] \in AcceptedPlaces
      BY <3>1 DEF Core, OutShape
    <3> QED BY <1>b, <1>h, <3>2 DEF Parcel, Parties
  <2>2. UNCHANGED <<cpc, queue, served, held>>
    BY <1>1 DEF Deliver, Store, Swap, Unpark
  <2>3. \A t \in Threads : mail'[t] \in A \cup {NoJob}
    BY <1>1, <1>a, <1>b, <2>1 DEF Deliver, Store, Swap, Unpark
  <2> QED BY <1>b, <1>c, <1>d, <2>2, <2>3
<1>2. ASSUME NEW c \in Callers, TryPush(c) \/ CallerStep(c) \/ Cancel(c)
      PROVE  JobsAccepted'
  <2>1. /\ UNCHANGED <<held, mail, served>> /\ cpc' = [cpc EXCEPT ![c] = cpc'[c]]
        /\ cpc[c] \in AcceptedPlaces => cpc'[c] \in AcceptedPlaces
    BY <1>2, CallerSteps DEF AcceptedPlaces
  <2>2. A \subseteq A'
    BY <1>a, <1>h, <1>i, <1>j, <2>1
  <2>3. ToSet(queue') \subseteq A'
    <3>1. CASE queue' = queue
      BY <1>b, <2>2, <3>1
    <3>2. CASE queue' = Append(queue, c) /\ cpc'[c] \in AcceptedPlaces
      <4>1. ToSet(queue') = ToSet(queue) \cup {c}
        BY <1>a, <3>2, PushBack, ContentsAreRange
      <4> QED BY <1>b, <1>i, <2>2, <3>2, <4>1
    <3> QED BY <1>2, <3>1, <3>2, CallerSteps DEF Accept
  <2> QED BY <1>b, <1>c, <2>1, <2>2, <2>3
<1>3. CASE Close \/ CloseNotifies
  <2>1. UNCHANGED <<queue, held, mail, served>> /\ \A c \in Callers : cpc'[c] = cpc[c]
    BY <1>3, <1>a, PartiesApart DEF Close, CloseNotifies
  <2>2. A \subseteq A'
    BY <1>h, <1>i, <1>j, <2>1
  <2> QED BY <1>b, <1>c, <2>1, <2>2
<1>4. ASSUME NEW t \in Threads,
             ThreadStep(t) \/ SpuriousWake(t) \/ Retire(t) \/ RegisterWorker(t)
      PROVE  JobsAccepted'
  <2>1. A' = A
    BY <1>4, <1>d DEF ThreadStep, PopQueued, RecvClosed, Announce, Poll, ParkCas, CheckReady,
       Wake, TakeMail, Finish, DropWait, DropTake, ReRoute, ReRouted, SpuriousWake, Retire,
       RegisterWorker
  <2>2. CASE PopQueued(t)
    <3>1. ToSet(queue) = ToSet(Tail(queue)) \cup {Head(queue)}
      BY <1>a, <2>2, PopFront, ContentsAreRange DEF PopQueued
    <3>2. Head(queue) \in A /\ ToSet(queue') \subseteq A
      BY <1>b, <2>2, <3>1 DEF PopQueued
    <3>3. \A u \in Threads : held'[u] \in A \cup {NoJob}
      BY <1>a, <1>b, <2>2, <3>2 DEF PopQueued
    <3>4. UNCHANGED <<mail, served>>
      BY <2>2 DEF PopQueued
    <3> QED BY <1>b, <1>c, <2>1, <3>2, <3>3, <3>4
  <2>3. CASE TakeMail(t) \/ DropTake(t)
    <3>1. \A u \in Threads : held'[u] \in A \cup {NoJob} /\ mail'[u] \in A \cup {NoJob}
      BY <1>a, <1>b, <2>3 DEF TakeMail, DropTake
    <3> QED BY <1>b, <1>c, <2>1, <2>3, <3>1 DEF TakeMail, DropTake
  <2>4. CASE Finish(t)
    <3>1. held[t] \in A
      BY <1>b, <2>4 DEF Finish, Core, HandPlaces
    <3>2. \A u \in Threads : held'[u] \in A \cup {NoJob}
      BY <1>a, <1>b, <2>4 DEF Finish
    <3> QED BY <1>b, <1>c, <2>1, <2>4, <3>1, <3>2 DEF Finish
  <2>5. CASE ReRoute(t)
    <3>1. held[t] \in A
      BY <1>b, <2>5 DEF ReRoute, Core, HandPlaces
    <3>2. ToSet(queue') \subseteq A
      <4>1. CASE queue' = queue
        BY <1>b, <4>1
      <4>2. CASE queue' = Cons(held[t], queue)
        <5>1. held[t] \in Callers
          BY <1>j, <3>1
        <5>2. /\ <<held[t]>> \in Seq(Callers) /\ Range(<<held[t]>>) = {held[t]}
          BY <5>1, OneElement
        <5>3. ToSet(Cons(held[t], queue)) = {held[t]} \cup ToSet(queue)
          BY <1>a, <5>2, JoinQueues, ContentsAreRange DEF Cons
        <5> QED BY <1>b, <3>1, <4>2, <5>3
      <4> QED BY <2>5, <4>1, <4>2 DEF ReRoute
    <3>3. \A u \in Threads : held'[u] \in A \cup {NoJob}
      BY <1>a, <1>b, <2>5 DEF ReRoute
    <3> QED BY <1>b, <1>c, <2>1, <2>5, <3>2, <3>3 DEF ReRoute
  <2>6. CASE ReRouted(t)
    <3>1. \A u \in Threads : held'[u] \in A \cup {NoJob}
      BY <1>a, <1>b, <2>6 DEF ReRouted
    <3> QED BY <1>b, <1>c, <2>1, <2>6, <3>1 DEF ReRouted
  <2>7. CASE UNCHANGED <<queue, mail, held, served>>
    BY <1>b, <1>c, <2>1, <2>7
  <2> QED BY <1>4, <2>2, <2>3, <2>4, <2>5, <2>6, <2>7 DEF ThreadStep, RecvClosed, Announce,
       Poll, ParkCas, CheckReady, Wake, DropWait, SpuriousWake, Retire, RegisterWorker
<1>5. CASE Terminated
  BY <1>5, <1>b, <1>c, <1>d DEF Terminated, vars
<1> QED BY <1>1, <1>2, <1>3, <1>4, <1>5 DEF Next

\* The queue may exceed its capacity by the jobs of threads that retired.
LEMMA QueueStaysBounded ==
    ASSUME Types, Core, QueueBound, Next
    PROVE  QueueBound'
<1> USE DEF boxes, threads, state, post
<1> DEFINE D == Dropping
           drop == {"dropWait", "dropTake", "reroute", "rerouting"}
<1>a. /\ queue \in Seq(Callers) /\ tpc \in [Threads -> ThreadPlaces] /\ deaths \in Nat
      /\ Capacity \in Nat
  BY HandoffAssumption DEF Types
<1>b. /\ IsFiniteSet(D) /\ Cardinality(D) <= deaths /\ Cardinality(D) \in Nat
      /\ Len(queue) + Cardinality(D) <= Capacity + deaths /\ Len(queue) \in Nat
  BY <1>a, FS_CardinalityType, LenProperties DEF QueueBound
<1>c. ASSUME tpc' = tpc \/ D' = D, deaths' = deaths,
             Len(queue') <= Len(queue) \/ Len(queue') <= Capacity, Len(queue') \in Nat
      PROVE  QueueBound'
  <2>1. D' = D
    BY <1>c DEF Dropping
  <2> QED BY <1>a, <1>b, <1>c, <2>1 DEF QueueBound
<1>k. ASSUME IsFiniteSet(D'), Cardinality(D') <= deaths',
             Len(queue') + Cardinality(D') <= Capacity + deaths'
      PROVE  QueueBound'
  BY <1>k DEF QueueBound
<1>d. ASSUME NEW t \in Threads PROVE t \in D <=> tpc[t] \in drop
  BY DEF Dropping
<1>e. ASSUME NEW t \in Threads PROVE t \in D' <=> tpc'[t] \in drop
  BY DEF Dropping
<1>f. D \subseteq Threads /\ D' \subseteq Threads
  BY DEF Dropping
<1>g. ASSUME NEW t \in Threads
      PROVE  /\ t \in D => /\ IsFiniteSet(D \ {t}) /\ Cardinality(D \ {t}) = Cardinality(D) - 1
             /\ t \notin D =>
                  /\ IsFiniteSet(D \cup {t}) /\ Cardinality(D \cup {t}) = Cardinality(D) + 1
  BY <1>b, FS_AddElement, FS_RemoveElement
<1> HIDE DEF D, drop
<1>1. ASSUME NEW p \in Parties, Deliver(p) PROVE QueueBound'
  BY <1>1, <1>b, <1>c DEF Deliver, Store, Swap, Unpark
<1>2. ASSUME NEW c \in Callers, TryPush(c) \/ CallerStep(c) \/ Cancel(c)
      PROVE  QueueBound'
  <2>1. tpc' = tpc /\ deaths' = deaths
    BY <1>2, CallerSteps
  <2>2. CASE queue' = queue
    BY <1>b, <1>c, <2>1, <2>2
  <2>3. CASE queue' = Append(queue, c) /\ Len(queue) < Capacity
    <3>1. Len(queue') = Len(queue) + 1
      BY <1>a, <2>3, AppendProperties
    <3> QED BY <1>a, <1>b, <1>c, <2>1, <2>3, <3>1
  <2> QED BY <1>2, <2>2, <2>3, CallerSteps DEF Accept, Room
<1>3. CASE Close \/ CloseNotifies
  BY <1>3, <1>b, <1>c DEF Close, CloseNotifies
<1>4. ASSUME NEW t \in Threads,
             ThreadStep(t) \/ SpuriousWake(t) \/ Retire(t) \/ RegisterWorker(t)
      PROVE  QueueBound'
  <2>a. /\ tpc'[t] \in drop => D' = D \cup {t}
        /\ tpc'[t] \notin drop => D' = D \ {t}
    <3>1. \A u \in Threads : u # t => tpc'[u] = tpc[u]
      BY <1>4, <1>a DEF ThreadStep, PopQueued, RecvClosed, Announce, Poll, ParkCas, CheckReady,
         Wake, TakeMail, Finish, DropWait, DropTake, ReRoute, ReRouted, SpuriousWake, Retire,
         RegisterWorker
    <3> QED BY <1>d, <1>e, <1>f, <3>1
  <2>1. CASE PopQueued(t)
    <3>1. tpc[t] \notin drop /\ tpc'[t] \notin drop
      BY <1>a, <2>1 DEF PopQueued, drop
    <3>2. Len(queue') = Len(queue) - 1 /\ Len(queue') \in Nat
      BY <1>a, <2>1, HeadTailProperties, EmptySeq, LenProperties DEF PopQueued
    <3>3. D' = D
      BY <1>d, <2>a, <3>1
    <3> QED BY <1>b, <1>c, <2>1, <3>2, <3>3 DEF PopQueued
  <2>2. CASE \/ RecvClosed(t) \/ Announce(t) \/ Poll(t) \/ ParkCas(t) \/ CheckReady(t) \/ Wake(t)
             \/ TakeMail(t) \/ Finish(t) \/ SpuriousWake(t) \/ RegisterWorker(t)
    <3>1. /\ tpc[t] \notin drop /\ tpc'[t] \notin drop /\ UNCHANGED <<queue, deaths>>
      BY <1>a, <2>2 DEF RecvClosed, Announce, Poll, ParkCas, CheckReady, Wake, TakeMail, Finish,
         SpuriousWake, RegisterWorker, drop
    <3>2. D' = D
      BY <1>d, <2>a, <3>1
    <3> QED BY <1>b, <1>c, <3>1, <3>2
  <2>3. CASE DropWait(t) \/ DropTake(t) \/ ReRouted(t)
    <3>1. tpc[t] \in drop /\ UNCHANGED <<queue, deaths>>
      BY <2>3 DEF DropWait, DropTake, ReRouted, drop
    <3>2. t \in D
      BY <1>d, <3>1
    <3>3. D' = D \/ D' = D \ {t}
      BY <2>a, <3>2
    <3>4. CASE D' = D
      BY <1>b, <1>c, <3>1, <3>4
    <3>5. CASE D' = D \ {t}
      <4>1. IsFiniteSet(D') /\ Cardinality(D') = Cardinality(D) - 1
        BY <1>g, <3>2, <3>5
      <4> QED BY <1>a, <1>b, <1>k, <3>1, <4>1
    <3> QED BY <3>3, <3>4, <3>5
  <2>4. CASE ReRoute(t)
    <3>1. t \in D /\ deaths' = deaths
      BY <1>d, <2>4 DEF ReRoute, drop
    <3>2. CASE queue' = queue /\ tpc' = [tpc EXCEPT ![t] = "rerouting"]
      <4>1. D' = D
        BY <1>a, <2>a, <3>1, <3>2 DEF drop
      <4> QED BY <1>b, <1>c, <3>1, <3>2, <4>1
    <3>3. CASE queue' = Cons(held[t], queue) /\ tpc' = [tpc EXCEPT ![t] = "gone"]
      <4>1. tpc'[t] \notin drop
        BY <1>a, <3>3 DEF drop
      <4>2. held[t] \in Callers
        BY <2>4 DEF ReRoute, Core, HandPlaces, Types
      <4>3. Len(queue') = Len(queue) + 1
        BY <1>a, <3>3, <4>2, ConcatProperties DEF Cons
      <4>4. D' = D \ {t}
        BY <2>a, <4>1
      <4> QED BY <1>a, <1>b, <1>g, <1>k, <3>1, <4>3, <4>4
    <3> QED BY <2>4, <3>2, <3>3 DEF ReRoute
  <2>5. CASE Retire(t)
    <3>1. t \notin D /\ deaths' = deaths + 1 /\ queue' = queue
      BY <1>d, <2>5 DEF Retire, drop
    <3>2. D' = D \/ D' = D \cup {t}
      BY <2>a, <3>1
    <3>3. CASE D' = D
      <4>1. IsFiniteSet(D') /\ Cardinality(D') = Cardinality(D)
        BY <1>b, <3>3
      <4> QED BY <1>a, <1>b, <1>k, <3>1, <4>1
    <3>4. CASE D' = D \cup {t}
      <4>1. IsFiniteSet(D') /\ Cardinality(D') = Cardinality(D) + 1
        BY <1>g, <3>1, <3>4
      <4> QED BY <1>a, <1>b, <1>k, <3>1, <4>1
    <3> QED BY <3>2, <3>3, <3>4
  <2> QED BY <1>4, <2>1, <2>2, <2>3, <2>4, <2>5 DEF ThreadStep
<1>5. CASE Terminated
  BY <1>5, <1>b, <1>c DEF Terminated, vars
<1> QED BY <1>1, <1>2, <1>3, <1>4, <1>5 DEF Next

\* Neither recv nor push leaves a thread idle beside a queued job.
LEMMA IdleOnlyWhenEmptyKept ==
    ASSUME Types, Core, IdleOnlyWhenEmpty, Next
    PROVE  IdleOnlyWhenEmpty'
<1> USE DEF boxes, threads, state, post
<1>a. queue \in Seq(Callers) /\ idle \in Seq(Threads) /\ IsInjective(idle)
  BY DEF Types, Core, IdleWait
<1>1. CASE UNCHANGED <<queue, idle>>
  BY <1>1 DEF IdleOnlyWhenEmpty
<1>2. ASSUME NEW c \in Callers, Accept(c) PROVE IdleOnlyWhenEmpty'
  <2>1. CASE idle = <<>>
    BY <1>2, <2>1 DEF Accept, IdleOnlyWhenEmpty
  <2>2. CASE idle # <<>>
    BY <1>2, <2>2 DEF Accept, IdleOnlyWhenEmpty
  <2> QED BY <2>1, <2>2
<1>3. ASSUME NEW t \in Threads, PopQueued(t) PROVE IdleOnlyWhenEmpty'
  BY <1>3 DEF PopQueued, IdleOnlyWhenEmpty
<1>4. ASSUME NEW t \in Threads, Announce(t) PROVE IdleOnlyWhenEmpty'
  BY <1>4 DEF Announce, IdleOnlyWhenEmpty
<1>5. ASSUME NEW t \in Threads, Retire(t) PROVE IdleOnlyWhenEmpty'
  <2>1. idle = <<>> => Without(idle, t) = <<>>
    BY DEF Without, ToSet
  <2> QED BY <1>5, <2>1 DEF Retire, IdleOnlyWhenEmpty
<1>6. ASSUME NEW t \in Threads, ReRoute(t) PROVE IdleOnlyWhenEmpty'
  BY <1>6 DEF ReRoute, IdleOnlyWhenEmpty
<1>7. CASE Close
  BY <1>7 DEF Close, IdleOnlyWhenEmpty
<1>8. ASSUME NEW c \in Callers, TryPush(c) \/ CallerStep(c) \/ Cancel(c)
      PROVE  IdleOnlyWhenEmpty'
  BY <1>8, <1>1, <1>2, CallerSteps
<1>9. ASSUME NEW p \in Parties, Deliver(p) PROVE UNCHANGED <<queue, idle>>
  BY <1>9 DEF Deliver, Store, Swap, Unpark
<1>10. ASSUME NEW t \in Threads,
              \/ RecvClosed(t) \/ Poll(t) \/ ParkCas(t) \/ CheckReady(t) \/ Wake(t)
              \/ TakeMail(t) \/ Finish(t) \/ DropWait(t) \/ DropTake(t) \/ ReRouted(t)
              \/ SpuriousWake(t) \/ RegisterWorker(t)
       PROVE  UNCHANGED <<queue, idle>>
  BY <1>10 DEF RecvClosed, Poll, ParkCas, CheckReady, Wake, TakeMail, Finish, DropWait,
     DropTake, ReRouted, SpuriousWake, RegisterWorker
<1>11. CloseNotifies \/ Terminated => UNCHANGED <<queue, idle>>
  BY DEF CloseNotifies, Terminated, vars
<1> QED BY <1>1, <1>3, <1>4, <1>5, <1>6, <1>7, <1>8, <1>9, <1>10, <1>11 DEF Next, ThreadStep

\* A delivery list grows only from empty to one thread.
LEMMA OneParcelKept ==
    ASSUME Types, Core, OneParcel, Next
    PROVE  OneParcel'
<1> USE DEF boxes, threads, state, post
<1>a. out \in [Parties -> Seq(Threads)] /\ idle \in Seq(Threads) /\ IsInjective(idle)
  BY DEF Types, Core, IdleWait
<1>1. CASE out' = out
  BY <1>1 DEF OneParcel
<1>2. ASSUME NEW p \in Parties, idle # <<>>, out' = [out EXCEPT ![p] = <<idle[TakeIdle]>>]
      PROVE  OneParcel'
  <2>1. Tail(<<idle[TakeIdle]>>) = <<>>
    BY <1>2, <1>a, HandOverIdle
  <2> QED BY <1>2, <1>a, <2>1 DEF OneParcel
<1>3. ASSUME NEW p \in Parties, out[p] # <<>>, out' = [out EXCEPT ![p] = Tail(out[p])]
      PROVE  OneParcel'
  <2>1. \A q \in Parties \ {Closer} : out'[q] # <<>> => out'[q] = out[q]
    BY <1>3, <1>a DEF OneParcel
  <2> QED BY <2>1 DEF OneParcel
<1>4. ASSUME NEW p \in Parties, Deliver(p) PROVE OneParcel'
  BY <1>4, <1>1, <1>3 DEF Deliver, Store, Swap, Unpark
<1>5. ASSUME NEW c \in Callers, TryPush(c) \/ CallerStep(c) \/ Cancel(c)
      PROVE  OneParcel'
  BY <1>5, <1>1, <1>2, CallerSteps, PartiesApart DEF Accept, Post
<1>6. CASE Close
  BY <1>6, <1>a DEF Close, Post, OneParcel
<1>7. ASSUME NEW t \in Threads, ReRoute(t) PROVE OneParcel'
  BY <1>7, <1>1, <1>2, PartiesApart DEF ReRoute, Post
<1>8. ASSUME NEW t \in Threads, ~ReRoute(t),
             ThreadStep(t) \/ SpuriousWake(t) \/ Retire(t) \/ RegisterWorker(t)
      PROVE  out' = out
  BY <1>8 DEF ThreadStep, PopQueued, RecvClosed, Announce, Poll, ParkCas, CheckReady,
     Wake, TakeMail, Finish, DropWait, DropTake, ReRouted, SpuriousWake, Retire, RegisterWorker
<1>9. CloseNotifies \/ Terminated => out' = out
  BY DEF CloseNotifies, Terminated, vars
<1> QED BY <1>1, <1>4, <1>5, <1>6, <1>7, <1>8, <1>9 DEF Next

-----------------------------------------------------------------------------
(* The invariant, and what it gives.                                       *)

\* A fresh dispatcher satisfies the invariant.
LEMMA InitHand ==
    ASSUME Init
    PROVE  HandInv
<1> USE DEF Init
<1>a. /\ Range(<<>>) = {} /\ ToSet(<<>>) = {} /\ IsInjective(<<>>) /\ Len(<<>>) = 0
  BY EmptyQueue, ContentsAreRange
<1>1. Types
  <2>1. <<>> \in Seq(Callers) /\ <<>> \in Seq(Threads)
    BY EmptySeq
  <2>2. deaths \in 0..MaxDeaths /\ served \subseteq Callers
    BY HandoffAssumption
  <2>3. /\ out \in [Parties -> Seq(Threads)] /\ dpc \in [Parties -> {"store", "swap", "unpark"}]
        /\ slot \in [Threads -> {"READY", "PARKED"} \cup Announced]
    BY <2>1
  <2>4. /\ cpc \in [Callers \cup {Closer} -> CallerPlaces] /\ tpc \in [Threads -> ThreadPlaces]
    BY DEF CallerPlaces, ThreadPlaces
  <2> QED BY <2>1, <2>2, <2>3, <2>4 DEF Types
<1>2. \A p \in Parties : out[p] = <<>> /\ dpc[p] = "store" /\ Owed(p) = {}
  BY <1>a DEF Owed
<1>3. OutShape /\ OwedApart /\ OwedWait
  BY <1>2, <1>a, PartiesApart DEF OutShape, OwedApart, OwedWait
<1>4. IdleWait /\ WaitersFound /\ Parks /\ HandPlaces
  BY <1>a DEF IdleWait, WaitersFound, Parks, HandPlaces, Waiting
<1>5. JobsAccepted
  BY <1>a DEF JobsAccepted
<1>6. Dropping = {} /\ IsFiniteSet({}) /\ Cardinality({}) = 0
  BY FS_EmptySet DEF Dropping
<1>7. QueueBound
  BY <1>a, <1>6, HandoffAssumption DEF QueueBound
<1>8. OneParcel /\ IdleOnlyWhenEmpty
  BY <1>2 DEF OneParcel, IdleOnlyWhenEmpty
<1> QED BY <1>1, <1>3, <1>4, <1>5, <1>7, <1>8 DEF HandInv

\* Every step keeps the invariant.
LEMMA NextHand ==
    ASSUME HandInv, [Next]_vars
    PROVE  HandInv'
<1>1. Types /\ Core /\ JobsAccepted /\ QueueBound /\ IdleOnlyWhenEmpty /\ OneParcel
  BY DEF HandInv, Core
<1>2. Types' /\ Core'
  BY <1>1, NextKeepsCore
<1>3. CASE Next
  BY <1>1, <1>2, <1>3, JobsStayAccepted, QueueStaysBounded, IdleOnlyWhenEmptyKept,
     OneParcelKept DEF HandInv, Core
<1>4. CASE UNCHANGED vars
  <2> USE <1>4 DEF vars, state, boxes, threads, post
  <2>1. JobsAccepted'
    BY <1>1 DEF JobsAccepted, AcceptedJobs
  <2>2. Dropping' = Dropping
    BY DEF Dropping
  <2>3. QueueBound'
    BY <1>1, <2>2 DEF QueueBound
  <2>4. IdleOnlyWhenEmpty'
    BY <1>1 DEF IdleOnlyWhenEmpty
  <2>5. OneParcel'
    BY <1>1 DEF OneParcel
  <2> QED BY <1>2, <2>1, <2>3, <2>4, <2>5 DEF HandInv, Core
<1> QED BY <1>3, <1>4

\* The dispatcher always satisfies the invariant.
LEMMA HandInvariant == Spec => []HandInv
BY InitHand, NextHand, PTL DEF Spec

\* Type correctness, with the bound the code keeps: the overflow queue exceeds
\* its capacity only by jobs that retired threads had to put back.
THEOREM HandoffTypeCorrect == Spec => []TypeOK
<1>1. HandInv => TypeOK
  <2> SUFFICES ASSUME HandInv PROVE TypeOK
    OBVIOUS
  <2>1. Types /\ QueueBound
    BY DEF HandInv
  <2>2. Cardinality(Dropping) \in Nat /\ Len(queue) \in Nat /\ deaths \in Nat /\ Capacity \in Nat
    BY <2>1, FS_CardinalityType, LenProperties, HandoffAssumption DEF QueueBound, Types
  <2>3. Len(queue) <= Capacity + deaths
    BY <2>1, <2>2 DEF QueueBound
  <2> QED BY <2>1, <2>3 DEF TypeOK, Types
<1> QED BY <1>1, HandInvariant, PTL

\* The first invariant of handoff.rs: a thread is on the idle stack only while
\* the overflow queue is empty, whatever pushes, pops, retirements and re-routes
\* interleave.
THEOREM ThreadsIdleOnlyWhenEmpty == Spec => []IdleOnlyWhenEmpty
<1>1. HandInv => IdleOnlyWhenEmpty
  BY DEF HandInv
<1> QED BY <1>1, HandInvariant, PTL

\* No lost wake-up: a thread that sleeps in park() is on the idle stack, has a
\* delivery or its unpark coming, or has its park token set.
THEOREM SleepersAreReachable == Spec => []SleeperIsReachable
<1>1. HandInv => SleeperIsReachable
  <2> SUFFICES ASSUME HandInv, NEW t \in Threads, tpc[t] = "asleep"
               PROVE  t \in ToSet(idle) \/ token[t] \/ \E p \in Parties : t \in ToSet(out[p])
    BY DEF SleeperIsReachable
  <2>a. Types /\ OutShape /\ WaitersFound /\ Parks
    BY DEF HandInv
  <2>1. CASE slot[t] = "READY"
    <3>1. token[t] \/ \E p \in Parties : /\ dpc[p] = "unpark" /\ out[p] # <<>>
                                         /\ Head(out[p]) = t
      BY <2>a, <2>1 DEF Parks
    <3>2. \A p \in Parties : out[p] # <<>> => Head(out[p]) \in ToSet(out[p])
      BY <2>a, OwedThreads
    <3> QED BY <3>1, <3>2
  <2>2. CASE slot[t] # "READY"
    <3>1. t \in ToSet(idle) \/ \E p \in Parties : t \in Owed(p)
      BY <2>a, <2>2 DEF WaitersFound, Waiting
    <3>2. ASSUME NEW p \in Parties PROVE Owed(p) \subseteq ToSet(out[p])
      <4>1. CASE out[p] = <<>>
        BY <2>a, <4>1, OwedThreads
      <4>2. CASE out[p] # <<>>
        BY <2>a, <4>2, OwedThreads DEF Owed
      <4> QED BY <4>1, <4>2
    <3> QED BY <3>1, <3>2
  <2> QED BY <2>1, <2>2
<1> QED BY <1>1, HandInvariant, PTL

-----------------------------------------------------------------------------
(* The refinement: what each step looks like from outside.                 *)

Holding == {"work", "reroute"}
Pending(t, p) == t \in ToSet(out[p]) /\ dpc[p] = "store"

\* The job a thread was given: in its hands, still to be stored, or in the
\* mailbox.
GivenIs(t) ==
    /\ tpc[t] \in Holding => Given(t) = held[t]
    /\ \A p \in Parties : Pending(t, p) => Given(t) = Parcel(p)
    /\ tpc[t] \notin Holding /\ (\A p \in Parties : ~Pending(t, p)) => Given(t) = mail[t]

\* A thread with a delivery pending waits, with an empty mailbox.
LEMMA PendingOwed ==
    ASSUME Types, Core, NEW t \in Threads, NEW p \in Parties, Pending(t, p)
    PROVE  t \in Owed(p) /\ tpc[t] \in Waiting /\ mail[t] = NoJob /\ held[t] = NoJob
<1>1. t \in Owed(p)
  BY DEF Pending, Owed
<1> QED BY <1>1 DEF Core, OwedWait, HandPlaces, Pending, Waiting

\* The three places do not overlap, so Given is well defined.
LEMMA GivenValue == Types /\ Core => \A t \in Threads : GivenIs(t)
<1> SUFFICES ASSUME Types, Core, NEW t \in Threads PROVE GivenIs(t)
  OBVIOUS
<1>a. HandPlaces /\ OwedApart
  BY DEF Core
<1>b. Given(t) = IF held[t] # NoJob /\ tpc[t] # "rerouting" THEN held[t]
                 ELSE IF mail[t] # NoJob THEN mail[t]
                 ELSE IF \E p \in Parties : Pending(t, p)
                 THEN Parcel(CHOOSE p \in Parties : Pending(t, p))
                 ELSE NoJob
  BY DEF Given, Pending
<1>1. tpc[t] \in Holding => Given(t) = held[t]
  BY <1>a, <1>b DEF Holding, HandPlaces
<1>2. ASSUME NEW p \in Parties, Pending(t, p) PROVE Given(t) = Parcel(p)
  <2> DEFINE q == CHOOSE r \in Parties : Pending(t, r)
  <2>1. q \in Parties /\ Pending(t, q)
    BY <1>2
  <2>2. Given(t) = Parcel(q)
    BY <1>2, <1>b, PendingOwed
  <2> HIDE DEF q
  <2>3. q = p
    BY <1>2, <1>a, <2>1, PendingOwed DEF OwedApart
  <2> QED BY <2>2, <2>3
<1>3. ASSUME tpc[t] \notin Holding, \A p \in Parties : ~Pending(t, p)
      PROVE  Given(t) = mail[t]
  BY <1>3, <1>a, <1>b DEF Holding, HandPlaces
<1> QED BY <1>1, <1>2, <1>3 DEF GivenIs

\* What a job's handler has been told.
StatusIs(c) ==
    StatusOf(c) = IF c \in served THEN "served"
                  ELSE IF cpc[c] \in AcceptedPlaces THEN "accepted"
                  ELSE IF cpc[c] = "refused" THEN "refused" ELSE "offered"

\* The cases of StatusOf do not overlap.
LEMMA StatusValue == JobsAccepted => \A c \in Callers : StatusIs(c)
<1> SUFFICES ASSUME JobsAccepted, NEW c \in Callers PROVE StatusIs(c)
  OBVIOUS
<1>1. c \in served => cpc[c] \in AcceptedPlaces
  BY DEF JobsAccepted, AcceptedJobs
<1> QED BY <1>1 DEF StatusIs, StatusOf, AcceptedPlaces

\* Both, before and after a step.
LEMMA OutsideView ==
    ASSUME HandInv, [Next]_vars
    PROVE  /\ \A t \in Threads : GivenIs(t) /\ GivenIs(t)'
           /\ \A c \in Callers : StatusIs(c) /\ StatusIs(c)'
           /\ Types' /\ Core' /\ JobsAccepted'
<1>1. Types /\ Core /\ JobsAccepted
  BY DEF HandInv, Core
<1>2. Types' /\ Core' /\ JobsAccepted'
  BY NextHand DEF HandInv, Core
<1>3. (Types /\ Core => \A t \in Threads : GivenIs(t))'
  BY GivenValue, PTL
<1>4. (JobsAccepted => \A c \in Callers : StatusIs(c))'
  BY StatusValue, PTL
<1> QED BY <1>1, <1>2, <1>3, <1>4, GivenValue, StatusValue

\* The job given to u is not touched by a step elsewhere.
LEMMA GivenKept ==
    ASSUME NEW u \in Threads, GivenIs(u), GivenIs(u)',
           tpc'[u] \in Holding <=> tpc[u] \in Holding,
           tpc[u] \in Holding => held'[u] = held[u],
           mail'[u] = mail[u],
           \A q \in Parties : /\ Pending(u, q)' <=> Pending(u, q)
                              /\ Pending(u, q) => Parcel(q)' = Parcel(q)
    PROVE  Given(u)' = Given(u)
<1>1. CASE \E q \in Parties : Pending(u, q)
  BY <1>1 DEF GivenIs
<1>2. CASE tpc[u] \in Holding
  BY <1>2 DEF GivenIs
<1>3. CASE tpc[u] \notin Holding /\ \A q \in Parties : ~Pending(u, q)
  BY <1>3 DEF GivenIs
<1> QED BY <1>1, <1>2, <1>3

\* A delivery is invisible: the job moves from the party into the mailbox.
LEMMA DeliverKeepsGiven ==
    ASSUME HandInv, NEW p \in Parties, Deliver(p), NEW u \in Threads
    PROVE  Given(u)' = Given(u)
<1> USE DEF state, threads
<1> DEFINE h == Head(out[p])
<1>a. Types /\ Core /\ OutShape /\ OwedApart /\ OwedWait /\ OneParcel
  BY DEF HandInv, Core
<1>b. GivenIs(u) /\ GivenIs(u)'
  BY OutsideView DEF Next
<1>c. /\ out[p] # <<>> /\ UNCHANGED <<tpc, held>>
      /\ \A q \in Parties : q # p => dpc'[q] = dpc[q] /\ out'[q] = out[q]
  BY <1>a DEF Deliver, Store, Swap, Unpark, Types
<1>d. \A q \in Parties : Parcel(q)' = Parcel(q)
  BY <1>c DEF Parcel
<1>e. \A q \in Parties : q # p => (Pending(u, q)' <=> Pending(u, q))
  BY <1>c DEF Pending
<1>f. /\ h \in Threads /\ h \in ToSet(out[p]) /\ ToSet(Tail(out[p])) = ToSet(out[p]) \ {h}
  BY <1>a, <1>c, OwedThreads
<1>g. ASSUME u \in ToSet(Tail(out[p])) PROVE Parcel(p) = NoJob
  <2>1. Tail(out[p]) # <<>>
    BY <1>g DEF ToSet
  <2>2. p = Closer
    BY <1>a, <1>c, <2>1 DEF OneParcel
  <2> QED BY <2>2, PartiesApart DEF Parcel
<1> HIDE DEF h
<1>1. CASE Store(p)
  <2>1. dpc[p] = "store" /\ dpc'[p] = "swap" /\ out' = out
    BY <1>1, <1>a DEF Store, Types
  <2>2. mail'[h] = Parcel(p) /\ (u # h => mail'[u] = mail[u])
    BY <1>1, <1>a, <1>f DEF Store, Types, h
  <2>3. ~Pending(u, p)'
    BY <2>1 DEF Pending
  <2>4. CASE u \in ToSet(out[p])
    <3>1. Pending(u, p)
      BY <2>1, <2>4 DEF Pending
    <3>2. u \in Owed(p) /\ tpc[u] \in Waiting /\ mail[u] = NoJob
      BY <1>a, <3>1, PendingOwed
    <3>3. ASSUME NEW q \in Parties, q # p, Pending(u, q) PROVE FALSE
      BY <1>a, <3>2, <3>3, PendingOwed DEF OwedApart
    <3>4. Given(u) = Parcel(p) /\ Given(u)' = mail'[u]
      BY <1>b, <1>c, <1>e, <2>3, <3>1, <3>2, <3>3 DEF GivenIs, Waiting, Holding
    <3> QED BY <1>f, <1>g, <2>2, <2>4, <3>2, <3>4
  <2>5. CASE u \notin ToSet(out[p])
    <3>1. ~Pending(u, p) /\ u # h
      BY <1>f, <2>5 DEF Pending
    <3> QED BY <1>b, <1>c, <1>d, <1>e, <2>2, <2>3, <3>1, GivenKept
  <2> QED BY <2>4, <2>5
<1>2. CASE Swap(p) \/ Unpark(p)
  <2>1. /\ dpc[p] # "store" /\ mail' = mail
        /\ dpc'[p] = "store" => out'[p] = Tail(out[p])
    BY <1>2, <1>a DEF Swap, Unpark, Types
  <2>2. ~Pending(u, p)
    BY <2>1 DEF Pending
  <2>3. CASE Pending(u, p)'
    <3>1. u \in ToSet(Tail(out[p]))
      BY <2>1, <2>3 DEF Pending
    <3>2. u \in Owed(p) /\ u # h
      BY <1>f, <3>1 DEF Owed
    <3>3. tpc[u] \in Waiting /\ mail[u] = NoJob
      BY <1>a, <3>2 DEF OwedWait, h
    <3>4. ASSUME NEW q \in Parties, q # p, Pending(u, q) PROVE FALSE
      BY <1>a, <3>2, <3>4, PendingOwed DEF OwedApart
    <3>5. Given(u) = NoJob
      BY <1>b, <2>2, <3>3, <3>4 DEF GivenIs, Waiting, Holding
    <3>6. Given(u)' = NoJob
      BY <1>b, <1>d, <1>g, <2>3, <3>1 DEF GivenIs
    <3> QED BY <3>5, <3>6
  <2>4. CASE ~Pending(u, p)'
    BY <1>b, <1>c, <1>d, <1>e, <2>1, <2>2, <2>4, GivenKept
  <2> QED BY <2>3, <2>4
<1> QED BY <1>1, <1>2 DEF Deliver

\* Nor does a step of a caller that is not accepted change any hand.
LEMMA AsideKeepsGiven ==
    ASSUME HandInv, [Next]_vars, UNCHANGED <<mail, tpc, held, out, dpc>>, NEW u \in Threads
    PROVE  Given(u)' = Given(u)
<1>1. GivenIs(u) /\ GivenIs(u)'
  BY OutsideView
<1> QED BY <1>1, GivenKept DEF Pending, Parcel

\* A thread off the idle stack and owed nothing; a hand-over reaches one thread.
LEMMA HandsGives ==
    ASSUME HandInv, [Next]_vars, NEW p \in Parties, NEW v \in Threads, Hands(p, v),
           NEW u \in Threads
    PROVE  /\ u = v => Given(u) = NoJob /\ Given(u)' = Parcel(p)
           /\ u # v /\ u # p => Given(u)' = Given(u)
           /\ u = p => u # v /\ Given(u) = held[u] /\ Given(u)' = NoJob
<1>a. Types /\ Core /\ OutShape /\ OwedWait /\ IdleWait /\ HandPlaces /\ Types' /\ Core'
  BY OutsideView DEF HandInv, Core
<1>b. GivenIs(u) /\ GivenIs(u)'
  BY OutsideView
<1>c. /\ UNCHANGED <<mail, held, dpc>> /\ v \in ToSet(idle) /\ out[p] = <<>> /\ dpc[p] = "store"
      /\ out'[p] = <<v>> /\ \A q \in Parties : q # p => out'[q] = out[q]
  BY <1>a DEF Hands, Types, OutShape
<1>d. /\ u = p => tpc[u] = "reroute" /\ tpc'[u] = "rerouting"
      /\ u # p => tpc'[u] = tpc[u]
  BY <1>a, PartiesApart DEF Hands, Types
<1>e. ToSet(<<v>>) = {v} /\ ToSet(<<>>) = {}
  BY OneElement, EmptyQueue, ContentsAreRange
<1>f. /\ \A q \in Parties : Parcel(q)' = Parcel(q)
      /\ \A q \in Parties : q # p => (Pending(u, q)' <=> Pending(u, q))
      /\ ~Pending(u, p) /\ (Pending(u, p)' <=> u = v)
  BY <1>c, <1>e DEF Parcel, Pending
<1>1. CASE u = v
  <2>1. tpc[u] \in Waiting /\ mail[u] = NoJob /\ \A q \in Parties : u \notin Owed(q)
    BY <1>a, <1>c, <1>1 DEF IdleWait, OwedWait
  <2>2. \A q \in Parties : ~Pending(u, q)
    BY <1>a, <2>1, PendingOwed
  <2>3. Given(u) = NoJob
    BY <1>b, <2>1, <2>2 DEF GivenIs, Waiting, Holding
  <2>4. Given(u)' = Parcel(p)
    BY <1>b, <1>f, <1>1 DEF GivenIs
  <2>5. u # p
    BY <1>d, <2>1 DEF Waiting
  <2> QED BY <1>1, <2>3, <2>4, <2>5
<1>2. CASE u # v /\ u # p
  BY <1>b, <1>c, <1>d, <1>f, <1>2, GivenKept
<1>3. CASE u = p /\ u # v
  <2>1. Given(u) = held[u] /\ mail[u] = NoJob
    BY <1>a, <1>b, <1>d, <1>3 DEF GivenIs, Holding, HandPlaces, Waiting
  <2>2. \A q \in Parties : ~Pending(u, q)
    BY <1>a, <1>d, <1>3, PendingOwed DEF Waiting
  <2>3. \A q \in Parties : ~Pending(u, q)'
    BY <1>f, <1>3, <2>2
  <2>4. Given(u)' = NoJob
    BY <1>b, <1>c, <1>d, <1>3, <2>1, <2>3 DEF GivenIs, Holding
  <2> QED BY <1>3, <2>1, <2>4
<1> QED BY <1>1, <1>2, <1>3

\* A step of thread t that delivers nothing leaves the other hands alone.
LEMMA MovesGives ==
    ASSUME HandInv, [Next]_vars, NEW t \in Threads, Moves(t), out[t] = <<>>
    PROVE  /\ \A u \in Threads : u # t => Given(u)' = Given(u)
           /\ tpc[t] \notin Waiting => \A q \in Parties : ~Pending(t, q) /\ ~Pending(t, q)'
           /\ \A q \in Parties : /\ Pending(t, q)' <=> Pending(t, q)
                                 /\ Pending(t, q) => Parcel(q)' = Parcel(q)
<1>a. Types /\ Core /\ \A u \in Threads : GivenIs(u) /\ GivenIs(u)'
  BY OutsideView DEF HandInv, Core
<1>b. /\ out' = out /\ dpc' = dpc
      /\ \A u \in Threads : u # t => /\ tpc'[u] = tpc[u] /\ mail'[u] = mail[u]
                                     /\ held'[u] = held[u]
  BY DEF Moves
<1>c. \A u \in Threads : \A q \in Parties : Pending(u, q)' <=> Pending(u, q)
  BY <1>b DEF Pending
<1>d. ASSUME NEW u \in Threads, NEW q \in Parties, Pending(u, q)
      PROVE  Parcel(q)' = Parcel(q)
  <2>1. q # t
    BY <1>d DEF Pending, ToSet
  <2> QED BY <1>b, <2>1, PartiesApart DEF Parcel
<1>1. ASSUME NEW u \in Threads, u # t PROVE Given(u)' = Given(u)
  BY <1>1, <1>a, <1>b, <1>c, <1>d, GivenKept
<1>2. tpc[t] \notin Waiting => \A q \in Parties : ~Pending(t, q)
  BY <1>a, PendingOwed
<1> QED BY <1>1, <1>2, <1>c, <1>d

\* The hands and the statuses, as the refinement mapping builds them.
Hand == [t \in Threads |-> Given(t)]
Stat == [c \in Callers |-> StatusOf(c)]

\* A step that changes nothing an outsider sees.
LEMMA Unseen ==
    ASSUME UNCHANGED <<queue, closed>>, ToSet(idle') = ToSet(idle),
           \A u \in Threads : Given(u)' = Given(u),
           \A c \in Callers : StatusOf(c)' = StatusOf(c)
    PROVE  UNCHANGED Abstract!vars
<1>1. Hand' = Hand /\ Stat' = Stat
  BY DEF Hand, Stat
<1> QED BY <1>1 DEF Abstract!vars, Hand, Stat

\* Deliveries.
LEMMA DeliverRefines ==
    ASSUME HandInv, NEW p \in Parties, Deliver(p)
    PROVE  UNCHANGED Abstract!vars
<1>1. UNCHANGED <<queue, closed, idle, served, cpc>>
  BY DEF Deliver, Store, Swap, Unpark, state
<1>2. \A c \in Callers : StatusOf(c)' = StatusOf(c)
  BY <1>1 DEF StatusOf
<1> QED BY <1>1, <1>2, DeliverKeepsGiven, Unseen

\* Callers: an accepted job is handed over or queued, a refused one is given
\* back, and waiting for room is invisible.
LEMMA CallerRefines ==
    ASSUME HandInv, NEW c \in Callers, TryPush(c) \/ CallerStep(c) \/ Cancel(c)
    PROVE  [Abstract!Next]_(Abstract!vars)
<1> USE DEF boxes, threads, post
<1>a. Types /\ Core /\ IsInjective(idle) /\ OutShape /\ JobsAccepted /\ idle \in Seq(Threads)
      /\ cpc \in [Callers \cup {Closer} -> CallerPlaces]
  BY DEF HandInv, Core, IdleWait, Types
<1>n. Next
  BY DEF Next
<1>b. \A d \in Callers : StatusIs(d) /\ StatusIs(d)'
  BY <1>n, OutsideView
<1>c. /\ UNCHANGED <<closed, boxes, threads, served, deaths>>
      /\ cpc' = [cpc EXCEPT ![c] = cpc'[c]]
  BY <1>a, CallerSteps
<1>d. \A d \in Callers : d # c => StatusOf(d)' = StatusOf(d)
  BY <1>a, <1>b, <1>c DEF StatusIs
<1>e. cpc[c] \notin AcceptedPlaces => c \notin served
  BY <1>a DEF JobsAccepted, AcceptedJobs
<1>1. CASE Accept(c) /\ cpc[c] \in {"new", "enabled"} /\ cpc'[c] \in AcceptedPlaces
  <2>1. StatusOf(c) = "offered" /\ StatusOf(c)' = "accepted" /\ ~closed
    BY <1>1, <1>b, <1>c, <1>e DEF StatusIs, AcceptedPlaces, Accept
  <2>2. Stat' = [Stat EXCEPT ![c] = "accepted"]
    BY <1>d, <2>1 DEF Stat
  <2>3. CASE idle # <<>>
    <3> DEFINE v == idle[TakeIdle]
    <3>1. /\ idle' = RemoveAt(idle, TakeIdle) /\ out' = [out EXCEPT ![c] = <<v>>]
          /\ UNCHANGED <<queue, dpc>>
      BY <1>1, <2>3 DEF Accept, Post
    <3>2. /\ v \in Threads /\ v \in ToSet(idle) /\ IsInjective(RemoveAt(idle, TakeIdle))
          /\ ToSet(RemoveAt(idle, TakeIdle)) = ToSet(idle) \ {v}
      BY <1>a, <2>3, HandOverIdle
    <3> HIDE DEF v
    <3>3. Hands(c, v)
      <4>1. out[c] = <<>> /\ c \in Parties /\ c # Closer
        BY <1>1, <1>a, PartiesApart DEF OutShape, AcceptedPlaces
      <4>2. cpc'[Closer] = cpc[Closer] /\ \A d \in Callers : d # c => cpc'[d] = cpc[d]
        BY <1>a, <1>c, <4>1
      <4> QED BY <1>1, <1>c, <3>1, <3>2, <4>1, <4>2 DEF Hands
    <3>4. \A u \in Threads : Given(u)' = IF u = v THEN c ELSE Given(u)
      <4>1. Parcel(c) = c /\ c \in Parties /\ \A u \in Threads : u # c
        BY PartiesApart DEF Parcel
      <4> QED BY <1>n, <3>2, <3>3, <4>1, HandsGives
    <3>5. Hand' = [Hand EXCEPT ![v] = c]
      BY <3>4 DEF Hand
    <3>6. Abstract!HandOver(c, v)
      BY <1>c, <2>1, <2>2, <3>1, <3>2, <3>5 DEF Abstract!HandOver, Hand, Stat
    <3> QED BY <3>2, <3>6 DEF Abstract!Next
  <2>4. CASE idle = <<>>
    <3>1. /\ queue' = Append(queue, c) /\ UNCHANGED <<idle, out, dpc>> /\ Len(queue) < Capacity
      BY <1>1, <2>4 DEF Accept, Room
    <3>2. ToSet(idle) = {}
      BY <2>4 DEF ToSet
    <3>3. Hand' = Hand
      BY <1>c, <1>n, <3>1, AsideKeepsGiven DEF Hand
    <3>4. Abstract!Enqueue(c)
      BY <1>c, <2>1, <2>2, <3>1, <3>2, <3>3 DEF Abstract!Enqueue, Hand, Stat
    <3> QED BY <3>4 DEF Abstract!Next
  <2> QED BY <2>3, <2>4
<1>2. CASE /\ UNCHANGED <<queue, idle, post>>
           /\ cpc[c] \in AcceptedPlaces <=> cpc'[c] \in AcceptedPlaces
           /\ cpc[c] # "refused"
  <2>1. \A u \in Threads : Given(u)' = Given(u)
    BY <1>2, <1>c, <1>n, AsideKeepsGiven
  <2>2. CASE /\ cpc[c] \notin AcceptedPlaces /\ cpc[c] # "refused" /\ cpc'[c] = "refused"
    <3>1. StatusOf(c) = "offered" /\ StatusOf(c)' = "refused"
      BY <2>2, <1>b, <1>c, <1>e DEF StatusIs, AcceptedPlaces
    <3>2. Stat' = [Stat EXCEPT ![c] = "refused"] /\ Hand' = Hand
      BY <1>d, <2>1, <3>1 DEF Stat, Hand
    <3>3. Abstract!Refuse(c)
      BY <1>2, <1>c, <3>1, <3>2 DEF Abstract!Refuse, Hand, Stat
    <3> QED BY <3>3 DEF Abstract!Next
  <2>3. CASE /\ cpc[c] \in AcceptedPlaces <=> cpc'[c] \in AcceptedPlaces
             /\ cpc[c] # "refused" /\ cpc'[c] # "refused"
    <3>1. StatusOf(c)' = StatusOf(c)
      BY <2>3, <1>b, <1>c DEF StatusIs
    <3> QED BY <1>2, <1>c, <1>d, <2>1, <3>1, Unseen
  <2>4. "refused" \notin AcceptedPlaces
    BY DEF AcceptedPlaces
  <2> QED BY <1>2, <2>2, <2>3, <2>4
<1> QED BY <1>1, <1>2, <1>a, CallerSteps DEF AcceptedPlaces

\* Closing: the idle threads get nothing but a wake-up.
LEMMA CloseRefines ==
    ASSUME HandInv, Close \/ CloseNotifies
    PROVE  [Abstract!Next]_(Abstract!vars)
<1> USE DEF boxes, threads, post, state
<1>a. Types /\ Core /\ OutShape /\ OwedWait /\ IdleWait /\ ToSet(idle) \subseteq Threads
  BY RangeMember, ContentsAreRange DEF HandInv, Core, Types
<1>n. Next
  BY DEF Next
<1>b. \A u \in Threads : GivenIs(u) /\ GivenIs(u)'
  BY <1>n, OutsideView
<1>1. UNCHANGED <<queue, mail, tpc, held, dpc, served>> /\ \A c \in Callers : cpc'[c] = cpc[c]
  BY <1>a, PartiesApart DEF Close, CloseNotifies, Types, Post
<1>2. \A c \in Callers : StatusOf(c)' = StatusOf(c)
  BY <1>1 DEF StatusOf
<1>3. CASE CloseNotifies
  <2>1. UNCHANGED <<idle, closed, out>>
    BY <1>3 DEF CloseNotifies
  <2> QED BY <1>1, <1>2, <1>n, <2>1, AsideKeepsGiven, Unseen
<1>4. CASE Close
  <2>1. /\ closed' = TRUE /\ ToSet(idle') = {} /\ out'[Closer] = idle
        /\ out[Closer] = <<>> /\ dpc[Closer] = "store"
        /\ \A q \in Parties : q # Closer => out'[q] = out[q]
    BY <1>4, <1>a, PartiesApart DEF Close, Post, OutShape, Types, ToSet
  <2>2. \A q \in Parties : Parcel(q)' = Parcel(q)
    BY <1>1 DEF Parcel
  <2>3. ASSUME NEW u \in Threads PROVE Given(u)' = Given(u)
    <3>1. /\ \A q \in Parties : q # Closer => (Pending(u, q)' <=> Pending(u, q))
          /\ ~Pending(u, Closer) /\ (Pending(u, Closer)' <=> u \in ToSet(idle))
      BY <1>1, <2>1 DEF Pending, ToSet
    <3>2. CASE u \in ToSet(idle)
      <4>1. tpc[u] \in Waiting /\ mail[u] = NoJob /\ \A q \in Parties : u \notin Owed(q)
        BY <1>a, <3>2 DEF IdleWait, OwedWait
      <4>2. \A q \in Parties : ~Pending(u, q)
        BY <1>a, <4>1, PendingOwed
      <4>3. Given(u) = NoJob
        BY <1>b, <4>1, <4>2 DEF GivenIs, Waiting, Holding
      <4>4. Given(u)' = Parcel(Closer) /\ Parcel(Closer) = NoJob
        BY <1>b, <2>2, <3>1, <3>2, PartiesApart DEF GivenIs, Parcel
      <4> QED BY <4>3, <4>4
    <3>3. CASE u \notin ToSet(idle)
      BY <1>1, <1>b, <2>2, <3>1, <3>3, GivenKept
    <3> QED BY <3>2, <3>3
  <2>4. Hand' = Hand /\ Stat' = Stat
    BY <1>2, <2>3 DEF Hand, Stat
  <2>5. Abstract!Close
    BY <1>1, <2>1, <2>4 DEF Abstract!Close, Hand, Stat
  <2> QED BY <2>5 DEF Abstract!Next
<1> QED BY <1>3, <1>4

\* Threads: a thread pops, goes idle, runs, leaves or passes its job on; how it
\* waits and wakes is invisible.
LEMMA ThreadRefines ==
    ASSUME HandInv, NEW t \in Threads, ~ReRoute(t),
           ThreadStep(t) \/ SpuriousWake(t) \/ Retire(t) \/ RegisterWorker(t)
    PROVE  [Abstract!Next]_(Abstract!vars)
<1> USE DEF boxes, threads, post, state
<1>a. /\ Types /\ Core /\ OutShape /\ OwedWait /\ IdleWait /\ HandPlaces /\ IsInjective(idle)
      /\ tpc \in [Threads -> ThreadPlaces] /\ mail \in [Threads -> Callers \cup {NoJob}]
      /\ held \in [Threads -> Callers \cup {NoJob}] /\ idle \in Seq(Threads)
      /\ slot \in [Threads -> {"READY", "PARKED"} \cup Announced]
      /\ token \in [Threads -> BOOLEAN] /\ queue \in Seq(Callers)
  BY DEF HandInv, Core, IdleWait, Types
<1>n. Next
  BY DEF Next
<1>b. GivenIs(t) /\ GivenIs(t)' /\ \A c \in Callers : StatusIs(c) /\ StatusIs(c)'
  BY <1>n, OutsideView
<1>c. cpc' = cpc /\ out' = out /\ dpc' = dpc
  BY DEF ThreadStep, PopQueued, RecvClosed, Announce, Poll, ParkCas, CheckReady, Wake,
     TakeMail, Finish, DropWait, DropTake, ReRouted, SpuriousWake, Retire, RegisterWorker
<1>d. out[t] = <<>>
  <2>1. CASE tpc[t] # "rerouting"
    BY <1>a, <2>1 DEF OutShape
  <2>2. CASE tpc[t] = "rerouting"
    BY <2>2 DEF ThreadStep, PopQueued, RecvClosed, Announce, Poll, ParkCas, CheckReady, Wake,
       TakeMail, Finish, DropWait, DropTake, ReRouted, SpuriousWake, Retire, RegisterWorker
  <2> QED BY <2>1, <2>2
<1>e. Moves(t)
  <2>1. \A u \in Threads : u # t => (u \in ToSet(idle') <=> u \in ToSet(idle))
    <3>1. CASE idle' = idle
      BY <3>1
    <3>2. CASE Announce(t)
      <4>1. ToSet(idle') = ToSet(idle) \cup {t}
        BY <1>a, <3>2, PushBack, ContentsAreRange DEF Announce
      <4> QED BY <4>1
    <3>3. CASE Retire(t)
      <4>1. ToSet(idle') = ToSet(idle) \ {t}
        BY <1>a, <3>3, WithoutEffect DEF Retire
      <4> QED BY <4>1
    <3> QED BY <3>1, <3>2, <3>3 DEF ThreadStep, PopQueued, RecvClosed, Poll, ParkCas,
         CheckReady, Wake, TakeMail, Finish, DropWait, DropTake, ReRouted, SpuriousWake,
         RegisterWorker
  <2>2. \A u \in Threads : u # t =>
          /\ tpc'[u] = tpc[u] /\ slot'[u] = slot[u] /\ mail'[u] = mail[u]
          /\ held'[u] = held[u] /\ token'[u] = token[u]
    BY <1>a DEF ThreadStep, PopQueued, RecvClosed, Announce, Poll, ParkCas, CheckReady, Wake,
       TakeMail, Finish, DropWait, DropTake, ReRouted, SpuriousWake, Retire, RegisterWorker
  <2> QED BY <1>c, <2>1, <2>2 DEF Moves
<1>f. /\ \A u \in Threads : u # t => Given(u)' = Given(u)
      /\ tpc[t] \notin Waiting => \A q \in Parties : ~Pending(t, q) /\ ~Pending(t, q)'
      /\ \A q \in Parties : /\ Pending(t, q)' <=> Pending(t, q)
                            /\ Pending(t, q) => Parcel(q)' = Parcel(q)
  BY <1>d, <1>e, <1>n, MovesGives
<1>g. /\ held[t] # NoJob <=> tpc[t] \in {"work", "reroute", "rerouting"}
      /\ mail[t] # NoJob => tpc[t] \in Waiting \cup {"take", "dropTake"}
      /\ t \in ToSet(idle) => tpc[t] \in Waiting
  BY <1>a DEF HandPlaces, IdleWait
<1>h. served' = served => \A c \in Callers : StatusOf(c)' = StatusOf(c)
  BY <1>b, <1>c DEF StatusIs
<1>i. ASSUME Given(t)' = Given(t), UNCHANGED <<queue, closed, idle, served>>
      PROVE  UNCHANGED Abstract!vars
  BY <1>f, <1>h, <1>i, Unseen
<1>j. ASSUME tpc'[t] \in Holding <=> tpc[t] \in Holding, held'[t] = held[t] \/ tpc[t] \notin Holding,
             mail'[t] = mail[t]
      PROVE  Given(t)' = Given(t)
  BY <1>b, <1>f, <1>j, GivenKept
<1>k. tpc[t] = "recv" => Given(t) = NoJob
  BY <1>b, <1>f, <1>g DEF GivenIs, Holding, Waiting
<1>1. CASE PopQueued(t)
  <2>1. /\ tpc[t] = "recv" /\ queue # <<>> /\ tpc'[t] = "work" /\ held'[t] = Head(queue)
        /\ queue' = Tail(queue) /\ UNCHANGED <<idle, closed, served>>
    BY <1>1, <1>a DEF PopQueued
  <2>2. Given(t) = NoJob /\ Given(t)' = Head(queue) /\ t \notin ToSet(idle)
    BY <1>b, <1>g, <1>k, <2>1 DEF GivenIs, Holding, Waiting
  <2>3. Hand' = [Hand EXCEPT ![t] = Head(queue)] /\ Stat' = Stat /\ Hand[t] = NoJob
    BY <1>f, <1>h, <2>1, <2>2 DEF Hand, Stat
  <2>4. Abstract!Take(t)
    BY <2>1, <2>2, <2>3 DEF Abstract!Take, Hand, Stat
  <2> QED BY <2>4 DEF Abstract!Next
<1>2. CASE Announce(t)
  <2>1. /\ tpc[t] = "recv" /\ queue = <<>> /\ ~closed /\ tpc'[t] = "announced"
        /\ idle' = Append(idle, t) /\ UNCHANGED <<queue, closed, served, held, mail>>
    BY <1>2, <1>a DEF Announce
  <2>2. Given(t) = NoJob /\ t \notin ToSet(idle) /\ ToSet(idle') = ToSet(idle) \cup {t}
    BY <1>a, <1>g, <1>k, <2>1, PushBack, ContentsAreRange DEF Waiting
  <2>3. Given(t)' = Given(t)
    BY <1>j, <2>1 DEF Holding
  <2>4. Hand' = Hand /\ Stat' = Stat /\ Hand[t] = NoJob
    BY <1>f, <1>h, <2>1, <2>2, <2>3 DEF Hand, Stat
  <2>5. Abstract!GoIdle(t)
    BY <2>1, <2>2, <2>4 DEF Abstract!GoIdle, Hand, Stat
  <2> QED BY <2>5 DEF Abstract!Next
<1>3. CASE \/ RecvClosed(t) \/ Poll(t) \/ ParkCas(t) \/ CheckReady(t) \/ Wake(t)
           \/ DropWait(t) \/ SpuriousWake(t) \/ RegisterWorker(t)
  <2>1. /\ tpc[t] \notin Holding /\ tpc'[t] \notin Holding
        /\ UNCHANGED <<queue, closed, idle, served, held, mail>>
    BY <1>3, <1>a DEF RecvClosed, Poll, ParkCas, CheckReady, Wake, DropWait, SpuriousWake,
       RegisterWorker, Holding
  <2> QED BY <1>i, <1>j, <2>1
<1>4. CASE TakeMail(t) \/ DropTake(t)
  <2>1. /\ tpc[t] \in {"take", "dropTake"} /\ mail'[t] = NoJob /\ held'[t] = mail[t]
        /\ mail[t] = NoJob => tpc'[t] \in {"recv", "gone"}
        /\ mail[t] # NoJob => tpc'[t] \in {"work", "reroute"}
        /\ UNCHANGED <<queue, closed, idle, served>>
    BY <1>4, <1>a DEF TakeMail, DropTake
  <2>2. Given(t) = mail[t] /\ Given(t)' = mail[t]
    BY <1>b, <1>f, <2>1 DEF GivenIs, Holding, Waiting
  <2> QED BY <1>i, <2>1, <2>2
<1>5. CASE Finish(t)
  <2>1. /\ tpc[t] = "work" /\ served' = served \cup {held[t]} /\ held'[t] = NoJob
        /\ tpc'[t] = "recv" /\ UNCHANGED <<queue, closed, idle, mail>>
    BY <1>5, <1>a DEF Finish
  <2>2. /\ Given(t) = held[t] /\ held[t] # NoJob /\ Given(t)' = NoJob /\ held[t] \in Callers
    BY <1>a, <1>b, <1>f, <1>g, <2>1 DEF GivenIs, Holding, Waiting
  <2>3. \A c \in Callers : StatusOf(c)' = IF c = held[t] THEN "served" ELSE StatusOf(c)
    BY <1>b, <1>c, <2>1 DEF StatusIs
  <2>4. /\ Hand' = [Hand EXCEPT ![t] = NoJob] /\ Hand[t] = held[t]
        /\ Stat' = [Stat EXCEPT ![held[t]] = "served"]
    BY <1>f, <2>2, <2>3 DEF Hand, Stat
  <2>5. Abstract!Serve(t)
    BY <2>1, <2>2, <2>4 DEF Abstract!Serve, Hand, Stat
  <2> QED BY <2>5 DEF Abstract!Next
<1>6. CASE ReRouted(t)
  <2>1. /\ tpc[t] = "rerouting" /\ tpc'[t] = "gone"
        /\ UNCHANGED <<queue, closed, idle, served, mail>>
    BY <1>6, <1>a DEF ReRouted
  <2> QED BY <1>i, <1>j, <2>1 DEF Holding
<1>7. CASE Retire(t)
  <2>1. /\ tpc[t] \in {"recv", "announced"} /\ tpc'[t] \in {"gone", "dropTake", "dropWait"}
        /\ UNCHANGED <<queue, closed, served, held, mail>> /\ ToSet(idle') = ToSet(idle) \ {t}
    BY <1>7, <1>a, WithoutEffect DEF Retire
  <2>2. Given(t)' = Given(t)
    BY <1>j, <2>1 DEF Holding
  <2>3. Hand' = Hand /\ Stat' = Stat
    BY <1>f, <1>h, <2>1, <2>2 DEF Hand, Stat
  <2>4. Abstract!Leave(t)
    BY <2>1, <2>3 DEF Abstract!Leave, Hand, Stat
  <2> QED BY <2>4 DEF Abstract!Next
<1> QED BY <1>1, <1>2, <1>3, <1>4, <1>5, <1>6, <1>7 DEF ThreadStep

\* A thread that retires with a job passes it on, or puts it in front.
LEMMA ReRouteRefines ==
    ASSUME HandInv, NEW t \in Threads, ReRoute(t)
    PROVE  Abstract!Next
<1> USE DEF boxes, post
<1>a. /\ Types /\ Core /\ OutShape /\ HandPlaces /\ IsInjective(idle) /\ idle \in Seq(Threads)
      /\ tpc \in [Threads -> ThreadPlaces] /\ held \in [Threads -> Callers \cup {NoJob}]
  BY DEF HandInv, Core, IdleWait, Types
<1>n. Next /\ t \in Parties
  BY PartiesApart DEF Next, ThreadStep
<1>b. GivenIs(t) /\ GivenIs(t)' /\ \A c \in Callers : StatusIs(c) /\ StatusIs(c)'
  BY <1>n, OutsideView
<1>c. /\ tpc[t] = "reroute" /\ out[t] = <<>> /\ mail[t] = NoJob /\ held[t] # NoJob
      /\ UNCHANGED <<cpc, closed, served, mail, slot, token, deaths>>
  BY <1>a DEF ReRoute, OutShape, HandPlaces, Waiting
<1>d. Stat' = Stat
  BY <1>b, <1>c DEF Stat, StatusIs
<1>e. Given(t) = held[t]
  BY <1>b, <1>c DEF GivenIs, Holding
<1>1. CASE idle # <<>>
  <2> DEFINE v == idle[TakeIdle]
  <2>1. /\ idle' = RemoveAt(idle, TakeIdle) /\ out' = [out EXCEPT ![t] = <<v>>]
        /\ tpc' = [tpc EXCEPT ![t] = "rerouting"] /\ UNCHANGED <<queue, held, dpc>>
    BY <1>1 DEF ReRoute, Post
  <2>2. /\ v \in Threads /\ v \in ToSet(idle) /\ IsInjective(RemoveAt(idle, TakeIdle))
        /\ ToSet(RemoveAt(idle, TakeIdle)) = ToSet(idle) \ {v}
    BY <1>1, <1>a, HandOverIdle
  <2> HIDE DEF v
  <2>3. Hands(t, v)
    BY <1>c, <2>1, <2>2 DEF Hands
  <2>4. Parcel(t) = held[t]
    BY PartiesApart DEF Parcel
  <2>5. \A u \in Threads : Given(u)' = IF u = v THEN held[t] ELSE IF u = t THEN NoJob ELSE Given(u)
    BY <1>n, <2>2, <2>3, <2>4, HandsGives
  <2>6. t # v
    BY <1>n, <2>2, <2>3, HandsGives
  <2>7. Hand' = [Hand EXCEPT ![t] = NoJob, ![v] = Hand[t]] /\ Hand[t] # NoJob
    BY <1>c, <1>e, <2>2, <2>5, <2>6 DEF Hand
  <2>8. Abstract!ReRoute(t)
    BY <1>c, <1>d, <2>1, <2>2, <2>7 DEF Abstract!ReRoute, Hand, Stat
  <2> QED BY <2>8 DEF Abstract!Next
<1>2. CASE idle = <<>>
  <2>1. /\ Moves(t) /\ idle' = idle /\ tpc'[t] = "gone" /\ held'[t] = NoJob
        /\ queue' = Cons(held[t], queue)
    BY <1>2, <1>a, <1>c DEF ReRoute, Moves
  <2>2. /\ \A u \in Threads : u # t => Given(u)' = Given(u)
        /\ \A q \in Parties : ~Pending(t, q)'
    BY <1>c, <1>n, <2>1, MovesGives DEF Waiting
  <2>3. Given(t)' = NoJob
    BY <1>b, <1>c, <2>1, <2>2 DEF GivenIs, Holding
  <2>4. Hand' = [Hand EXCEPT ![t] = NoJob] /\ Hand[t] = held[t]
    BY <1>e, <2>2, <2>3 DEF Hand
  <2>5. ToSet(idle) = {} /\ queue' = <<held[t]>> \o queue
    BY <1>2, <2>1 DEF ToSet, Cons
  <2>6. Abstract!ReRoute(t)
    BY <1>c, <1>d, <2>1, <2>4, <2>5 DEF Abstract!ReRoute, Hand, Stat
  <2> QED BY <2>6 DEF Abstract!Next
<1> QED BY <1>1, <1>2

\* The dispatcher is one FIFO with idle threads, as the module documentation of
\* handoff.rs promises: whatever mailboxes, parking, waiting for room, closing
\* and retirement do, an accepted job is in one place, goes to one thread, and
\* is overtaken by no newcomer.
THEOREM DispatcherIsAQueue == Spec => ImplementsJobQueue
<1>1. Init => Abstract!Init
  <2> SUFFICES ASSUME Init PROVE Abstract!Init
    OBVIOUS
  <2>1. Types /\ Core /\ JobsAccepted
    BY InitHand DEF HandInv, Core
  <2>2. \A t \in Threads : Given(t) = NoJob
    <3>1. \A t \in Threads : GivenIs(t)
      BY <2>1, GivenValue
    <3>2. \A t \in Threads : /\ tpc[t] = "recv" /\ mail[t] = NoJob
                             /\ \A p \in Parties : ~Pending(t, p)
      BY DEF Init, Pending, ToSet
    <3> QED BY <3>1, <3>2 DEF GivenIs, Holding
  <2>3. \A c \in Callers : StatusOf(c) = "offered"
    <3>1. \A c \in Callers : StatusIs(c)
      BY <2>1, StatusValue
    <3>2. \A c \in Callers : cpc[c] = "new" /\ c \notin served
      BY DEF Init
    <3> QED BY <3>1, <3>2 DEF StatusIs, AcceptedPlaces
  <2>4. queue = <<>> /\ ToSet(idle) = {} /\ closed = FALSE
    BY DEF Init, ToSet
  <2> QED BY <2>2, <2>3, <2>4 DEF Abstract!Init
<1>2. HandInv /\ [Next]_vars => [Abstract!Next]_(Abstract!vars)
  <2> SUFFICES ASSUME HandInv, [Next]_vars PROVE [Abstract!Next]_(Abstract!vars)
    OBVIOUS
  <2>1. CASE UNCHANGED vars
    <3>1. UNCHANGED <<queue, closed, idle, served, cpc, mail, tpc, held, out, dpc>>
      BY <2>1 DEF vars, state, boxes, threads, post
    <3>2. \A c \in Callers : StatusOf(c)' = StatusOf(c)
      BY <3>1 DEF StatusOf
    <3> QED BY <3>1, <3>2, AsideKeepsGiven, Unseen
  <2>2. ASSUME NEW t \in Threads,
               ThreadStep(t) \/ SpuriousWake(t) \/ Retire(t) \/ RegisterWorker(t)
        PROVE  [Abstract!Next]_(Abstract!vars)
    BY <2>2, ThreadRefines, ReRouteRefines
  <2>3. CASE Next
    BY <2>1, <2>2, <2>3, DeliverRefines, CallerRefines, CloseRefines DEF Next, Terminated
  <2> QED BY <2>1, <2>3
<1> QED BY <1>1, <1>2, HandInvariant, PTL DEF Spec, ImplementsJobQueue, Abstract!Spec

-----------------------------------------------------------------------------
(* Waiting for room: no wake-up of Notify is lost.                         *)

\* Where a caller may be while its Notified is registered.
InLine == {"enabled", "asleep", "baton", "enough"}

\* The line of Notify holds the callers whose Notified waits, once each.
LineIs == IsInjective(line) /\ \A c \in Callers : c \in ToSet(line) <=> ntf[c] = "wait"

Registered ==
    /\ \A c \in Callers : ntf[c] = "wait" => cpc[c] \in InLine
    /\ IsFiniteSet(PushWaiters)
    /\ cpc[Closer] = "new" \/ closed

\* Room is never left to a sleeper: a caller is before its next look at the room,
\* passes the baton, or holds a wake-up it uses or hands on when it is dropped.  A
\* permit that was consumed does not count, its future hands nothing on.
OnTheWay(d) ==
    \/ cpc[d] \in {"counted", "enabled", "baton"}
    \/ ntf[d] = "one" /\ cpc[d] \in {"asleep", "enough"}
Sleeps(c) == cpc[c] = "asleep" /\ ntf[c] = "wait"
RoomServed ==
    (\E c \in Callers : Sleeps(c)) /\ ~closed /\ Room => \E d \in Callers : OnTheWay(d)

RoomInv == LineIs /\ Registered /\ RoomServed

\* notify_one moves one waiter out of the line, if there is one.
LEMMA NotifyOneEffect ==
    ASSUME NotifyTypes, LineIs,
           NEW n \in [Callers -> {"none", "wait", "one", "all", "consumed"}],
           \A c \in Callers : n[c] = "wait" <=> ntf[c] = "wait",
           NotifyOneFrom(n)
    PROVE  /\ LineIs'
           /\ \A c \in Callers : ntf'[c] = n[c] \/ (ntf[c] = "wait" /\ ntf'[c] = "one")
           /\ (\E c \in Callers : ntf[c] = "wait") =>
                \E d \in Callers : ntf[d] = "wait" /\ ntf'[d] = "one"
<1>a. line \in Seq(Callers) /\ IsInjective(line)
  BY DEF NotifyTypes, LineIs
<1>1. CASE line = <<>>
  <2>1. UNCHANGED line /\ ntf' = n /\ ToSet(line) = {}
    BY <1>1 DEF NotifyOneFrom, ToSet
  <2> QED BY <1>a, <2>1 DEF LineIs
<1>2. CASE line # <<>>
  <2> DEFINE h == Head(line)
  <2>1. line' = Tail(line) /\ ntf' = [n EXCEPT ![h] = "one"]
    BY <1>2 DEF NotifyOneFrom
  <2>2. /\ h \in Callers /\ IsInjective(Tail(line)) /\ h \in ToSet(line)
        /\ ToSet(Tail(line)) = ToSet(line) \ {h}
    BY <1>a, <1>2, PopFront, ContentsAreRange
  <2> HIDE DEF h
  <2>3. ntf'[h] = "one" /\ \A c \in Callers : c # h => ntf'[c] = n[c]
    BY <2>1, <2>2
  <2>4. ntf[h] = "wait"
    BY <2>2 DEF LineIs
  <2>5. LineIs'
    BY <2>1, <2>2, <2>3 DEF LineIs
  <2> QED BY <2>2, <2>3, <2>4, <2>5
<1> QED BY <1>1, <1>2

\* A Notified that is dropped leaves the line and hands its wake-up on.
LEMMA DropEffect ==
    ASSUME NotifyTypes, LineIs, NEW d \in Callers, DropNotified(d)
    PROVE  /\ LineIs' /\ ntf'[d] = "none"
           /\ \A c \in Callers : c # d =>
                ntf'[c] = ntf[c] \/ (ntf[c] = "wait" /\ ntf'[c] = "one")
           /\ ntf[d] = "one" /\ (\E c \in Callers : ntf[c] = "wait") =>
                \E e \in Callers : e # d /\ ntf[e] = "wait" /\ ntf'[e] = "one"
           /\ ntf[d] # "one" => \A c \in Callers : c # d => ntf'[c] = ntf[c]
<1> DEFINE n == [ntf EXCEPT ![d] = "none"]
<1>a. /\ ntf \in [Callers -> {"none", "wait", "one", "all", "consumed"}]
      /\ line \in Seq(Callers) /\ IsInjective(line)
  BY DEF NotifyTypes, LineIs
<1>b. /\ n \in [Callers -> {"none", "wait", "one", "all", "consumed"}]
      /\ n[d] = "none" /\ \A c \in Callers : c # d => n[c] = ntf[c]
  BY <1>a
<1>1. CASE ntf[d] = "one"
  <2>1. NotifyOneFrom(n)
    BY <1>1 DEF DropNotified
  <2> HIDE DEF n
  <2>2. \A c \in Callers : n[c] = "wait" <=> ntf[c] = "wait"
    BY <1>1, <1>b
  <2> QED BY <1>1, <1>b, <2>1, <2>2, NotifyOneEffect
<1>2. CASE ntf[d] # "one"
  <2>1. ntf' = n /\ line' = Without(line, d)
    BY <1>2 DEF DropNotified
  <2> HIDE DEF n
  <2>2. IsInjective(Without(line, d)) /\ ToSet(Without(line, d)) = ToSet(line) \ {d}
    BY <1>a, WithoutEffect
  <2>3. LineIs'
    BY <1>b, <2>1, <2>2 DEF LineIs
  <2> QED BY <1>2, <1>b, <2>1, <2>3
<1> QED BY <1>1, <1>2

\* The count of waiting callers stays finite.
LEMMA WaitersFinite ==
    ASSUME NEW c, IsFiniteSet(PushWaiters),
           \A d \in Callers : d # c => cpc'[d] = cpc[d]
    PROVE  IsFiniteSet(PushWaiters')
<1>1. PushWaiters' \subseteq PushWaiters \cup {c}
  BY DEF PushWaiters
<1>2. IsFiniteSet(PushWaiters \cup {c})
  BY FS_AddElement
<1> QED BY <1>1, <1>2, FS_Subset

\* Two callers that wait are more than one.
LEMMA TwoWait ==
    ASSUME IsFiniteSet(PushWaiters), NEW c \in PushWaiters, NEW d \in PushWaiters, c # d
    PROVE  Cardinality(PushWaiters) > 1
<1>1. /\ IsFiniteSet(PushWaiters \ {c})
      /\ Cardinality(PushWaiters \ {c}) = Cardinality(PushWaiters) - 1
      /\ Cardinality(PushWaiters) \in Nat
  BY FS_RemoveElement, FS_CardinalityType
<1>2. d \in PushWaiters \ {c}
  OBVIOUS
<1>3. Cardinality(PushWaiters \ {c}) \in Nat /\ Cardinality(PushWaiters \ {c}) # 0
  BY <1>1, <1>2, FS_CardinalityType, FS_EmptySet
<1> QED BY <1>1, <1>3

\* A step that neither Notify nor a waiting caller sees, and that makes no room.
LEMMA RoomKept ==
    ASSUME RoomInv, UNCHANGED <<space, cpc>>, closed => closed', Room' => Room
    PROVE  RoomInv'
<1>1. LineIs'
  BY DEF RoomInv, LineIs, space
<1>2. Registered'
  BY DEF RoomInv, Registered, PushWaiters, space
<1>3. RoomServed'
  BY DEF RoomInv, RoomServed, Sleeps, OnTheWay, space
<1> QED BY <1>1, <1>2, <1>3 DEF RoomInv

\* A pop or an announce makes room and wakes one caller that waits for it.
LEMMA RoomMade ==
    ASSUME Types, RoomInv, UNCHANGED <<cpc, closed>>, NotifyIfWaited
    PROVE  RoomInv'
<1>a. LineIs /\ Registered /\ NotifyTypes
  BY DEF RoomInv, Types, NotifyTypes
<1>b. ntf \in [Callers -> {"none", "wait", "one", "all", "consumed"}]
  BY DEF Types
<1>1. CASE PushWaiters = {}
  <2>1. UNCHANGED space
    BY <1>1 DEF NotifyIfWaited
  <2>2. ~ \E c \in Callers : Sleeps(c)
    BY <1>1 DEF Sleeps, PushWaiters
  <2>3. LineIs'
    BY <1>a, <2>1 DEF LineIs, space
  <2>4. Registered'
    BY <1>a, <2>1 DEF Registered, PushWaiters, space
  <2>5. RoomServed'
    BY <2>1, <2>2 DEF RoomServed, Sleeps, space
  <2> QED BY <2>3, <2>4, <2>5 DEF RoomInv
<1>2. CASE PushWaiters # {}
  <2>1. NotifyOneFrom(ntf)
    BY <1>2 DEF NotifyIfWaited, NotifyOne
  <2>2. /\ LineIs'
        /\ \A c \in Callers : ntf'[c] = ntf[c] \/ (ntf[c] = "wait" /\ ntf'[c] = "one")
        /\ (\E c \in Callers : ntf[c] = "wait") =>
             \E d \in Callers : ntf[d] = "wait" /\ ntf'[d] = "one"
    BY <1>a, <1>b, <2>1, NotifyOneEffect
  <2>3. Registered'
    <3>1. \A c \in Callers : ntf'[c] = "wait" => cpc'[c] \in InLine
      BY <1>a, <2>2 DEF Registered
    <3>2. IsFiniteSet(PushWaiters')
      BY <1>a DEF Registered, PushWaiters
    <3> QED BY <1>a, <3>1, <3>2 DEF Registered
  <2>4. RoomServed'
    <3> SUFFICES ASSUME NEW c \in Callers, Sleeps(c)' PROVE \E d \in Callers : OnTheWay(d)'
      BY DEF RoomServed
    <3>1. ntf[c] = "wait"
      BY <2>2 DEF Sleeps
    <3>2. PICK d \in Callers : ntf[d] = "wait" /\ ntf'[d] = "one"
      BY <2>2, <3>1
    <3>3. cpc'[d] \in InLine
      BY <1>a, <3>2 DEF Registered
    <3> QED BY <3>2, <3>3 DEF OnTheWay, InLine
  <2> QED BY <2>2, <2>3, <2>4 DEF RoomInv
<1> QED BY <1>1, <1>2

\* A caller's step keeps RoomInv.
LEMMA CallerKeepsRoom ==
    ASSUME Types, Types', RoomInv, NEW c \in Callers, TryPush(c) \/ CallerStep(c) \/ Cancel(c)
    PROVE  RoomInv'
<1> USE DEF state, post
<1>a. /\ LineIs /\ Registered /\ RoomServed /\ NotifyTypes
      /\ cpc \in [Callers \cup {Closer} -> CallerPlaces]
      /\ ntf \in [Callers -> {"none", "wait", "one", "all", "consumed"}]
      /\ line \in Seq(Callers) /\ c # Closer
  BY PartiesApart DEF RoomInv, Types, NotifyTypes
<1>b. /\ UNCHANGED closed /\ cpc' = [cpc EXCEPT ![c] = cpc'[c]]
  BY CallerSteps
<1>c. cpc'[Closer] = cpc[Closer] /\ \A d \in Callers : d # c => cpc'[d] = cpc[d]
  BY <1>a, <1>b
<1>d. ASSUME \A d \in Callers : ntf'[d] = "wait" => cpc'[d] \in InLine
      PROVE  Registered'
  BY <1>a, <1>b, <1>c, <1>d, WaitersFinite DEF Registered
<1>e. ASSUME UNCHANGED space PROVE LineIs' /\ ntf' = ntf
  BY <1>a, <1>e DEF LineIs, space
<1>f. ASSUME OnTheWay(c)' PROVE RoomServed'
  BY <1>f DEF RoomServed
<1>g. ASSUME closed' \/ ~Room' PROVE RoomServed'
  BY <1>g DEF RoomServed
\* The others see no change: a waiter stays one, and so does one on its way.
<1>h. ASSUME \A d \in Callers : d # c => ntf'[d] = ntf[d], ~OnTheWay(c), ~Sleeps(c)', Room' => Room
      PROVE  RoomServed'
  <2> SUFFICES ASSUME NEW s \in Callers, Sleeps(s)', ~closed', Room'
               PROVE  \E d \in Callers : OnTheWay(d)'
    BY DEF RoomServed
  <2>1. Sleeps(s) /\ ~closed /\ Room
    BY <1>b, <1>c, <1>h DEF Sleeps
  <2>2. PICK d \in Callers : OnTheWay(d)
    BY <1>a, <2>1 DEF RoomServed
  <2> QED BY <1>c, <1>h, <2>2 DEF OnTheWay
\* A wake-up went to a caller in line.
<1>i. ASSUME NEW d \in Callers, ntf[d] = "wait", ntf'[d] = "one", cpc'[d] \in InLine
      PROVE  RoomServed'
  BY <1>i DEF RoomServed, OnTheWay, InLine
<1>1. CASE TryPush(c)
  <2>1. UNCHANGED space /\ cpc[c] = "new" /\ cpc'[c] \in {"done", "refused", "full"}
    BY <1>1, <1>a DEF TryPush
  <2>2. Registered'
    BY <1>a, <1>c, <1>d, <1>e, <2>1 DEF Registered, InLine
  <2>3. Room' => Room
    BY <1>1 DEF TryPush, Accept, Room
  <2>4. RoomServed'
    BY <1>e, <1>h, <2>1, <2>3 DEF OnTheWay, Sleeps
  <2> QED BY <1>e, <2>1, <2>2, <2>4 DEF RoomInv
<1>2. CASE CountWaiter(c)
  <2>1. UNCHANGED space /\ cpc[c] = "full" /\ cpc'[c] = "counted"
    BY <1>2, <1>a DEF CountWaiter
  <2>2. Registered'
    BY <1>a, <1>c, <1>d, <1>e, <2>1 DEF Registered, InLine
  <2>3. RoomServed'
    BY <1>f, <2>1 DEF OnTheWay
  <2> QED BY <1>e, <2>1, <2>2, <2>3 DEF RoomInv
<1>3. CASE Enable(c)
  <2>1. cpc[c] = "counted" /\ cpc'[c] = "enabled" /\ ntf[c] # "wait"
    BY <1>3, <1>a DEF Enable, Registered, InLine
  <2>2. \A d \in Callers : d # c => ntf'[d] = ntf[d]
    BY <1>3, <1>a DEF Enable
  <2>3. Registered'
    BY <1>a, <1>c, <1>d, <2>1, <2>2 DEF Registered, InLine
  <2>4. RoomServed'
    BY <1>f, <2>1 DEF OnTheWay
  <2>5. LineIs'
    <3>1. CASE permit
      <4>1. line' = line /\ ntf'[c] = "consumed"
        BY <1>3, <1>a, <3>1 DEF Enable
      <4> QED BY <1>a, <2>1, <2>2, <4>1 DEF LineIs
    <3>2. CASE ~permit
      <4>1. line' = Append(line, c) /\ ntf'[c] = "wait"
        BY <1>3, <1>a, <3>2 DEF Enable
      <4>2. c \notin ToSet(line) /\ IsInjective(line)
        BY <1>a, <2>1 DEF LineIs
      <4>3. IsInjective(line') /\ ToSet(line') = ToSet(line) \cup {c}
        BY <1>a, <4>1, <4>2, PushBack, ContentsAreRange
      <4> QED BY <1>a, <2>2, <4>1, <4>3 DEF LineIs
    <3> QED BY <3>1, <3>2
  <2> QED BY <2>3, <2>4, <2>5 DEF RoomInv
<1>4. CASE Retry(c)
  <2>a. cpc[c] = "enabled"
    BY <1>4 DEF Retry
  <2>1. CASE Accept(c) /\ cpc' = [cpc EXCEPT ![c] = IF Room' THEN "baton" ELSE "enough"]
             /\ UNCHANGED space
    <3>1. cpc'[c] = IF Room' THEN "baton" ELSE "enough"
      BY <1>a, <2>1
    <3>2. Registered'
      BY <1>a, <1>c, <1>d, <1>e, <2>1, <3>1 DEF Registered, InLine
    <3>3. RoomServed'
      BY <1>f, <1>g, <3>1 DEF OnTheWay
    <3> QED BY <1>e, <2>1, <3>2, <3>3 DEF RoomInv
  <2>2. CASE closed /\ cpc' = [cpc EXCEPT ![c] = "refused"] /\ DropNotified(c)
    <3>1. /\ LineIs' /\ ntf'[c] = "none"
          /\ \A d \in Callers : d # c =>
                ntf'[d] = ntf[d] \/ (ntf[d] = "wait" /\ ntf'[d] = "one")
      BY <1>a, <2>2, DropEffect
    <3>2. Registered'
      BY <1>a, <1>c, <1>d, <3>1 DEF Registered
    <3> QED BY <1>b, <1>g, <2>2, <3>1, <3>2 DEF RoomInv
  <2>3. CASE IsFull /\ cpc' = [cpc EXCEPT ![c] = "asleep"] /\ UNCHANGED <<queue, idle, space>>
    <3>1. ~Room' /\ cpc'[c] = "asleep"
      BY <1>a, <2>3 DEF IsFull, Room
    <3>2. Registered'
      BY <1>a, <1>c, <1>d, <1>e, <2>3, <3>1 DEF Registered, InLine
    <3> QED BY <1>e, <1>g, <2>3, <3>1, <3>2 DEF RoomInv
  <2> QED BY <1>4, <2>1, <2>2, <2>3 DEF Retry
<1>5. CASE PassBaton(c)
  <2>1. cpc[c] = "baton" /\ cpc'[c] = "enough" /\ UNCHANGED <<queue, idle>>
    BY <1>5, <1>a DEF PassBaton
  <2>2. CASE Cardinality(PushWaiters) > 1
    <3>1. NotifyOneFrom(ntf)
      BY <1>5, <2>2 DEF PassBaton, NotifyOne
    <3>2. /\ LineIs'
          /\ \A d \in Callers : ntf'[d] = ntf[d] \/ (ntf[d] = "wait" /\ ntf'[d] = "one")
          /\ (\E s \in Callers : ntf[s] = "wait") =>
               \E d \in Callers : ntf[d] = "wait" /\ ntf'[d] = "one"
      BY <1>a, <3>1, NotifyOneEffect
    <3>3. \A d \in Callers : ntf[d] = "wait" => cpc'[d] \in InLine
      BY <1>a, <1>c, <2>1 DEF Registered, InLine
    <3>4. Registered'
      BY <1>d, <3>2, <3>3
    <3>5. RoomServed'
      <4>1. CASE \E s \in Callers : ntf[s] = "wait"
        BY <1>i, <3>2, <3>3, <4>1
      <4>2. CASE ~ \E s \in Callers : ntf[s] = "wait"
        BY <3>2, <4>2 DEF RoomServed, Sleeps
      <4> QED BY <4>1, <4>2
    <3> QED BY <3>2, <3>4, <3>5 DEF RoomInv
  <2>3. CASE ~(Cardinality(PushWaiters) > 1)
    <3>1. UNCHANGED space
      BY <1>5, <2>3 DEF PassBaton
    <3>2. ~ \E s \in Callers : Sleeps(s)'
      <4> SUFFICES ASSUME NEW s \in Callers, Sleeps(s)' PROVE FALSE
        OBVIOUS
      <4>1. s # c
        BY <2>1 DEF Sleeps
      <4>2. s \in PushWaiters /\ c \in PushWaiters
        BY <1>c, <2>1, <4>1 DEF Sleeps, PushWaiters
      <4> QED BY <1>a, <2>3, <4>1, <4>2, TwoWait DEF Registered
    <3>3. Registered'
      BY <1>a, <1>c, <1>d, <1>e, <2>1, <3>1 DEF Registered, InLine
    <3> QED BY <1>e, <3>1, <3>2, <3>3 DEF RoomInv, RoomServed
  <2> QED BY <2>2, <2>3
<1>6. CASE WakeCaller(c)
  <2>1. /\ cpc'[c] = "counted" /\ ntf[c] # "wait" /\ ntf'[c] = "none" /\ line' = line
        /\ \A d \in Callers : d # c => ntf'[d] = ntf[d]
    BY <1>6, <1>a DEF WakeCaller
  <2>2. LineIs'
    BY <1>a, <2>1 DEF LineIs
  <2>3. Registered'
    BY <1>a, <1>c, <1>d, <2>1 DEF Registered
  <2>4. RoomServed'
    BY <1>f, <2>1 DEF OnTheWay
  <2> QED BY <2>2, <2>3, <2>4 DEF RoomInv
<1>7. CASE PushReturns(c) \/ Cancel(c)
  <2>1. /\ cpc[c] \in {"enough", "asleep"} /\ cpc'[c] \in {"done", "refused"}
        /\ UNCHANGED <<queue, idle>> /\ DropNotified(c)
    BY <1>7, <1>a DEF PushReturns, Cancel
  <2>2. /\ LineIs' /\ ntf'[c] = "none"
        /\ \A d \in Callers : d # c =>
             ntf'[d] = ntf[d] \/ (ntf[d] = "wait" /\ ntf'[d] = "one")
        /\ ntf[c] = "one" /\ (\E s \in Callers : ntf[s] = "wait") =>
             \E e \in Callers : e # c /\ ntf[e] = "wait" /\ ntf'[e] = "one"
        /\ ntf[c] # "one" => \A d \in Callers : d # c => ntf'[d] = ntf[d]
    BY <1>a, <2>1, DropEffect
  <2>3. Registered'
    BY <1>a, <1>c, <1>d, <2>2 DEF Registered
  <2>4. Room' <=> Room
    BY <2>1 DEF Room
  <2>5. RoomServed'
    <3>1. CASE ntf[c] = "one" /\ \E s \in Callers : ntf[s] = "wait"
      <4>1. PICK e \in Callers : e # c /\ ntf[e] = "wait" /\ ntf'[e] = "one"
        BY <2>2, <3>1
      <4>2. cpc'[e] \in InLine
        BY <1>a, <1>c, <4>1 DEF Registered
      <4> QED BY <1>i, <4>1, <4>2
    <3>2. CASE ~ \E s \in Callers : ntf[s] = "wait"
      <4>1. \A s \in Callers : ntf'[s] # "wait"
        BY <2>2, <3>2
      <4> QED BY <4>1 DEF RoomServed, Sleeps
    <3>3. CASE ntf[c] # "one"
      BY <1>h, <2>1, <2>2, <2>4, <3>3 DEF OnTheWay, Sleeps
    <3> QED BY <3>1, <3>2, <3>3
  <2> QED BY <2>2, <2>3, <2>5 DEF RoomInv
<1> QED BY <1>1, <1>2, <1>3, <1>4, <1>5, <1>6, <1>7 DEF CallerStep

\* Every step keeps RoomInv.
LEMMA NextKeepsRoom ==
    ASSUME HandInv, RoomInv, [Next]_vars
    PROVE  RoomInv'
<1> USE DEF state, boxes, threads, post
<1>a. Types /\ Types' /\ NotifyTypes /\ LineIs /\ Registered
  BY NextHand DEF HandInv, RoomInv, Types, NotifyTypes
<1>1. ASSUME NEW p \in Parties, Deliver(p) PROVE RoomInv'
  <2>1. UNCHANGED <<space, cpc, closed, idle, queue>>
    BY <1>1 DEF Deliver, Store, Swap, Unpark
  <2> QED BY <2>1, RoomKept DEF Room
<1>2. CASE UNCHANGED vars
  BY <1>2, RoomKept DEF Room, vars
<1>3. ASSUME NEW t \in Threads,
             ThreadStep(t) \/ SpuriousWake(t) \/ Retire(t) \/ RegisterWorker(t)
      PROVE  RoomInv'
  <2>1. CASE PopQueued(t) \/ Announce(t)
    BY <2>1, <1>a, RoomMade DEF PopQueued, Announce
  <2>2. CASE Retire(t)
    <3>1. idle = <<>> => Without(idle, t) = <<>>
      BY DEF Without, ToSet
    <3>2. UNCHANGED <<space, cpc, closed>> /\ (Room' => Room)
      BY <2>2, <3>1 DEF Retire, Room
    <3> QED BY <3>2, RoomKept
  <2>3. CASE ReRoute(t)
    <3>1. UNCHANGED <<space, cpc, closed>>
      BY <2>3 DEF ReRoute
    <3>2. Room' => Room
      <4>1. CASE idle # <<>>
        BY <4>1 DEF Room
      <4>2. CASE idle = <<>>
        <5>1. held[t] \in Callers /\ queue \in Seq(Callers) /\ Capacity \in Nat
          BY <2>3, HandoffAssumption DEF ReRoute, HandInv, HandPlaces, Types
        <5>2. Len(Cons(held[t], queue)) = Len(queue) + 1 /\ Len(queue) \in Nat
          BY <5>1, ConcatProperties, LenProperties DEF Cons
        <5>3. queue' = Cons(held[t], queue) /\ idle' = idle
          BY <2>3, <4>2 DEF ReRoute
        <5> QED BY <4>2, <5>1, <5>2, <5>3 DEF Room
      <4> QED BY <4>1, <4>2
    <3> QED BY <3>1, <3>2, RoomKept
  <2>4. CASE UNCHANGED <<space, cpc, closed, idle, queue>>
    BY <2>4, RoomKept DEF Room
  <2> QED BY <1>3, <2>1, <2>2, <2>3, <2>4 DEF ThreadStep, RecvClosed, Poll, ParkCas,
       CheckReady, Wake, TakeMail, Finish, DropWait, DropTake, ReRouted, SpuriousWake,
       RegisterWorker
<1>4. CASE Close
  <2>1. closed' /\ UNCHANGED space /\ \A c \in Callers : cpc'[c] = cpc[c]
    BY <1>4, <1>a, PartiesApart DEF Close, Types
  <2>2. LineIs'
    BY <1>a, <2>1 DEF LineIs, space
  <2>3. Registered'
    BY <1>a, <2>1, WaitersFinite DEF Registered, space
  <2> QED BY <2>1, <2>2, <2>3 DEF RoomInv, RoomServed
<1>5. CASE CloseNotifies
  <2>1. /\ cpc[Closer] = "closing" /\ closed' = closed /\ NotifyWaiters
        /\ \A c \in Callers : cpc'[c] = cpc[c]
    BY <1>5, <1>a, PartiesApart DEF CloseNotifies, Types
  <2>2. closed /\ closed'
    BY <1>a, <2>1 DEF Registered
  <2>3. line' = <<>> /\ \A c \in Callers : ntf'[c] # "wait"
    BY <1>a, <2>1 DEF NotifyWaiters, LineIs, NotifyTypes
  <2>4. LineIs'
    BY <2>3, EmptyQueue, ContentsAreRange DEF LineIs
  <2>5. Registered'
    BY <1>a, <2>1, <2>2, <2>3, WaitersFinite DEF Registered
  <2> QED BY <2>2, <2>4, <2>5 DEF RoomInv, RoomServed
<1> QED BY <1>1, <1>2, <1>3, <1>4, <1>5, <1>a, CallerKeepsRoom DEF Next, Terminated

\* No lost wake-up on the callers' side: when a push sleeps unnotified beside an
\* idle thread or a free place, another push is on its way to use the room or to
\* pass the wake-up on, also when callers give up or return with one in hand.
THEOREM RoomIsServed == Spec => []NoSleeperBesideRoom
<1>1. Init => RoomInv
  <2> SUFFICES ASSUME Init PROVE RoomInv
    OBVIOUS
  <2>1. PushWaiters = {}
    BY DEF Init, PushWaiters
  <2>2. ToSet(<<>>) = {} /\ IsInjective(<<>>) /\ IsFiniteSet({})
    BY EmptyQueue, ContentsAreRange, FS_EmptySet
  <2> QED BY <2>1, <2>2 DEF Init, RoomInv, LineIs, Registered, RoomServed, Sleeps
<1>2. HandInv /\ RoomInv /\ [Next]_vars => RoomInv'
  BY NextKeepsRoom
<1>3. RoomInv => NoSleeperBesideRoom
  <2> SUFFICES ASSUME RoomInv, NEW c \in Callers,
                      cpc[c] = "asleep" /\ ntf[c] = "wait" /\ ~closed /\ Room
               PROVE  \E d \in Callers : OnItsWay(d)
    BY DEF NoSleeperBesideRoom
  <2>1. PICK d \in Callers : OnTheWay(d)
    BY DEF RoomInv, RoomServed, Sleeps
  <2>2. OnItsWay(d)
    BY <2>1 DEF OnTheWay, OnItsWay
  <2> QED BY <2>2
<1> QED BY <1>1, <1>2, <1>3, HandInvariant, PTL DEF Spec
=============================================================================
