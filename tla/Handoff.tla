------------------------------ MODULE Handoff ------------------------------
(***************************************************************************)
(* The job hand-off between request handlers and PHP pool threads,         *)
(* crates/ephpm-php/src/handoff.rs.  The idle stack and the overflow queue *)
(* change under one mutex (one atomic action each); a delivery into a      *)
(* mailbox, the park protocol of a thread and the Notify protocol of a     *)
(* handler that waits for room run outside of it, step by step.            *)
(*                                                                         *)
(* A caller offers one job, so callers and jobs share their names.  Spin   *)
(* budgets are abstracted: a thread may give up polling at any time.       *)
(***************************************************************************)
EXTENDS Naturals, Sequences, FiniteSets, SequencesExt

CONSTANTS Callers,     \* request handlers, each with one job
          Threads,     \* PHP pool threads
          Closer,      \* the task that closes the dispatcher
          NoJob,       \* an empty mailbox
          Capacity,    \* bound of the overflow queue
          MaxDeaths    \* bound: threads that retire during the run

ASSUME HandoffAssumption ==
    /\ Capacity \in Nat \ {0} /\ MaxDeaths \in Nat
    /\ NoJob \notin Callers /\ Closer \notin Callers \cup Threads
    /\ Callers \cap Threads = {}

VARIABLES queue, idle, closed,   \* State: overflow queue, idle stack, flag
          slot,                  \* slot[t]: state of t's mailbox
          mail,                  \* mail[t]: its content
          token,                 \* token[t]: t's park token
          tpc, held,             \* tpc[t]: where t is; held[t]: the job it runs
          cpc,                   \* cpc[c]: where caller c is
          out, dpc,              \* deliveries each party still has to make
          permit, ntf, line,     \* tokio Notify: stored permit, Notified, FIFO
          served, deaths         \* jobs that ran; threads that retired

state == <<queue, idle, closed>>
boxes == <<slot, mail, token>>
threads == <<tpc, held>>
post == <<out, dpc>>
space == <<permit, ntf, line>>
vars == <<state, boxes, threads, cpc, post, space, served, deaths>>

Parties == Callers \cup Threads \cup {Closer}
Announced == {"WAITING", "SPINNING"}

(* Callers counted in push_waiters, from fetch_add until the guard drops.  *)
PushWaiters == {c \in Callers : cpc[c] \in 
                    {"counted", "enabled", "asleep", "baton", "enough"}}

Init == /\ queue = <<>> /\ idle = <<>> /\ closed = FALSE
        /\ slot = [t \in Threads |-> "READY"]
        /\ mail = [t \in Threads |-> NoJob]
        /\ token = [t \in Threads |-> FALSE]
        /\ tpc = [t \in Threads |-> "recv"]
        /\ held = [t \in Threads |-> NoJob]
        /\ cpc = [c \in Callers \cup {Closer} |-> "new"]
        /\ out = [p \in Parties |-> <<>>]
        /\ dpc = [p \in Parties |-> "store"]
        /\ permit = FALSE
        /\ ntf = [c \in Callers |-> "none"]
        /\ line = <<>>
        /\ served = {} /\ deaths = 0

(* retain: a queue without x, which is in it once at most.                 *)
Without(s, x) ==
    IF x \in ToSet(s) THEN RemoveAt(s, CHOOSE i \in DOMAIN s : s[i] = x) ELSE s

-----------------------------------------------------------------------------
(* tokio::sync::Notify, as push and pop use it.                            *)

NotifyOneFrom(n) ==
    IF line = <<>>
    THEN permit' = TRUE /\ ntf' = n /\ UNCHANGED line
    ELSE /\ ntf' = [n EXCEPT ![Head(line)] = "one"]
         /\ line' = Tail(line)
         /\ UNCHANGED permit
NotifyOne == NotifyOneFrom(ntf)

NotifyWaiters ==
    /\ ntf' = [c \in Callers |-> IF c \in ToSet(line) THEN "all" ELSE ntf[c]]
    /\ line' = <<>>
    /\ UNCHANGED permit

NotifyOnlyCrowds ==  \* mutant: the last waiter is not counted
    IF Cardinality(PushWaiters) > 1 THEN NotifyOne ELSE UNCHANGED space

(* A pop, or a thread going idle, wakes one waiter if there is any.        *)
NotifyIfWaited == IF PushWaiters # {} THEN NotifyOne ELSE UNCHANGED space

(* Dropping a Notified leaves the line; a wake-up it did not consume goes  *)
(* to the next waiter.                                                     *)
DropNotified(c) ==
    IF ntf[c] = "one"
    THEN NotifyOneFrom([ntf EXCEPT ![c] = "none"])
    ELSE /\ ntf' = [ntf EXCEPT ![c] = "none"]
         /\ line' = Without(line, c)
         /\ UNCHANGED permit

-----------------------------------------------------------------------------
(* Deliveries: Slot::deliver, one party per idle period.                   *)

(* take_idle: the top of the stack, or with steering the nearest spinning  *)
(* mailbox.                                                                *)
Spinning == {i \in 1..Len(idle) : slot[idle[i]] = "SPINNING"}
TakeIdle ==
    IF Spinning # {} THEN CHOOSE i \in Spinning : \A k \in Spinning : k <= i
    ELSE Len(idle)

(* The party owes the popped threads a delivery: its own job, the job of a *)
(* thread that retires, or the bare wake-up of a close.                    *)
Post(p, ts) == out' = [out EXCEPT ![p] = ts] /\ UNCHANGED dpc
Parcel(p) == IF p \in Callers THEN p ELSE IF p \in Threads THEN held[p] ELSE NoJob

Store(p) ==
    /\ out[p] # <<>> /\ dpc[p] = "store"
    /\ mail' = [mail EXCEPT ![Head(out[p])] = Parcel(p)]
    /\ dpc' = [dpc EXCEPT ![p] = "swap"]
    /\ UNCHANGED <<state, slot, token, threads, cpc, out, space, served, deaths>>

Swap(p) ==
    /\ out[p] # <<>> /\ dpc[p] = "swap"
    /\ slot' = [slot EXCEPT ![Head(out[p])] = "READY"]
    /\ IF slot[Head(out[p])] = "PARKED"
       THEN dpc' = [dpc EXCEPT ![p] = "unpark"] /\ UNCHANGED out
       ELSE /\ dpc' = [dpc EXCEPT ![p] = "store"]
            /\ out' = [out EXCEPT ![p] = Tail(@)]
    /\ UNCHANGED <<state, mail, token, threads, cpc, space, served, deaths>>

Unpark(p) ==
    /\ out[p] # <<>> /\ dpc[p] = "unpark"
    /\ token' = [token EXCEPT ![Head(out[p])] = TRUE]
    /\ dpc' = [dpc EXCEPT ![p] = "store"]
    /\ out' = [out EXCEPT ![p] = Tail(@)]
    /\ UNCHANGED <<state, slot, mail, threads, cpc, space, served, deaths>>

-----------------------------------------------------------------------------
(* Callers.                                                                *)

RoomForOneMore == idle # <<>> \/ Len(queue) <= Capacity  \* mutant: off by one
Room == idle # <<>> \/ Len(queue) < Capacity

(* try_push_inner found a thread or a place.                               *)
Accept(c) ==
    /\ ~closed
    /\ \/ /\ idle # <<>>
          /\ idle' = RemoveAt(idle, TakeIdle)
          /\ Post(c, <<idle[TakeIdle]>>)
          /\ UNCHANGED queue
       \/ /\ idle = <<>> /\ Room
          /\ queue' = Append(queue, c)
          /\ UNCHANGED <<idle, post>>

IsFull == ~closed /\ ~Room

TryPush(c) ==
    /\ cpc[c] = "new"
    /\ \/ Accept(c) /\ cpc' = [cpc EXCEPT ![c] = "done"]
       \/ /\ closed \/ IsFull                  \* try_push: handed back
          /\ cpc' = [cpc EXCEPT ![c] = "refused"]
          /\ UNCHANGED <<queue, idle, post>>
       \/ /\ IsFull                            \* push: will wait for room
          /\ cpc' = [cpc EXCEPT ![c] = "full"]
          /\ UNCHANGED <<queue, idle, post>>
    /\ UNCHANGED <<closed, boxes, threads, space, served, deaths>>

CountWaiter(c) ==
    /\ cpc[c] = "full"
    /\ cpc' = [cpc EXCEPT ![c] = "counted"]
    /\ UNCHANGED <<state, boxes, threads, post, space, served, deaths>>

(* A fresh Notified registers, or consumes a stored permit.                *)
Enable(c) ==
    /\ cpc[c] = "counted"
    /\ cpc' = [cpc EXCEPT ![c] = "enabled"]
    /\ IF permit
       THEN permit' = FALSE /\ ntf' = [ntf EXCEPT ![c] = "consumed"] /\ UNCHANGED line
       ELSE ntf' = [ntf EXCEPT ![c] = "wait"] /\ line' = Append(line, c) /\ UNCHANGED permit
    /\ UNCHANGED <<state, boxes, threads, post, served, deaths>>

(* The re-check under the lock, after interest was registered.             *)
Retry(c) ==
    /\ cpc[c] = "enabled"
    /\ \/ /\ Accept(c)
          /\ cpc' = [cpc EXCEPT ![c] = IF Room' THEN "baton" ELSE "enough"]
          /\ UNCHANGED space
       \/ /\ closed
          /\ cpc' = [cpc EXCEPT ![c] = "refused"]
          /\ DropNotified(c)
          /\ UNCHANGED <<queue, idle, post>>
       \/ /\ IsFull
          /\ cpc' = [cpc EXCEPT ![c] = "asleep"]
          /\ UNCHANGED <<queue, idle, post, space>>
    /\ UNCHANGED <<closed, boxes, threads, served, deaths>>

(* Room is left and others wait: wake the next one.                        *)
PassBaton(c) ==
    /\ cpc[c] = "baton" /\ out[c] = <<>>
    /\ cpc' = [cpc EXCEPT ![c] = "enough"]
    /\ IF Cardinality(PushWaiters) > 1 THEN NotifyOne ELSE UNCHANGED space
    /\ UNCHANGED <<state, boxes, threads, post, served, deaths>>

PushReturns(c) ==
    /\ cpc[c] = "enough" /\ out[c] = <<>>
    /\ cpc' = [cpc EXCEPT ![c] = "done"]
    /\ DropNotified(c)
    /\ UNCHANGED <<state, boxes, threads, post, served, deaths>>

WakeCaller(c) ==
    /\ cpc[c] = "asleep" /\ ntf[c] \in {"one", "all", "consumed"}
    /\ cpc' = [cpc EXCEPT ![c] = "counted"]
    /\ ntf' = [ntf EXCEPT ![c] = "none"]
    /\ UNCHANGED <<state, boxes, threads, post, permit, line, served, deaths>>

(* The client goes away and the push future is dropped with its job.       *)
Cancel(c) ==
    /\ cpc[c] = "asleep"
    /\ cpc' = [cpc EXCEPT ![c] = "refused"]
    /\ DropNotified(c)
    /\ UNCHANGED <<state, boxes, threads, post, served, deaths>>

(* close: flag and idle stack under the lock, then a bare wake-up for each *)
(* thread that was idle, then every waiting caller.                        *)
Close ==
    /\ cpc[Closer] = "new"
    /\ closed' = TRUE
    /\ idle' = <<>>
    /\ Post(Closer, idle)
    /\ cpc' = [cpc EXCEPT ![Closer] = "closing"]
    /\ UNCHANGED <<queue, boxes, threads, space, served, deaths>>

CloseNotifies ==
    /\ cpc[Closer] = "closing" /\ out[Closer] = <<>>
    /\ cpc' = [cpc EXCEPT ![Closer] = "done"]
    /\ NotifyWaiters
    /\ UNCHANGED <<state, boxes, threads, post, served, deaths>>

-----------------------------------------------------------------------------
(* Pool threads.                                                           *)

(* recv, under the lock: the oldest overflow job, or the close, or the     *)
(* thread resets its mailbox and registers as idle.                        *)
PopQueued(t) ==
    /\ tpc[t] = "recv" /\ queue # <<>>
    /\ held' = [held EXCEPT ![t] = Head(queue)]
    /\ queue' = Tail(queue)
    /\ tpc' = [tpc EXCEPT ![t] = "work"]
    /\ NotifyIfWaited
    /\ UNCHANGED <<idle, closed, boxes, cpc, post, served, deaths>>

RecvClosed(t) ==
    /\ tpc[t] = "recv" /\ queue = <<>> /\ closed
    /\ tpc' = [tpc EXCEPT ![t] = "closed"]
    /\ UNCHANGED <<state, boxes, held, cpc, post, space, served, deaths>>

(* Mutant: the queue was checked before the lock was taken.                *)
AnnounceUnchecked(t) ==
    /\ tpc[t] = "recv" /\ ~closed
    /\ \E s \in Announced : slot' = [slot EXCEPT ![t] = s]
    /\ idle' = Append(idle, t)
    /\ tpc' = [tpc EXCEPT ![t] = "announced"]
    /\ NotifyIfWaited
    /\ UNCHANGED <<queue, closed, mail, token, held, cpc, post, served, deaths>>

Announce(t) ==
    /\ tpc[t] = "recv" /\ queue = <<>> /\ ~closed
    /\ \E s \in Announced : slot' = [slot EXCEPT ![t] = s]
    /\ idle' = Append(idle, t)
    /\ tpc' = [tpc EXCEPT ![t] = "announced"]
    /\ NotifyIfWaited
    /\ UNCHANGED <<queue, closed, mail, token, held, cpc, post, served, deaths>>

(* wait_ready: a poll sees the delivery ...                                *)
Poll(t) ==
    /\ tpc[t] = "announced" /\ slot[t] = "READY"
    /\ tpc' = [tpc EXCEPT ![t] = "take"]
    /\ UNCHANGED <<state, boxes, held, cpc, post, space, served, deaths>>

(* Mutant: the park is announced with a store instead of a CAS.            *)
ParkStore(t) ==
    /\ tpc[t] = "announced"
    /\ slot' = [slot EXCEPT ![t] = "PARKED"]
    /\ tpc' = [tpc EXCEPT ![t] = "parked"]
    /\ UNCHANGED <<state, mail, token, held, cpc, post, space, served, deaths>>

(* ... or the budget is spent and the thread announces the park; the CAS   *)
(* fails only when a delivery has landed (then Poll is the next step).     *)
ParkCas(t) ==
    /\ tpc[t] = "announced" /\ slot[t] \in Announced
    /\ slot' = [slot EXCEPT ![t] = "PARKED"]
    /\ tpc' = [tpc EXCEPT ![t] = "parked"]
    /\ UNCHANGED <<state, mail, token, held, cpc, post, space, served, deaths>>

(* while state != READY { park() }                                         *)
CheckReady(t) ==
    /\ tpc[t] = "parked"
    /\ tpc' = [tpc EXCEPT ![t] = IF slot[t] = "READY" THEN "take" ELSE "asleep"]
    /\ UNCHANGED <<state, boxes, held, cpc, post, space, served, deaths>>

Wake(t) ==
    /\ tpc[t] = "asleep" /\ token[t]
    /\ token' = [token EXCEPT ![t] = FALSE]
    /\ tpc' = [tpc EXCEPT ![t] = "parked"]
    /\ UNCHANGED <<state, slot, mail, held, cpc, post, space, served, deaths>>

SpuriousWake(t) ==
    /\ tpc[t] = "asleep" /\ ~token[t]
    /\ tpc' = [tpc EXCEPT ![t] = "parked"]
    /\ UNCHANGED <<state, boxes, held, cpc, post, space, served, deaths>>

(* The mailbox is emptied: a job to run, or the bare wake-up of a close.   *)
TakeMail(t) ==
    /\ tpc[t] = "take"
    /\ mail' = [mail EXCEPT ![t] = NoJob]
    /\ held' = [held EXCEPT ![t] = mail[t]]
    /\ tpc' = [tpc EXCEPT ![t] = IF mail[t] = NoJob THEN "recv" ELSE "work"]
    /\ UNCHANGED <<state, slot, token, cpc, post, space, served, deaths>>

Finish(t) ==
    /\ tpc[t] = "work"
    /\ served' = served \cup {held[t]}
    /\ held' = [held EXCEPT ![t] = NoJob]
    /\ tpc' = [tpc EXCEPT ![t] = "recv"]
    /\ UNCHANGED <<state, boxes, cpc, post, space, deaths>>

-----------------------------------------------------------------------------
(* Retirement: Drop for Worker.  Between jobs there is nothing to undo; a  *)
(* thread that unwinds out of recv (its park hook panics) may still be on  *)
(* the idle stack or have a delivery under way.                            *)

Retire(t) ==
    /\ tpc[t] \in {"recv", "announced"} /\ deaths < MaxDeaths
    /\ deaths' = deaths + 1
    /\ idle' = Without(idle, t)
    /\ tpc' = [tpc EXCEPT ![t] =
                 IF tpc[t] = "recv" THEN "gone"
                 ELSE IF t \in ToSet(idle) THEN "dropTake" ELSE "dropWait"]
    /\ UNCHANGED <<queue, closed, boxes, held, cpc, post, space, served>>

DropWait(t) ==
    /\ tpc[t] = "dropWait" /\ slot[t] = "READY"
    /\ tpc' = [tpc EXCEPT ![t] = "dropTake"]
    /\ UNCHANGED <<state, boxes, held, cpc, post, space, served, deaths>>

DropTake(t) ==
    /\ tpc[t] = "dropTake"
    /\ mail' = [mail EXCEPT ![t] = NoJob]
    /\ held' = [held EXCEPT ![t] = mail[t]]
    /\ tpc' = [tpc EXCEPT ![t] = IF mail[t] = NoJob THEN "gone" ELSE "reroute"]
    /\ UNCHANGED <<state, slot, token, cpc, post, space, served, deaths>>

(* Mutant: a re-routed job queues behind the jobs that came after it.      *)
ReRouteBack(t) ==
    /\ tpc[t] = "reroute"
    /\ queue' = Append(queue, held[t])
    /\ held' = [held EXCEPT ![t] = NoJob]
    /\ tpc' = [tpc EXCEPT ![t] = "gone"]
    /\ UNCHANGED <<idle, closed, boxes, cpc, post, space, served, deaths>>

ReRoute(t) ==
    /\ tpc[t] = "reroute"
    /\ \/ /\ idle # <<>>
          /\ idle' = RemoveAt(idle, TakeIdle)
          /\ Post(t, <<idle[TakeIdle]>>)
          /\ tpc' = [tpc EXCEPT ![t] = "rerouting"]
          /\ UNCHANGED <<queue, held>>
       \/ /\ idle = <<>>
          /\ queue' = Cons(held[t], queue)
          /\ held' = [held EXCEPT ![t] = NoJob]
          /\ tpc' = [tpc EXCEPT ![t] = "gone"]
          /\ UNCHANGED <<idle, post>>
    /\ UNCHANGED <<closed, boxes, cpc, space, served, deaths>>

ReRouted(t) ==
    /\ tpc[t] = "rerouting" /\ out[t] = <<>>
    /\ held' = [held EXCEPT ![t] = NoJob]
    /\ tpc' = [tpc EXCEPT ![t] = "gone"]
    /\ UNCHANGED <<state, boxes, cpc, post, space, served, deaths>>

(* register_worker: a new thread with a fresh mailbox takes over a name    *)
(* that no delivery refers to any more.                                    *)
RegisterWorker(t) ==
    /\ tpc[t] = "gone"
    /\ \A p \in Parties : t \notin ToSet(out[p])
    /\ tpc' = [tpc EXCEPT ![t] = "recv"]
    /\ slot' = [slot EXCEPT ![t] = "READY"]
    /\ token' = [token EXCEPT ![t] = FALSE]
    /\ UNCHANGED <<state, mail, held, cpc, post, space, served, deaths>>

-----------------------------------------------------------------------------
Terminated ==
    /\ \A t \in Threads : tpc[t] = "closed"
    /\ \A c \in Callers \cup {Closer} : cpc[c] \in {"done", "refused"}
    /\ UNCHANGED vars

Deliver(p) == Store(p) \/ Swap(p) \/ Unpark(p)
CallerStep(c) == CountWaiter(c) \/ Enable(c) \/ Retry(c) \/ PassBaton(c)
                 \/ PushReturns(c) \/ WakeCaller(c)
ThreadStep(t) == PopQueued(t) \/ RecvClosed(t) \/ Announce(t) \/ Poll(t) \/ ParkCas(t)
                 \/ CheckReady(t) \/ Wake(t) \/ TakeMail(t) \/ Finish(t)
                 \/ DropWait(t) \/ DropTake(t) \/ ReRoute(t) \/ ReRouted(t)

Next == \/ \E p \in Parties : Deliver(p)
        \/ \E c \in Callers : TryPush(c) \/ CallerStep(c) \/ Cancel(c)
        \/ Close \/ CloseNotifies
        \/ \E t \in Threads : ThreadStep(t) \/ SpuriousWake(t) \/ Retire(t)
                             \/ RegisterWorker(t)
        \/ Terminated

Spec == Init /\ [][Next]_vars

-----------------------------------------------------------------------------
(* What an outsider sees: the job each thread was given, wherever the      *)
(* delivery stands.                                                        *)
Given(t) ==
    IF held[t] # NoJob /\ tpc[t] # "rerouting" THEN held[t]
    ELSE IF mail[t] # NoJob THEN mail[t]
    ELSE IF \E p \in Parties : t \in ToSet(out[p]) /\ dpc[p] = "store"
    THEN Parcel(CHOOSE p \in Parties : t \in ToSet(out[p]) /\ dpc[p] = "store")
    ELSE NoJob
StatusOf(c) ==
    CASE c \in served -> "served"
      [] cpc[c] \in {"done", "baton", "enough"} /\ c \notin served -> "accepted"
      [] cpc[c] = "refused" -> "refused"
      [] OTHER -> "offered"

Abstract == INSTANCE JobQueue
    WITH Jobs <- Callers, Workers <- Threads, idle <- ToSet(idle),
         hand <- [t \in Threads |-> Given(t)],
         status <- [c \in Callers |-> StatusOf(c)]

(* The dispatcher is one FIFO with idle threads: every step of mailboxes,  *)
(* parking, steering, waiting for room, closing and retiring is a step of  *)
(* JobQueue or invisible.  In particular an accepted job is always in one  *)
(* place, is never given to two threads, and no newcomer overtakes a       *)
(* queued job (the "Invariants" section of handoff.rs).                    *)
ImplementsJobQueue == Abstract!Spec

(* The types of the variables; a re-routed job may exceed the capacity.    *)
TypeOK ==
    /\ queue \in Seq(Callers) /\ Len(queue) <= Capacity + deaths
    /\ idle \in Seq(Threads) /\ closed \in BOOLEAN
    /\ slot \in [Threads -> {"READY", "PARKED"} \cup Announced]
    /\ mail \in [Threads -> Callers \cup {NoJob}]
    /\ held \in [Threads -> Callers \cup {NoJob}]
    /\ token \in [Threads -> BOOLEAN]
    /\ out \in [Parties -> Seq(Threads)]
    /\ permit \in BOOLEAN /\ line \in Seq(Callers)
    /\ served \subseteq Callers /\ deaths \in 0..MaxDeaths

(* "A thread is idle only while the overflow queue is empty."              *)
IdleOnlyWhenEmpty == queue # <<>> => idle = <<>>

(* No caller sleeps beside room: when a caller of push waits unnotified    *)
(* although a thread is idle or the queue has a free place, another caller *)
(* is on its way to use the room or to pass the wake-up on.                *)
OnItsWay(d) ==
    \/ cpc[d] \in {"counted", "enabled", "baton"}
    \/ cpc[d] = "asleep" /\ ntf[d] # "wait"
    \/ cpc[d] = "enough" /\ ntf[d] = "one"
NoSleeperBesideRoom ==
    \A c \in Callers :
        (cpc[c] = "asleep" /\ ntf[c] = "wait" /\ ~closed /\ Room)
            => \E d \in Callers : OnItsWay(d)

(* No thread sleeps through its wake-up: a parked thread is on the idle    *)
(* stack, where the next dispatcher or close finds it, or a delivery or    *)
(* its unpark is still to come, or its park token is set.                  *)
SleeperIsReachable ==
    \A t \in Threads : tpc[t] = "asleep" =>
        t \in ToSet(idle) \/ token[t] \/ \E p \in Parties : t \in ToSet(out[p])
=============================================================================
