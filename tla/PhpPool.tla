------------------------------ MODULE PhpPool ------------------------------
(***************************************************************************)
(* The pools of dedicated PHP threads: crates/ephpm-server/src/fpm_pool.rs *)
(* (and worker_pool.rs, which shares its life cycle), the wait for a reply *)
(* in php_wait.rs, and the shutdown of the PHP module in ephpm-php/lib.rs. *)
(*                                                                         *)
(* The dispatcher between requests and threads is the one of JobQueue,     *)
(* which module Handoff implements.  Around it: FIFO admission permits,    *)
(* the counters live, hung and retiring (atomics, read and written in      *)
(* separate steps), the deadline of a request, the replacement of threads  *)
(* that crash or hang, and the drain that ends in php_embed_shutdown.      *)
(***************************************************************************)
EXTENDS JobQueue, FiniteSets, SequencesExt

CONSTANTS Target,        \* threads the pool is configured for
          Stuck,         \* requests whose script never returns
          MaxCrashes,    \* bound: crashes, panics, recycles and failed boots
          MaxSpawnFails, \* bound: threads the operating system refuses
          Deadline       \* whether the drain may hit its shutdown deadline

ASSUME PoolAssumption ==
    /\ Target \in Nat \ {0} /\ Stuck \subseteq Jobs /\ Deadline \in BOOLEAN
    /\ MaxCrashes \in Nat /\ MaxSpawnFails \in Nat /\ IsFiniteSet(Workers)

VARIABLES tpc,           \* tpc[t]: where thread t is; "none": no such thread
          snap,          \* snap[t]: the value of retiring t read for its claim
          ctx,           \* ctx[t]: t's PHP context: "no", "init" or "held"
          live, hung, retiring,   \* PoolState counters
          draining, dpc, \* drain flag; where the task that shuts down is
          permits, line, \* FIFO admission semaphore: free permits, waiters
          rpc,           \* rpc[r]: where request r is
          started,       \* started[r]: a thread raised r's start flag
          replied,       \* replied[r]: the reply channel was used
          phpUp,         \* PHP_INITIALIZED
          poisoned,      \* CONTEXT_POISONED: a crashed thread left its context
          crashes, spawnFails

threads == <<tpc, snap, ctx>>
counters == <<live, hung, retiring>>
requests == <<rpc, started, replied>>
admission == <<permits, line>>
drain == <<draining, dpc, phpUp, poisoned>>
faults == <<crashes, spawnFails>>
poolVars == <<vars, threads, counters, requests, admission, drain, faults>>

PoolInit ==
    /\ Init
    /\ tpc \in [Workers -> {"none", "boot"}]
    /\ Cardinality({t \in Workers : tpc[t] = "boot"}) = Target
    /\ snap = [t \in Workers |-> 0]
    /\ ctx = [t \in Workers |-> "no"]
    /\ live = Target /\ hung = 0 /\ retiring = 0
    /\ draining = FALSE /\ dpc = "serving" /\ phpUp = TRUE /\ poisoned = FALSE
    /\ permits = Capacity /\ line = <<>>
    /\ rpc = [r \in Jobs |-> "new"]
    /\ started = [r \in Jobs |-> FALSE]
    /\ replied = [r \in Jobs |-> FALSE]
    /\ crashes = 0 /\ spawnFails = 0

-----------------------------------------------------------------------------
(* Threads come and go.                                                    *)

(* spawn_thread: counted live before it exists, undone when the spawn      *)
(* fails.  `pc` carries the step the calling thread itself takes.          *)
Spawn(pc) ==
    \/ \E n \in Workers :
         /\ pc[n] = "none"
         /\ tpc' = [pc EXCEPT ![n] = "boot"]
         /\ live' = live + 1
         /\ UNCHANGED spawnFails
    \/ /\ spawnFails < MaxSpawnFails
       /\ spawnFails' = spawnFails + 1
       /\ tpc' = pc
       /\ UNCHANGED live

(* worker_thread_init: the module flag is read first, the context counted  *)
(* last; an init that fails is followed by the gate.                       *)
BootThread(t) ==
    /\ tpc[t] = "boot" /\ ctx[t] = "no"
    /\ IF phpUp
       THEN ctx' = [ctx EXCEPT ![t] = "init"] /\ UNCHANGED tpc
       ELSE tpc' = [tpc EXCEPT ![t] = "left"] /\ UNCHANGED ctx
    /\ UNCHANGED <<vars, snap, counters, requests, admission, drain, faults>>

Registered(t) ==
    /\ tpc[t] = "boot" /\ ctx[t] = "init"
    /\ \/ /\ ctx' = [ctx EXCEPT ![t] = "held"]
          /\ tpc' = [tpc EXCEPT ![t] = "loop"]
          /\ UNCHANGED crashes
       \/ /\ crashes < MaxCrashes
          /\ crashes' = crashes + 1
          /\ ctx' = [ctx EXCEPT ![t] = "no"]
          /\ tpc' = [tpc EXCEPT ![t] = "left"]
    /\ UNCHANGED <<vars, snap, counters, requests, admission, drain, spawnFails>>

(* claim_surplus between two jobs: over target once hung and retiring      *)
(* threads are discounted.  The counters are read, then retiring is        *)
(* compared and swapped.                                                   *)
Minus(a, b) == IF a > b THEN a - b ELSE 0
ClaimRead(t) ==
    /\ tpc[t] = "loop"
    /\ snap' = [snap EXCEPT ![t] = retiring]
    /\ tpc' = [tpc EXCEPT ![t] =
                 IF ~draining /\ Minus(Minus(live, hung), retiring) > Target
                 THEN "claim" ELSE "recv"]
    /\ UNCHANGED <<vars, ctx, counters, requests, admission, drain, faults>>

ClaimSwap(t) ==
    /\ tpc[t] = "claim"
    /\ IF retiring = snap[t]
       THEN /\ retiring' = retiring + 1
            /\ tpc' = [tpc EXCEPT ![t] = "surplus"]
       ELSE tpc' = [tpc EXCEPT ![t] = "loop"] /\ UNCHANGED retiring
    /\ snap' = [snap EXCEPT ![t] = 0]
    /\ UNCHANGED <<vars, ctx, live, hung, requests, admission, drain, faults>>

(* recv: wait for a job on the dispatcher, or learn that it is closed.     *)
Recv(t) ==
    /\ tpc[t] = "recv"
    /\ Take(t) \/ GoIdle(t)
    /\ UNCHANGED <<threads, counters, requests, admission, drain, faults>>

RecvClosed(t) ==
    /\ tpc[t] = "recv" /\ hand[t] = NoJob /\ queue = <<>> /\ closed
    /\ tpc' = [tpc EXCEPT ![t] = "exit"]
    /\ UNCHANGED <<vars, snap, ctx, counters, requests, admission, drain, faults>>

(* A permit that is given back goes to the longest waiter.                 *)
ReleasePermit(pc) ==
    IF line = <<>>
    THEN permits' = permits + 1 /\ rpc' = pc /\ UNCHANGED line
    ELSE /\ rpc' = [pc EXCEPT ![Head(line)] = "admitted"]
         /\ line' = Tail(line)
         /\ UNCHANGED permits

(* The thread has its job: the permit is dropped, the start flag raised.   *)
Start(t) ==
    /\ tpc[t] = "recv" /\ hand[t] # NoJob
    /\ tpc' = [tpc EXCEPT ![t] = "run"]
    /\ started' = [started EXCEPT ![hand[t]] = TRUE]
    /\ ReleasePermit(rpc)
    /\ UNCHANGED <<vars, snap, ctx, counters, replied, drain, faults>>

(* The job ends with a reply; then the thread ends the PHP request and     *)
(* loops, or it leaves: a recycle or a panic (its context is torn down) or *)
(* a contained crash (its context is lost), during the run or the teardown.*)
Reply(t) ==
    /\ tpc[t] = "run"
    /\ hand[t] \notin Stuck
    /\ replied' = [replied EXCEPT ![hand[t]] = TRUE]
    /\ Serve(t)
    /\ \/ /\ tpc' = [tpc EXCEPT ![t] = "loop"]
          /\ UNCHANGED <<ctx, poisoned, crashes>>
       \/ /\ crashes < MaxCrashes
          /\ crashes' = crashes + 1
          /\ tpc' = [tpc EXCEPT ![t] = "exit"]
          /\ UNCHANGED <<ctx, poisoned>>
       \/ /\ crashes < MaxCrashes
          /\ crashes' = crashes + 1
          /\ tpc' = [tpc EXCEPT ![t] = "exit"]
          /\ ctx' = [ctx EXCEPT ![t] = "no"]
          /\ poisoned' = TRUE
    /\ UNCHANGED <<snap, counters, rpc, started, admission, draining, dpc, phpUp, spawnFails>>

(* Mutant: the context is left to the guard that runs when the thread ends.*)
TearDownLater(t) ==
    /\ tpc[t] \in {"exit", "surplus"}
    /\ tpc' = [tpc EXCEPT ![t] = IF @ = "exit" THEN "left" ELSE "leftSurplus"]
    /\ UNCHANGED <<vars, snap, ctx, counters, requests, admission, drain, faults>>

(* On the way out: PHP teardown of the thread's own context, then live,    *)
(* then (for a surplus thread) retiring, then the respawn gate.            *)
TearDown(t) ==
    /\ tpc[t] \in {"exit", "surplus"}
    /\ ctx' = [ctx EXCEPT ![t] = "no"]
    /\ tpc' = [tpc EXCEPT ![t] = IF @ = "exit" THEN "left" ELSE "leftSurplus"]
    /\ UNCHANGED <<vars, snap, counters, requests, admission, drain, faults>>

Uncount(t) ==
    /\ tpc[t] \in {"left", "leftSurplus"}
    /\ live' = live - 1
    /\ tpc' = [tpc EXCEPT ![t] = IF @ = "left" THEN "gate" ELSE "unclaim"]
    /\ UNCHANGED <<vars, snap, ctx, hung, retiring, requests, admission, drain, faults>>

Unclaim(t) ==
    /\ tpc[t] = "unclaim"
    /\ retiring' = retiring - 1
    /\ tpc' = [tpc EXCEPT ![t] = "gate"]
    /\ UNCHANGED <<vars, snap, ctx, live, hung, requests, admission, drain, faults>>

(* respawn_if_running: not while draining, and only below target; the      *)
(* back-off after failed boots lies between the gate and the spawn.        *)
GateDraining(t) ==
    /\ tpc[t] = "gate"
    /\ tpc' = [tpc EXCEPT ![t] = IF draining THEN "none" ELSE "count"]
    /\ UNCHANGED <<vars, snap, ctx, counters, requests, admission, drain, faults>>

(* Mutant: a hung thread stands in for a serving one.                      *)
GateLive(t) ==
    /\ tpc[t] = "count"
    /\ tpc' = [tpc EXCEPT ![t] = IF live >= Target THEN "none" ELSE "respawn"]
    /\ UNCHANGED <<vars, snap, ctx, counters, requests, admission, drain, faults>>

GateServing(t) ==
    /\ tpc[t] = "count"
    /\ tpc' = [tpc EXCEPT ![t] = IF Minus(live, hung) >= Target THEN "none" ELSE "respawn"]
    /\ UNCHANGED <<vars, snap, ctx, counters, requests, admission, drain, faults>>

Respawn(t) ==
    /\ tpc[t] = "respawn"
    /\ Spawn([tpc EXCEPT ![t] = "none"])
    /\ UNCHANGED <<vars, snap, ctx, hung, retiring, requests, admission, drain, crashes>>

-----------------------------------------------------------------------------
(* Requests.  The runtime that drives them stops before PHP does.          *)

Running == dpc \in {"serving", "flagged", "closed", "waiting"}

(* dispatch and try_dispatch: a permit, a place in the line, or a 503.     *)
Arrive(r) ==
    /\ Running /\ rpc[r] = "new"
    /\ \/ /\ dpc # "waiting" /\ permits > 0
          /\ permits' = permits - 1
          /\ rpc' = [rpc EXCEPT ![r] = "admitted"]
          /\ UNCHANGED <<line, status>>
       \/ /\ dpc # "waiting" /\ permits = 0
          /\ line' = Append(line, r)
          /\ rpc' = [rpc EXCEPT ![r] = "waiting"]
          /\ UNCHANGED <<permits, status>>
       \/ /\ dpc = "waiting" \/ permits = 0
          /\ rpc' = [rpc EXCEPT ![r] = "refused"]
          /\ status' = [status EXCEPT ![r] = "refused"]
          /\ UNCHANGED admission
    /\ UNCHANGED <<queue, idle, hand, closed, threads, counters, started, replied,
                   drain, faults>>

(* Mutant: a request that gives up returns a permit it never had.          *)
CancelWaitReleasing(r) ==
    /\ Running /\ rpc[r] = "waiting"
    /\ Refuse(r)
    /\ \E i \in DOMAIN line : line[i] = r /\ line' = RemoveAt(line, i)
    /\ rpc' = [rpc EXCEPT ![r] = "refused"]
    /\ permits' = permits + 1
    /\ UNCHANGED <<threads, counters, started, replied, drain, faults>>

(* The grace or the request timeout ends the wait for a permit.            *)
CancelWait(r) ==
    /\ Running /\ rpc[r] = "waiting"
    /\ Refuse(r)
    /\ \E i \in DOMAIN line : line[i] = r /\ line' = RemoveAt(line, i)
    /\ rpc' = [rpc EXCEPT ![r] = "refused"]
    /\ UNCHANGED <<threads, counters, permits, started, replied, drain, faults>>

(* Mutant: the permit ends with the push instead of travelling in the job. *)
PushReleasing(r) ==
    /\ Running /\ rpc[r] = "admitted"
    /\ Enqueue(r) \/ \E t \in Workers : HandOver(r, t)
    /\ ReleasePermit([rpc EXCEPT ![r] = "pending"])
    /\ UNCHANGED <<threads, counters, started, replied, drain, faults>>

(* enqueue_with_permit: the permit stands for a place in the queue.        *)
Push(r) ==
    /\ Running /\ rpc[r] = "admitted"
    /\ \/ /\ Enqueue(r) \/ \E t \in Workers : HandOver(r, t)
          /\ rpc' = [rpc EXCEPT ![r] = "pending"]
          /\ UNCHANGED admission
       \/ /\ closed
          /\ Refuse(r)
          /\ ReleasePermit([rpc EXCEPT ![r] = "refused"])
    /\ UNCHANGED <<threads, counters, started, replied, drain, faults>>

(* PendingReply: the reply or the deadline.  A client that goes away       *)
(* leaves a task that waits for the same two (Drop).                       *)
Answer(r) ==
    /\ Running /\ rpc[r] = "pending" /\ replied[r]
    /\ rpc' = [rpc EXCEPT ![r] = "answered"]
    /\ UNCHANGED <<vars, threads, counters, started, replied, admission, drain, faults>>

AtDeadline(r) ==
    /\ Running /\ rpc[r] = "pending" /\ ~replied[r]
    /\ rpc' = [rpc EXCEPT ![r] = IF started[r] THEN "mark" ELSE "gone"]
    /\ UNCHANGED <<vars, threads, counters, started, replied, admission, drain, faults>>

(* note_hung: counted, and replaced while no more than Target are hung.    *)
MarkHung(r) ==
    /\ Running /\ rpc[r] = "mark"
    /\ hung' = hung + 1
    /\ rpc' = [rpc EXCEPT ![r] = IF hung + 1 > Target THEN "watch" ELSE "replace"]
    /\ UNCHANGED <<vars, threads, live, retiring, started, replied, admission, drain, faults>>

(* Mutant: the hung thread is counted but not replaced.                    *)
ReplaceNever(r) ==
    /\ Running /\ rpc[r] = "replace"
    /\ rpc' = [rpc EXCEPT ![r] = "watch"]
    /\ UNCHANGED <<vars, threads, counters, started, replied, admission, drain, faults>>

Replace(r) ==
    /\ Running /\ rpc[r] = "replace"
    /\ rpc' = [rpc EXCEPT ![r] = "watch"]
    /\ IF draining THEN UNCHANGED <<tpc, live, spawnFails>> ELSE Spawn(tpc)
    /\ UNCHANGED <<vars, snap, ctx, hung, retiring, started, replied, admission,
                   drain, crashes>>

(* The recovery watch: the thread has answered after all.                  *)
Recovered(r) ==
    /\ Running /\ rpc[r] = "watch" /\ replied[r]
    /\ hung' = Minus(hung, 1)
    /\ rpc' = [rpc EXCEPT ![r] = "gone"]
    /\ UNCHANGED <<vars, threads, live, retiring, started, replied, admission, drain, faults>>

-----------------------------------------------------------------------------
(* Shutdown: drain in its three steps, the wait for live = 0, the end of   *)
(* the runtime, and PhpRuntime::shutdown.                                  *)

Drain ==
    /\ dpc = "serving"
    /\ draining' = TRUE /\ dpc' = "flagged"
    /\ UNCHANGED <<vars, threads, counters, requests, admission, phpUp, poisoned, faults>>

CloseDispatcher ==
    /\ dpc = "flagged" /\ dpc' = "closed"
    /\ Close
    /\ UNCHANGED <<threads, counters, requests, admission, draining, phpUp, poisoned, faults>>

CloseAdmission ==
    /\ dpc = "closed" /\ dpc' = "waiting"
    /\ line' = <<>>
    /\ rpc' = [r \in Jobs |-> IF rpc[r] = "waiting" THEN "refused" ELSE rpc[r]]
    /\ status' = [r \in Jobs |-> IF rpc[r] = "waiting" THEN "refused" ELSE status[r]]
    /\ UNCHANGED <<queue, idle, hand, closed, threads, counters, started, replied,
                   permits, draining, phpUp, poisoned, faults>>

StopRuntime ==
    /\ dpc = "waiting" /\ (live = 0 \/ Deadline)
    /\ dpc' = "stopped"
    /\ UNCHANGED <<vars, threads, counters, requests, admission, draining, phpUp,
                   poisoned, faults>>

ShutdownFlag ==
    /\ dpc = "stopped"
    /\ phpUp' = FALSE /\ dpc' = "flagDown"
    /\ UNCHANGED <<vars, threads, counters, requests, admission, draining, poisoned, faults>>

(* LIVE_PHP_THREADS counts the contexts whose init has returned.           *)
EmbedShutdown ==
    /\ dpc = "flagDown"
    /\ dpc' = IF poisoned \/ \E t \in Workers : ctx[t] = "held" THEN "skipped" ELSE "down"
    /\ UNCHANGED <<vars, threads, counters, requests, admission, draining, phpUp,
                   poisoned, faults>>

-----------------------------------------------------------------------------
Exited == dpc \in {"skipped", "down"} /\ UNCHANGED poolVars

ThreadStep(t) ==
    \/ BootThread(t) \/ Registered(t) \/ ClaimRead(t) \/ ClaimSwap(t)
    \/ Recv(t) \/ RecvClosed(t) \/ Start(t) \/ Reply(t) \/ TearDown(t)
    \/ Uncount(t) \/ Unclaim(t) \/ GateDraining(t) \/ GateServing(t) \/ Respawn(t)
RequestStep(r) ==
    Push(r) \/ Answer(r) \/ AtDeadline(r) \/ MarkHung(r) \/ Replace(r) \/ Recovered(r)
ShutdownStep ==
    \/ CloseDispatcher \/ CloseAdmission \/ StopRuntime \/ ShutdownFlag \/ EmbedShutdown

PoolNext ==
    \/ \E t \in Workers : ThreadStep(t)
    \/ \E r \in Jobs : RequestStep(r) \/ Arrive(r) \/ CancelWait(r)
    \/ Drain \/ ShutdownStep \/ Exited

PoolSpec == PoolInit /\ [][PoolNext]_poolVars

(* A thread that can run does, a script outside Stuck ends, a deadline     *)
(* passes and the shutdown goes on once it has begun.                      *)
PoolFairness ==
    /\ \A t \in Workers : WF_poolVars(ThreadStep(t))
    /\ \A r \in Jobs : WF_poolVars(RequestStep(r))
    /\ WF_poolVars(ShutdownStep)
PoolFairSpec == PoolSpec /\ PoolFairness

-----------------------------------------------------------------------------
(* The types of the variables; no more permits than places in the queue.   *)
PoolTypeOK ==
    /\ permits \in 0..Capacity
    /\ live \in Nat /\ hung \in Nat /\ retiring \in Nat
    /\ ctx \in [Workers -> {"no", "init", "held"}]
    /\ line \in Seq(Jobs) /\ queue \in Seq(Jobs)

(* "Holding a permit guarantees a free overflow slot": whoever holds a     *)
(* permit and has not pushed yet finds an idle thread or a place, so the   *)
(* debug_assert of enqueue_with_permit cannot fail.                        *)
PermitHolderFindsRoom ==
    \A r \in Jobs : rpc[r] = "admitted" /\ ~closed => idle # {} \/ Len(queue) < Capacity

(* "Reaches 0 only after every thread has released its TSRM slot": no      *)
(* thread has, or is about to make, a PHP context that live does not count.*)
ContextsCounted ==
    live >= Cardinality({t \in Workers : ctx[t] # "no"})

(* A crash, a recycle or a request that outlives its deadline costs the    *)
(* pool no thread: unless more are hung than Target or the pool drains, it *)
(* gets back to Target threads that serve, short only of refused spawns.   *)
BackToTarget ==
    []<>(draining \/ hung > Target \/ live + spawnFails >= Target + hung)

(* A script whose request was gone before a thread began it: nobody is     *)
(* left to judge the thread.                                               *)
Unjudged == \E s \in Stuck : started[s] /\ rpc[s] = "gone"

(* Scripts that never return do not wedge the pool as long as their        *)
(* threads are judged: a request that was accepted is run in the end.      *)
AcceptedRuns ==
    \A r \in Jobs \ Stuck :
        (status[r] = "accepted")
            ~> (replied[r] \/ draining \/ spawnFails > 0 \/ hung > Target \/ Unjudged)

(* "A hung script parks a worker forever ... hung-worker -> replace": a    *)
(* thread that runs a script that never returns is counted hung in the end.*)
(* Violated: see the README, section 4.                                    *)
HungIsJudged == \A s \in Stuck : started[s] ~> (hung > 0 \/ draining)

(* "0 during a drain means every worker thread's PHP context is fully      *)
(* retired and php_embed_shutdown() is safe to run."  Violated: see the    *)
(* README, section 4.                                                      *)
TeardownAlone == dpc = "down" => \A t \in Workers : ctx[t] = "no"
=============================================================================
