--------------------------- MODULE PhpPoolProofs ----------------------------
(***************************************************************************)
(* Proofs about PhpPool, for any number of requests and threads, any queue *)
(* capacity and target, and however often threads crash or hang.           *)
(*                                                                         *)
(* What the code relies on is conservation.  An admission permit is free,  *)
(* with a request that has not pushed yet, or stands for a job that no     *)
(* thread has begun; live is the number of threads between their spawn and *)
(* the step that uncounts them.  PhpInv says so, and adds which places of  *)
(* a thread go with a job in its hands, a PHP context, and the idle set.   *)
(***************************************************************************)
EXTENDS PhpPool, SeqLemmas, FiniteSetTheorems

ThreadPlaces == {"none", "boot", "loop", "claim", "recv", "run", "exit", "surplus",
                 "left", "leftSurplus", "unclaim", "gate", "count", "respawn"}
RequestPlaces == {"new", "waiting", "admitted", "pending", "refused", "answered",
                  "mark", "replace", "watch", "gone"}

\* The types of the variables the proofs are about, without the bounds that
\* take the accounting to prove.
PoolTypes ==
  /\ permits \in Nat /\ hung \in Nat
  /\ queue \in Seq(Jobs) /\ line \in Seq(Jobs)
  /\ idle \subseteq Workers /\ closed \in BOOLEAN
  /\ hand \in [Workers -> Jobs \cup {NoJob}]
  /\ tpc \in [Workers -> ThreadPlaces]
  /\ ctx \in [Workers -> {"no", "init", "held"}]
  /\ rpc \in [Jobs -> RequestPlaces]

\* A thread has a job only while it receives or runs it; an idle thread waits
\* inside recv with empty hands; a closed dispatcher has no idle threads.
HandPlaces ==
  /\ \A t \in Workers : hand[t] # NoJob => tpc[t] \in {"recv", "run"}
  /\ \A t \in idle : tpc[t] = "recv" /\ hand[t] = NoJob
  /\ closed => idle = {}

\* A thread has a PHP context only between worker_thread_init and its teardown.
ContextPlaces ==
  \A t \in Workers : ctx[t] # "no" =>
    tpc[t] \in {"boot", "loop", "claim", "recv", "run", "exit", "surplus"}

\* The admission queue holds exactly the requests that wait for a permit.
LineWaits ==
  /\ IsInjective(line)
  /\ Range(line) = {r \in Jobs : rpc[r] = "waiting"}

\* The permits: with a request that has not pushed yet, or with a job in the
\* queue or in the hands of a thread that has not begun it.
Admitted == {r \in Jobs : rpc[r] = "admitted"}
Receiving == {t \in Workers : tpc[t] = "recv" /\ hand[t] # NoJob}
PermitSum ==
  /\ IsFiniteSet(Admitted)
  /\ permits + Cardinality(Admitted) + Len(queue) + Cardinality(Receiving) = Capacity

\* live counts the threads from spawn_thread to the uncounting on their way
\* out, retiring the ones with a surplus claim.
Counted ==
  {t \in Workers : tpc[t] \in {"boot", "loop", "claim", "recv", "run", "exit",
                               "surplus", "left", "leftSurplus"}}
Claimed == {t \in Workers : tpc[t] \in {"surplus", "leftSurplus", "unclaim"}}
Counts == live = Cardinality(Counted) /\ retiring = Cardinality(Claimed)

\* The inductive invariant.
PhpInv ==
  PoolTypes /\ HandPlaces /\ ContextPlaces /\ LineWaits /\ PermitSum /\ Counts

-----------------------------------------------------------------------------
(* Types.                                                                  *)

\* A permit that is given back keeps the types.
LEMMA ReleasePermitTypes ==
  ASSUME PoolTypes, NEW pc \in [Jobs -> RequestPlaces], ReleasePermit(pc)
  PROVE  permits' \in Nat /\ line' \in Seq(Jobs) /\ rpc' \in [Jobs -> RequestPlaces]
<1>1. CASE line = <<>> BY <1>1 DEF ReleasePermit, PoolTypes
<1>2. CASE line # <<>>
  <2>1. Head(line) \in Jobs /\ Tail(line) \in Seq(Jobs)
    BY <1>2, PopFront DEF PoolTypes
  <2> QED BY <1>2, <2>1 DEF ReleasePermit, PoolTypes, RequestPlaces
<1> QED BY <1>1, <1>2

\* A spawn, whether it succeeds or not, keeps the types.
LEMMA SpawnTypes ==
  ASSUME NEW pc \in [Workers -> ThreadPlaces], Spawn(pc)
  PROVE  tpc' \in [Workers -> ThreadPlaces]
BY DEF Spawn, ThreadPlaces

\* Every step of a thread keeps the types.
LEMMA ThreadTypes ==
  ASSUME PhpInv, NEW t \in Workers, ThreadStep(t)
  PROVE  PoolTypes'
<1>0. PoolTypes BY DEF PhpInv
<1> USE <1>0 DEF PoolTypes, threads, counters, requests, admission, drain, faults, vars
<1>1. CASE BootThread(t) BY <1>1 DEF BootThread, ThreadPlaces
<1>2. CASE Registered(t) BY <1>2 DEF Registered, ThreadPlaces
<1>3. CASE ClaimRead(t)
  <2>1. tpc' \in [Workers -> ThreadPlaces] BY <1>3 DEF ClaimRead, ThreadPlaces
  <2> QED BY <1>3, <2>1 DEF ClaimRead
<1>4. CASE ClaimSwap(t)
  <2>1. tpc' \in [Workers -> ThreadPlaces] BY <1>4 DEF ClaimSwap, ThreadPlaces
  <2> QED BY <1>4, <2>1 DEF ClaimSwap
<1>5. CASE Recv(t)
  <2>1. CASE Take(t)
    <3>1. Head(queue) \in Jobs /\ Tail(queue) \in Seq(Jobs)
      BY <2>1, PopFront DEF Take
    <3> QED BY <1>5, <2>1, <3>1 DEF Recv, Take
  <2>2. CASE GoIdle(t) BY <1>5, <2>2 DEF Recv, GoIdle
  <2> QED BY <1>5, <2>1, <2>2 DEF Recv
<1>6. CASE RecvClosed(t) BY <1>6 DEF RecvClosed, ThreadPlaces
<1>7. CASE Start(t)
  <2>1. permits' \in Nat /\ line' \in Seq(Jobs) /\ rpc' \in [Jobs -> RequestPlaces]
    BY <1>7, ReleasePermitTypes DEF Start
  <2> QED BY <1>7, <2>1 DEF Start, ThreadPlaces
<1>8. CASE Reply(t)
  <2>1. tpc' \in [Workers -> ThreadPlaces] BY <1>8 DEF Reply, ThreadPlaces
  <2>2. hand' \in [Workers -> Jobs \cup {NoJob}] BY <1>8 DEF Reply, Serve
  <2>3. ctx' \in [Workers -> {"no", "init", "held"}] BY <1>8 DEF Reply
  <2> QED BY <1>8, <2>1, <2>2, <2>3 DEF Reply, Serve
<1>9. CASE TearDown(t)
  <2>1. tpc' \in [Workers -> ThreadPlaces] BY <1>9 DEF TearDown, ThreadPlaces
  <2> QED BY <1>9, <2>1 DEF TearDown
<1>10. CASE Uncount(t)
  <2>1. tpc' \in [Workers -> ThreadPlaces] BY <1>10 DEF Uncount, ThreadPlaces
  <2> QED BY <1>10, <2>1 DEF Uncount
<1>11. CASE Unclaim(t) BY <1>11 DEF Unclaim, ThreadPlaces
<1>12. CASE GateDraining(t)
  <2>1. tpc' \in [Workers -> ThreadPlaces] BY <1>12 DEF GateDraining, ThreadPlaces
  <2> QED BY <1>12, <2>1 DEF GateDraining
<1>13. CASE GateServing(t)
  <2>1. tpc' \in [Workers -> ThreadPlaces] BY <1>13 DEF GateServing, ThreadPlaces
  <2> QED BY <1>13, <2>1 DEF GateServing
<1>14. CASE Respawn(t)
  <2>1. [tpc EXCEPT ![t] = "none"] \in [Workers -> ThreadPlaces] BY DEF ThreadPlaces
  <2>2. tpc' \in [Workers -> ThreadPlaces] BY <1>14, <2>1, SpawnTypes DEF Respawn
  <2> QED BY <1>14, <2>2 DEF Respawn
<1> QED BY <1>1, <1>2, <1>3, <1>4, <1>5, <1>6, <1>7, <1>8, <1>9, <1>10, <1>11, <1>12,
           <1>13, <1>14 DEF ThreadStep

\* So does every step of a request.
LEMMA RequestTypes ==
  ASSUME PhpInv, NEW r \in Jobs, RequestStep(r) \/ Arrive(r) \/ CancelWait(r)
  PROVE  PoolTypes'
<1>0. PoolTypes BY DEF PhpInv
<1> USE <1>0 DEF PoolTypes, threads, counters, requests, admission, drain, faults, vars
<1>1. CASE Push(r)
  <2>1. CASE Enqueue(r) /\ rpc' = [rpc EXCEPT ![r] = "pending"] /\ UNCHANGED admission
    <3>1. Append(queue, r) \in Seq(Jobs) BY PushBack
    <3> QED BY <1>1, <2>1, <3>1 DEF Push, Enqueue, RequestPlaces
  <2>2. ASSUME NEW t \in Workers, HandOver(r, t), rpc' = [rpc EXCEPT ![r] = "pending"],
               UNCHANGED admission
        PROVE  PoolTypes'
    BY <1>1, <2>2 DEF Push, HandOver, RequestPlaces
  <2>3. CASE Refuse(r) /\ ReleasePermit([rpc EXCEPT ![r] = "refused"])
    <3>1. [rpc EXCEPT ![r] = "refused"] \in [Jobs -> RequestPlaces] BY DEF RequestPlaces
    <3>2. permits' \in Nat /\ line' \in Seq(Jobs) /\ rpc' \in [Jobs -> RequestPlaces]
      BY <2>3, <3>1, ReleasePermitTypes
    <3> QED BY <1>1, <2>3, <3>2 DEF Push, Refuse
  <2> QED BY <1>1, <2>1, <2>2, <2>3 DEF Push
<1>2. CASE Answer(r) BY <1>2 DEF Answer, RequestPlaces
<1>3. CASE AtDeadline(r)
  <2>1. rpc' \in [Jobs -> RequestPlaces] BY <1>3 DEF AtDeadline, RequestPlaces
  <2> QED BY <1>3, <2>1 DEF AtDeadline
<1>4. CASE MarkHung(r)
  <2>1. rpc' \in [Jobs -> RequestPlaces] BY <1>4 DEF MarkHung, RequestPlaces
  <2> QED BY <1>4, <2>1 DEF MarkHung
<1>5. CASE Replace(r)
  <2>1. tpc' \in [Workers -> ThreadPlaces] BY <1>5, SpawnTypes DEF Replace
  <2> QED BY <1>5, <2>1 DEF Replace, RequestPlaces
<1>6. CASE Recovered(r) BY <1>6 DEF Recovered, RequestPlaces, Minus
<1>7. CASE Arrive(r)
  <2>1. Append(line, r) \in Seq(Jobs) BY PushBack
  <2>2. permits > 0 => permits - 1 \in Nat OBVIOUS
  <2>3. permits' \in Nat /\ line' \in Seq(Jobs) BY <1>7, <2>1, <2>2 DEF Arrive
  <2>4. rpc' \in [Jobs -> RequestPlaces] BY <1>7 DEF Arrive, RequestPlaces
  <2> QED BY <1>7, <2>3, <2>4 DEF Arrive
<1>8. CASE CancelWait(r)
  <2>1. PICK i \in 1..Len(line) : line' = RemoveAt(line, i)
    BY <1>8, LenProperties DEF CancelWait
  <2>2. line' \in Seq(Jobs) BY <2>1, RemoveMiddle DEF PhpInv, LineWaits
  <2> QED BY <1>8, <2>2 DEF CancelWait, Refuse, RequestPlaces
<1> QED BY <1>1, <1>2, <1>3, <1>4, <1>5, <1>6, <1>7, <1>8 DEF RequestStep

\* And the shutdown.
LEMMA ShutdownTypes ==
  ASSUME PhpInv, Drain \/ ShutdownStep \/ Exited \/ UNCHANGED poolVars
  PROVE  PoolTypes'
<1>0. PoolTypes BY DEF PhpInv
<1> USE <1>0 DEF PoolTypes, threads, counters, requests, admission, drain, faults, vars
<1>1. CASE Drain BY <1>1 DEF Drain
<1>2. CASE CloseDispatcher BY <1>2 DEF CloseDispatcher, Close
<1>3. CASE CloseAdmission
  <2>1. rpc' \in [Jobs -> RequestPlaces] BY <1>3 DEF CloseAdmission, RequestPlaces
  <2>2. line' \in Seq(Jobs) BY <1>3, EmptySeq DEF CloseAdmission
  <2> QED BY <1>3, <2>1, <2>2 DEF CloseAdmission
<1>4. CASE StopRuntime BY <1>4 DEF StopRuntime
<1>5. CASE ShutdownFlag BY <1>5 DEF ShutdownFlag
<1>6. CASE EmbedShutdown BY <1>6 DEF EmbedShutdown
<1>7. CASE UNCHANGED poolVars BY <1>7 DEF poolVars
<1> QED BY <1>1, <1>2, <1>3, <1>4, <1>5, <1>6, <1>7 DEF ShutdownStep, Exited

-----------------------------------------------------------------------------
(* Hands and contexts.                                                     *)

\* One thread moves on without touching a job: its old and its new place must
\* fit what it has.
LEMMA MoveKeepsPlaces ==
  ASSUME PhpInv, NEW t \in Workers, NEW p \in ThreadPlaces,
         tpc' = [tpc EXCEPT ![t] = p], UNCHANGED <<hand, idle, closed>>,
         hand[t] # NoJob => p \in {"recv", "run"}, t \notin idle,
         \A u \in Workers \ {t} : ctx'[u] = ctx[u],
         ctx'[t] # "no" => p \in {"boot", "loop", "claim", "recv", "run", "exit", "surplus"}
  PROVE  HandPlaces' /\ ContextPlaces'
<1>1. PoolTypes /\ HandPlaces /\ ContextPlaces BY DEF PhpInv
<1>2. tpc'[t] = p /\ \A u \in Workers \ {t} : tpc'[u] = tpc[u] BY <1>1 DEF PoolTypes
<1>3. HandPlaces' BY <1>1, <1>2 DEF HandPlaces, PoolTypes
<1>4. ContextPlaces' BY <1>1, <1>2 DEF ContextPlaces
<1> QED BY <1>3, <1>4

\* A spawn gives a free thread name its first place.
LEMMA SpawnKeepsPlaces ==
  ASSUME PhpInv, NEW pc, Spawn(pc), UNCHANGED <<hand, idle, closed, ctx>>,
         pc = tpc \/ \E t \in Workers : tpc[t] = "respawn" /\ pc = [tpc EXCEPT ![t] = "none"]
  PROVE  HandPlaces' /\ ContextPlaces'
<1>1. PoolTypes /\ HandPlaces /\ ContextPlaces BY DEF PhpInv
<1>2. \A u \in Workers :
        tpc'[u] = tpc[u] \/ (tpc[u] \in {"none", "respawn"} /\ tpc'[u] \in {"none", "boot"})
  BY <1>1 DEF Spawn, PoolTypes
<1>3. HandPlaces' BY <1>1, <1>2 DEF HandPlaces, PoolTypes
<1>4. ContextPlaces' BY <1>1, <1>2 DEF ContextPlaces
<1> QED BY <1>3, <1>4

\* Every step of a thread.
LEMMA ThreadPlacesStep ==
  ASSUME PhpInv, NEW t \in Workers, ThreadStep(t)
  PROVE  HandPlaces' /\ ContextPlaces'
<1>0. PoolTypes /\ HandPlaces /\ ContextPlaces BY DEF PhpInv
<1>a. tpc[t] \notin {"recv", "run"} => hand[t] = NoJob /\ t \notin idle
  BY <1>0 DEF HandPlaces
<1>b. hand[t] # NoJob => t \notin idle BY <1>0 DEF HandPlaces
<1>c. ctx \in [Workers -> {"no", "init", "held"}] /\ tpc \in [Workers -> ThreadPlaces]
  BY <1>0 DEF PoolTypes
<1> USE DEF vars, threads, counters, requests, admission, drain, faults, ThreadPlaces
<1>1. CASE BootThread(t)
  <2>1. CASE phpUp
    <3>1. ctx' = [ctx EXCEPT ![t] = "init"] /\ UNCHANGED <<tpc, hand, idle, closed>>
      BY <1>1, <2>1 DEF BootThread
    <3>2. ContextPlaces' BY <1>0, <1>1, <1>c, <3>1 DEF BootThread, ContextPlaces
    <3>3. HandPlaces' BY <1>0, <3>1 DEF HandPlaces
    <3> QED BY <3>2, <3>3
  <2>2. CASE ~phpUp
    <3>1. tpc' = [tpc EXCEPT ![t] = "left"] /\ ctx' = ctx /\ ctx[t] = "no"
      BY <1>1, <2>2 DEF BootThread
    <3> QED BY <1>1, <1>a, <3>1, MoveKeepsPlaces DEF BootThread
  <2> QED BY <2>1, <2>2
<1>2. CASE Registered(t)
  <2>1. UNCHANGED <<hand, idle, closed>> /\ tpc[t] = "boot" BY <1>2 DEF Registered
  <2>2. CASE ctx' = [ctx EXCEPT ![t] = "held"] /\ tpc' = [tpc EXCEPT ![t] = "loop"]
    <3>1. \A u \in Workers \ {t} : ctx'[u] = ctx[u] BY <1>c, <2>2
    <3> QED BY <1>a, <2>1, <2>2, <3>1, MoveKeepsPlaces
  <2>3. CASE ctx' = [ctx EXCEPT ![t] = "no"] /\ tpc' = [tpc EXCEPT ![t] = "left"]
    <3>1. ctx'[t] = "no" /\ \A u \in Workers \ {t} : ctx'[u] = ctx[u] BY <1>c, <2>3
    <3> QED BY <1>a, <2>1, <2>3, <3>1, MoveKeepsPlaces
  <2> QED BY <1>2, <2>2, <2>3 DEF Registered
<1>3. CASE ClaimRead(t)
  <2>1. PICK p \in {"claim", "recv"} : tpc' = [tpc EXCEPT ![t] = p]
    BY <1>3 DEF ClaimRead
  <2>2. UNCHANGED <<hand, idle, closed, ctx>> /\ tpc[t] = "loop" BY <1>3 DEF ClaimRead
  <2> QED BY <1>a, <2>1, <2>2, MoveKeepsPlaces
<1>4. CASE ClaimSwap(t)
  <2>1. PICK p \in {"surplus", "loop"} : tpc' = [tpc EXCEPT ![t] = p]
    BY <1>4 DEF ClaimSwap
  <2>2. UNCHANGED <<hand, idle, closed, ctx>> /\ tpc[t] = "claim" BY <1>4 DEF ClaimSwap
  <2> QED BY <1>a, <2>1, <2>2, MoveKeepsPlaces
<1>5. CASE Recv(t)
  <2>1. CASE Take(t)
    <3>1. /\ tpc[t] = "recv" /\ t \notin idle /\ UNCHANGED <<tpc, idle, closed, ctx>>
          /\ hand' = [hand EXCEPT ![t] = Head(queue)]
      BY <1>5, <2>1 DEF Recv, Take
    <3>2. HandPlaces' BY <1>0, <3>1 DEF HandPlaces, PoolTypes
    <3> QED BY <1>0, <3>1, <3>2 DEF ContextPlaces
  <2>2. CASE GoIdle(t)
    <3>1. /\ tpc[t] = "recv" /\ hand[t] = NoJob /\ UNCHANGED <<tpc, hand, closed, ctx>>
          /\ idle' = idle \cup {t} /\ ~closed
      BY <1>5, <2>2 DEF Recv, GoIdle
    <3>2. HandPlaces' BY <1>0, <3>1 DEF HandPlaces
    <3> QED BY <1>0, <3>1, <3>2 DEF ContextPlaces
  <2> QED BY <1>5, <2>1, <2>2 DEF Recv
<1>6. CASE RecvClosed(t)
  <2>1. /\ tpc' = [tpc EXCEPT ![t] = "exit"] /\ hand[t] = NoJob /\ t \notin idle
        /\ UNCHANGED <<hand, idle, closed, ctx>>
    BY <1>0, <1>6 DEF RecvClosed, HandPlaces
  <2> QED BY <2>1, MoveKeepsPlaces
<1>7. CASE Start(t)
  <2>1. /\ tpc' = [tpc EXCEPT ![t] = "run"] /\ t \notin idle
        /\ UNCHANGED <<hand, idle, closed, ctx>>
    BY <1>b, <1>7 DEF Start
  <2> QED BY <2>1, MoveKeepsPlaces
<1>8. CASE Reply(t)
  <2>1. PICK p \in {"loop", "exit"} : tpc' = [tpc EXCEPT ![t] = p] BY <1>8 DEF Reply
  <2>2. /\ tpc[t] = "run" /\ hand' = [hand EXCEPT ![t] = NoJob] /\ UNCHANGED <<idle, closed>>
        /\ ctx' \in {ctx, [ctx EXCEPT ![t] = "no"]}
    BY <1>8 DEF Reply, Serve
  <2>3. /\ tpc'[t] = p /\ \A u \in Workers \ {t} : tpc'[u] = tpc[u] /\ ctx'[u] = ctx[u]
        /\ hand'[t] = NoJob /\ \A u \in Workers \ {t} : hand'[u] = hand[u]
    BY <1>0, <1>c, <2>1, <2>2 DEF PoolTypes
  <2>4. t \notin idle BY <1>0, <2>2 DEF HandPlaces
  <2>5. HandPlaces' BY <1>0, <2>2, <2>3, <2>4 DEF HandPlaces, PoolTypes
  <2>6. ContextPlaces' BY <1>0, <2>3 DEF ContextPlaces
  <2> QED BY <2>5, <2>6
<1>9. CASE TearDown(t)
  <2>1. PICK p \in {"left", "leftSurplus"} : tpc' = [tpc EXCEPT ![t] = p]
    BY <1>9 DEF TearDown
  <2>2. /\ UNCHANGED <<hand, idle, closed>> /\ tpc[t] \in {"exit", "surplus"}
        /\ ctx' = [ctx EXCEPT ![t] = "no"]
    BY <1>9 DEF TearDown
  <2>3. ctx'[t] = "no" /\ \A u \in Workers \ {t} : ctx'[u] = ctx[u] BY <1>c, <2>2
  <2> QED BY <1>a, <2>1, <2>2, <2>3, MoveKeepsPlaces
<1>10. CASE Uncount(t) \/ Unclaim(t) \/ GateDraining(t) \/ GateServing(t)
  <2>1. PICK p \in {"gate", "unclaim", "none", "count", "respawn"} :
          tpc' = [tpc EXCEPT ![t] = p]
    BY <1>10 DEF Uncount, Unclaim, GateDraining, GateServing
  <2>2. /\ UNCHANGED <<hand, idle, closed, ctx>>
        /\ tpc[t] \in {"left", "leftSurplus", "unclaim", "gate", "count"}
    BY <1>10 DEF Uncount, Unclaim, GateDraining, GateServing
  <2>3. ctx[t] = "no" BY <1>0, <2>2 DEF ContextPlaces
  <2> QED BY <1>a, <2>1, <2>2, <2>3, MoveKeepsPlaces
<1>11. CASE Respawn(t)
  <2>1. /\ tpc[t] = "respawn" /\ Spawn([tpc EXCEPT ![t] = "none"])
        /\ UNCHANGED <<hand, idle, closed, ctx>>
    BY <1>11 DEF Respawn
  <2> QED BY <2>1, SpawnKeepsPlaces
<1> QED BY <1>1, <1>2, <1>3, <1>4, <1>5, <1>6, <1>7, <1>8, <1>9, <1>10, <1>11
        DEF ThreadStep

\* Every step of a request, and the shutdown.
LEMMA OtherPlacesStep ==
  ASSUME PhpInv,
         \/ \E r \in Jobs : RequestStep(r) \/ Arrive(r) \/ CancelWait(r)
         \/ Drain \/ ShutdownStep \/ Exited \/ UNCHANGED poolVars
  PROVE  HandPlaces' /\ ContextPlaces'
<1>0. PoolTypes /\ HandPlaces /\ ContextPlaces BY DEF PhpInv
<1> USE DEF vars, threads, counters, requests, admission, drain, faults
<1>1. CASE UNCHANGED <<tpc, ctx, hand, idle, closed>>
  BY <1>0, <1>1 DEF HandPlaces, ContextPlaces
<1>2. ASSUME NEW r \in Jobs, Push(r) PROVE HandPlaces' /\ ContextPlaces'
  <2>1. CASE Enqueue(r) \/ Refuse(r)
    BY <1>1, <1>2, <2>1 DEF Push, Enqueue, Refuse
  <2>2. ASSUME NEW t \in Workers, HandOver(r, t) PROVE HandPlaces' /\ ContextPlaces'
    <3>1. /\ t \in idle /\ idle' = idle \ {t} /\ hand' = [hand EXCEPT ![t] = r]
          /\ UNCHANGED <<tpc, ctx, closed>>
      BY <1>2, <2>2 DEF Push, HandOver
    <3>2. HandPlaces' BY <1>0, <3>1 DEF HandPlaces, PoolTypes
    <3> QED BY <1>0, <3>1, <3>2 DEF ContextPlaces
  <2> QED BY <1>2, <2>1, <2>2 DEF Push
<1>3. ASSUME NEW r \in Jobs, Replace(r) PROVE HandPlaces' /\ ContextPlaces'
  <2>1. UNCHANGED <<hand, idle, closed, ctx>> BY <1>3 DEF Replace
  <2>2. CASE draining BY <1>1, <1>3, <2>1, <2>2 DEF Replace
  <2>3. CASE ~draining BY <1>3, <2>1, <2>3, SpawnKeepsPlaces DEF Replace
  <2> QED BY <2>2, <2>3
<1>4. ASSUME NEW r \in Jobs,
             Answer(r) \/ AtDeadline(r) \/ MarkHung(r) \/ Recovered(r) \/ Arrive(r)
               \/ CancelWait(r)
      PROVE  HandPlaces' /\ ContextPlaces'
  BY <1>1, <1>4 DEF Answer, AtDeadline, MarkHung, Recovered, Arrive, CancelWait, Refuse
<1>5. CASE CloseDispatcher
  <2>1. idle' = {} /\ closed' /\ UNCHANGED <<tpc, ctx, hand>>
    BY <1>5 DEF CloseDispatcher, Close
  <2> QED BY <1>0, <2>1 DEF HandPlaces, ContextPlaces
<1>6. CASE Drain \/ CloseAdmission \/ StopRuntime \/ ShutdownFlag \/ EmbedShutdown
           \/ UNCHANGED poolVars
  BY <1>1, <1>6 DEF Drain, CloseAdmission, StopRuntime, ShutdownFlag, EmbedShutdown, poolVars
<1> QED BY <1>2, <1>3, <1>4, <1>5, <1>6 DEF RequestStep, ShutdownStep, Exited

-----------------------------------------------------------------------------
(* The counters live and retiring.                                         *)

\* Both count finitely many threads.
LEMMA CountsFinite ==
  /\ IsFiniteSet(Counted) /\ Cardinality(Counted) \in Nat
  /\ IsFiniteSet(Claimed) /\ Cardinality(Claimed) \in Nat
<1>1. Counted \subseteq Workers /\ Claimed \subseteq Workers BY DEF Counted, Claimed
<1> QED BY <1>1, PoolAssumption, FS_Subset, FS_CardinalityType

\* spawn_thread counts the thread it starts, and only that.
LEMMA SpawnCounts ==
  ASSUME PhpInv, NEW pc, Spawn(pc), UNCHANGED retiring,
         pc = tpc \/ \E t \in Workers : tpc[t] = "respawn" /\ pc = [tpc EXCEPT ![t] = "none"]
  PROVE  Counts'
<1>0. tpc \in [Workers -> ThreadPlaces] /\ Counts BY DEF PhpInv, PoolTypes
<1>1. pc \in [Workers -> ThreadPlaces] BY <1>0 DEF ThreadPlaces
<1>2. \A u \in Workers : pc[u] = tpc[u] \/ (tpc[u] = "respawn" /\ pc[u] = "none")
  BY <1>0
<1>3. CASE tpc' = pc /\ UNCHANGED live
  <2>1. Counted' = Counted /\ Claimed' = Claimed BY <1>2, <1>3 DEF Counted, Claimed
  <2> QED BY <1>0, <1>3, <2>1 DEF Counts
<1>4. ASSUME NEW n \in Workers, pc[n] = "none", tpc' = [pc EXCEPT ![n] = "boot"],
             live' = live + 1
      PROVE  Counts'
  <2>1. tpc'[n] = "boot" /\ \A u \in Workers \ {n} : tpc'[u] = pc[u] BY <1>1, <1>4
  <2>2. tpc[n] \in {"none", "respawn"} BY <1>2, <1>4
  <2>3. Counted' = Counted \cup {n} /\ n \notin Counted BY <1>2, <2>1, <2>2 DEF Counted
  <2>4. Claimed' = Claimed BY <1>2, <2>1, <2>2 DEF Claimed
  <2>5. Cardinality(Counted') = Cardinality(Counted) + 1
    BY <2>3, CountsFinite, FS_AddElement
  <2> QED BY <1>0, <1>4, <2>4, <2>5 DEF Counts
<1> QED BY <1>3, <1>4 DEF Spawn

\* Every step keeps both counters exact.
LEMMA CountsStep ==
  ASSUME PhpInv, [PoolNext]_poolVars
  PROVE  Counts'
<1>0. tpc \in [Workers -> ThreadPlaces] /\ Counts BY DEF PhpInv, PoolTypes
<1> USE DEF vars, threads, counters, requests, admission, drain, faults
<1>1. CASE UNCHANGED <<tpc, live, retiring>>
  BY <1>0, <1>1 DEF Counts, Counted, Claimed
<1>2. ASSUME NEW t \in Workers, NEW p \in ThreadPlaces, tpc' = [tpc EXCEPT ![t] = p],
             UNCHANGED <<live, retiring>>,
             tpc[t] \in {"boot", "loop", "claim", "recv", "run", "exit", "left"}
               <=> p \in {"boot", "loop", "claim", "recv", "run", "exit", "left"},
             tpc[t] \in {"surplus", "leftSurplus"} <=> p \in {"surplus", "leftSurplus"},
             tpc[t] # "unclaim", p # "unclaim"
      PROVE  Counts'
  <2>1. tpc'[t] = p /\ \A u \in Workers \ {t} : tpc'[u] = tpc[u] BY <1>0, <1>2
  <2>2. Counted' = Counted BY <1>2, <2>1 DEF Counted
  <2>3. Claimed' = Claimed BY <1>2, <2>1 DEF Claimed
  <2> QED BY <1>0, <1>2, <2>2, <2>3 DEF Counts
<1>3. ASSUME NEW t \in Workers, ThreadStep(t) PROVE Counts'
  <2>1. CASE BootThread(t)
    <3>1. CASE phpUp BY <1>1, <2>1, <3>1 DEF BootThread
    <3>2. CASE ~phpUp BY <1>2, <2>1, <3>2 DEF BootThread, ThreadPlaces
    <3> QED BY <3>1, <3>2
  <2>2. CASE Registered(t)
    <3>1. PICK p \in {"loop", "left"} : tpc' = [tpc EXCEPT ![t] = p] BY <2>2 DEF Registered
    <3> QED BY <1>2, <2>2, <3>1 DEF Registered, ThreadPlaces
  <2>3. CASE ClaimRead(t)
    <3>1. PICK p \in {"claim", "recv"} : tpc' = [tpc EXCEPT ![t] = p] BY <2>3 DEF ClaimRead
    <3> QED BY <1>2, <2>3, <3>1 DEF ClaimRead, ThreadPlaces
  <2>4. CASE ClaimSwap(t)
    <3>1. CASE retiring = snap[t]
      <4>1. /\ tpc[t] = "claim" /\ tpc' = [tpc EXCEPT ![t] = "surplus"]
            /\ retiring' = retiring + 1 /\ live' = live
        BY <2>4, <3>1 DEF ClaimSwap
      <4>2. Counted' = Counted BY <1>0, <4>1 DEF Counted
      <4>3. Claimed' = Claimed \cup {t} /\ t \notin Claimed BY <1>0, <4>1 DEF Claimed
      <4>4. Cardinality(Claimed') = Cardinality(Claimed) + 1
        BY <4>3, CountsFinite, FS_AddElement
      <4> QED BY <1>0, <4>1, <4>2, <4>4 DEF Counts
    <3>2. CASE retiring # snap[t] BY <1>2, <2>4, <3>2 DEF ClaimSwap, ThreadPlaces
    <3> QED BY <3>1, <3>2
  <2>5. CASE Recv(t) BY <1>1, <2>5 DEF Recv
  <2>6. CASE RecvClosed(t) BY <1>2, <2>6 DEF RecvClosed, ThreadPlaces
  <2>7. CASE Start(t) BY <1>2, <2>7 DEF Start, ThreadPlaces
  <2>8. CASE Reply(t)
    <3>1. PICK p \in {"loop", "exit"} : tpc' = [tpc EXCEPT ![t] = p] BY <2>8 DEF Reply
    <3> QED BY <1>2, <2>8, <3>1 DEF Reply, ThreadPlaces
  <2>9. CASE TearDown(t)
    <3>1. CASE tpc[t] = "exit"
      BY <1>2, <2>9, <3>1 DEF TearDown, ThreadPlaces
    <3>2. CASE tpc[t] = "surplus"
      BY <1>2, <2>9, <3>2 DEF TearDown, ThreadPlaces
    <3> QED BY <2>9, <3>1, <3>2 DEF TearDown
  <2>10. CASE Uncount(t)
    <3>1. /\ tpc[t] \in {"left", "leftSurplus"} /\ live' = live - 1 /\ retiring' = retiring
          /\ tpc' = [tpc EXCEPT ![t] = IF tpc[t] = "left" THEN "gate" ELSE "unclaim"]
      BY <2>10 DEF Uncount
    <3>2. /\ tpc'[t] = IF tpc[t] = "left" THEN "gate" ELSE "unclaim"
          /\ \A u \in Workers \ {t} : tpc'[u] = tpc[u]
      BY <1>0, <3>1
    <3>3. Counted' = Counted \ {t} /\ t \in Counted BY <3>1, <3>2 DEF Counted
    <3>4. Claimed' = Claimed BY <3>1, <3>2 DEF Claimed
    <3>5. Cardinality(Counted') = Cardinality(Counted) - 1
      BY <3>3, CountsFinite, FS_RemoveElement
    <3> QED BY <1>0, <3>1, <3>4, <3>5 DEF Counts
  <2>11. CASE Unclaim(t)
    <3>1. /\ tpc[t] = "unclaim" /\ live' = live /\ retiring' = retiring - 1
          /\ tpc' = [tpc EXCEPT ![t] = "gate"]
      BY <2>11 DEF Unclaim
    <3>2. Counted' = Counted BY <1>0, <3>1 DEF Counted
    <3>3. Claimed' = Claimed \ {t} /\ t \in Claimed BY <1>0, <3>1 DEF Claimed
    <3>4. Cardinality(Claimed') = Cardinality(Claimed) - 1
      BY <3>3, CountsFinite, FS_RemoveElement
    <3> QED BY <1>0, <3>1, <3>2, <3>4 DEF Counts
  <2>12. CASE GateDraining(t)
    <3>1. PICK p \in {"none", "count"} : tpc' = [tpc EXCEPT ![t] = p] BY <2>12 DEF GateDraining
    <3> QED BY <1>2, <2>12, <3>1 DEF GateDraining, ThreadPlaces
  <2>13. CASE GateServing(t)
    <3>1. PICK p \in {"none", "respawn"} : tpc' = [tpc EXCEPT ![t] = p] BY <2>13 DEF GateServing
    <3> QED BY <1>2, <2>13, <3>1 DEF GateServing, ThreadPlaces
  <2>14. CASE Respawn(t) BY <2>14, SpawnCounts DEF Respawn
  <2> QED BY <1>3, <2>1, <2>2, <2>3, <2>4, <2>5, <2>6, <2>7, <2>8, <2>9, <2>10, <2>11,
             <2>12, <2>13, <2>14 DEF ThreadStep
<1>4. ASSUME NEW r \in Jobs, RequestStep(r) \/ Arrive(r) \/ CancelWait(r) PROVE Counts'
  <2>1. CASE Replace(r)
    <3>1. CASE draining BY <1>1, <2>1, <3>1 DEF Replace
    <3>2. CASE ~draining BY <2>1, <3>2, SpawnCounts DEF Replace
    <3> QED BY <3>1, <3>2
  <2>2. CASE Push(r) \/ Answer(r) \/ AtDeadline(r) \/ MarkHung(r) \/ Recovered(r)
             \/ Arrive(r) \/ CancelWait(r)
    BY <1>1, <2>2 DEF Push, Answer, AtDeadline, MarkHung, Recovered, Arrive, CancelWait
  <2> QED BY <1>4, <2>1, <2>2 DEF RequestStep
<1>5. CASE Drain \/ ShutdownStep \/ Exited \/ UNCHANGED poolVars
  BY <1>1, <1>5 DEF Drain, ShutdownStep, CloseDispatcher, CloseAdmission, StopRuntime,
                    ShutdownFlag, EmbedShutdown, Exited, poolVars
<1> QED BY <1>3, <1>4, <1>5 DEF PoolNext

-----------------------------------------------------------------------------
(* The admission permits.                                                  *)

\* The sums are sums of natural numbers.
LEMMA PermitTerms ==
  ASSUME PoolTypes, PermitSum
  PROVE  /\ permits \in Nat /\ Cardinality(Admitted) \in Nat /\ Len(queue) \in Nat
         /\ IsFiniteSet(Receiving) /\ Cardinality(Receiving) \in Nat /\ Capacity \in Nat
<1>1. Receiving \subseteq Workers BY DEF Receiving
<1>2. IsFiniteSet(Receiving) /\ Cardinality(Receiving) \in Nat
  BY <1>1, PoolAssumption, FS_Subset, FS_CardinalityType
<1>3. Cardinality(Admitted) \in Nat BY FS_CardinalityType DEF PermitSum
<1>4. Len(queue) \in Nat BY LenProperties DEF PoolTypes
<1> QED BY <1>2, <1>3, <1>4, CapacityAssumption DEF PoolTypes

\* A permit that is given back is free again or goes to the longest waiter.
LEMMA ReleasePermitKeeps ==
  ASSUME PhpInv, NEW pc \in [Jobs -> RequestPlaces], ReleasePermit(pc),
         {r \in Jobs : pc[r] = "waiting"} = {r \in Jobs : rpc[r] = "waiting"},
         IsFiniteSet({r \in Jobs : pc[r] = "admitted"})
  PROVE  /\ LineWaits' /\ IsFiniteSet(Admitted')
         /\ permits' + Cardinality(Admitted')
              = permits + Cardinality({r \in Jobs : pc[r] = "admitted"}) + 1
<1> DEFINE A == {r \in Jobs : pc[r] = "admitted"}
<1>0. PoolTypes /\ LineWaits /\ permits \in Nat /\ line \in Seq(Jobs)
  BY DEF PhpInv, PoolTypes
<1>1. Cardinality(A) \in Nat BY FS_CardinalityType
<1>2. CASE line = <<>>
  <2>1. permits' = permits + 1 /\ rpc' = pc /\ line' = line BY <1>2 DEF ReleasePermit
  <2>2. Admitted' = A BY <2>1 DEF Admitted
  <2>3. LineWaits' BY <1>0, <2>1 DEF LineWaits
  <2> QED BY <1>0, <1>1, <2>1, <2>2, <2>3
<1>3. CASE line # <<>>
  <2> DEFINE h == Head(line)
  <2>1. /\ h \in Jobs /\ Range(line) = Range(Tail(line)) \cup {h}
        /\ IsInjective(Tail(line)) /\ h \notin Range(Tail(line))
    BY <1>0, <1>3, PopFront DEF LineWaits
  <2>2. pc[h] = "waiting" BY <1>0, <2>1 DEF LineWaits
  <2>3. permits' = permits /\ line' = Tail(line) /\ rpc' = [pc EXCEPT ![h] = "admitted"]
    BY <1>3 DEF ReleasePermit
  <2> HIDE DEF h
  <2>4. rpc'[h] = "admitted" /\ \A r \in Jobs \ {h} : rpc'[r] = pc[r] BY <2>1, <2>3
  <2>5. Admitted' = A \cup {h} /\ h \notin A BY <2>1, <2>2, <2>4 DEF Admitted
  <2>6. IsFiniteSet(A \cup {h}) /\ Cardinality(A \cup {h}) = Cardinality(A) + 1
    BY <2>5, FS_AddElement
  <2>7. {r \in Jobs : rpc'[r] = "waiting"} = {r \in Jobs : rpc[r] = "waiting"} \ {h}
    BY <2>1, <2>2, <2>4
  <2>8. LineWaits' BY <1>0, <2>1, <2>3, <2>7 DEF LineWaits
  <2> QED BY <1>0, <1>1, <2>3, <2>5, <2>6, <2>8
<1> QED BY <1>2, <1>3

\* A step that moves no permit.
LEMMA SamePermitSum ==
  ASSUME PhpInv, UNCHANGED <<permits, line, queue>>, Receiving' = Receiving,
         Admitted' = Admitted,
         {r \in Jobs : rpc'[r] = "waiting"} = {r \in Jobs : rpc[r] = "waiting"}
  PROVE  LineWaits' /\ PermitSum'
BY DEF PhpInv, LineWaits, PermitSum

\* A thread with empty hands moves on: no permit is concerned.
LEMMA EmptyHandMove ==
  ASSUME PhpInv, NEW t \in Workers, NEW p, tpc' = [tpc EXCEPT ![t] = p],
         UNCHANGED <<permits, line, queue, rpc, hand>>, hand[t] = NoJob
  PROVE  LineWaits' /\ PermitSum'
<1>1. tpc \in [Workers -> ThreadPlaces] BY DEF PhpInv, PoolTypes
<1>2. Receiving' = Receiving BY <1>1 DEF Receiving
<1>3. Admitted' = Admitted BY DEF Admitted
<1> QED BY <1>2, <1>3, SamePermitSum

\* A spawn touches no thread that receives.
LEMMA SpawnPermits ==
  ASSUME PhpInv, NEW pc, Spawn(pc), UNCHANGED <<permits, line, queue, hand>>,
         pc = tpc \/ \E t \in Workers : tpc[t] = "respawn" /\ pc = [tpc EXCEPT ![t] = "none"]
  PROVE  Receiving' = Receiving
<1>1. tpc \in [Workers -> ThreadPlaces] BY DEF PhpInv, PoolTypes
<1>2. \A u \in Workers :
        tpc'[u] = tpc[u] \/ (tpc[u] \in {"none", "respawn"} /\ tpc'[u] \in {"none", "boot"})
  BY <1>1 DEF Spawn
<1> QED BY <1>2 DEF Receiving

\* Every step of a thread.
LEMMA ThreadPermits ==
  ASSUME PhpInv, NEW t \in Workers, ThreadStep(t)
  PROVE  LineWaits' /\ PermitSum'
<1>0. PoolTypes /\ HandPlaces /\ LineWaits /\ PermitSum BY DEF PhpInv
<1>a. tpc[t] \notin {"recv", "run"} => hand[t] = NoJob BY <1>0 DEF HandPlaces
<1>b. /\ tpc \in [Workers -> ThreadPlaces] /\ queue \in Seq(Jobs)
      /\ hand \in [Workers -> Jobs \cup {NoJob}]
  BY <1>0 DEF PoolTypes
<1>c. /\ permits \in Nat /\ Cardinality(Admitted) \in Nat /\ Len(queue) \in Nat
      /\ IsFiniteSet(Receiving) /\ Cardinality(Receiving) \in Nat /\ Capacity \in Nat
  BY <1>0, PermitTerms
<1> USE DEF vars, threads, counters, requests, admission, drain, faults
<1>1. CASE BootThread(t)
  <2>1. UNCHANGED <<permits, line, queue, rpc, hand>> /\ hand[t] = NoJob
    BY <1>1, <1>a DEF BootThread
  <2>2. CASE phpUp
    <3>1. Receiving' = Receiving /\ Admitted' = Admitted
      BY <1>1, <2>1, <2>2 DEF BootThread, Receiving, Admitted
    <3> QED BY <2>1, <3>1, SamePermitSum
  <2>3. CASE ~phpUp
    <3>1. tpc' = [tpc EXCEPT ![t] = "left"] BY <1>1, <2>3 DEF BootThread
    <3> QED BY <2>1, <3>1, EmptyHandMove
  <2> QED BY <2>2, <2>3
<1>2. CASE Registered(t) \/ ClaimRead(t) \/ ClaimSwap(t) \/ TearDown(t) \/ Uncount(t)
           \/ Unclaim(t) \/ GateDraining(t) \/ GateServing(t)
  <2>1. UNCHANGED <<permits, line, queue, rpc, hand>> /\ hand[t] = NoJob
    BY <1>2, <1>a DEF Registered, ClaimRead, ClaimSwap, TearDown, Uncount, Unclaim,
                      GateDraining, GateServing
  <2>2. \E p : tpc' = [tpc EXCEPT ![t] = p]
    BY <1>2 DEF Registered, ClaimRead, ClaimSwap, TearDown, Uncount, Unclaim,
                GateDraining, GateServing
  <2> QED BY <2>1, <2>2, EmptyHandMove
<1>3. CASE RecvClosed(t) BY <1>3, EmptyHandMove DEF RecvClosed
<1>4. CASE Recv(t)
  <2>1. CASE Take(t)
    <3>1. /\ tpc[t] = "recv" /\ hand[t] = NoJob /\ queue # <<>> /\ queue' = Tail(queue)
          /\ hand' = [hand EXCEPT ![t] = Head(queue)]
          /\ UNCHANGED <<tpc, permits, line, rpc>>
      BY <1>4, <2>1 DEF Recv, Take
    <3>2. Head(queue) \in Jobs /\ Len(queue') = Len(queue) - 1
      BY <1>b, <3>1, HeadTailProperties
    <3>3. Receiving' = Receiving \cup {t} /\ t \notin Receiving
      BY <1>b, <3>1, <3>2, NoJobAssumption DEF Receiving
    <3>4. Cardinality(Receiving') = Cardinality(Receiving) + 1
      BY <1>c, <3>3, FS_AddElement
    <3>5. Admitted' = Admitted BY <3>1 DEF Admitted
    <3>6. PermitSum' BY <1>0, <1>c, <3>1, <3>2, <3>4, <3>5 DEF PermitSum
    <3> QED BY <1>0, <3>1, <3>6 DEF LineWaits
  <2>2. CASE GoIdle(t)
    <3>1. UNCHANGED <<tpc, hand, permits, line, rpc, queue>>
      BY <1>4, <2>2 DEF Recv, GoIdle
    <3>2. Receiving' = Receiving /\ Admitted' = Admitted BY <3>1 DEF Receiving, Admitted
    <3> QED BY <3>1, <3>2, SamePermitSum
  <2> QED BY <1>4, <2>1, <2>2 DEF Recv
<1>5. CASE Start(t)
  <2>1. /\ tpc[t] = "recv" /\ hand[t] # NoJob /\ tpc' = [tpc EXCEPT ![t] = "run"]
        /\ ReleasePermit(rpc) /\ UNCHANGED <<queue, hand>>
    BY <1>5 DEF Start
  <2>2. Receiving' = Receiving \ {t} /\ t \in Receiving BY <1>b, <2>1 DEF Receiving
  <2>3. Cardinality(Receiving') = Cardinality(Receiving) - 1
    BY <1>c, <2>2, FS_RemoveElement
  <2>4. rpc \in [Jobs -> RequestPlaces] /\ IsFiniteSet({r \in Jobs : rpc[r] = "admitted"})
    BY <1>0 DEF PoolTypes, PermitSum, Admitted
  <2>5. /\ LineWaits' /\ IsFiniteSet(Admitted')
        /\ permits' + Cardinality(Admitted') = permits + Cardinality(Admitted) + 1
    BY <2>1, <2>4, ReleasePermitKeeps DEF Admitted
  <2>6. permits' \in Nat BY <1>0, <2>1, <2>4, ReleasePermitTypes
  <2>7. Cardinality(Admitted') \in Nat BY <2>5, FS_CardinalityType
  <2>8. permits' + Cardinality(Admitted') + Len(queue') + Cardinality(Receiving') = Capacity
    BY <1>0, <1>c, <2>1, <2>3, <2>5, <2>6, <2>7 DEF PermitSum
  <2> QED BY <2>5, <2>8 DEF PermitSum
<1>6. CASE Reply(t)
  <2>1. /\ tpc[t] = "run" /\ hand' = [hand EXCEPT ![t] = NoJob]
        /\ UNCHANGED <<permits, line, queue, rpc>>
    BY <1>6 DEF Reply, Serve
  <2>2. PICK p \in {"loop", "exit"} : tpc' = [tpc EXCEPT ![t] = p] BY <1>6 DEF Reply
  <2>3. Receiving' = Receiving BY <1>b, <2>1, <2>2 DEF Receiving
  <2>4. Admitted' = Admitted BY <2>1 DEF Admitted
  <2> QED BY <2>1, <2>3, <2>4, SamePermitSum
<1>7. CASE Respawn(t)
  <2>1. UNCHANGED <<permits, line, queue, rpc, hand>> BY <1>7 DEF Respawn
  <2>2. Receiving' = Receiving BY <1>7, <2>1, SpawnPermits DEF Respawn
  <2>3. Admitted' = Admitted BY <2>1 DEF Admitted
  <2> QED BY <2>1, <2>2, <2>3, SamePermitSum
<1> QED BY <1>1, <1>2, <1>3, <1>4, <1>5, <1>6, <1>7 DEF ThreadStep

\* Every step of a request.
LEMMA RequestPermits ==
  ASSUME PhpInv, NEW r \in Jobs, RequestStep(r) \/ Arrive(r) \/ CancelWait(r)
  PROVE  LineWaits' /\ PermitSum'
<1>0. PoolTypes /\ HandPlaces /\ LineWaits /\ PermitSum BY DEF PhpInv
<1>b. /\ tpc \in [Workers -> ThreadPlaces] /\ queue \in Seq(Jobs) /\ line \in Seq(Jobs)
      /\ hand \in [Workers -> Jobs \cup {NoJob}] /\ rpc \in [Jobs -> RequestPlaces]
  BY <1>0 DEF PoolTypes
<1>c. /\ permits \in Nat /\ Cardinality(Admitted) \in Nat /\ Len(queue) \in Nat
      /\ IsFiniteSet(Receiving) /\ Cardinality(Receiving) \in Nat /\ Capacity \in Nat
  BY <1>0, PermitTerms
<1>d. IsFiniteSet(Admitted) BY <1>0 DEF PermitSum
<1> USE DEF vars, threads, counters, requests, admission, drain, faults
<1>1. ASSUME NEW p \in RequestPlaces \ {"waiting", "admitted"},
             rpc' = [rpc EXCEPT ![r] = p], rpc[r] \notin {"waiting", "admitted"},
             Receiving' = Receiving, UNCHANGED <<permits, line, queue>>
      PROVE  LineWaits' /\ PermitSum'
  <2>1. Admitted' = Admitted BY <1>b, <1>1 DEF Admitted
  <2>2. {q \in Jobs : rpc'[q] = "waiting"} = {q \in Jobs : rpc[q] = "waiting"}
    BY <1>b, <1>1
  <2> QED BY <1>1, <2>1, <2>2, SamePermitSum
<1>2. CASE Push(r)
  <2>1. rpc[r] = "admitted" BY <1>2 DEF Push
  <2>2. /\ r \in Admitted /\ IsFiniteSet(Admitted \ {r})
        /\ Cardinality(Admitted \ {r}) = Cardinality(Admitted) - 1
    BY <1>d, <2>1, FS_RemoveElement DEF Admitted
  <2>3. ASSUME rpc' = [rpc EXCEPT ![r] = "pending"], UNCHANGED admission
        PROVE  Admitted' = Admitted \ {r} /\ LineWaits'
    <3>1. Admitted' = Admitted \ {r} BY <1>b, <2>3 DEF Admitted
    <3>2. {q \in Jobs : rpc'[q] = "waiting"} = {q \in Jobs : rpc[q] = "waiting"}
      BY <1>b, <2>1, <2>3
    <3> QED BY <1>0, <2>3, <3>1, <3>2 DEF LineWaits
  <2>4. CASE Enqueue(r) /\ rpc' = [rpc EXCEPT ![r] = "pending"] /\ UNCHANGED admission
    <3>1. queue' = Append(queue, r) /\ UNCHANGED <<hand, tpc, permits>>
      BY <1>2, <2>4 DEF Push, Enqueue
    <3>2. Len(queue') = Len(queue) + 1 BY <1>b, <3>1, AppendProperties
    <3>3. Receiving' = Receiving BY <3>1 DEF Receiving
    <3>4. Admitted' = Admitted \ {r} /\ LineWaits' BY <2>3, <2>4
    <3>5. permits' = permits BY <3>1
    <3>6. Cardinality(Admitted') = Cardinality(Admitted) - 1 /\ IsFiniteSet(Admitted')
      BY <2>2, <3>4
    <3>7. permits + Cardinality(Admitted) + Len(queue) + Cardinality(Receiving) = Capacity
      BY <1>0 DEF PermitSum
    <3>8. permits' + Cardinality(Admitted') + Len(queue') + Cardinality(Receiving')
            = permits + (Cardinality(Admitted) - 1) + (Len(queue) + 1) + Cardinality(Receiving)
      BY <3>2, <3>3, <3>5, <3>6
    <3>9. permits + (Cardinality(Admitted) - 1) + (Len(queue) + 1) + Cardinality(Receiving)
            = Capacity
      BY <1>c, <3>7
    <3>10. PermitSum' BY <3>6, <3>8, <3>9 DEF PermitSum
    <3> QED BY <3>4, <3>10
  <2>5. ASSUME NEW t \in Workers, HandOver(r, t), rpc' = [rpc EXCEPT ![r] = "pending"],
               UNCHANGED admission
        PROVE  LineWaits' /\ PermitSum'
    <3>1. t \in idle /\ hand' = [hand EXCEPT ![t] = r] /\ UNCHANGED <<queue, tpc, permits>>
      BY <1>2, <2>5 DEF Push, HandOver
    <3>2. tpc[t] = "recv" /\ hand[t] = NoJob BY <1>0, <3>1 DEF HandPlaces
    <3>3. Receiving' = Receiving \cup {t} /\ t \notin Receiving
      BY <1>b, <3>1, <3>2, NoJobAssumption DEF Receiving
    <3>4. Cardinality(Receiving') = Cardinality(Receiving) + 1
      BY <1>c, <3>3, FS_AddElement
    <3>5. Admitted' = Admitted \ {r} /\ LineWaits' BY <2>3, <2>5
    <3>6. PermitSum' BY <1>0, <1>c, <2>2, <3>1, <3>4, <3>5 DEF PermitSum
    <3> QED BY <3>5, <3>6
  <2>6. CASE Refuse(r) /\ ReleasePermit([rpc EXCEPT ![r] = "refused"])
    <3> DEFINE pc == [rpc EXCEPT ![r] = "refused"]
    <3>1. UNCHANGED <<queue, hand, tpc>> BY <1>2, <2>6 DEF Push, Refuse
    <3>2. pc \in [Jobs -> RequestPlaces] BY <1>b DEF RequestPlaces
    <3>3. {q \in Jobs : pc[q] = "waiting"} = {q \in Jobs : rpc[q] = "waiting"}
      BY <1>b, <2>1
    <3>4. {q \in Jobs : pc[q] = "admitted"} = Admitted \ {r} BY <1>b DEF Admitted
    <3>5. ReleasePermit(pc) BY <2>6
    <3> HIDE DEF pc
    <3>6. /\ LineWaits' /\ IsFiniteSet(Admitted')
          /\ permits' + Cardinality(Admitted') = permits + Cardinality(Admitted \ {r}) + 1
      BY <2>2, <3>2, <3>3, <3>4, <3>5, ReleasePermitKeeps
    <3>7. permits' \in Nat BY <1>0, <3>2, <3>5, ReleasePermitTypes
    <3>8. Cardinality(Admitted') \in Nat BY <3>6, FS_CardinalityType
    <3>9. Receiving' = Receiving BY <3>1 DEF Receiving
    <3>10. permits' + Cardinality(Admitted') + Len(queue') + Cardinality(Receiving') = Capacity
      BY <1>0, <1>c, <2>2, <3>1, <3>6, <3>7, <3>8, <3>9 DEF PermitSum
    <3> QED BY <3>6, <3>10 DEF PermitSum
  <2> QED BY <1>2, <2>4, <2>5, <2>6 DEF Push
<1>3. CASE Answer(r) \/ AtDeadline(r) \/ MarkHung(r) \/ Recovered(r)
  <2>1. /\ rpc[r] \in {"pending", "mark", "watch"}
        /\ UNCHANGED <<permits, line, queue, tpc, hand>>
    BY <1>3 DEF Answer, AtDeadline, MarkHung, Recovered
  <2>2. PICK p \in {"answered", "mark", "gone", "watch", "replace"} :
          rpc' = [rpc EXCEPT ![r] = p]
    BY <1>3 DEF Answer, AtDeadline, MarkHung, Recovered
  <2>3. Receiving' = Receiving BY <2>1 DEF Receiving
  <2> QED BY <1>1, <2>1, <2>2, <2>3 DEF RequestPlaces
<1>4. CASE Replace(r)
  <2>1. /\ rpc[r] = "replace" /\ rpc' = [rpc EXCEPT ![r] = "watch"]
        /\ UNCHANGED <<permits, line, queue, hand>>
    BY <1>4 DEF Replace
  <2>2. Receiving' = Receiving
    <3>1. CASE draining BY <1>4, <2>1, <3>1 DEF Replace, Receiving
    <3>2. CASE ~draining BY <1>4, <2>1, <3>2, SpawnPermits DEF Replace
    <3> QED BY <3>1, <3>2
  <2> QED BY <1>1, <2>1, <2>2 DEF RequestPlaces
<1>5. CASE Arrive(r)
  <2>1. /\ rpc[r] = "new" /\ UNCHANGED <<queue, hand, tpc>> BY <1>5 DEF Arrive
  <2>2. Receiving' = Receiving BY <2>1 DEF Receiving
  <2>3. CASE /\ permits > 0 /\ permits' = permits - 1 /\ line' = line
             /\ rpc' = [rpc EXCEPT ![r] = "admitted"]
    <3>1. Admitted' = Admitted \cup {r} /\ r \notin Admitted
      BY <1>b, <2>1, <2>3 DEF Admitted
    <3>2. IsFiniteSet(Admitted') /\ Cardinality(Admitted') = Cardinality(Admitted) + 1
      BY <1>d, <3>1, FS_AddElement
    <3>3. {q \in Jobs : rpc'[q] = "waiting"} = {q \in Jobs : rpc[q] = "waiting"}
      BY <1>b, <2>1, <2>3
    <3>4. LineWaits' BY <1>0, <2>3, <3>3 DEF LineWaits
    <3>5. PermitSum' BY <1>0, <1>c, <2>1, <2>2, <2>3, <3>2 DEF PermitSum
    <3> QED BY <3>4, <3>5
  <2>4. CASE /\ permits' = permits /\ line' = Append(line, r)
             /\ rpc' = [rpc EXCEPT ![r] = "waiting"]
    <3>1. Admitted' = Admitted BY <1>b, <2>1, <2>4 DEF Admitted
    <3>2. {q \in Jobs : rpc'[q] = "waiting"} = {q \in Jobs : rpc[q] = "waiting"} \cup {r}
      BY <1>b, <2>1, <2>4
    <3>3. r \notin Range(line) BY <1>0, <2>1 DEF LineWaits
    <3>4. IsInjective(line') /\ Range(line') = Range(line) \cup {r}
      BY <1>0, <1>b, <2>4, <3>3, PushBack DEF LineWaits
    <3>5. LineWaits' BY <1>0, <3>2, <3>4 DEF LineWaits
    <3>6. PermitSum' BY <1>0, <2>1, <2>2, <2>4, <3>1 DEF PermitSum
    <3> QED BY <3>5, <3>6
  <2>5. CASE rpc' = [rpc EXCEPT ![r] = "refused"] /\ UNCHANGED admission
    BY <1>1, <2>1, <2>2, <2>5 DEF RequestPlaces
  <2> QED BY <1>5, <2>3, <2>4, <2>5 DEF Arrive
<1>6. CASE CancelWait(r)
  <2>1. /\ rpc[r] = "waiting" /\ rpc' = [rpc EXCEPT ![r] = "refused"]
        /\ UNCHANGED <<permits, queue, hand, tpc>>
    BY <1>6 DEF CancelWait, Refuse
  <2>2. PICK i \in 1..Len(line) : line[i] = r /\ line' = RemoveAt(line, i)
    BY <1>6, <1>b, LenProperties DEF CancelWait
  <2>3. IsInjective(line') /\ Range(line') = Range(line) \ {r}
    BY <1>0, <1>b, <2>2, RemoveMiddle DEF LineWaits
  <2>4. {q \in Jobs : rpc'[q] = "waiting"} = {q \in Jobs : rpc[q] = "waiting"} \ {r}
    BY <1>b, <2>1
  <2>5. Admitted' = Admitted /\ Receiving' = Receiving
    BY <1>b, <2>1 DEF Admitted, Receiving
  <2>6. LineWaits' BY <1>0, <2>3, <2>4 DEF LineWaits
  <2>7. PermitSum' BY <1>0, <2>1, <2>5 DEF PermitSum
  <2> QED BY <2>6, <2>7
<1> QED BY <1>2, <1>3, <1>4, <1>5, <1>6 DEF RequestStep

\* And the shutdown, which turns every waiter away at once.
LEMMA ShutdownPermits ==
  ASSUME PhpInv, Drain \/ ShutdownStep \/ Exited \/ UNCHANGED poolVars
  PROVE  LineWaits' /\ PermitSum'
<1> USE DEF vars, threads, counters, requests, admission, drain, faults
<1>1. CASE UNCHANGED <<permits, line, queue, rpc, hand, tpc>>
  <2>1. Receiving' = Receiving /\ Admitted' = Admitted BY <1>1 DEF Receiving, Admitted
  <2> QED BY <1>1, <2>1, SamePermitSum
<1>2. CASE CloseAdmission
  <2>1. /\ line' = <<>> /\ UNCHANGED <<permits, queue, hand, tpc>>
        /\ rpc' = [r \in Jobs |-> IF rpc[r] = "waiting" THEN "refused" ELSE rpc[r]]
    BY <1>2 DEF CloseAdmission
  <2>2. Admitted' = Admitted /\ Receiving' = Receiving BY <2>1 DEF Admitted, Receiving
  <2>3. {r \in Jobs : rpc'[r] = "waiting"} = {} BY <2>1
  <2>4. LineWaits' BY <2>1, <2>3, EmptyQueue DEF LineWaits
  <2>5. PermitSum' BY <2>1, <2>2 DEF PhpInv, PermitSum
  <2> QED BY <2>4, <2>5
<1>3. CASE Drain \/ CloseDispatcher \/ StopRuntime \/ ShutdownFlag \/ EmbedShutdown
           \/ UNCHANGED poolVars
  BY <1>1, <1>3 DEF Drain, CloseDispatcher, Close, StopRuntime, ShutdownFlag, EmbedShutdown,
                    poolVars
<1> QED BY <1>2, <1>3 DEF ShutdownStep, Exited

-----------------------------------------------------------------------------
(* The theorems.                                                           *)

\* The invariant holds of every behaviour of the pool.
LEMMA PhpInvariant == PoolSpec => []PhpInv
<1>1. PoolInit => PhpInv
  <2> SUFFICES ASSUME PoolInit PROVE PhpInv OBVIOUS
  <2>1. PoolTypes
    <3>1. <<>> \in Seq(Jobs) /\ Capacity \in Nat BY EmptySeq, CapacityAssumption
    <3>2. tpc \in [Workers -> ThreadPlaces] BY DEF PoolInit, ThreadPlaces
    <3> QED BY <3>1, <3>2 DEF PoolInit, Init, PoolTypes, RequestPlaces
  <2>2. HandPlaces /\ ContextPlaces BY DEF PoolInit, Init, HandPlaces, ContextPlaces
  <2>3. LineWaits BY EmptyQueue DEF PoolInit, LineWaits
  <2>4. PermitSum
    <3>1. Admitted = {} /\ Receiving = {} BY DEF PoolInit, Init, Admitted, Receiving
    <3>2. Len(queue) = 0 BY EmptySeq DEF PoolInit, Init
    <3> QED BY <3>1, <3>2, FS_EmptySet, CapacityAssumption DEF PoolInit, PermitSum
  <2>5. Counts
    <3>1. Counted = {t \in Workers : tpc[t] = "boot"} BY DEF PoolInit, Counted
    <3>2. Claimed = {} BY DEF PoolInit, Claimed
    <3> QED BY <3>1, <3>2, FS_EmptySet DEF PoolInit, Counts
  <2> QED BY <2>1, <2>2, <2>3, <2>4, <2>5 DEF PhpInv
<1>2. PhpInv /\ [PoolNext]_poolVars => PhpInv'
  <2> SUFFICES ASSUME PhpInv, [PoolNext]_poolVars PROVE PhpInv' OBVIOUS
  <2>1. PoolTypes' BY ThreadTypes, RequestTypes, ShutdownTypes DEF PoolNext
  <2>2. HandPlaces' /\ ContextPlaces' BY ThreadPlacesStep, OtherPlacesStep DEF PoolNext
  <2>3. LineWaits' /\ PermitSum'
    BY ThreadPermits, RequestPermits, ShutdownPermits DEF PoolNext
  <2>4. Counts' BY CountsStep
  <2> QED BY <2>1, <2>2, <2>3, <2>4 DEF PhpInv
<1> QED BY <1>1, <1>2, PTL DEF PoolSpec

\* The variables keep their types: the semaphore never holds more permits than
\* the queue has places, and live and retiring, which are decremented without a
\* check (AtomicUsize::fetch_sub), never go below zero.
THEOREM PoolTypeCorrect == PoolSpec => []PoolTypeOK
<1>1. PhpInv => PoolTypeOK
  <2> SUFFICES ASSUME PhpInv PROVE PoolTypeOK OBVIOUS
  <2>1. PoolTypes /\ PermitSum /\ Counts BY DEF PhpInv
  <2>2. permits \in 0..Capacity BY <2>1, PermitTerms DEF PermitSum
  <2>3. live \in Nat /\ retiring \in Nat BY <2>1, CountsFinite DEF Counts
  <2> QED BY <2>1, <2>2, <2>3 DEF PoolTypes, PoolTypeOK
<1> QED BY <1>1, PhpInvariant, PTL

\* The debug_assert of enqueue_with_permit never fails: whoever holds a permit
\* finds an idle thread or a place in the overflow queue.
THEOREM PermitsAreRoom == PoolSpec => []PermitHolderFindsRoom
<1>1. PhpInv => PermitHolderFindsRoom
  <2> SUFFICES ASSUME PhpInv, NEW r \in Jobs, rpc[r] = "admitted"
               PROVE  Len(queue) < Capacity
    BY DEF PermitHolderFindsRoom
  <2>1. PoolTypes /\ PermitSum BY DEF PhpInv
  <2>2. /\ permits \in Nat /\ Cardinality(Admitted) \in Nat /\ Len(queue) \in Nat
        /\ Cardinality(Receiving) \in Nat /\ Capacity \in Nat
    BY <2>1, PermitTerms
  <2>3. Cardinality(Admitted) # 0 BY <2>1, FS_EmptySet DEF PermitSum, Admitted
  <2> QED BY <2>1, <2>2, <2>3 DEF PermitSum
<1> QED BY <1>1, PhpInvariant, PTL

\* No thread has, or is about to make, a PHP context that live does not count,
\* so live = 0 means that every context was torn down.
THEOREM ContextsAreCounted == PoolSpec => []ContextsCounted
<1>1. PhpInv => ContextsCounted
  <2> SUFFICES ASSUME PhpInv PROVE ContextsCounted OBVIOUS
  <2>1. {t \in Workers : ctx[t] # "no"} \subseteq Counted
    BY DEF PhpInv, ContextPlaces, Counted
  <2>2. Cardinality({t \in Workers : ctx[t] # "no"}) <= Cardinality(Counted)
    BY <2>1, CountsFinite, FS_Subset
  <2> QED BY <2>2, CountsFinite, FS_Subset DEF PhpInv, Counts, ContextsCounted
<1> QED BY <1>1, PhpInvariant, PTL
=============================================================================
