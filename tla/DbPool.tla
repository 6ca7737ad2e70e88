------------------------------- MODULE DbPool -------------------------------
(***************************************************************************)
(* The backend connection pool of the database proxies (ephpm-db,          *)
(* pool.rs) and the client sessions that use it (handle_client of mysql.rs *)
(* and postgres.rs, one pooled backend held for a whole session).          *)
(*                                                                         *)
(* Four kinds of task share the pool: one per client, which waits for a    *)
(* permit, takes an idle connection or dials one, serves its session and   *)
(* gives the connection back; and one maintenance task, which prunes,      *)
(* warms and pings.  Every await of the code (a permit, a ping, a dial, a  *)
(* reset) ends an action, and the idle queue's lock is held for exactly    *)
(* one action at a time.                                                   *)
(*                                                                         *)
(* Time is abstracted: how long a connection was idle only decides which   *)
(* of three things acquire does with it, so each of the three may happen.  *)
(* Of a connection we keep what sessions left on it, by kind: the effects  *)
(* of a command the relay counts as a write, those of a statement that it  *)
(* takes for a read, and bytes of an answer nobody read.                   *)
(***************************************************************************)
EXTENDS Naturals, Sequences, FiniteSets, Functions, SequencesExt

CONSTANTS Clients,          \* client sessions, each a spawned task
          Conns,            \* backend connections the server can have open
          NoConn,           \* no connection
          MaxConnections,   \* PoolConfig::max_connections
          MinConnections,   \* PoolConfig::min_connections
          Strategy,         \* ResetStrategy: "always", "smart" or "never"
          MaxUnnoticed      \* bound: residues the relay did not notice, at a time

ASSUME ClientsAssumption == IsFiniteSet(Clients)
ASSUME ConnsAssumption == IsFiniteSet(Conns) /\ NoConn \notin Conns
ASSUME LimitsAssumption == {MaxConnections, MinConnections, MaxUnnoticed} \subseteq Nat
ASSUME StrategyAssumption == Strategy \in {"always", "smart", "never"}

VARIABLES
  permits,   \* free permits of Pool::semaphore
  waiters,   \* its FIFO queue of callers inside acquire_owned
  idle,      \* PoolState::idle
  closed,    \* PoolState::closed
  clearing,  \* close has set the flag and not yet emptied the queue
  pc,        \* pc[u]: where client u's task is
  conn,      \* conn[u]: the backend stream u's task owns, or NoConn
  dirty,     \* dirty[u]: SessionOutcome::dirty, kept by the relay
  used,      \* <<c, kind>>: connection c is open and carries such a residue
  mpc,       \* where the maintenance task is
  current,   \* warm's current_idle
  needed,    \* warm's connections still to dial
  slots,     \* health_check's drained slots, the head being pinged
  healthy    \* health_check's survivors

clientVars == <<permits, waiters, pc, conn, dirty>>
maintVars == <<mpc, current, needed, slots, healthy>>
vars == <<permits, waiters, idle, closed, clearing, pc, conn, dirty, used,
          mpc, current, needed, slots, healthy>>

\* "out": no session.  "wait": inside acquire_owned.  "permit": in acquire's
\* loop.  "ping", "dial": at those awaits.  "session": relaying.  "reset": at
\* the reset's await.  "park": inside recycle, before the push.  "drop": after
\* the push, before the permit is dropped.
Places == {"out", "wait", "permit", "ping", "dial", "session", "reset",
           "park", "drop"}

\* "write": the effects of a command that is not a plain read.  "read": those of
\* a SELECT that has any: GET_LOCK, @v := 1, INTO @v (classify_mysql_query goes by
\* the first word).  "bytes": the unread rest of an answer.
Residues == {"write", "read", "bytes"}

\* The tasks that own an OwnedSemaphorePermit.
Holders == {u \in Clients : pc[u] \notin {"out", "wait"}}

\* Every open connection: queued, owned by a task, or in health_check's hands.
Live == (Range(idle) \cup Range(slots) \cup Range(healthy)
         \cup Range(conn)) \ {NoConn}

\* The bound on residues that leave no mark in dirty.
RoomForUnnoticed == Cardinality({r \in used : r[2] # "write"}) < MaxUnnoticed

\* What is left when the connections cs are closed.
Without(cs) == {r \in used : r[1] \notin cs}

-----------------------------------------------------------------------------
\* A dropped permit goes to the first waiter, which then runs, or is freed
\* (tokio's fair Semaphore).  Called with u's new place, u itself in "out".
Release(u) ==
  /\ conn' = [conn EXCEPT ![u] = NoConn]
  /\ dirty' = [dirty EXCEPT ![u] = FALSE]
  /\ IF waiters = <<>>
       THEN /\ permits' = permits + 1
            /\ pc' = [pc EXCEPT ![u] = "out"]
            /\ UNCHANGED waiters
       ELSE /\ waiters' = Tail(waiters)
            /\ pc' = [pc EXCEPT ![u] = "out", ![Head(waiters)] = "permit"]
            /\ UNCHANGED permits

\* The next session's start: acquire, up to the permit.
Ask(u) ==
  /\ pc[u] = "out" /\ ~closed
  /\ IF permits > 0
       THEN /\ permits' = permits - 1
            /\ pc' = [pc EXCEPT ![u] = "permit"]
            /\ UNCHANGED waiters
       ELSE /\ waiters' = Append(waiters, u)
            /\ pc' = [pc EXCEPT ![u] = "wait"]
            /\ UNCHANGED permits
  /\ UNCHANGED <<idle, closed, clearing, conn, dirty, used>> /\ UNCHANGED maintVars

\* As AskTimesOut, but the caller stays in the semaphore's queue.
AskTimesOutQueued(u) ==
  /\ pc[u] = "wait"
  /\ pc' = [pc EXCEPT ![u] = "out"]
  /\ UNCHANGED <<permits, waiters, idle, closed, clearing, conn, dirty, used>>
  /\ UNCHANGED maintVars

\* pool_timeout expires: DbError::PoolTimeout.
AskTimesOut(u) ==
  /\ pc[u] = "wait"
  /\ pc' = [pc EXCEPT ![u] = "out"]
  /\ \E i \in DOMAIN waiters : waiters[i] = u /\ waiters' = RemoveAt(waiters, i)
  /\ UNCHANGED <<permits, idle, closed, clearing, conn, dirty, used>> /\ UNCHANGED maintVars

\* One turn of acquire's loop, with an idle connection at the front: it is
\* discarded as expired, pinged first, or handed out at once.
Pop(u) ==
  /\ pc[u] = "permit" /\ idle # <<>>
  /\ idle' = Tail(idle)
  /\ \/ /\ used' = Without({Head(idle)})
        /\ UNCHANGED <<pc, conn>>
     \/ /\ \E place \in {"ping", "session"} : pc' = [pc EXCEPT ![u] = place]
        /\ conn' = [conn EXCEPT ![u] = Head(idle)]
        /\ UNCHANGED used
  /\ UNCHANGED <<permits, waiters, closed, clearing, dirty>> /\ UNCHANGED maintVars

\* The validation ping's answer: hand out, or discard and look again.
Pinged(u) ==
  /\ pc[u] = "ping"
  /\ \/ /\ pc' = [pc EXCEPT ![u] = "session"]
        /\ UNCHANGED <<conn, used>>
     \/ /\ pc' = [pc EXCEPT ![u] = "permit"]
        /\ conn' = [conn EXCEPT ![u] = NoConn]
        /\ used' = Without({conn[u]})
  /\ UNCHANGED <<permits, waiters, idle, closed, clearing, dirty>> /\ UNCHANGED maintVars

\* No candidate left: dial.  The queue may fill again before the answer.
Dial(u) ==
  /\ pc[u] = "permit" /\ idle = <<>>
  /\ pc' = [pc EXCEPT ![u] = "dial"]
  /\ UNCHANGED <<permits, waiters, idle, closed, clearing, conn, dirty, used>>
  /\ UNCHANGED maintVars

Dialled(u) ==
  /\ pc[u] = "dial"
  /\ \E c \in Conns \ Live : conn' = [conn EXCEPT ![u] = c]
  /\ pc' = [pc EXCEPT ![u] = "session"]
  /\ UNCHANGED <<permits, waiters, idle, closed, clearing, dirty, used>>
  /\ UNCHANGED maintVars

\* As DialFails, but the permit is lost with the error.
DialFailsKeeping(u) ==
  /\ pc[u] = "dial"
  /\ pc' = [pc EXCEPT ![u] = "out"]
  /\ UNCHANGED <<permits, waiters, idle, closed, clearing, conn, dirty, used>>
  /\ UNCHANGED maintVars

\* The dial fails and `?` drops the permit.
DialFails(u) ==
  /\ pc[u] = "dial"
  /\ Release(u)
  /\ UNCHANGED <<idle, closed, clearing, used>> /\ UNCHANGED maintVars

-----------------------------------------------------------------------------
\* The relay forwards a command that is no read, and marks the session dirty.
WriteCommand(u) ==
  /\ pc[u] = "session"
  /\ dirty' = [dirty EXCEPT ![u] = TRUE]
  /\ used' = used \cup {<<conn[u], "write">>}
  /\ UNCHANGED <<permits, waiters, idle, closed, clearing, pc, conn>> /\ UNCHANGED maintVars

\* The relay forwards a SELECT that leaves state behind, and takes it for a read.
StatefulRead(u) ==
  /\ pc[u] = "session"
  /\ RoomForUnnoticed
  /\ used' = used \cup {<<conn[u], "read">>}
  /\ UNCHANGED <<permits, waiters, idle, closed, clearing, pc, conn, dirty>>
  /\ UNCHANGED maintVars

NeedsReset(u) ==
  \/ Strategy = "always"
  \/ Strategy = "smart" /\ dirty[u]

\* The client ends the session, and has_unread_bytes finds nothing on the backend:
\* there is nothing, or it missed what is there.
EndSession(u) ==
  /\ pc[u] = "session"
  /\ pc' = [pc EXCEPT ![u] = IF NeedsReset(u) THEN "reset" ELSE "park"]
  /\ \/ UNCHANGED used
     \/ RoomForUnnoticed /\ used' = used \cup {<<conn[u], "bytes">>}
  /\ UNCHANGED <<permits, waiters, idle, closed, clearing, conn, dirty>>
  /\ UNCHANGED maintVars

\* The backend fails, or unread bytes are found: retire.
Retire(u) ==
  /\ pc[u] = "session"
  /\ Release(u)
  /\ used' = Without({conn[u]})
  /\ UNCHANGED <<idle, closed, clearing>> /\ UNCHANGED maintVars

\* recycle_with_reset: the server forgets the session's state.  A failed reset
\* discards the connection.
ResetOk(u) ==
  /\ pc[u] = "reset"
  /\ used' = used \ {<<conn[u], kind>> : kind \in {"write", "read"}}
  /\ pc' = [pc EXCEPT ![u] = "park"]
  /\ UNCHANGED <<permits, waiters, idle, closed, clearing, conn, dirty>> /\ UNCHANGED maintVars

\* As ResetFails, but the connection is parked anyway.
ResetFailsParked(u) ==
  /\ pc[u] = "reset"
  /\ pc' = [pc EXCEPT ![u] = "park"]
  /\ UNCHANGED <<permits, waiters, idle, closed, clearing, conn, dirty, used>>
  /\ UNCHANGED maintVars

ResetFails(u) ==
  /\ pc[u] = "reset"
  /\ Release(u)
  /\ used' = Without({conn[u]})
  /\ UNCHANGED <<idle, closed, clearing>> /\ UNCHANGED maintVars

\* recycle: queue the connection, then drop the permit.
Park(u) ==
  /\ pc[u] = "park"
  /\ idle' = Append(idle, conn[u])
  /\ conn' = [conn EXCEPT ![u] = NoConn]
  /\ pc' = [pc EXCEPT ![u] = "drop"]
  /\ UNCHANGED <<permits, waiters, closed, clearing, dirty, used>> /\ UNCHANGED maintVars

\* As DropPermit, but the permit is parked with the idle connection.
ParkPermit(u) ==
  /\ pc[u] = "drop"
  /\ pc' = [pc EXCEPT ![u] = "out"]
  /\ dirty' = [dirty EXCEPT ![u] = FALSE]
  /\ UNCHANGED <<permits, waiters, idle, closed, clearing, conn, used>>
  /\ UNCHANGED maintVars

DropPermit(u) ==
  /\ pc[u] = "drop"
  /\ Release(u)
  /\ UNCHANGED <<idle, closed, clearing, used>> /\ UNCHANGED maintVars

-----------------------------------------------------------------------------
\* close sets the flag, then takes the lock and empties the queue.
Close ==
  /\ ~closed /\ closed' = TRUE /\ clearing' = TRUE
  /\ UNCHANGED <<idle, used>> /\ UNCHANGED clientVars /\ UNCHANGED maintVars

CloseClears ==
  /\ clearing /\ clearing' = FALSE
  /\ idle' = <<>>
  /\ used' = Without(Range(idle))
  /\ UNCHANGED closed /\ UNCHANGED clientVars /\ UNCHANGED maintVars

\* What VecDeque::retain may leave of a queue: some of its slots, in order.
Retained(queue) ==
  UNION {{[i \in 1..n |-> queue[f[i]]] :
            f \in {g \in [1..n -> DOMAIN queue] :
                    \A i, j \in 1..n : i < j => g[i] < g[j]}} :
         n \in 0..Len(queue)}

\* A tick of the maintenance task; it ends once the pool is closed.
\* prune_idle drops whatever has expired.
Prune ==
  /\ mpc = "tick" /\ ~closed
  /\ idle' \in Retained(idle)
  /\ used' = Without(Range(idle) \ Range(idle'))
  /\ mpc' = "count"
  /\ UNCHANGED <<closed, clearing, current, needed, slots, healthy>> /\ UNCHANGED clientVars

StopMaintenance ==
  /\ mpc = "tick" /\ closed
  /\ mpc' = "stopped"
  /\ UNCHANGED <<idle, closed, clearing, used, current, needed, slots, healthy>>
  /\ UNCHANGED clientVars

\* warm reads the queue's length, and later the free permits.  Its locals die when
\* they are no longer read.
WarmCount ==
  /\ mpc = "count"
  /\ IF Len(idle) >= MinConnections
       THEN mpc' = "check" /\ UNCHANGED current
       ELSE mpc' = "headroom" /\ current' = Len(idle)
  /\ UNCHANGED <<idle, closed, clearing, used, needed, slots, healthy>> /\ UNCHANGED clientVars

SaturatingSub(a, b) == IF a > b THEN a - b ELSE 0

Least(a, b) == IF a < b THEN a ELSE b

\* As WarmHeadroom, but filling all the headroom.
WarmToTheBrim ==
  /\ mpc = "headroom"
  /\ needed' = SaturatingSub(permits, current)
  /\ mpc' = "warm" /\ current' = 0
  /\ UNCHANGED <<idle, closed, clearing, used, slots, healthy>>
  /\ UNCHANGED clientVars

WarmHeadroom ==
  /\ mpc = "headroom"
  /\ needed' = Least(MinConnections - current, SaturatingSub(permits, current))
  /\ mpc' = "warm" /\ current' = 0
  /\ UNCHANGED <<idle, closed, clearing, used, slots, healthy>> /\ UNCHANGED clientVars

\* warm's loop: dial unless closed, one connection after the other.
WarmDial ==
  /\ mpc = "warm" /\ needed > 0 /\ ~closed
  /\ mpc' = "dialling"
  /\ needed' = needed - 1
  /\ UNCHANGED <<idle, closed, clearing, used, current, slots, healthy>> /\ UNCHANGED clientVars

WarmDialled ==
  /\ mpc = "dialling"
  /\ \/ \E c \in Conns \ Live : idle' = Append(idle, c)
     \/ UNCHANGED idle                                   \* the dial failed
  /\ mpc' = "warm"
  /\ UNCHANGED <<closed, clearing, used, current, needed, slots, healthy>>
  /\ UNCHANGED clientVars

WarmEnds ==
  /\ mpc = "warm" /\ (needed = 0 \/ closed)
  /\ mpc' = "check" /\ needed' = 0
  /\ UNCHANGED <<idle, closed, clearing, used, current, slots, healthy>>
  /\ UNCHANGED clientVars

\* As CheckDrain, but the connections being pinged stay in the queue.
CheckInPlace ==
  /\ mpc = "check"
  /\ slots' = idle
  /\ mpc' = "pinging"
  /\ UNCHANGED <<idle, closed, clearing, used, current, needed, healthy>>
  /\ UNCHANGED clientVars

\* health_check takes the whole queue, pings it one by one, and puts the
\* survivors in place of whatever the queue holds by then.
CheckDrain ==
  /\ mpc = "check"
  /\ slots' = idle /\ idle' = <<>>
  /\ mpc' = "pinging"
  /\ UNCHANGED <<closed, clearing, used, current, needed, healthy>> /\ UNCHANGED clientVars

CheckPinged ==
  /\ mpc = "pinging" /\ slots # <<>>
  /\ slots' = Tail(slots)
  /\ \/ healthy' = Append(healthy, Head(slots)) /\ UNCHANGED used
     \/ used' = Without({Head(slots)}) /\ UNCHANGED healthy
  /\ UNCHANGED <<idle, closed, clearing, mpc, current, needed>> /\ UNCHANGED clientVars

CheckReplace ==
  /\ mpc = "pinging" /\ slots = <<>>
  /\ idle' = healthy /\ healthy' = <<>>
  /\ used' = Without(Range(idle))
  /\ mpc' = "tick"
  /\ UNCHANGED <<closed, clearing, current, needed, slots>> /\ UNCHANGED clientVars

-----------------------------------------------------------------------------
Init ==
  /\ permits = MaxConnections /\ waiters = <<>>
  /\ idle = <<>> /\ closed = FALSE /\ clearing = FALSE
  /\ pc = [u \in Clients |-> "out"]
  /\ conn = [u \in Clients |-> NoConn]
  /\ dirty = [u \in Clients |-> FALSE]
  /\ used = {}
  /\ mpc = "tick" /\ current = 0 /\ needed = 0
  /\ slots = <<>> /\ healthy = <<>>

\* Steps of a client's task that it takes once it may, however slow.
Proceed(u) ==
  \/ Pop(u) \/ Pinged(u) \/ Dial(u) \/ Dialled(u) \/ DialFails(u)
  \/ EndSession(u) \/ Retire(u) \/ ResetOk(u) \/ ResetFails(u)
  \/ Park(u) \/ DropPermit(u)

Client(u) == Ask(u) \/ AskTimesOut(u) \/ WriteCommand(u) \/ StatefulRead(u) \/ Proceed(u)

Maintain ==
  \/ Prune \/ StopMaintenance \/ WarmCount \/ WarmHeadroom \/ WarmDial
  \/ WarmDialled \/ WarmEnds \/ CheckDrain \/ CheckPinged \/ CheckReplace

Next == (\E u \in Clients : Client(u)) \/ Close \/ CloseClears \/ Maintain

Spec == Init /\ [][Next]_vars

\* A task that holds a permit keeps going: dials, pings and resets answer or
\* fail, and a PHP request, and with it its session, ends.  Nothing makes the
\* pool timeout fire, so a waiter cannot rely on it here.
FairSpec == Spec /\ \A u \in Clients : WF_vars(Proceed(u))

-----------------------------------------------------------------------------
\* The types of the variables.
TypeOK ==
  /\ permits \in 0..MaxConnections
  /\ waiters \in Seq(Clients)
  /\ {idle, slots, healthy} \subseteq Seq(Conns)
  /\ closed \in BOOLEAN /\ clearing \in BOOLEAN
  /\ pc \in [Clients -> Places]
  /\ conn \in [Clients -> Conns \cup {NoConn}]
  /\ dirty \in [Clients -> BOOLEAN]
  /\ used \subseteq Conns \X Residues
  /\ mpc \in {"tick", "stopped", "count", "headroom", "warm", "dialling",
              "check", "pinging"}
  /\ current \in Nat /\ needed \in 0..MinConnections

\* Permits are conserved: whatever path a checkout ends on (returned, retired,
\* failed reset, failed dial), exactly one permit comes back, to the pool or to
\* a waiter (pool.rs, "Permit accounting").
PermitsConserved == permits + Cardinality(Holders) = MaxConnections

\* A caller is only made to wait while every permit is taken, and the queue
\* holds exactly the waiting callers, once each (acquire's fast path and
\* fallback).
WaitersWait ==
  /\ waiters # <<>> => permits = 0
  /\ Range(waiters) = {u \in Clients : pc[u] = "wait"}
  /\ IsInjective(waiters)

\* A connection has one owner: it is in the queue once, or with one session, or
\* in the hands of the health check; never in two of them (two sessions would
\* share one wire).
OneOwner ==
  /\ IsInjective(idle \o slots \o healthy)
  /\ \A u \in Clients : conn[u] # NoConn =>
       /\ conn[u] \notin Range(idle) \cup Range(slots) \cup Range(healthy)
       /\ \A v \in Clients \ {u} : conn[v] # conn[u]

\* The state a strategy promises to erase: "always" whatever the server keeps for
\* a session, "smart" what commands left that are no reads.
Erased == CASE Strategy = "always" -> {"write", "read"}
            [] Strategy = "smart"  -> {"write"}
            [] Strategy = "never"  -> {}

\* A connection that carries state its strategy promises to erase is in the hands
\* of the session that left it: it was reset, or closed, before anyone else can be
\* given it (handle_client's match on the reset strategy).  Under "smart" the state
\* of a SELECT is not covered, and unread bytes are under no strategy: see the
\* README, section 4.
StateStaysWithSession ==
  \A r \in used : r[2] \in Erased =>
    \E u \in Clients : conn[u] = r[1] /\ pc[u] \in {"session", "reset"}

\* A caller in the semaphore's queue gets its permit without the timeout's
\* help: returning a connection hands a permit on (acquire's "Permit
\* accounting": a pool full of good connections must not block its callers).
WaiterServed == \A u \in Clients : pc[u] = "wait" ~> pc[u] # "wait"

\* The number of open connections never exceeds max_connections
\* (PoolConfig::max_connections: it "also bounds live backend connections").
\* Violated: see the README, section 4.
LiveBounded == Cardinality(Live) <= MaxConnections
=============================================================================
