------------------------------ MODULE JobQueue ------------------------------
(***************************************************************************)
(* What the dispatcher between request handlers and PHP threads promises   *)
(* (crates/ephpm-php/src/handoff.rs, module documentation): one FIFO of    *)
(* jobs, a set of idle threads, and never both.  A job that is accepted    *)
(* belongs to exactly one place until a thread has run it.  How a thread   *)
(* is woken, and how a handler waits for room, is not visible here; module *)
(* Handoff adds it and is shown to implement this specification.           *)
(***************************************************************************)
EXTENDS Naturals, Sequences

CONSTANTS Jobs,      \* the jobs, each offered by one request handler
          Workers,   \* PHP pool threads
          NoJob,     \* not a job: an empty hand
          Capacity   \* bound of the overflow queue

ASSUME CapacityAssumption == Capacity \in Nat \ {0}
ASSUME NoJobAssumption == NoJob \notin Jobs

VARIABLES queue,     \* jobs accepted while no thread was idle
          idle,      \* threads that wait for a job
          hand,      \* hand[w]: the job thread w was given, or NoJob
          status,    \* status[j]: "offered", "accepted", "refused" or "served"
          closed     \* the dispatcher takes no more jobs

vars == <<queue, idle, hand, status, closed>>

Init == /\ queue = <<>>
        /\ idle = {}
        /\ hand = [w \in Workers |-> NoJob]
        /\ status = [j \in Jobs |-> "offered"]
        /\ closed = FALSE

(* A job goes straight to an idle thread ...                               *)
HandOver(j, w) ==
    /\ status[j] = "offered" /\ ~closed
    /\ w \in idle
    /\ idle' = idle \ {w}
    /\ hand' = [hand EXCEPT ![w] = j]
    /\ status' = [status EXCEPT ![j] = "accepted"]
    /\ UNCHANGED <<queue, closed>>

(* ... and waits its turn only when there is none.                         *)
Enqueue(j) ==
    /\ status[j] = "offered" /\ ~closed
    /\ idle = {} /\ Len(queue) < Capacity
    /\ queue' = Append(queue, j)
    /\ status' = [status EXCEPT ![j] = "accepted"]
    /\ UNCHANGED <<idle, hand, closed>>

(* The job is given back to its handler, never half accepted.              *)
Refuse(j) ==
    /\ status[j] = "offered"
    /\ status' = [status EXCEPT ![j] = "refused"]
    /\ UNCHANGED <<queue, idle, hand, closed>>

(* A thread without a job takes the oldest one.                            *)
Take(w) ==
    /\ hand[w] = NoJob /\ w \notin idle
    /\ queue # <<>>
    /\ hand' = [hand EXCEPT ![w] = Head(queue)]
    /\ queue' = Tail(queue)
    /\ UNCHANGED <<idle, status, closed>>

(* It goes idle only when nothing waits.                                   *)
GoIdle(w) ==
    /\ hand[w] = NoJob /\ w \notin idle
    /\ queue = <<>> /\ ~closed
    /\ idle' = idle \cup {w}
    /\ UNCHANGED <<queue, hand, status, closed>>

Serve(w) ==
    /\ hand[w] # NoJob
    /\ status' = [status EXCEPT ![hand[w]] = "served"]
    /\ hand' = [hand EXCEPT ![w] = NoJob]
    /\ UNCHANGED <<queue, idle, closed>>

Close ==
    /\ closed' = TRUE
    /\ idle' = {}
    /\ UNCHANGED <<queue, hand, status>>

(* A thread that dies leaves the idle set ...                              *)
Leave(w) ==
    /\ idle' = idle \ {w}
    /\ UNCHANGED <<queue, hand, status, closed>>

(* ... and a job it was given goes to another idle thread or to the front. *)
ReRoute(w) ==
    /\ hand[w] # NoJob
    /\ UNCHANGED <<status, closed>>
    /\ \/ \E v \in idle : /\ hand' = [hand EXCEPT ![w] = NoJob, ![v] = hand[w]]
                          /\ idle' = idle \ {v}
                          /\ UNCHANGED queue
       \/ /\ idle = {}
          /\ queue' = <<hand[w]>> \o queue
          /\ hand' = [hand EXCEPT ![w] = NoJob]
          /\ UNCHANGED idle

Next == \/ \E j \in Jobs : Enqueue(j) \/ Refuse(j) \/ \E w \in Workers : HandOver(j, w)
        \/ \E w \in Workers : Take(w) \/ GoIdle(w) \/ Serve(w) \/ Leave(w) \/ ReRoute(w)
        \/ Close

Spec == Init /\ [][Next]_vars
=============================================================================
