----------------------------- MODULE SqlForward -----------------------------
(***************************************************************************)
(* Owner-serves SQL forwarding for one site (ephpm-server, sql_forward.rs),*)
(* with the sessions of the PHP bridge and of the MySQL listener that use  *)
(* it (db_bridge.rs, site_wire_auth.rs), the ownership rule it follows and *)
(* the leave of a node (drain.rs, the channel's shutdown).                 *)
(*                                                                         *)
(* A client is a PHP thread's bridge session or a MySQL connection.  It is *)
(* resolved once, to the local database when its node owns the site or to  *)
(* a forwarding proxy pinned to the owner, and keeps that choice.  A proxy *)
(* dials a stream when it has none; at the owner one task per stream       *)
(* checks and executes its requests on one backend connection, which holds *)
(* the stream's transaction and named locks and ends with it.              *)
(*                                                                         *)
(* Data is abstracted to what the properties tell apart: a statement is    *)
(* its effect on the session, there is one named lock, and of a committed  *)
(* write only the anomalies are kept.  The owner's handoff gate is open    *)
(* (SiteHandoff models it) and every peer is a member.  A Tick stands for  *)
(* OWNER_RECHECK_INTERVAL.                                                 *)
(***************************************************************************)
EXTENDS Naturals, FiniteSets, FiniteSetsExt

CONSTANTS
  Nodes,       \* node ids, in the site's rendezvous order: the highest wins
  Starting,    \* the nodes that run at first
  Clients,     \* bridge sessions and MySQL connections
  Home,        \* Home[c]: the node client c runs on
  Wire,        \* the clients that are MySQL connections
  Statements,  \* what the clients send
  MaxStreams,  \* bound: streams open at a time
  MaxFaults    \* bound: nodes that start, crash or leave, owners that are
               \* silent for FORWARD_REPLY_TIMEOUT, sessions that rest for
               \* CLIENT_STREAM_MAX_IDLE

\* "rollback" and "release" are what end_request_on sends for a script that
\* left a transaction open or a lock held.
AllStatements == {"begin", "write", "commit", "lock", "unlock", "rollback", "release"}

ASSUME NodesAssumption == /\ Nodes \subseteq Nat \ {0} /\ IsFiniteSet(Nodes)
                          /\ Starting \subseteq Nodes
ASSUME ClientsAssumption == Home \in [Clients -> Nodes] /\ Wire \subseteq Clients
ASSUME BoundsAssumption == {MaxStreams, MaxFaults} \subseteq Nat
ASSUME StatementsAssumption == Statements \subseteq AllStatements

Streams == 1 .. MaxStreams
None == 0

\* A lock table tells a local session from a stream's.
ASSUME IdsAssumption == Clients \cap (Streams \cup {None}) = {}

VARIABLES
  up,        \* nodes whose process runs
  draining,  \* nodes that announced their leave
  shut,      \* nodes whose cluster channel is shut down
  know,      \* know[n][m]: m in n's membership
  demoted,   \* nodes that have not owned the site for a whole interval
  faults,    \* of MaxFaults, so far
  sess,      \* sess[c]: the node c's session is pinned to, or None
  inTx,      \* inTx[c]: Session::in_transaction
  cur,       \* cur[c]: RemoteProxyConn::stream, or None
  curTx,     \* curTx[c]: OpenStream::in_transaction
  rested,    \* rested[c]: the stream was idle for CLIENT_STREAM_MAX_IDLE
  stmt,      \* stmt[c]: the statement c waits for, or "none"
  believes,  \* clients that count on the lock they were granted
  swapped,   \* of these, the ones whose stream was replaced after a rest
  strm,      \* strm[s]: the owner's side of stream s
  holder     \* holder[n]: the session that holds the lock on n, or None

nodeVars == <<up, draining, shut, know, demoted, faults>>
clientVars == <<sess, inTx, cur, curTx, rested, stmt, believes, swapped>>
ownerVars == <<strm, holder>>
vars == <<up, draining, shut, know, demoted, faults, sess, inTx, cur, curTx,
          rested, stmt, believes, swapped, strm, holder>>

\* A stream at its owner.  "opened": not accepted yet; "refusing": refused by
\* the gate; "serving": between requests; "running": a request passed the
\* checks; "ended": the task returned.  cut: the connection is closed.
Unused == [client |-> None, node |-> None, place |-> "unused", req |-> "none",
           reply |-> "none", tx |-> FALSE, fresh |-> FALSE, cut |-> FALSE]

Init ==
  /\ up = Starting
  /\ draining = {} /\ shut = {} /\ demoted = {} /\ faults = 0
  /\ know = [n \in Nodes |-> [m \in Nodes |-> IF m \in up THEN "alive" ELSE "dead"]]
  /\ sess = [c \in Clients |-> None]
  /\ inTx = [c \in Clients |-> FALSE]
  /\ cur = [c \in Clients |-> None]
  /\ curTx = [c \in Clients |-> FALSE]
  /\ rested = [c \in Clients |-> FALSE]
  /\ stmt = [c \in Clients |-> "none"]
  /\ believes = {} /\ swapped = {}
  /\ strm = [s \in Streams |-> Unused]
  /\ holder = [n \in Nodes |-> None]

Fault == faults < MaxFaults /\ faults' = faults + 1

-----------------------------------------------------------------------------
(* Ownership.                                                              *)

\* hrw_owner over n's membership: a draining node only if all are draining.
HrwOwner(n) ==
  LET alive == {m \in Nodes : know[n][m] # "dead"}
      staying == {m \in alive : know[n][m] = "alive"}
  IN  Max(IF staying = {} THEN alive ELSE staying)

Owns(n) == HrwOwner(n) = n

Status(m) == IF m \notin up THEN "dead" ELSE IF m \in draining THEN "draining" ELSE "alive"

\* n's membership changes to k; a node that regains the site is no longer demoted.
Learned(n, k) ==
  /\ know' = [know EXCEPT ![n] = k]
  /\ demoted' = IF Owns(n)' THEN demoted \ {n} ELSE demoted

\* Gossip or the failure detector tells n about m.
Learn(n, m) ==
  /\ n \in up /\ n # m /\ know[n][m] # Status(m)
  /\ Learned(n, [know[n] EXCEPT ![m] = Status(m)])
  /\ UNCHANGED <<up, draining, shut, faults>> /\ UNCHANGED clientVars /\ UNCHANGED ownerVars

\* OWNER_RECHECK_INTERVAL passes.
Tick ==
  /\ demoted' = {n \in up : ~Owns(n)}
  /\ strm' = [s \in Streams |-> [strm[s] EXCEPT !.fresh = FALSE]]
  /\ <<demoted', strm'>> # <<demoted, strm>>
  /\ UNCHANGED <<up, draining, shut, know, faults, holder>>
  /\ UNCHANGED clientVars

-----------------------------------------------------------------------------
(* Sessions.  ids: a stream's session at its owner is the stream, a local  *)
(* one is the client.                                                      *)

Local(c) == sess[c] = Home[c]
SessionOf(c) == IF Local(c) THEN c ELSE cur[c]

\* The tables without the locks of the sessions in S.
Freed(S) == [n \in Nodes |-> IF holder[n] \in S THEN None ELSE holder[n]]

\* resolve_backend: pinned to the owner this node computes now.
Resolve(c) ==
  /\ sess[c] = None /\ Home[c] \in up \ draining
  /\ sess' = [sess EXCEPT ![c] = HrwOwner(Home[c])]
  /\ UNCHANGED <<inTx, cur, curTx, rested, stmt, believes, swapped>>
  /\ UNCHANGED nodeVars /\ UNCHANGED ownerVars

\* What a client sends next: locks and transactions are not nested.
Sends(c, q) ==
  /\ q \in Statements /\ stmt[c] = "none"
  /\ q = "begin" => ~inTx[c]
  /\ q = "commit" => inTx[c]
  /\ q = "rollback" => inTx[c] /\ c \notin Wire
  /\ q = "lock" => holder[sess[c]] # SessionOf(c)
  /\ q = "release" => c \notin Wire

\* litewire's session after a statement was answered ok.
Answered(c, q) ==
  /\ inTx' = [inTx EXCEPT ![c] = IF q = "begin" THEN TRUE
                                 ELSE IF q \in {"commit", "rollback"} THEN FALSE ELSE @]
  /\ believes' = CASE q = "lock" -> believes \cup {c}
                   [] q \in {"unlock", "release"} -> believes \ {c}
                   [] OTHER -> believes
  /\ swapped' = IF q \in {"lock", "unlock", "release"} THEN swapped \ {c} ELSE swapped

\* A statement on the local database, whose session runs until it ends,
\* whatever happens to the ownership of the site.  A lock that is held is not
\* granted in time, which changes nothing.
RunLocal(c, q) ==
  /\ Local(c) /\ Sends(c, q)
  /\ q = "lock" => holder[Home[c]] \in {None, c}
  /\ Answered(c, q)
  /\ holder' = CASE q = "lock" -> [holder EXCEPT ![Home[c]] = c]
                 [] q \in {"unlock", "release"} -> Freed({c})
                 [] OTHER -> holder
  /\ UNCHANGED <<sess, cur, curTx, rested, stmt, strm>> /\ UNCHANGED nodeVars

\* The streams in S lose their client's side; one that has ended is forgotten.
Cut(S) ==
  [s \in Streams |-> IF s \notin S THEN strm[s]
                     ELSE IF strm[s].place = "ended" THEN Unused
                     ELSE [strm[s] EXCEPT !.cut = TRUE, !.reply = "none"]]

\* c no longer counts on a lock.
Forgets(c) == believes' = believes \ {c} /\ swapped' = swapped \ {c}

\* The session is dropped: a local one with its lock, a proxy with its stream,
\* which closes the connection.
DropSession(c) ==
  /\ sess' = [sess EXCEPT ![c] = None]
  /\ inTx' = [inTx EXCEPT ![c] = FALSE]
  /\ cur' = [cur EXCEPT ![c] = None]
  /\ curTx' = [curTx EXCEPT ![c] = FALSE]
  /\ rested' = [rested EXCEPT ![c] = FALSE]
  /\ stmt' = [stmt EXCEPT ![c] = "none"]
  /\ Forgets(c)
  /\ strm' = Cut({cur[c]})
  /\ holder' = Freed({c})

\* A MySQL connection closes, a thread turns to another site, or the session
\* that a retired thread parked is dropped at the end of somebody's request
\* (until then it is idle, like that of a thread between requests).
Disconnect(c) ==
  /\ sess[c] # None /\ stmt[c] = "none"
  /\ DropSession(c)
  /\ UNCHANGED nodeVars

-----------------------------------------------------------------------------
(* RemoteProxyConn::forward.                                               *)

\* should_replace_idle_stream.
Replaces(c) == cur[c] # None /\ rested[c] /\ ~curTx[c]

\* The session is idle for CLIENT_STREAM_MAX_IDLE.
Rest(c) ==
  /\ cur[c] # None /\ stmt[c] = "none" /\ ~rested[c] /\ Fault
  /\ rested' = [rested EXCEPT ![c] = TRUE]
  /\ UNCHANGED <<up, draining, shut, know, demoted>>
  /\ UNCHANGED <<sess, inTx, cur, curTx, stmt, believes, swapped>>
  /\ UNCHANGED ownerVars

\* The stream is dropped, the session stays.
DropStream(c) ==
  /\ cur' = [cur EXCEPT ![c] = None]
  /\ curTx' = [curTx EXCEPT ![c] = FALSE]
  /\ rested' = [rested EXCEPT ![c] = FALSE]
  /\ stmt' = [stmt EXCEPT ![c] = "none"]
  /\ strm' = Cut({cur[c]})
  /\ UNCHANGED <<sess, inTx, holder>>

\* Mutant of Fails: the bridge never recycles its session.
FailsPinned(c, q) == DropStream(c) /\ Forgets(c)

\* The statement fails with a connection-shaped error, which the application
\* sees.  The bridge drops the session, unless a transaction is open: then
\* only the request's own end does.
Fails(c, q) ==
  IF c \in Wire \/ (inTx[c] /\ q # "rollback")
    THEN DropStream(c) /\ Forgets(c)
    ELSE DropSession(c)

Reachable(c) == sess[c] \in up \ shut /\ Home[c] \notin shut

\* The request goes out on the open stream.
Send(c, q) ==
  /\ sess[c] # None /\ ~Local(c) /\ Sends(c, q)
  /\ cur[c] # None /\ ~Replaces(c)
  /\ stmt' = [stmt EXCEPT ![c] = q]
  /\ strm' = [strm EXCEPT ![cur[c]].req = q]
  /\ UNCHANGED <<sess, inTx, cur, curTx, rested, believes, swapped, holder>>
  /\ UNCHANGED nodeVars

\* There is no stream, or one that rested too long: a fresh one is dialled.  A
\* lock held by the replaced stream ends with it, and nobody is told.
DialAndSend(c, q) ==
  /\ sess[c] # None /\ ~Local(c) /\ Sends(c, q) /\ Reachable(c)
  /\ cur[c] = None \/ Replaces(c)
  /\ \E s \in Streams :
       /\ strm[s] = Unused /\ \A t \in 1 .. s - 1 : strm[t] # Unused
       /\ cur' = [cur EXCEPT ![c] = s]
       /\ strm' = [Cut({cur[c]}) EXCEPT ![s] =
            [Unused EXCEPT !.client = c, !.node = sess[c], !.place = "opened", !.req = q]]
  /\ curTx' = [curTx EXCEPT ![c] = FALSE]
  /\ rested' = [rested EXCEPT ![c] = FALSE]
  /\ stmt' = [stmt EXCEPT ![c] = q]
  /\ swapped' = IF Replaces(c) THEN swapped \cup ({c} \cap believes) ELSE swapped
  /\ UNCHANGED <<sess, inTx, believes, holder>> /\ UNCHANGED nodeVars

DialFails(c, q) ==
  /\ sess[c] # None /\ ~Local(c) /\ Sends(c, q) /\ ~Reachable(c)
  /\ cur[c] = None \/ Replaces(c)
  /\ Fails(c, q)
  /\ UNCHANGED nodeVars

\* The reply is read: the statement's answer, or a refusal flagged closed.  A
\* failed ROLLBACK makes end_request_on drop the session.
Receive(c) ==
  LET s == cur[c] q == stmt[c] r == strm[s].reply IN
  /\ q # "none" /\ r # "none"
  /\ IF r = "closed" \/ (r = "no" /\ q = "rollback")
       THEN Fails(c, q)
       ELSE /\ stmt' = [stmt EXCEPT ![c] = "none"]
            /\ rested' = [rested EXCEPT ![c] = FALSE]
            /\ IF r = "ok" THEN Answered(c, q) ELSE UNCHANGED <<inTx, believes, swapped>>
            /\ curTx' = [curTx EXCEPT ![c] = IF q \in {"begin", "commit", "rollback"}
                                               THEN inTx'[c] ELSE @]
            /\ strm' = [strm EXCEPT ![s].reply = "none"]
            /\ UNCHANGED <<sess, cur, holder>>
  /\ UNCHANGED nodeVars

\* ExchangeError: the stream is closed.
ExchangeFails(c) ==
  LET s == cur[c] IN
  /\ stmt[c] # "none"
  /\ strm[s].cut \/ (strm[s].place = "ended" /\ strm[s].reply = "none")
  /\ Fails(c, stmt[c])
  /\ UNCHANGED nodeVars

\* Mutant of ReplyTimeout: the next statement re-dials and nobody is told.
ReplyTimeoutQuiet(c) ==
  /\ stmt[c] # "none" /\ ~strm[cur[c]].cut /\ Fault
  /\ DropStream(c) /\ UNCHANGED <<believes, swapped>>
  /\ UNCHANGED <<up, draining, shut, know, demoted>>

\* The owner is silent for FORWARD_REPLY_TIMEOUT; a late answer is not read.
ReplyTimeout(c) ==
  /\ stmt[c] # "none" /\ ~strm[cur[c]].cut /\ Fault
  /\ Fails(c, stmt[c])
  /\ UNCHANGED <<up, draining, shut, know, demoted>>

-----------------------------------------------------------------------------
(* The owner's side of a stream.                                           *)

\* Mutant of End: the locks of the session outlive it.
EndKeeping(s, reply) ==
  /\ strm' = [strm EXCEPT ![s] =
       IF cur[strm[s].client] # s THEN Unused
       ELSE [strm[s] EXCEPT !.place = "ended", !.req = "none", !.tx = FALSE, !.fresh = FALSE,
                            !.reply = IF reply = "none" THEN strm[s].reply ELSE reply]]
  /\ UNCHANGED holder

\* The task of s returns with its last reply: session and pin are dropped, an
\* open transaction is rolled back and the locks are released.
End(s, reply) ==
  /\ strm' = [strm EXCEPT ![s] =
       IF cur[strm[s].client] # s THEN Unused
       ELSE [strm[s] EXCEPT !.place = "ended", !.req = "none", !.tx = FALSE, !.fresh = FALSE,
                            !.reply = IF reply = "none" THEN strm[s].reply ELSE reply]]
  /\ holder' = Freed({s})

\* serve_forwarded_sql's gate.
Accept(s) ==
  /\ strm[s].place = "opened"
  /\ strm' = [strm EXCEPT ![s].place = IF Owns(strm[s].node) THEN "serving" ELSE "refusing",
                          ![s].fresh = TRUE]
  /\ UNCHANGED <<holder>> /\ UNCHANGED nodeVars /\ UNCHANGED clientVars

\* refuse_stream.
Refuse(s) ==
  /\ strm[s].place = "refusing" /\ strm[s].req # "none"
  /\ End(s, "closed")
  /\ UNCHANGED nodeVars /\ UNCHANGED clientVars

\* Mutant of RecheckDue: only lock operations re-check.
RecheckLocksOnly(s) == strm[s].req \in {"lock", "unlock", "release"}

\* ownership_recheck_due.
RecheckDue(s) == strm[s].req \in {"lock", "unlock", "release"} \/ ~strm[s].fresh

\* A request is read and passes the checks, or is refused and the stream ends.
Check(s) ==
  LET n == strm[s].node IN
  /\ strm[s].place = "serving" /\ strm[s].req # "none"
  /\ IF n \in draining \/ (RecheckDue(s) /\ ~Owns(n))
       THEN End(s, "closed")
       ELSE /\ strm' = [strm EXCEPT ![s].place = "running",
                                    ![s].fresh = @ \/ RecheckDue(s)]
            /\ UNCHANGED holder
  /\ UNCHANGED nodeVars /\ UNCHANGED clientVars

\* The statement of s is done and its reply is written.
Done(s, reply) ==
  strm' = [strm EXCEPT ![s] = [strm[s] EXCEPT !.place = "serving", !.req = "none",
             !.reply = IF cur[strm[s].client] = s THEN reply ELSE "none",
             !.tx = strm[s].req = "begin"
                    \/ (strm[s].tx /\ strm[s].req \notin {"commit", "rollback"})]]

\* execute_forwarded: a statement or a lock operation on the stream's session.
Execute(s) ==
  LET n == strm[s].node q == strm[s].req IN
  /\ strm[s].place = "running"
  /\ \/ /\ q \in {"begin", "write", "commit", "rollback"}
        /\ Done(s, IF q \in {"commit", "rollback"} /\ ~strm[s].tx THEN "no" ELSE "ok")
        /\ UNCHANGED holder
     \/ /\ q = "lock" /\ holder[n] \in {None, s}
        /\ Done(s, "ok") /\ holder' = [holder EXCEPT ![n] = s]
     \/ /\ q = "lock" /\ holder[n] \notin {None, s}
        /\ Done(s, "no") /\ UNCHANGED holder
     \/ /\ q \in {"unlock", "release"}
        /\ Done(s, "ok") /\ holder' = Freed({s})
  /\ UNCHANGED nodeVars /\ UNCHANGED clientVars

\* Mutant of Eof: only a failing heartbeat shows that the client is gone.
EofByHeartbeat(s) ==
  /\ strm[s].cut /\ strm[s].place = "running"
  /\ End(s, "none")
  /\ UNCHANGED nodeVars /\ UNCHANGED clientVars

\* The client is gone: end of file between requests, a heartbeat that cannot
\* be written while a statement runs.
Eof(s) ==
  /\ strm[s].cut /\ strm[s].place \in {"opened", "refusing", "serving", "running"}
  /\ End(s, "none")
  /\ UNCHANGED nodeVars /\ UNCHANGED clientVars

\* OWNER_STREAM_IDLE_TIMEOUT, longer than the client's.
OwnerTimesOut(s) ==
  /\ strm[s].place = "serving" /\ strm[s].req = "none" /\ strm[s].reply = "none"
  /\ cur[strm[s].client] = s /\ rested[strm[s].client]
  /\ End(s, "none")
  /\ UNCHANGED nodeVars /\ UNCHANGED clientVars

-----------------------------------------------------------------------------
(* Nodes.                                                                  *)

\* A process starts, with only itself in its membership.
Boot(n) ==
  /\ n \notin up /\ Fault
  /\ up' = up \cup {n}
  /\ Learned(n, [m \in Nodes |-> IF m = n THEN "alive" ELSE "dead"])
  /\ UNCHANGED <<draining, shut>> /\ UNCHANGED clientVars /\ UNCHANGED ownerVars

\* A process ends: its clients and its side of every stream with it.
Crash(n) ==
  LET gone == {c \in Clients : Home[c] = n} IN
  /\ n \in up /\ Fault
  /\ up' = up \ {n} /\ draining' = draining \ {n} /\ shut' = shut \ {n}
  /\ demoted' = demoted \ {n}
  /\ know' = [know EXCEPT ![n] = [m \in Nodes |-> "dead"]]
  /\ sess' = [c \in Clients |-> IF c \in gone THEN None ELSE sess[c]]
  /\ inTx' = [c \in Clients |-> inTx[c] /\ c \notin gone]
  /\ cur' = [c \in Clients |-> IF c \in gone THEN None ELSE cur[c]]
  /\ curTx' = [c \in Clients |-> curTx[c] /\ c \notin gone]
  /\ rested' = [c \in Clients |-> rested[c] /\ c \notin gone]
  /\ stmt' = [c \in Clients |-> IF c \in gone THEN "none" ELSE stmt[c]]
  /\ believes' = believes \ gone /\ swapped' = swapped \ gone
  /\ strm' = [s \in Streams |->
       IF strm[s].node = n /\ strm[s].client \notin gone /\ cur[strm[s].client] = s
         THEN [Unused EXCEPT !.client = strm[s].client, !.node = n, !.place = "ended"]
       ELSE IF strm[s].node = n THEN Unused
       ELSE Cut({t \in Streams : strm[t].client \in gone})[s]]
  /\ holder' = [holder EXCEPT ![n] = None]

\* announce_leave, after the HTTP drain: no request of this node runs.
AnnounceLeave(n) ==
  /\ n \in up \ draining /\ Fault
  /\ \A c \in Clients : Home[c] = n => sess[c] = None
  /\ draining' = draining \cup {n}
  /\ Learned(n, [know[n] EXCEPT ![n] = "draining"])
  /\ UNCHANGED <<up, shut>> /\ UNCHANGED clientVars /\ UNCHANGED ownerVars

\* Mutant of CloseChannel: the channel is shut before the leave is announced.
CloseChannelFirst(n) ==
  /\ n \in up \ shut
  /\ shut' = shut \cup {n}
  /\ UNCHANGED <<up, draining, know, demoted, faults>> /\ UNCHANGED ownerVars
  /\ UNCHANGED clientVars

\* ChannelHandle::shutdown closes every connection; statements that run go on.
CloseChannel(n) ==
  /\ n \in draining \ shut
  /\ shut' = shut \cup {n}
  /\ strm' = [s \in Streams |-> [strm[s] EXCEPT !.cut = @ \/ (strm[s].node = n /\ strm[s].place # "ended")]]
  /\ UNCHANGED <<up, draining, know, demoted, faults, holder>>
  /\ UNCHANGED clientVars

ClientNext(c) ==
  \/ Resolve(c) \/ Disconnect(c) \/ Rest(c) \/ Receive(c) \/ ExchangeFails(c) \/ ReplyTimeout(c)
  \/ \E q \in Statements : RunLocal(c, q) \/ Send(c, q) \/ DialAndSend(c, q) \/ DialFails(c, q)

OwnerNext(s) == Accept(s) \/ Refuse(s) \/ Check(s) \/ Execute(s) \/ Eof(s) \/ OwnerTimesOut(s)

NodeNext(n) ==
  \/ Boot(n) \/ Crash(n) \/ AnnounceLeave(n) \/ CloseChannel(n)
  \/ \E m \in Nodes : Learn(n, m)

Next ==
  \/ \E c \in Clients : ClientNext(c)
  \/ \E s \in Streams : OwnerNext(s)
  \/ \E n \in Nodes : NodeNext(n)
  \/ Tick

Spec == Init /\ [][Next]_vars

Forward(c, q) == Send(c, q) \/ DialAndSend(c, q) \/ DialFails(c, q)

\* The tasks of the streams run, gossip and time go on, and a client reads its
\* reply.  PHP threads keep serving requests and a request ends sooner or later,
\* so a bridge session with an open transaction is rolled back again and again.
\* A MySQL connection may stay silent.
Fairness ==
  /\ \A s \in Streams : WF_vars(OwnerNext(s))
  /\ \A n \in Nodes : WF_vars(\E m \in Nodes : Learn(n, m))
  /\ WF_vars(Tick)
  /\ \A c \in Clients : WF_vars(Receive(c) \/ ExchangeFails(c))
  /\ \A c \in Clients \ Wire : /\ WF_vars(\E q \in Statements : Forward(c, q))
                               /\ SF_vars(Forward(c, "rollback"))

FairSpec == Spec /\ Fairness

-----------------------------------------------------------------------------
(* Properties.                                                             *)

\* Type correctness of the forwarding state.
TypeOK ==
  /\ {draining, demoted} \subseteq SUBSET up /\ shut \subseteq draining
  /\ know \in [Nodes -> [Nodes -> {"alive", "draining", "dead"}]]
  /\ faults \in 0 .. MaxFaults
  /\ sess \in [Clients -> Nodes \cup {None}]
  /\ {inTx, curTx, rested} \subseteq [Clients -> BOOLEAN]
  /\ cur \in [Clients -> Streams \cup {None}]
  /\ stmt \in [Clients -> Statements \cup {"none"}]
  /\ believes \subseteq Clients /\ swapped \subseteq believes
  /\ strm \in [Streams ->
       [client : Clients \cup {None}, node : Nodes \cup {None},
        place : {"unused", "opened", "refusing", "serving", "running", "ended"},
        req : Statements \cup {"none"}, reply : {"none", "ok", "no", "closed"},
        tx : BOOLEAN, fresh : BOOLEAN, cut : BOOLEAN]]
  /\ holder \in [Nodes -> Streams \cup Clients \cup {None}]

\* A node that lost the site an interval ago, or announced its leave, starts no
\* statement on a stream it accepted while it was the owner, however long the
\* stream was open and whatever it was doing (the re-checks of
\* serve_owner_statements).
DemotedIsQuiet ==
  [][\A s \in Streams :
       strm[s].place = "serving" /\ strm'[s].place = "running"
         => strm[s].node \notin demoted \cup draining]_vars

\* A named lock is held by a session that lives: an open stream of that node
\* or a local session (release is the stream's lifetime; a bridge session that
\* is dropped drops its locks).
LockDiesWithSession ==
  \A n \in Nodes :
    /\ holder[n] \in Streams => /\ strm[holder[n]].node = n
                                /\ strm[holder[n]].place \in {"serving", "running"}
    /\ holder[n] \in Clients => n \in up /\ sess[holder[n]] = n /\ Home[holder[n]] = n

\* A statement of a client that counts on its lock is executed only by the
\* session that holds it: a client whose lock was lost with a stream (an
\* ownership move, a crash, a leave, a timeout, the owner's idle limit) is told
\* by a failing statement before any statement of it succeeds again.  The one
\* loss nobody is told of is excepted by name: swapped, a stream idle for
\* CLIENT_STREAM_MAX_IDLE outside a transaction is replaced before its next use.
LossIsTold ==
  [][\A s \in Streams :
       LET c == strm[s].client IN
       strm[s].place = "running" /\ strm'[s].place = "serving" /\ cur[c] = s
           /\ c \in believes \ swapped
         => holder[strm[s].node] = s]_vars

\* The lock of a stream whose client is gone is released sooner or later, also
\* when the stream has a statement running (end of file, heartbeat).
AbandonedLockFreed ==
  \A s \in Streams :
    strm[s].cut ~> \A n \in Nodes : holder[n] # s

\* A bridge session pinned to a node that everybody knows has lost the site
\* does not stay pinned to it: the refusals make the bridge drop it, in a
\* transaction at the latest when the request ends.
StaleForwardRecovers ==
  \A c \in Clients \ Wire :
    ~ <>[](/\ sess[c] \in up \ {Home[c]}
           /\ \A n \in up : HrwOwner(n) # sess[c])

\* What the wire listener's documentation says of both routes: no write is
\* made on a node whose writes do not replicate.
LocalWriteByOwner ==
  \A c \in Clients : Home[c] \in demoted => ~ENABLED RunLocal(c, "write")

\* What the forwarding documentation says: the statements of a transaction all
\* reach one owner connection, so none of its writes is committed alone.
\* Violated: see the README, section 4.
TxKeepsItsWrites ==
  [][\A s \in Streams :
       LET c == strm[s].client IN
       strm[s].req = "write" /\ strm[s].place = "running" /\ strm'[s].place = "serving"
           /\ cur[c] = s /\ inTx[c]
         => strm[s].tx]_vars
=============================================================================
