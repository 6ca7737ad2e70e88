-------------------------- MODULE SqlForwardProofs --------------------------
(***************************************************************************)
(* Proofs about SqlForward, for any nodes, clients, statements, streams    *)
(* and faults.                                                             *)
(*                                                                         *)
(* Three relations carry the argument.  A client's stream and the owner's  *)
(* side of it agree on the client, the node and the statement in flight    *)
(* (StreamsMatch, Talk).  A demoted node does not own the site, and what   *)
(* it accepts without a re-check was checked after the last Tick           *)
(* (DemotedKnows).  A client whose stream was not swapped under it counts  *)
(* on a lock only while its stream holds it, has ended, or carries the     *)
(* answer that takes the lock away (BeliefHeld).                           *)
(***************************************************************************)
EXTENDS SqlForward, SeqLemmas, FiniteSetTheorems

Live == {"serving", "running"}

\* TypeOK, and the nodes that run are nodes.
FwdTypes == TypeOK /\ up \subseteq Nodes

\* A node that runs is in its own membership, so it computes an owner.
KnowsItself == \A n \in up : know[n][n] # "dead"

\* A stream that is not in use has no trace; any other has a client and a node.
StreamsUsed ==
  \A s \in Streams :
    /\ strm[s].place = "unused" => strm[s] = Unused
    /\ strm[s].place # "unused" => strm[s].client \in Clients /\ strm[s].node \in Nodes

\* A client's stream is its own, leads to the node it is pinned to, which is
\* not its own, and a client that waits has a stream.  Sessions are on nodes
\* that run.
StreamsMatch ==
  \A c \in Clients :
    /\ cur[c] # None => /\ strm[cur[c]].place # "unused"
                        /\ strm[cur[c]].client = c
                        /\ strm[cur[c]].node = sess[c]
                        /\ sess[c] # Home[c]
    /\ stmt[c] # "none" => cur[c] # None
    /\ sess[c] # None => Home[c] \in up

\* A demoted node knows that it is not the owner; a stream that was checked
\* since the last Tick is not on a demoted node.
DemotedKnows ==
  /\ \A n \in demoted : ~Owns(n)
  /\ \A s \in Streams : strm[s].fresh /\ strm[s].place \in Live => strm[s].node \notin demoted

\* On a client's stream there is its statement, or an answer, never both.
Talk ==
  \A c \in Clients : cur[c] # None =>
    /\ stmt[c] = "none" => strm[cur[c]].req = "none" /\ strm[cur[c]].reply = "none"
    /\ strm[cur[c]].req # "none" => /\ strm[cur[c]].req = stmt[c]
                                    /\ strm[cur[c]].reply = "none"

\* The stream of c holds the lock.
Holds(c) == holder[strm[cur[c]].node] = cur[c]

\* A granted lock is held until the stream ends.
GrantHeld ==
  \A c \in Clients :
    cur[c] # None /\ stmt[c] = "lock" /\ strm[cur[c]].reply = "ok"
      => strm[cur[c]].place = "ended" \/ Holds(c)

\* A client that counts on its lock, and whose stream was not swapped, has a
\* local session, or a stream that has ended, holds the lock or carries the
\* answer to the client's own unlock.
BeliefHeld ==
  \A c \in believes \ swapped :
    /\ cur[c] = None => Local(c)
    /\ cur[c] # None =>
         \/ strm[cur[c]].place = "ended"
         \/ Holds(c)
         \/ stmt[c] \in {"unlock", "release"} /\ strm[cur[c]].reply = "ok"

\* The inductive invariant.
FwdInv ==
  /\ FwdTypes /\ KnowsItself /\ StreamsUsed /\ StreamsMatch /\ DemotedKnows
  /\ LockDiesWithSession /\ Talk /\ GrantHeld /\ BeliefHeld

-----------------------------------------------------------------------------
(* Operators.                                                              *)

\* A node that runs computes one of the nodes as the site's owner.
LEMMA OwnerIsNode ==
  ASSUME FwdTypes, KnowsItself, NEW n \in up
  PROVE  HrwOwner(n) \in Nodes
<1> DEFINE alive == {m \in Nodes : know[n][m] # "dead"}
           staying == {m \in alive : know[n][m] = "alive"}
           among == IF staying = {} THEN alive ELSE staying
<1>1. n \in alive
  BY DEF FwdTypes, KnowsItself
<1>2. among \subseteq Nodes /\ among # {}
  BY <1>1
<1> HIDE DEF among
<1>3. IsFiniteSet(among) /\ among \subseteq Nat
  BY <1>2, NodesAssumption, FS_Subset
<1>4. \E m \in among : \A k \in among : m >= k
  BY <1>2, <1>3, HighestExists
<1>5. Max(among) \in among
  BY <1>4 DEF Max
<1>6. HrwOwner(n) = Max(among)
  BY DEF HrwOwner, among
<1> QED BY <1>2, <1>5, <1>6

-----------------------------------------------------------------------------
(* Types.                                                                  *)

StreamRecord ==
  [client : Clients \cup {None}, node : Nodes \cup {None},
   place : {"unused", "opened", "refusing", "serving", "running", "ended"},
   req : Statements \cup {"none"}, reply : {"none", "ok", "no", "closed"},
   tx : BOOLEAN, fresh : BOOLEAN, cut : BOOLEAN]
Sessions == Streams \cup Clients \cup {None}

\* The types of the three groups of variables.
NodeTypes ==
  /\ up \subseteq Nodes /\ draining \subseteq up /\ demoted \subseteq up
  /\ shut \subseteq draining
  /\ know \in [Nodes -> [Nodes -> {"alive", "draining", "dead"}]]
  /\ faults \in 0 .. MaxFaults
ClientTypes ==
  /\ sess \in [Clients -> Nodes \cup {None}]
  /\ inTx \in [Clients -> BOOLEAN] /\ curTx \in [Clients -> BOOLEAN]
  /\ rested \in [Clients -> BOOLEAN]
  /\ cur \in [Clients -> Streams \cup {None}]
  /\ stmt \in [Clients -> Statements \cup {"none"}]
  /\ believes \subseteq Clients /\ swapped \subseteq believes
OwnerTypes ==
  strm \in [Streams -> StreamRecord] /\ holder \in [Nodes -> Sessions]

\* The type invariant is the types of the three groups.
LEMMA TypesByGroup == FwdTypes <=> NodeTypes /\ ClientTypes /\ OwnerTypes
<1>1. {draining, demoted} \subseteq SUBSET up <=> draining \subseteq up /\ demoted \subseteq up
  OBVIOUS
<1>2. {inTx, curTx, rested} \subseteq [Clients -> BOOLEAN]
        <=> /\ inTx \in [Clients -> BOOLEAN] /\ curTx \in [Clients -> BOOLEAN]
            /\ rested \in [Clients -> BOOLEAN]
  OBVIOUS
<1> QED BY <1>1, <1>2
  DEF FwdTypes, TypeOK, NodeTypes, ClientTypes, OwnerTypes, StreamRecord, Sessions

\* A stream that is not in use has the type of a stream.
LEMMA UnusedType == Unused \in StreamRecord
BY DEF Unused, StreamRecord

\* Closing the client side of streams keeps their type.
LEMMA CutType ==
  ASSUME OwnerTypes, NEW S
  PROVE  Cut(S) \in [Streams -> StreamRecord]
<1>1. ASSUME NEW s \in Streams
      PROVE  [strm[s] EXCEPT !.cut = TRUE, !.reply = "none"] \in StreamRecord
  BY ZenonT(60) DEF OwnerTypes, StreamRecord
<1> QED BY <1>1, UnusedType DEF Cut, OwnerTypes

\* Releasing locks keeps the type of the lock tables.
LEMMA FreedType ==
  ASSUME OwnerTypes, NEW S
  PROVE  Freed(S) \in [Nodes -> Sessions]
BY DEF Freed, OwnerTypes, Sessions

\* What a client does when its session or its stream goes keeps the types.
LEMMA FailsTypes ==
  ASSUME ClientTypes, OwnerTypes, NEW c \in Clients,
         DropSession(c) \/ (DropStream(c) /\ Forgets(c))
  PROVE  ClientTypes' /\ OwnerTypes'
<1>1. CASE DropSession(c)
  BY <1>1, CutType, FreedType DEF DropSession, Forgets, ClientTypes, OwnerTypes
<1>2. CASE DropStream(c) /\ Forgets(c)
  BY <1>2, CutType DEF DropStream, Forgets, ClientTypes, OwnerTypes
<1> QED BY <1>1, <1>2

\* An answer keeps the types of what the client remembers.
LEMMA AnsweredTypes ==
  ASSUME ClientTypes, NEW c \in Clients, NEW q, Answered(c, q)
  PROVE  /\ inTx' \in [Clients -> BOOLEAN]
         /\ believes' \subseteq Clients /\ swapped' \subseteq believes'
<1>1. inTx' \in [Clients -> BOOLEAN]
  BY DEF Answered, ClientTypes
<1>2. \/ believes' = believes \cup {c}
      \/ believes' = believes \ {c} /\ swapped' = swapped \ {c}
      \/ believes' = believes
  BY DEF Answered
<1>3. swapped' \subseteq swapped
  BY DEF Answered
<1> QED BY <1>1, <1>2, <1>3 DEF ClientTypes

\* A stream's task that returns keeps the types.
LEMMA EndTypes ==
  ASSUME OwnerTypes, NEW s \in Streams, NEW r \in {"none", "closed"}, End(s, r)
  PROVE  OwnerTypes'
<1>1. strm[s] \in StreamRecord
  BY DEF OwnerTypes
<1>2. [strm[s] EXCEPT !.place = "ended", !.req = "none", !.tx = FALSE, !.fresh = FALSE,
                      !.reply = IF r = "none" THEN strm[s].reply ELSE r] \in StreamRecord
  BY <1>1 DEF StreamRecord
<1> QED BY <1>2, UnusedType, FreedType DEF End, OwnerTypes

\* So does one that answers.
LEMMA DoneTypes ==
  ASSUME OwnerTypes, NEW s \in Streams, NEW r \in {"no", "ok"}, Done(s, r)
  PROVE  strm' \in [Streams -> StreamRecord]
<1>1. strm[s] \in StreamRecord
  BY DEF OwnerTypes
<1>2. [strm[s] EXCEPT !.place = "serving", !.req = "none",
             !.reply = IF cur[strm[s].client] = s THEN r ELSE "none",
             !.tx = strm[s].req = "begin"
                    \/ (strm[s].tx /\ strm[s].req \notin {"commit", "rollback"})]
        \in StreamRecord
  BY <1>1, ZenonT(60) DEF StreamRecord
<1> QED BY <1>2 DEF Done, OwnerTypes

\* A node that learns keeps the types.
LEMMA LearnedTypes ==
  ASSUME NodeTypes, NEW n \in Nodes, NEW k \in [Nodes -> {"alive", "draining", "dead"}],
         Learned(n, k)
  PROVE  know' \in [Nodes -> [Nodes -> {"alive", "draining", "dead"}]] /\ demoted' \subseteq demoted
<1>1. demoted' \in {demoted \ {n}, demoted}
  BY DEF Learned
<1> QED BY <1>1 DEF Learned, NodeTypes

\* A client's step keeps the types.
LEMMA ClientKeepsTypes ==
  ASSUME NodeTypes, ClientTypes, OwnerTypes, KnowsItself, NEW c \in Clients, ClientNext(c)
  PROVE  NodeTypes' /\ ClientTypes' /\ OwnerTypes'
<1> USE DEF nodeVars, clientVars, ownerVars
<1>1. CASE Resolve(c)
  <2>1. FwdTypes
    BY TypesByGroup
  <2>2. HrwOwner(Home[c]) \in Nodes
    BY <1>1, <2>1, OwnerIsNode DEF Resolve
  <2> QED BY <1>1, <2>2 DEF Resolve, NodeTypes, ClientTypes, OwnerTypes
<1>2. CASE Disconnect(c)
  BY <1>2, FailsTypes DEF Disconnect, NodeTypes
<1>3. CASE Rest(c)
  BY <1>3, BoundsAssumption DEF Rest, Fault, NodeTypes, ClientTypes, OwnerTypes
<1>4. CASE Receive(c)
  <2>1. CASE Fails(c, stmt[c])
    BY <1>4, <2>1, FailsTypes DEF Fails, Receive, NodeTypes
  <2>2. CASE ~Fails(c, stmt[c])
    <3>1. /\ stmt' = [stmt EXCEPT ![c] = "none"]
          /\ rested' = [rested EXCEPT ![c] = FALSE]
          /\ curTx' = [curTx EXCEPT ![c] = IF stmt[c] \in {"begin", "commit", "rollback"}
                                             THEN inTx'[c] ELSE @]
          /\ strm' = [strm EXCEPT ![cur[c]].reply = "none"]
          /\ UNCHANGED <<sess, cur, holder>> /\ UNCHANGED nodeVars
      BY <1>4, <2>2 DEF Receive
    <3>2. Answered(c, stmt[c]) \/ UNCHANGED <<inTx, believes, swapped>>
      BY <1>4, <2>2 DEF Receive
    <3>3. /\ inTx' \in [Clients -> BOOLEAN]
          /\ believes' \subseteq Clients /\ swapped' \subseteq believes'
      BY <3>2, AnsweredTypes DEF ClientTypes
    <3>4. ClientTypes'
      BY <3>1, <3>3 DEF ClientTypes
    <3>5. \A s \in Streams : [strm[s] EXCEPT !.reply = "none"] \in StreamRecord
      BY DEF OwnerTypes, StreamRecord
    <3>6. OwnerTypes'
      BY <3>1, <3>5 DEF OwnerTypes
    <3> QED BY <3>1, <3>4, <3>6 DEF NodeTypes
  <2> QED BY <2>1, <2>2
<1>5. CASE ExchangeFails(c)
  BY <1>5, FailsTypes DEF ExchangeFails, Fails, NodeTypes
<1>6. CASE ReplyTimeout(c)
  <2>1. ClientTypes' /\ OwnerTypes'
    BY <1>6, FailsTypes DEF ReplyTimeout, Fails
  <2> QED BY <1>6, <2>1, BoundsAssumption DEF ReplyTimeout, Fault, NodeTypes
<1>7. ASSUME NEW q \in Statements, RunLocal(c, q) PROVE NodeTypes' /\ ClientTypes' /\ OwnerTypes'
  <2>1. /\ inTx' \in [Clients -> BOOLEAN]
        /\ believes' \subseteq Clients /\ swapped' \subseteq believes'
    BY <1>7, AnsweredTypes DEF RunLocal
  <2>2. holder' \in {[holder EXCEPT ![Home[c]] = c], Freed({c}), holder}
    BY <1>7 DEF RunLocal
  <2>3. holder' \in [Nodes -> Sessions]
    BY <2>2, FreedType DEF OwnerTypes, Sessions
  <2> QED BY <1>7, <2>1, <2>3 DEF RunLocal, NodeTypes, ClientTypes, OwnerTypes
<1>8. ASSUME NEW q \in Statements, Send(c, q) PROVE NodeTypes' /\ ClientTypes' /\ OwnerTypes'
  <2>1. \A s \in Streams : [strm[s] EXCEPT !.req = q] \in StreamRecord
    BY DEF OwnerTypes, StreamRecord
  <2> QED BY <1>8, <2>1 DEF Send, NodeTypes, ClientTypes, OwnerTypes
<1>9. ASSUME NEW q \in Statements, DialAndSend(c, q)
      PROVE  NodeTypes' /\ ClientTypes' /\ OwnerTypes'
  <2>1. [Unused EXCEPT !.client = c, !.node = sess[c], !.place = "opened", !.req = q]
          \in StreamRecord
    BY DEF ClientTypes, Unused, StreamRecord
  <2> QED BY <1>9, <2>1, CutType DEF DialAndSend, NodeTypes, ClientTypes, OwnerTypes
<1>10. ASSUME NEW q \in Statements, DialFails(c, q)
       PROVE  NodeTypes' /\ ClientTypes' /\ OwnerTypes'
  BY <1>10, FailsTypes DEF DialFails, Fails, NodeTypes
<1> QED BY <1>1, <1>2, <1>3, <1>4, <1>5, <1>6, <1>7, <1>8, <1>9, <1>10 DEF ClientNext

\* A step of a stream's task keeps the types.
LEMMA OwnerKeepsTypes ==
  ASSUME NodeTypes, ClientTypes, OwnerTypes, NEW s \in Streams, OwnerNext(s)
  PROVE  NodeTypes' /\ ClientTypes' /\ OwnerTypes'
<1> USE DEF nodeVars, clientVars
<1>1. UNCHANGED nodeVars /\ UNCHANGED clientVars
  BY DEF OwnerNext, Accept, Refuse, Check, Execute, Eof, OwnerTimesOut
<1>2. NodeTypes' /\ ClientTypes'
  BY <1>1 DEF NodeTypes, ClientTypes
<1>3. CASE Accept(s)
  <2>1. \A p \in {"serving", "refusing"} :
          [strm[s] EXCEPT !.place = p, !.fresh = TRUE] \in StreamRecord
    BY ZenonT(60) DEF OwnerTypes, StreamRecord
  <2> QED BY <1>2, <1>3, <2>1 DEF Accept, OwnerTypes
<1>4. CASE Check(s)
  <2>1. CASE End(s, "closed")
    BY <1>2, <2>1, EndTypes
  <2>2. CASE ~End(s, "closed")
    <3>1. RecheckDue(s) \in BOOLEAN
      BY DEF RecheckDue
    <3>2. [strm[s] EXCEPT !.place = "running", !.fresh = @ \/ RecheckDue(s)] \in StreamRecord
      BY <3>1 DEF OwnerTypes, StreamRecord
    <3> QED BY <1>2, <1>4, <2>2, <3>2 DEF Check, OwnerTypes
  <2> QED BY <2>1, <2>2
<1>5. CASE Execute(s)
  <2>1. strm' \in [Streams -> StreamRecord]
    BY <1>5, DoneTypes DEF Execute
  <2>2. holder' \in {holder, [holder EXCEPT ![strm[s].node] = s], Freed({s})}
    BY <1>5 DEF Execute
  <2>3. holder' \in [Nodes -> Sessions]
    BY <2>2, FreedType DEF OwnerTypes, Sessions
  <2> QED BY <1>2, <2>1, <2>3 DEF OwnerTypes
<1>6. CASE Refuse(s) \/ Eof(s) \/ OwnerTimesOut(s)
  BY <1>2, <1>6, EndTypes DEF Refuse, Eof, OwnerTimesOut
<1> QED BY <1>3, <1>4, <1>5, <1>6 DEF OwnerNext

\* A node's step and the passing of an interval keep the types.
LEMMA NodeKeepsTypes ==
  ASSUME NodeTypes, ClientTypes, OwnerTypes, NEW n \in Nodes, NodeNext(n)
  PROVE  NodeTypes' /\ ClientTypes' /\ OwnerTypes'
<1> USE DEF clientVars, ownerVars
<1>1. CASE Boot(n)
  <2>1. [m \in Nodes |-> IF m = n THEN "alive" ELSE "dead"]
          \in [Nodes -> {"alive", "draining", "dead"}]
    OBVIOUS
  <2>2. know' \in [Nodes -> [Nodes -> {"alive", "draining", "dead"}]] /\ demoted' \subseteq demoted
    BY <1>1, <2>1, LearnedTypes DEF Boot
  <2> QED BY <1>1, <2>2, BoundsAssumption DEF Boot, Fault, NodeTypes, ClientTypes, OwnerTypes
<1>2. CASE Crash(n)
  <2> DEFINE gone == {c \in Clients : Home[c] = n}
  <2>1. NodeTypes'
    <3>a. Fault
      BY <1>2 DEF Crash
    <3>1. faults' \in 0 .. MaxFaults
      BY <3>a, BoundsAssumption DEF Fault, NodeTypes
    <3>2. know' \in [Nodes -> [Nodes -> {"alive", "draining", "dead"}]]
      BY <1>2 DEF Crash, NodeTypes
    <3>3. /\ up' = up \ {n} /\ draining' = draining \ {n} /\ shut' = shut \ {n}
          /\ demoted' = demoted \ {n}
      BY <1>2 DEF Crash
    <3> QED BY <3>1, <3>2, <3>3 DEF NodeTypes
  <2>2. ClientTypes'
    BY <1>2 DEF Crash, ClientTypes
  <2>3. Cut({t \in Streams : strm[t].client \in gone}) \in [Streams -> StreamRecord]
    BY CutType
  <2>4. \A s \in Streams :
          [Unused EXCEPT !.client = strm[s].client, !.node = n, !.place = "ended"]
            \in StreamRecord
    BY DEF OwnerTypes, Unused, StreamRecord
  <2>5. OwnerTypes'
    BY <1>2, <2>3, <2>4, UnusedType DEF Crash, OwnerTypes, Sessions
  <2> QED BY <2>1, <2>2, <2>5
<1>3. CASE AnnounceLeave(n)
  <2>1. [know[n] EXCEPT ![n] = "draining"] \in [Nodes -> {"alive", "draining", "dead"}]
    BY DEF NodeTypes
  <2>2. know' \in [Nodes -> [Nodes -> {"alive", "draining", "dead"}]] /\ demoted' \subseteq demoted
    BY <1>3, <2>1, LearnedTypes DEF AnnounceLeave
  <2> QED BY <1>3, <2>2, BoundsAssumption
    DEF AnnounceLeave, Fault, NodeTypes, ClientTypes, OwnerTypes
<1>4. CASE CloseChannel(n)
  <2>1. \A s \in Streams, b \in BOOLEAN : [strm[s] EXCEPT !.cut = @ \/ b] \in StreamRecord
    BY DEF OwnerTypes, StreamRecord
  <2> QED BY <1>4, <2>1 DEF CloseChannel, NodeTypes, ClientTypes, OwnerTypes
<1>5. ASSUME NEW m \in Nodes, Learn(n, m) PROVE NodeTypes' /\ ClientTypes' /\ OwnerTypes'
  <2>1. [know[n] EXCEPT ![m] = Status(m)] \in [Nodes -> {"alive", "draining", "dead"}]
    BY DEF NodeTypes, Status
  <2>2. know' \in [Nodes -> [Nodes -> {"alive", "draining", "dead"}]] /\ demoted' \subseteq demoted
    BY <1>5, <2>1, LearnedTypes DEF Learn
  <2> QED BY <1>5, <2>2 DEF Learn, NodeTypes, ClientTypes, OwnerTypes
<1> QED BY <1>1, <1>2, <1>3, <1>4, <1>5 DEF NodeNext

\* The passing of an interval keeps the types.
LEMMA TickKeepsTypes ==
  ASSUME NodeTypes, ClientTypes, OwnerTypes, Tick
  PROVE  NodeTypes' /\ ClientTypes' /\ OwnerTypes'
<1>1. \A s \in Streams : [strm[s] EXCEPT !.fresh = FALSE] \in StreamRecord
  BY ZenonT(60) DEF OwnerTypes, StreamRecord
<1> QED BY <1>1 DEF Tick, clientVars, NodeTypes, ClientTypes, OwnerTypes

-----------------------------------------------------------------------------
(* Memberships.                                                            *)

\* No step removes a running node from its own membership.
LEMMA MembershipStep ==
  ASSUME NodeTypes, KnowsItself, Next
  PROVE  KnowsItself'
<1> USE DEF nodeVars
<1>1. ASSUME NEW c \in Clients, ClientNext(c) PROVE KnowsItself'
  <2>1. UNCHANGED <<up, know>>
    BY <1>1 DEF ClientNext, Resolve, Disconnect, Rest, Receive, ExchangeFails,
                ReplyTimeout, RunLocal, Send, DialAndSend, DialFails
  <2> QED BY <2>1 DEF KnowsItself
<1>2. ASSUME NEW s \in Streams, OwnerNext(s) PROVE KnowsItself'
  <2>1. UNCHANGED <<up, know>>
    BY <1>2 DEF OwnerNext, Accept, Refuse, Check, Execute, Eof, OwnerTimesOut
  <2> QED BY <2>1 DEF KnowsItself
<1>3. ASSUME NEW n \in Nodes, NodeNext(n) PROVE KnowsItself'
  <2>1. CASE Boot(n)
    BY <1>3, <2>1 DEF Boot, Learned, KnowsItself, NodeTypes
  <2>2. CASE Crash(n)
    BY <1>3, <2>2 DEF Crash, KnowsItself, NodeTypes
  <2>3. CASE AnnounceLeave(n)
    BY <1>3, <2>3 DEF AnnounceLeave, Learned, KnowsItself, NodeTypes
  <2>4. CASE CloseChannel(n)
    BY <2>4 DEF CloseChannel, KnowsItself
  <2>5. ASSUME NEW m \in Nodes, Learn(n, m) PROVE KnowsItself'
    BY <1>3, <2>5 DEF Learn, Learned, KnowsItself, NodeTypes
  <2> QED BY <1>3, <2>1, <2>2, <2>3, <2>4, <2>5 DEF NodeNext
<1>4. CASE Tick
  BY <1>4 DEF Tick, KnowsItself
<1> QED BY <1>1, <1>2, <1>3, <1>4 DEF Next

-----------------------------------------------------------------------------
(* Streams and their clients.                                              *)

\* The invariant in the part that the proofs about streams use.
Base == NodeTypes /\ ClientTypes /\ OwnerTypes /\ StreamsUsed /\ StreamsMatch

\* Nodes, clients, streams and None are different things.
LEMMA Distinct ==
  /\ None \notin Nodes /\ None \notin Clients /\ None \notin Streams
  /\ Clients \cap Streams = {}
  /\ "none" \notin Statements
BY NodesAssumption, IdsAssumption, StatementsAssumption DEF None, Streams, AllStatements

\* The fields of a stream that is not in use.
LEMMA PlaceOfUnused == Unused.place = "unused" /\ Unused.client = None /\ Unused.node = None
BY DEF Unused

\* What Cut does to a stream.
LEMMA CutEffect ==
  ASSUME OwnerTypes, NEW S, NEW s \in Streams
  PROVE  /\ s \notin S => Cut(S)[s] = strm[s]
         /\ strm[s].place = "ended" /\ s \in S => Cut(S)[s] = Unused
         /\ strm[s].place # "ended" /\ s \in S =>
              /\ Cut(S)[s].place = strm[s].place /\ Cut(S)[s].client = strm[s].client
              /\ Cut(S)[s].node = strm[s].node /\ Cut(S)[s].req = strm[s].req
              /\ Cut(S)[s].fresh = strm[s].fresh /\ Cut(S)[s].reply = "none"
BY DEF Cut, OwnerTypes, StreamRecord

\* What the end of a stream's task does to it.
LEMMA EndEffect ==
  ASSUME OwnerTypes, NEW s \in Streams, NEW r, End(s, r)
  PROVE  /\ \A t \in Streams : t # s => strm'[t] = strm[t]
         /\ cur[strm[s].client] # s => strm'[s] = Unused
         /\ cur[strm[s].client] = s =>
              /\ strm'[s].place = "ended" /\ strm'[s].client = strm[s].client
              /\ strm'[s].node = strm[s].node /\ strm'[s].req = "none"
              /\ strm'[s].reply = IF r = "none" THEN strm[s].reply ELSE r
         /\ holder' = Freed({s})
BY DEF End, OwnerTypes, StreamRecord

\* What an answer does to its stream.
LEMMA DoneEffect ==
  ASSUME OwnerTypes, NEW s \in Streams, NEW r, Done(s, r)
  PROVE  /\ \A t \in Streams : t # s => strm'[t] = strm[t]
         /\ strm'[s].place = "serving" /\ strm'[s].client = strm[s].client
         /\ strm'[s].node = strm[s].node /\ strm'[s].req = "none"
         /\ strm'[s].fresh = strm[s].fresh
         /\ cur[strm[s].client] = s => strm'[s].reply = r
BY DEF Done, OwnerTypes, StreamRecord

-----------------------------------------------------------------------------
(* The steps, by what they do to a stream.                                 *)

\* A client loses its session, or its stream, and its belief.
Loses(c) ==
  /\ DropSession(c) \/ (DropStream(c) /\ Forgets(c))
  /\ UNCHANGED <<up, draining, shut, know, demoted>>

\* A client reads an answer that is not flagged closed.
Reads(c) ==
  /\ stmt[c] # "none" /\ strm[cur[c]].reply \in {"ok", "no"}
  /\ stmt' = [stmt EXCEPT ![c] = "none"]
  /\ rested' = [rested EXCEPT ![c] = FALSE]
  /\ strm' = [strm EXCEPT ![cur[c]].reply = "none"]
  /\ IF strm[cur[c]].reply = "ok" THEN Answered(c, stmt[c])
     ELSE UNCHANGED <<believes, swapped>>
  /\ UNCHANGED <<sess, cur, holder>> /\ UNCHANGED nodeVars

\* A stream's task returns; a refusal answers a request.
Ends(s) ==
  /\ strm[s].place \in {"opened", "refusing", "serving", "running"}
  /\ End(s, "none") \/ (End(s, "closed") /\ strm[s].req # "none")
  /\ UNCHANGED nodeVars /\ UNCHANGED clientVars

\* A request passes the checks.
Starts(s) ==
  /\ strm[s].place = "serving" /\ strm[s].req # "none"
  /\ strm[s].node \notin draining /\ (RecheckDue(s) => Owns(strm[s].node))
  /\ strm' = [strm EXCEPT ![s].place = "running", ![s].fresh = @ \/ RecheckDue(s)]
  /\ UNCHANGED holder /\ UNCHANGED nodeVars /\ UNCHANGED clientVars

\* A step of a client is one of these.
LEMMA ClientSteps ==
  ASSUME NEW c \in Clients, ClientNext(c), ClientTypes, OwnerTypes, StreamsMatch
  PROVE  \/ Resolve(c) \/ Loses(c) \/ Rest(c) \/ Reads(c)
         \/ \E q \in Statements : RunLocal(c, q) \/ Send(c, q) \/ DialAndSend(c, q)
<1>1. CASE Receive(c)
  <2>1. strm[cur[c]].reply \in {"ok", "no", "closed"}
    <3>1. cur[c] \in Streams
      BY <1>1 DEF Receive, StreamsMatch, ClientTypes
    <3> QED BY <1>1, <3>1 DEF Receive, OwnerTypes, StreamRecord
  <2> QED BY <1>1, <2>1 DEF Receive, Reads, Fails, Loses, nodeVars
<1>2. CASE Disconnect(c) \/ ExchangeFails(c) \/ ReplyTimeout(c)
  BY <1>2 DEF Disconnect, ExchangeFails, ReplyTimeout, Fails, Loses, nodeVars
<1>3. ASSUME NEW q \in Statements, DialFails(c, q) PROVE Loses(c)
  BY <1>3 DEF DialFails, Fails, Loses, nodeVars
<1> QED BY <1>1, <1>2, <1>3 DEF ClientNext

\* A step of a stream's task is one of these.
LEMMA OwnerSteps ==
  ASSUME NEW s \in Streams, OwnerNext(s)
  PROVE  Accept(s) \/ Ends(s) \/ Starts(s) \/ Execute(s)
<1>1. CASE Check(s)
  BY <1>1 DEF Check, Ends, Starts
<1>2. CASE Refuse(s) \/ Eof(s) \/ OwnerTimesOut(s)
  BY <1>2 DEF Refuse, Eof, OwnerTimesOut, Ends
<1> QED BY <1>1, <1>2 DEF OwnerNext

-----------------------------------------------------------------------------
(* StreamsUsed and StreamsMatch.                                           *)

\* A step of a client keeps its stream and the owner's side of it together.
LEMMA ClientKeepsStreams ==
  ASSUME Base, KnowsItself, NEW d \in Clients, ClientNext(d)
  PROVE  StreamsUsed' /\ StreamsMatch'
<1> USE Distinct DEF nodeVars, clientVars, ownerVars
<1>t. NodeTypes' /\ ClientTypes' /\ OwnerTypes'
  BY ClientKeepsTypes DEF Base
<1>a. Base /\ ClientTypes /\ OwnerTypes /\ StreamsUsed /\ StreamsMatch
  BY DEF Base
<1>1. CASE Resolve(d)
  <2>1. StreamsUsed'
    BY <1>1, <1>a DEF Resolve, StreamsUsed
  <2>2. cur[d] = None
    BY <1>1, <1>a DEF Resolve, StreamsUsed, StreamsMatch, ClientTypes
  <2>3. StreamsMatch'
    BY <1>1, <1>a, <2>2 DEF Resolve, StreamsMatch, ClientTypes
  <2> QED BY <2>1, <2>3
<1>2. CASE Loses(d)
  <2>1. /\ strm' = Cut({cur[d]}) /\ up' = up
        /\ cur' = [cur EXCEPT ![d] = None] /\ stmt' = [stmt EXCEPT ![d] = "none"]
        /\ sess' = [sess EXCEPT ![d] = None] \/ sess' = sess
    BY <1>2 DEF Loses, DropSession, DropStream
  <2>2. StreamsUsed'
    <3> SUFFICES ASSUME NEW s \in Streams
                 PROVE  /\ strm'[s].place = "unused" => strm'[s] = Unused
                        /\ strm'[s].place # "unused" =>
                             strm'[s].client \in Clients /\ strm'[s].node \in Nodes
      BY DEF StreamsUsed
    <3>1. CASE s # cur[d]
      BY <1>a, <2>1, <3>1, CutEffect DEF StreamsUsed
    <3>2. CASE s = cur[d]
      <4>1. strm[s].place # "unused"
        BY <1>a, <3>2 DEF StreamsMatch
      <4> QED BY <1>a, <2>1, <3>2, <4>1, CutEffect, PlaceOfUnused, ZenonT(60) DEF StreamsUsed
    <3> QED BY <3>1, <3>2
  <2>3. ASSUME NEW c \in Clients, c # d, cur[c] # None
        PROVE  cur[c] \in Streams /\ cur[c] # cur[d] /\ strm'[cur[c]] = strm[cur[c]]
    <3>1. cur[c] \in Streams /\ cur[c] # cur[d]
      BY <1>a, <2>3 DEF StreamsMatch, ClientTypes
    <3> QED BY <1>a, <2>1, <3>1, CutEffect
  <2>4. StreamsMatch'
    <3> SUFFICES ASSUME NEW c \in Clients
                 PROVE  /\ cur'[c] # None => /\ strm'[cur'[c]].place # "unused"
                                             /\ strm'[cur'[c]].client = c
                                             /\ strm'[cur'[c]].node = sess'[c]
                                             /\ sess'[c] # Home[c]
                        /\ stmt'[c] # "none" => cur'[c] # None
                        /\ sess'[c] # None => Home[c] \in up'
      BY DEF StreamsMatch
    <3>1. CASE c = d
      BY <1>a, <2>1, <3>1 DEF StreamsMatch, ClientTypes
    <3>2. CASE c # d
      <4>1. cur'[c] = cur[c] /\ stmt'[c] = stmt[c] /\ sess'[c] = sess[c] /\ up' = up
        BY <1>a, <2>1, <3>2 DEF ClientTypes
      <4> QED BY <1>a, <2>3, <3>2, <4>1 DEF StreamsMatch
    <3> QED BY <3>1, <3>2
  <2> QED BY <2>2, <2>4
<1>3. CASE Rest(d)
  BY <1>3, <1>a DEF Rest, StreamsUsed, StreamsMatch
<1>4. CASE Reads(d)
  <2>1. cur[d] \in Streams
    BY <1>4, <1>a DEF Reads, StreamsMatch, ClientTypes
  <2>2. \A s \in Streams : /\ strm'[s].place = strm[s].place /\ strm'[s].client = strm[s].client
                           /\ strm'[s].node = strm[s].node
                           /\ s # cur[d] => strm'[s] = strm[s]
    BY <1>4, <1>a DEF Reads, OwnerTypes, StreamRecord
  <2>3. StreamsUsed'
    BY <1>4, <1>a, <2>1, <2>2 DEF Reads, StreamsUsed, StreamsMatch
  <2>4. StreamsMatch'
    BY <1>4, <1>a, <2>1, <2>2 DEF Reads, StreamsMatch, ClientTypes
  <2> QED BY <2>3, <2>4
<1>5. ASSUME NEW q \in Statements, RunLocal(d, q) PROVE StreamsUsed' /\ StreamsMatch'
  BY <1>5, <1>a DEF RunLocal, StreamsUsed, StreamsMatch
<1>6. ASSUME NEW q \in Statements, Send(d, q) PROVE StreamsUsed' /\ StreamsMatch'
  <2>1. cur[d] \in Streams
    BY <1>6, <1>a DEF Send, ClientTypes
  <2>2. \A s \in Streams : /\ strm'[s].place = strm[s].place /\ strm'[s].client = strm[s].client
                           /\ strm'[s].node = strm[s].node
                           /\ s # cur[d] => strm'[s] = strm[s]
    BY <1>6, <1>a DEF Send, OwnerTypes, StreamRecord
  <2>3. StreamsUsed'
    BY <1>6, <1>a, <2>1, <2>2 DEF Send, StreamsUsed, StreamsMatch
  <2>4. StreamsMatch'
    BY <1>6, <1>a, <2>1, <2>2 DEF Send, StreamsMatch, ClientTypes
  <2> QED BY <2>3, <2>4
<1>7. ASSUME NEW q \in Statements, DialAndSend(d, q) PROVE StreamsUsed' /\ StreamsMatch'
  <2>1. PICK n \in Streams :
          /\ strm[n] = Unused
          /\ cur' = [cur EXCEPT ![d] = n]
          /\ strm' = [Cut({cur[d]}) EXCEPT ![n] =
               [Unused EXCEPT !.client = d, !.node = sess[d], !.place = "opened", !.req = q]]
    BY <1>7 DEF DialAndSend
  <2>2. /\ sess[d] # None /\ ~Local(d) /\ stmt' = [stmt EXCEPT ![d] = q] /\ sess' = sess /\ up' = up
    BY <1>7 DEF DialAndSend
  <2>3. n # cur[d] /\ \A c \in Clients : cur[c] # n
    BY <1>a, <2>1, PlaceOfUnused DEF StreamsMatch
  <2>4. strm'[n].client = d /\ strm'[n].node = sess[d] /\ strm'[n].place = "opened"
    BY <1>a, <2>1, CutType DEF Unused
  <2>5. \A s \in Streams : s # n => strm'[s] = Cut({cur[d]})[s]
    BY <1>a, <2>1, CutType
  <2>6. StreamsUsed'
    <3> SUFFICES ASSUME NEW s \in Streams
                 PROVE  /\ strm'[s].place = "unused" => strm'[s] = Unused
                        /\ strm'[s].place # "unused" =>
                             strm'[s].client \in Clients /\ strm'[s].node \in Nodes
      BY DEF StreamsUsed
    <3>1. CASE s # cur[d] /\ s # n
      BY <1>a, <2>5, <3>1, CutEffect DEF StreamsUsed
    <3>2. CASE s = cur[d]
      <4>1. strm[s].place # "unused" /\ s # n
        BY <1>a, <2>3, <3>2 DEF StreamsMatch
      <4> QED BY <1>a, <2>5, <3>2, <4>1, CutEffect, PlaceOfUnused DEF StreamsUsed
    <3>3. CASE s = n
      BY <1>a, <2>2, <2>4, <3>3 DEF ClientTypes
    <3> QED BY <3>1, <3>2, <3>3
  <2>7. ASSUME NEW c \in Clients, c # d, cur[c] # None
        PROVE  strm'[cur[c]] = strm[cur[c]]
    <3>1. cur[c] \in Streams /\ cur[c] # cur[d] /\ cur[c] # n
      BY <1>a, <2>3, <2>7 DEF StreamsMatch, ClientTypes
    <3> QED BY <1>a, <2>5, <3>1, CutEffect
  <2>8. StreamsMatch'
    <3> SUFFICES ASSUME NEW c \in Clients
                 PROVE  /\ cur'[c] # None => /\ strm'[cur'[c]].place # "unused"
                                             /\ strm'[cur'[c]].client = c
                                             /\ strm'[cur'[c]].node = sess'[c]
                                             /\ sess'[c] # Home[c]
                        /\ stmt'[c] # "none" => cur'[c] # None
                        /\ sess'[c] # None => Home[c] \in up'
      BY DEF StreamsMatch
    <3>1. CASE c = d
      BY <1>a, <2>1, <2>2, <2>4, <3>1 DEF StreamsMatch, ClientTypes, Local
    <3>2. CASE c # d
      <4>1. cur'[c] = cur[c] /\ stmt'[c] = stmt[c] /\ sess'[c] = sess[c] /\ up' = up
        BY <1>a, <2>1, <2>2, <3>2 DEF ClientTypes
      <4> QED BY <1>a, <2>7, <3>2, <4>1 DEF StreamsMatch
    <3> QED BY <3>1, <3>2
  <2> QED BY <2>6, <2>8
<1> QED BY <1>a, <1>1, <1>2, <1>3, <1>4, <1>5, <1>6, <1>7, ClientSteps

\* So does a step of a stream's task.
LEMMA OwnerKeepsStreams ==
  ASSUME Base, NEW s \in Streams, OwnerNext(s)
  PROVE  StreamsUsed' /\ StreamsMatch'
<1> USE Distinct DEF nodeVars, clientVars
<1>a. ClientTypes /\ OwnerTypes /\ StreamsUsed /\ StreamsMatch
  BY DEF Base
<1>b. UNCHANGED <<sess, cur, stmt, up>>
  BY DEF OwnerNext, Accept, Refuse, Check, Execute, Eof, OwnerTimesOut
<1>1. CASE Ends(s)
  <2>1. strm[s].place # "unused"
    BY <1>1 DEF Ends
  <2>2. /\ \A t \in Streams : t # s => strm'[t] = strm[t]
        /\ cur[strm[s].client] # s => strm'[s] = Unused
        /\ cur[strm[s].client] = s =>
              /\ strm'[s].place = "ended" /\ strm'[s].client = strm[s].client
              /\ strm'[s].node = strm[s].node
    BY <1>1, <1>a, EndEffect DEF Ends
  <2>3. StreamsUsed'
    BY <1>a, <2>1, <2>2, PlaceOfUnused DEF StreamsUsed
  <2>4. StreamsMatch'
    BY <1>a, <1>b, <2>2 DEF StreamsMatch, ClientTypes
  <2> QED BY <2>3, <2>4
<1>2. CASE Accept(s) \/ Starts(s) \/ Execute(s)
  <2>1. strm[s].place # "unused"
    BY <1>2 DEF Accept, Starts, Execute
  <2>2. /\ \A t \in Streams : t # s => strm'[t] = strm[t]
        /\ strm'[s].place # "unused" /\ strm'[s].client = strm[s].client
        /\ strm'[s].node = strm[s].node
    <3>1. CASE Accept(s)
      BY <1>a, <3>1 DEF Accept, OwnerTypes, StreamRecord
    <3>2. CASE Starts(s)
      BY <1>a, <3>2 DEF Starts, OwnerTypes, StreamRecord
    <3>3. CASE Execute(s)
      BY <1>a, <3>3, DoneEffect DEF Execute
    <3> QED BY <1>2, <3>1, <3>2, <3>3
  <2>3. StreamsUsed'
    BY <1>a, <2>1, <2>2 DEF StreamsUsed
  <2>4. StreamsMatch'
    BY <1>a, <1>b, <2>2 DEF StreamsMatch, ClientTypes
  <2> QED BY <2>3, <2>4
<1> QED BY <1>1, <1>2, OwnerSteps

\* A crash, a stream at a time.
LEMMA CrashEffect ==
  ASSUME Base, NEW n \in Nodes, Crash(n), NEW s \in Streams
  PROVE  /\ strm[s].node = n =>
              \/ /\ ~(strm[s].client \in Clients /\ Home[strm[s].client] = n)
                 /\ cur[strm[s].client] = s
                 /\ strm'[s].place = "ended" /\ strm'[s].client = strm[s].client
                 /\ strm'[s].node = n /\ strm'[s].req = "none"
                 /\ strm'[s].reply = "none"
              \/ /\ (strm[s].client \in Clients /\ Home[strm[s].client] = n)
                   \/ cur[strm[s].client] # s
                 /\ strm'[s] = Unused
         /\ strm[s].node # n =>
              \/ strm'[s] = strm[s]
              \/ /\ strm[s].client \in Clients /\ Home[strm[s].client] = n
                 /\ \/ strm[s].place = "ended" /\ strm'[s] = Unused
                    \/ /\ strm'[s].place = strm[s].place /\ strm'[s].client = strm[s].client
                       /\ strm'[s].node = strm[s].node /\ strm'[s].fresh = strm[s].fresh
<1> DEFINE gone == {c \in Clients : Home[c] = n}
           S == {t \in Streams : strm[t].client \in gone}
<1>1. strm'[s] = IF strm[s].node = n /\ strm[s].client \notin gone /\ cur[strm[s].client] = s
                   THEN [Unused EXCEPT !.client = strm[s].client, !.node = n, !.place = "ended"]
                 ELSE IF strm[s].node = n THEN Unused
                 ELSE Cut(S)[s]
  BY DEF Crash
<1>2. s \in S <=> strm[s].client \in Clients /\ Home[strm[s].client] = n
  OBVIOUS
<1>3. strm[s].client \in gone <=> strm[s].client \in Clients /\ Home[strm[s].client] = n
  OBVIOUS
<1> HIDE DEF gone, S
<1> DEFINE e == [Unused EXCEPT !.client = strm[s].client, !.node = n, !.place = "ended"]
<1>e. /\ e.place = "ended" /\ e.client = strm[s].client /\ e.node = n
      /\ e.req = "none" /\ e.reply = "none"
  BY DEF Unused
<1> HIDE DEF e
<1>4. CASE strm[s].node = n
  <2>1. CASE strm[s].client \notin gone /\ cur[strm[s].client] = s
    <3>1. strm'[s] = e
      BY <1>1, <1>4, <2>1 DEF e
    <3> QED BY <1>3, <1>4, <1>e, <2>1, <3>1
  <2>2. CASE ~(strm[s].client \notin gone /\ cur[strm[s].client] = s)
    <3>1. strm'[s] = Unused
      BY <1>1, <1>4, <2>2
    <3> QED BY <1>3, <1>4, <2>2, <3>1
  <2> QED BY <2>1, <2>2
<1>5. CASE strm[s].node # n
  <2>1. strm'[s] = Cut(S)[s]
    BY <1>1, <1>5
  <2> QED BY <1>2, <1>5, <2>1, CutEffect DEF Base
<1> QED BY <1>4, <1>5

\* So does a step of a node.
LEMMA NodeKeepsStreams ==
  ASSUME Base, NEW n \in Nodes, NodeNext(n)
  PROVE  StreamsUsed' /\ StreamsMatch'
<1> USE Distinct DEF clientVars, ownerVars
<1>a. ClientTypes /\ OwnerTypes /\ StreamsUsed /\ StreamsMatch
  BY DEF Base
<1>1. CASE Crash(n)
  <2>1. StreamsUsed'
    <3> SUFFICES ASSUME NEW s \in Streams
                 PROVE  /\ strm'[s].place = "unused" => strm'[s] = Unused
                        /\ strm'[s].place # "unused" =>
                             strm'[s].client \in Clients /\ strm'[s].node \in Nodes
      BY DEF StreamsUsed
    <3>1. CASE strm[s].place = "unused"
      <4>1. strm[s] = Unused /\ strm[s].client = None /\ strm[s].node = None
        BY <1>a, <3>1, PlaceOfUnused DEF StreamsUsed
      <4>2. strm[s].node # n /\ strm[s].client \notin Clients
        BY <4>1
      <4>3. strm'[s] = strm[s]
        BY <1>1, <4>2, CrashEffect
      <4> QED BY <4>1, <4>3, PlaceOfUnused
    <3>2. CASE strm[s].place # "unused"
      <4>1. strm[s].client \in Clients /\ strm[s].node \in Nodes
        BY <1>a, <3>2 DEF StreamsUsed
      <4>2. \/ strm'[s] = Unused
            \/ /\ strm'[s].place # "unused" /\ strm'[s].client = strm[s].client
               /\ strm'[s].node = strm[s].node
        BY <1>1, <3>2, CrashEffect
      <4> QED BY <4>1, <4>2, PlaceOfUnused
    <3> QED BY <3>1, <3>2
  <2>2. \A c \in Clients : /\ sess'[c] = IF Home[c] = n THEN None ELSE sess[c]
                           /\ cur'[c] = IF Home[c] = n THEN None ELSE cur[c]
                           /\ stmt'[c] = IF Home[c] = n THEN "none" ELSE stmt[c]
    BY <1>1 DEF Crash
  <2>3. up' = up \ {n}
    BY <1>1 DEF Crash
  <2>a. ASSUME NEW s \in Streams, strm[s].place # "unused",
               Home[strm[s].client] # n, cur[strm[s].client] = s
        PROVE  /\ strm'[s].place # "unused" /\ strm'[s].client = strm[s].client
               /\ strm'[s].node = strm[s].node
    <3>1. CASE strm[s].node = n
      BY <1>1, <2>a, <3>1, CrashEffect
    <3>2. CASE strm[s].node # n
      BY <1>1, <2>a, <3>2, CrashEffect
    <3> QED BY <3>1, <3>2
  <2>4. ASSUME NEW c \in Clients, Home[c] # n, cur[c] # None
        PROVE  /\ strm'[cur[c]].place # "unused" /\ strm'[cur[c]].client = c
               /\ strm'[cur[c]].node = strm[cur[c]].node
    <3>1. cur[c] \in Streams /\ strm[cur[c]].client = c /\ strm[cur[c]].place # "unused"
      BY <1>a, <2>4 DEF StreamsMatch, ClientTypes
    <3> QED BY <2>4, <2>a, <3>1
  <2>5. StreamsMatch'
    <3> SUFFICES ASSUME NEW c \in Clients
                 PROVE  /\ cur'[c] # None => /\ strm'[cur'[c]].place # "unused"
                                             /\ strm'[cur'[c]].client = c
                                             /\ strm'[cur'[c]].node = sess'[c]
                                             /\ sess'[c] # Home[c]
                        /\ stmt'[c] # "none" => cur'[c] # None
                        /\ sess'[c] # None => Home[c] \in up'
      BY DEF StreamsMatch
    <3> QED BY <1>a, <2>2, <2>3, <2>4 DEF StreamsMatch
  <2> QED BY <2>1, <2>5
<1>2. CASE CloseChannel(n)
  <2>1. \A s \in Streams : /\ strm'[s].place = strm[s].place /\ strm'[s].client = strm[s].client
                           /\ strm'[s].node = strm[s].node
                           /\ strm[s].node # n => strm'[s] = strm[s]
    BY <1>2, <1>a DEF CloseChannel, OwnerTypes, StreamRecord
  <2>2. StreamsUsed'
    BY <1>a, <2>1, PlaceOfUnused DEF StreamsUsed
  <2>3. StreamsMatch'
    BY <1>2, <1>a, <2>1 DEF CloseChannel, StreamsMatch, ClientTypes
  <2> QED BY <2>2, <2>3
<1>3. CASE Boot(n) \/ AnnounceLeave(n) \/ \E m \in Nodes : Learn(n, m)
  <2>1. UNCHANGED <<strm, sess, cur, stmt>> /\ up \subseteq up'
    BY <1>3 DEF Boot, AnnounceLeave, Learn
  <2> QED BY <1>a, <2>1 DEF StreamsUsed, StreamsMatch
<1> QED BY <1>1, <1>2, <1>3 DEF NodeNext

\* So does the passing of an interval.
LEMMA TickKeepsStreams ==
  ASSUME Base, Tick
  PROVE  StreamsUsed' /\ StreamsMatch'
<1>1. \A s \in Streams : /\ strm'[s].place = strm[s].place /\ strm'[s].client = strm[s].client
                         /\ strm'[s].node = strm[s].node
                         /\ strm[s] = Unused => strm'[s] = strm[s]
  BY DEF Tick, Base, OwnerTypes, StreamRecord, Unused
<1>2. UNCHANGED <<sess, cur, stmt, up>>
  BY DEF Tick, clientVars
<1>3. StreamsUsed'
  BY <1>1 DEF Base, StreamsUsed
<1>4. StreamsMatch'
  BY <1>1, <1>2 DEF Base, StreamsMatch, ClientTypes
<1> QED BY <1>3, <1>4

\* Every step keeps the types, the streams and their clients together.
LEMMA BaseStep ==
  ASSUME Base, KnowsItself, Next
  PROVE  Base'
<1>1. NodeTypes' /\ ClientTypes' /\ OwnerTypes'
  BY ClientKeepsTypes, OwnerKeepsTypes, NodeKeepsTypes, TickKeepsTypes DEF Next, Base
<1>2. StreamsUsed' /\ StreamsMatch'
  BY ClientKeepsStreams, OwnerKeepsStreams, NodeKeepsStreams, TickKeepsStreams DEF Next
<1> QED BY <1>1, <1>2 DEF Base

-----------------------------------------------------------------------------
(* Streams that are served.                                                *)

\* s is served before the step if and only if after it, for the same client
\* on the same node.
Kept(s) ==
  (strm[s].place \in Live \/ strm'[s].place \in Live) =>
    /\ strm'[s].place = strm[s].place /\ strm'[s].client = strm[s].client
    /\ strm'[s].node = strm[s].node /\ strm'[s].fresh = strm[s].fresh

\* Closing the client side of streams does not change which are served.
LEMMA CutKeepsServed ==
  ASSUME OwnerTypes, NEW S, NEW s \in Streams
  PROVE  (strm[s].place \in Live \/ Cut(S)[s].place \in Live) =>
           /\ Cut(S)[s].place = strm[s].place /\ Cut(S)[s].client = strm[s].client
           /\ Cut(S)[s].node = strm[s].node /\ Cut(S)[s].fresh = strm[s].fresh
BY CutEffect, PlaceOfUnused DEF Live

\* No step of a client changes which streams are served, nor the state of the nodes.
LEMMA ClientKeepsServed ==
  ASSUME Base, NEW d \in Clients, ClientNext(d)
  PROVE  /\ \A s \in Streams : Kept(s)
         /\ UNCHANGED <<up, draining, shut, know, demoted>>
<1> USE DEF nodeVars, ownerVars
<1>a. ClientTypes /\ OwnerTypes /\ StreamsMatch
  BY DEF Base
<1>b. UNCHANGED <<up, draining, shut, know, demoted>>
  BY DEF ClientNext, Resolve, Disconnect, Rest, Receive, ExchangeFails, ReplyTimeout,
         RunLocal, Send, DialAndSend, DialFails
<1> SUFFICES ASSUME NEW s \in Streams PROVE Kept(s)
  BY <1>b
<1>1. CASE UNCHANGED strm
  BY <1>1 DEF Kept
<1>2. CASE Loses(d)
  <2>1. strm' = Cut({cur[d]})
    BY <1>2 DEF Loses, DropSession, DropStream
  <2> QED BY <1>a, <2>1, CutKeepsServed DEF Kept
<1>3. CASE Reads(d)
  BY <1>a, <1>3 DEF Reads, Kept, OwnerTypes, StreamRecord
<1>4. ASSUME NEW q \in Statements, Send(d, q) PROVE Kept(s)
  BY <1>a, <1>4 DEF Send, Kept, OwnerTypes, StreamRecord
<1>5. ASSUME NEW q \in Statements, DialAndSend(d, q) PROVE Kept(s)
  <2>1. PICK n \in Streams :
          /\ strm[n] = Unused
          /\ strm' = [Cut({cur[d]}) EXCEPT ![n] =
               [Unused EXCEPT !.client = d, !.node = sess[d], !.place = "opened", !.req = q]]
    BY <1>5 DEF DialAndSend
  <2>2. CASE s = n
    <3>1. strm'[s].place = "opened"
      BY <1>a, <2>1, <2>2, CutType DEF Unused
    <3> QED BY <2>1, <2>2, <3>1, PlaceOfUnused DEF Kept, Live
  <2>3. CASE s # n
    <3>1. strm'[s] = Cut({cur[d]})[s]
      BY <1>a, <2>1, <2>3, CutType
    <3> QED BY <1>a, <3>1, CutKeepsServed DEF Kept
  <2> QED BY <2>2, <2>3
<1>6. ASSUME NEW q \in Statements, RunLocal(d, q) PROVE UNCHANGED strm
  BY <1>6 DEF RunLocal
<1>7. Resolve(d) \/ Rest(d) => UNCHANGED strm
  BY DEF Resolve, Rest
<1> QED BY <1>a, <1>1, <1>2, <1>3, <1>4, <1>5, <1>6, <1>7, ClientSteps

\* Nor does a node's, except that a crash takes the node's streams.
LEMMA NodeKeepsServed ==
  ASSUME Base, NEW n \in Nodes, NodeNext(n), NEW s \in Streams
  PROVE  Kept(s) \/ (Crash(n) /\ strm[s].node = n /\ strm'[s].place \notin Live)
<1>a. OwnerTypes
  BY DEF Base
<1>1. CASE Crash(n)
  <2>1. CASE strm[s].node = n
    BY <1>1, <2>1, CrashEffect, PlaceOfUnused DEF Live
  <2>2. CASE strm[s].node # n
    BY <1>1, <2>2, CrashEffect, PlaceOfUnused DEF Kept, Live
  <2> QED BY <2>1, <2>2
<1>2. CASE CloseChannel(n)
  BY <1>a, <1>2 DEF CloseChannel, Kept, OwnerTypes, StreamRecord
<1>3. CASE Boot(n) \/ AnnounceLeave(n) \/ \E m \in Nodes : Learn(n, m)
  <2>1. UNCHANGED strm
    BY <1>3 DEF Boot, AnnounceLeave, Learn, ownerVars
  <2> QED BY <2>1 DEF Kept
<1> QED BY <1>1, <1>2, <1>3 DEF NodeNext

-----------------------------------------------------------------------------
(* DemotedKnows and DemotedIsQuiet.                                        *)

\* The owner a node computes depends on its membership only.
LEMMA SameMembershipSameOwner ==
  ASSUME NEW n, know'[n] = know[n]
  PROVE  Owns(n)' <=> Owns(n)
BY DEF Owns, HrwOwner

\* A node that learns that it owns the site is not demoted any more.
LEMMA LearnedDemotes ==
  ASSUME NodeTypes, DemotedKnows, NEW n \in Nodes, NEW k, Learned(n, k)
  PROVE  demoted' \subseteq demoted /\ \A m \in demoted' : ~Owns(m)'
<1>1. demoted' = IF Owns(n)' THEN demoted \ {n} ELSE demoted
  BY DEF Learned
<1>2. demoted' \subseteq demoted
  BY <1>1
<1>3. ASSUME NEW m \in demoted' PROVE ~Owns(m)'
  <2>1. CASE m = n
    BY <1>1, <1>3, <2>1
  <2>2. CASE m # n
    <3>1. m \in demoted /\ m \in Nodes /\ know'[m] = know[m]
      BY <1>2, <1>3, <2>2 DEF Learned, NodeTypes
    <3> QED BY <3>1, SameMembershipSameOwner DEF DemotedKnows
  <2> QED BY <2>1, <2>2
<1> QED BY <1>2, <1>3

\* Every step keeps DemotedKnows.
LEMMA DemotedStep ==
  ASSUME Base, DemotedKnows, Next
  PROVE  DemotedKnows'
<1>a. NodeTypes /\ OwnerTypes
  BY DEF Base
<1>1. ASSUME NEW c \in Clients, ClientNext(c) PROVE DemotedKnows'
  <2>1. know' = know /\ demoted' = demoted /\ \A s \in Streams : Kept(s)
    BY <1>1, ClientKeepsServed
  <2>2. \A n \in demoted' : ~Owns(n)'
    BY <2>1, SameMembershipSameOwner DEF DemotedKnows
  <2> QED BY <2>1, <2>2 DEF DemotedKnows, Kept
<1>2. ASSUME NEW s \in Streams, OwnerNext(s) PROVE DemotedKnows'
  <2>1. know' = know /\ demoted' = demoted
    BY <1>2 DEF OwnerNext, Accept, Refuse, Check, Execute, Eof, OwnerTimesOut, nodeVars
  <2>2. \A n \in demoted' : ~Owns(n)'
    BY <2>1, SameMembershipSameOwner DEF DemotedKnows
  <2>3. \A t \in Streams : t # s => strm'[t] = strm[t]
    <3>1. CASE Accept(s) \/ Starts(s)
      BY <1>a, <3>1 DEF Accept, Starts, OwnerTypes
    <3>2. CASE Ends(s) \/ Execute(s)
      BY <1>a, <3>2, EndEffect, DoneEffect DEF Ends, Execute
    <3> QED BY <1>2, <3>1, <3>2, OwnerSteps
  <2>4. strm'[s].fresh /\ strm'[s].place \in Live => strm'[s].node \notin demoted
    <3>1. CASE Accept(s)
      BY <1>a, <3>1 DEF Accept, OwnerTypes, StreamRecord, DemotedKnows, Live
    <3>2. CASE Ends(s)
      <4>1. strm'[s].place \notin Live
        BY <1>a, <3>2, EndEffect, PlaceOfUnused DEF Ends, Live
      <4> QED BY <4>1
    <3>3. CASE Starts(s)
      <4>1. strm'[s].node = strm[s].node
        BY <1>a, <3>3 DEF Starts, OwnerTypes, StreamRecord
      <4>2. CASE RecheckDue(s)
        BY <3>3, <4>1, <4>2 DEF Starts, DemotedKnows
      <4>3. CASE ~RecheckDue(s)
        BY <3>3, <4>1, <4>3 DEF Starts, RecheckDue, DemotedKnows, Live
      <4> QED BY <4>2, <4>3
    <3>4. CASE Execute(s)
      <4>1. strm'[s].node = strm[s].node /\ strm'[s].fresh = strm[s].fresh
        BY <1>a, <3>4, DoneEffect DEF Execute
      <4> QED BY <3>4, <4>1 DEF Execute, DemotedKnows, Live
    <3> QED BY <1>2, <3>1, <3>2, <3>3, <3>4, OwnerSteps
  <2> QED BY <2>1, <2>2, <2>3, <2>4 DEF DemotedKnows
<1>3. ASSUME NEW n \in Nodes, NodeNext(n) PROVE DemotedKnows'
  <2>1. demoted' \subseteq demoted /\ \A m \in demoted' : ~Owns(m)'
    <3>1. CASE Crash(n)
      <4>1. demoted' = demoted \ {n} /\ \A m \in Nodes : m # n => know'[m] = know[m]
        BY <1>a, <3>1 DEF Crash, NodeTypes
      <4> QED BY <1>a, <4>1, SameMembershipSameOwner DEF DemotedKnows, NodeTypes
    <3>2. CASE CloseChannel(n)
      BY <3>2, SameMembershipSameOwner DEF CloseChannel, DemotedKnows
    <3>3. CASE Boot(n) \/ AnnounceLeave(n) \/ \E m \in Nodes : Learn(n, m)
      BY <1>a, <3>3, LearnedDemotes DEF Boot, AnnounceLeave, Learn
    <3> QED BY <1>3, <3>1, <3>2, <3>3 DEF NodeNext
  <2> QED BY <1>3, <2>1, NodeKeepsServed DEF DemotedKnows, Kept
<1>4. CASE Tick
  <2>1. demoted' = {n \in up : ~Owns(n)} /\ know' = know
    BY <1>4 DEF Tick
  <2>2. \A s \in Streams : ~strm'[s].fresh
    BY <1>a, <1>4 DEF Tick, OwnerTypes, StreamRecord
  <2> QED BY <2>1, <2>2, SameMembershipSameOwner DEF DemotedKnows
<1> QED BY <1>1, <1>2, <1>3, <1>4 DEF Next

-----------------------------------------------------------------------------
(* LockDiesWithSession.                                                    *)

\* The lock table without some sessions.
LEMMA FreedEffect ==
  ASSUME NEW S, NEW n \in Nodes
  PROVE  /\ holder[n] \in S => Freed(S)[n] = None
         /\ holder[n] \notin S => Freed(S)[n] = holder[n]
BY DEF Freed

\* The lock of node n is held by a session that lives.
LiveHolder(n) ==
  /\ holder[n] \in Streams => /\ strm[holder[n]].node = n
                              /\ strm[holder[n]].place \in Live
  /\ holder[n] \in Clients => n \in up /\ sess[holder[n]] = n /\ Home[holder[n]] = n

\* LockDiesWithSession, a node at a time.
LEMMA LocksByNode == LockDiesWithSession <=> \A n \in Nodes : LiveHolder(n)
BY DEF LockDiesWithSession, LiveHolder, Live

\* A step of a client leaves no lock with a session that is gone.
LEMMA ClientKeepsLocks ==
  ASSUME Base, LockDiesWithSession, NEW d \in Clients, ClientNext(d), NEW n \in Nodes
  PROVE  LiveHolder(n)'
<1> USE Distinct DEF ownerVars
<1>a. ClientTypes /\ OwnerTypes /\ StreamsMatch /\ LiveHolder(n)
  BY LocksByNode DEF Base
<1>b. up' = up /\ \A s \in Streams : Kept(s)
  BY ClientKeepsServed
<1>c. holder[n] \in Streams =>
        strm'[holder[n]].node = n /\ strm'[holder[n]].place \in Live
  BY <1>a, <1>b DEF LiveHolder, Kept
<1>1. CASE holder' = holder /\ sess' = sess
  BY <1>a, <1>b, <1>c, <1>1 DEF LiveHolder
<1>2. CASE Resolve(d)
  <2>1. holder[n] # d
    BY <1>a, <1>2 DEF Resolve, LiveHolder
  <2>2. holder' = holder /\ \A c \in Clients : c # d => sess'[c] = sess[c]
    BY <1>2 DEF Resolve, ClientTypes
  <2> QED BY <1>a, <1>b, <1>c, <2>1, <2>2 DEF LiveHolder
<1>3. CASE Loses(d)
  <2>1. CASE DropSession(d)
    <3>1. /\ holder' = Freed({d}) /\ \A c \in Clients : c # d => sess'[c] = sess[c]
      BY <1>a, <2>1 DEF DropSession, ClientTypes
    <3>2. holder'[n] = None \/ (holder'[n] = holder[n] /\ holder[n] # d)
      BY <3>1, FreedEffect
    <3> QED BY <1>a, <1>b, <1>c, <3>1, <3>2 DEF LiveHolder
  <2>2. CASE DropStream(d)
    BY <1>1, <2>2 DEF DropStream
  <2> QED BY <1>3, <2>1, <2>2 DEF Loses
<1>4. ASSUME NEW q \in Statements, RunLocal(d, q) PROVE LiveHolder(n)'
  <2>1. sess' = sess /\ sess[d] = Home[d]
    BY <1>4 DEF RunLocal, Local
  <2>2. holder' \in {[holder EXCEPT ![Home[d]] = d], Freed({d}), holder}
    BY <1>4 DEF RunLocal
  <2>3. holder'[n] = holder[n] \/ holder'[n] = None \/ (holder'[n] = d /\ n = Home[d])
    BY <1>a, <2>2, FreedEffect DEF OwnerTypes
  <2>4. Home[d] \in Nodes /\ Home[d] \in up
    BY <1>a, <2>1, ClientsAssumption DEF StreamsMatch
  <2> QED BY <1>a, <1>b, <1>c, <2>1, <2>3, <2>4 DEF LiveHolder
<1>5. ASSUME NEW q \in Statements, Send(d, q) \/ DialAndSend(d, q) PROVE LiveHolder(n)'
  BY <1>1, <1>5 DEF Send, DialAndSend
<1>6. CASE Rest(d)
  BY <1>1, <1>6 DEF Rest
<1>7. CASE Reads(d)
  BY <1>1, <1>7 DEF Reads
<1> QED BY <1>a, <1>2, <1>3, <1>4, <1>5, <1>6, <1>7, ClientSteps

\* Nor does a step of a stream's task.
LEMMA OwnerKeepsLocks ==
  ASSUME Base, LockDiesWithSession, NEW s \in Streams, OwnerNext(s), NEW n \in Nodes
  PROVE  LiveHolder(n)'
<1> USE Distinct DEF nodeVars, clientVars
<1>a. ClientTypes /\ OwnerTypes /\ StreamsUsed /\ LiveHolder(n)
  BY LocksByNode DEF Base
<1>b. UNCHANGED <<up, sess>>
  BY DEF OwnerNext, Accept, Refuse, Check, Execute, Eof, OwnerTimesOut
<1>1. CASE Accept(s) \/ Starts(s)
  <2>1. /\ holder' = holder /\ \A t \in Streams : t # s => strm'[t] = strm[t]
        /\ strm'[s].node = strm[s].node
        /\ strm[s].place \in Live => strm'[s].place \in Live
    BY <1>a, <1>1 DEF Accept, Starts, OwnerTypes, StreamRecord, Live
  <2> QED BY <1>a, <1>b, <2>1 DEF LiveHolder
<1>2. CASE Ends(s)
  <2>1. holder' = Freed({s}) /\ \A t \in Streams : t # s => strm'[t] = strm[t]
    BY <1>a, <1>2, EndEffect DEF Ends
  <2>2. holder'[n] = None \/ (holder'[n] = holder[n] /\ holder[n] # s)
    BY <2>1, FreedEffect
  <2> QED BY <1>a, <1>b, <2>1, <2>2 DEF LiveHolder
<1>3. CASE Execute(s)
  <2>1. /\ \A t \in Streams : t # s => strm'[t] = strm[t]
        /\ strm'[s].place = "serving" /\ strm'[s].node = strm[s].node
    BY <1>a, <1>3, DoneEffect DEF Execute
  <2>2. holder' \in {holder, [holder EXCEPT ![strm[s].node] = s], Freed({s})}
    BY <1>3 DEF Execute
  <2>3. holder'[n] = holder[n] \/ holder'[n] = None \/ (holder'[n] = s /\ n = strm[s].node)
    BY <1>a, <2>2, FreedEffect DEF OwnerTypes
  <2> QED BY <1>a, <1>b, <2>1, <2>3 DEF LiveHolder, Live
<1> QED BY <1>1, <1>2, <1>3, OwnerSteps

\* Nor does a step of a node.
LEMMA NodeKeepsLocks ==
  ASSUME Base, LockDiesWithSession, NEW m \in Nodes, NodeNext(m), NEW n \in Nodes
  PROVE  LiveHolder(n)'
<1> USE Distinct DEF clientVars, ownerVars
<1>a. ClientTypes /\ OwnerTypes /\ LiveHolder(n)
  BY LocksByNode DEF Base
<1>1. CASE Crash(m)
  <2>1. CASE n = m
    <3>1. holder'[n] = None
      BY <1>a, <1>1, <2>1 DEF Crash, OwnerTypes
    <3> QED BY <3>1 DEF LiveHolder
  <2>2. CASE n # m
    <3>1. holder'[n] = holder[n] /\ up' = up \ {m}
      BY <1>a, <1>1, <2>2 DEF Crash, OwnerTypes
    <3>2. \A c \in Clients : Home[c] # m => sess'[c] = sess[c]
      BY <1>1 DEF Crash
    <3>3. holder[n] \in Streams => Kept(holder[n])
      BY <1>a, <2>2, NodeKeepsServed DEF LiveHolder
    <3> QED BY <1>a, <2>2, <3>1, <3>2, <3>3 DEF LiveHolder, Kept
  <2> QED BY <2>1, <2>2
<1>2. CASE ~Crash(m)
  <2>1. holder' = holder /\ sess' = sess /\ up \subseteq up'
    BY <1>2 DEF NodeNext, Boot, AnnounceLeave, CloseChannel, Learn
  <2>2. \A s \in Streams : Kept(s)
    BY <1>2, NodeKeepsServed
  <2> QED BY <1>a, <2>1, <2>2 DEF LiveHolder, Kept
<1> QED BY <1>1, <1>2

\* Nor does any step.
LEMMA LockStep ==
  ASSUME Base, LockDiesWithSession, Next
  PROVE  LockDiesWithSession'
<1>1. SUFFICES ASSUME NEW n \in Nodes PROVE LiveHolder(n)'
  BY LocksByNode DEF LockDiesWithSession, LiveHolder, Live
<1>2. CASE Tick
  <2>1. \A s \in Streams : strm'[s].place = strm[s].place /\ strm'[s].node = strm[s].node
    BY <1>2 DEF Tick, Base, OwnerTypes, StreamRecord
  <2>2. holder' = holder /\ sess' = sess /\ up' = up
    BY <1>2 DEF Tick, clientVars
  <2> QED BY <2>1, <2>2, LocksByNode DEF LiveHolder
<1> QED BY <1>2, ClientKeepsLocks, OwnerKeepsLocks, NodeKeepsLocks DEF Next

-----------------------------------------------------------------------------
(* Talk, GrantHeld and BeliefHeld.                                         *)

\* c counts on its lock and its stream was not swapped.
Counts(c) == c \in believes /\ c \notin swapped

\* The three, for one client.
Told(c) ==
  /\ cur[c] # None =>
       /\ stmt[c] = "none" => strm[cur[c]].req = "none" /\ strm[cur[c]].reply = "none"
       /\ strm[cur[c]].req # "none" => /\ strm[cur[c]].req = stmt[c]
                                       /\ strm[cur[c]].reply = "none"
       /\ stmt[c] = "lock" /\ strm[cur[c]].reply = "ok"
            => strm[cur[c]].place = "ended" \/ Holds(c)
  /\ Counts(c) /\ cur[c] = None => Local(c)
  /\ Counts(c) /\ cur[c] # None =>
       \/ strm[cur[c]].place = "ended"
       \/ Holds(c)
       \/ stmt[c] \in {"unlock", "release"} /\ strm[cur[c]].reply = "ok"

\* Talk, GrantHeld and BeliefHeld, a client at a time.
LEMMA ToldByClient ==
  ASSUME ClientTypes
  PROVE  Talk /\ GrantHeld /\ BeliefHeld <=> \A c \in Clients : Told(c)
BY DEF ClientTypes, Told, Counts, Talk, GrantHeld, BeliefHeld

\* A step that changes nothing of what a client knows.
LEMMA ToldStays ==
  ASSUME NEW c, Told(c), cur'[c] = cur[c], stmt'[c] = stmt[c],
         Counts(c)' => Counts(c) /\ sess'[c] = sess[c],
         cur[c] # None => /\ strm'[cur[c]].req = strm[cur[c]].req
                          /\ strm'[cur[c]].reply = strm[cur[c]].reply
                          /\ strm'[cur[c]].place = strm[cur[c]].place
                          /\ Holds(c) => Holds(c)'
  PROVE  Told(c)'
BY DEF Told, Local

\* What a step of one client leaves alone of another.
LEMMA OtherClient ==
  ASSUME Base, NEW d \in Clients, ClientNext(d), NEW c \in Clients, c # d
  PROVE  /\ cur'[c] = cur[c] /\ stmt'[c] = stmt[c] /\ sess'[c] = sess[c]
         /\ Counts(c)' <=> Counts(c)
         /\ cur[c] # None => strm'[cur[c]] = strm[cur[c]] /\ (Holds(c) => Holds(c)')
<1> USE Distinct DEF nodeVars, ownerVars
<1>a. ClientTypes /\ OwnerTypes /\ StreamsUsed /\ StreamsMatch
  BY DEF Base
<1>b. \A q : Answered(d, q) => (Counts(c)' <=> Counts(c))
  <2>1. \A q : Answered(d, q) => /\ believes' \in {believes \cup {d}, believes \ {d}, believes}
                                 /\ swapped' \in {swapped \ {d}, swapped}
    BY DEF Answered
  <2> QED BY <2>1 DEF Counts
<1>c. cur[c] # None => cur[c] \in Streams /\ cur[c] # cur[d] /\ strm[cur[c]].node \in Nodes
  BY <1>a DEF ClientTypes, StreamsMatch, StreamsUsed
<1>d. \A n \in Nodes : holder'[n] = holder[n] \/ holder[n] \in {None, d}
  <2>1. Resolve(d) \/ Rest(d) \/ Reads(d) => holder' = holder
    BY DEF Resolve, Rest, Reads
  <2>2. Loses(d) => holder' = holder \/ holder' = Freed({d})
    BY DEF Loses, DropSession, DropStream
  <2>3. \A q \in Statements : Send(d, q) \/ DialAndSend(d, q) => holder' = holder
    BY DEF Send, DialAndSend
  <2>4. ASSUME NEW q \in Statements, RunLocal(d, q), NEW n \in Nodes
        PROVE  holder'[n] = holder[n] \/ holder[n] \in {None, d}
    <3>1. \/ holder' = holder \/ holder' = Freed({d})
          \/ holder' = [holder EXCEPT ![Home[d]] = d] /\ holder[Home[d]] \in {None, d}
      BY <2>4 DEF RunLocal
    <3> QED BY <1>a, <3>1, FreedEffect DEF OwnerTypes
  <2>5. holder' = Freed({d}) => \A n \in Nodes : holder'[n] = holder[n] \/ holder[n] \in {None, d}
    BY FreedEffect
  <2> QED BY <1>a, <2>1, <2>2, <2>3, <2>4, <2>5, ClientSteps
<1>e. /\ cur'[c] = cur[c] /\ stmt'[c] = stmt[c] /\ sess'[c] = sess[c]
      /\ Counts(c)' <=> Counts(c)
  <2>1. CASE Resolve(d) \/ Rest(d)
    BY <1>a, <2>1 DEF Resolve, Rest, ClientTypes, Counts
  <2>2. CASE Loses(d)
    BY <1>a, <2>2 DEF Loses, DropSession, DropStream, Forgets, ClientTypes, Counts
  <2>3. CASE Reads(d)
    BY <1>a, <1>b, <2>3 DEF Reads, ClientTypes, Counts
  <2>4. ASSUME NEW q \in Statements, RunLocal(d, q)
        PROVE  UNCHANGED <<cur, stmt, sess>> /\ (Counts(c)' <=> Counts(c))
    BY <1>b, <2>4 DEF RunLocal
  <2>5. ASSUME NEW q \in Statements, Send(d, q)
        PROVE  /\ UNCHANGED <<cur, sess>> /\ stmt'[c] = stmt[c] /\ (Counts(c)' <=> Counts(c))
    BY <1>a, <2>5 DEF Send, ClientTypes, Counts
  <2>6. ASSUME NEW q \in Statements, DialAndSend(d, q)
        PROVE  /\ sess' = sess /\ cur'[c] = cur[c] /\ stmt'[c] = stmt[c]
               /\ Counts(c)' <=> Counts(c)
    <3>1. swapped' \in {swapped \cup ({d} \cap believes), swapped} /\ believes' = believes
      BY <2>6 DEF DialAndSend
    <3>2. Counts(c)' <=> Counts(c)
      BY <3>1 DEF Counts
    <3> QED BY <1>a, <2>6, <3>2 DEF DialAndSend, ClientTypes
  <2> QED BY <1>a, <2>1, <2>2, <2>3, <2>4, <2>5, <2>6, ClientSteps
<1>f. ASSUME NEW s \in Streams, s = cur[c], s # cur[d] PROVE strm'[s] = strm[s]
  <2>1. Resolve(d) \/ Rest(d) => strm' = strm
    BY DEF Resolve, Rest
  <2>2. CASE Loses(d)
    <3>1. strm' = Cut({cur[d]})
      BY <2>2 DEF Loses, DropSession, DropStream
    <3> QED BY <1>a, <1>f, <3>1, CutEffect
  <2>3. CASE Reads(d)
    BY <1>a, <1>f, <2>3 DEF Reads, OwnerTypes
  <2>4. \A q \in Statements : RunLocal(d, q) => strm' = strm
    BY DEF RunLocal
  <2>5. ASSUME NEW q \in Statements, Send(d, q) PROVE strm'[s] = strm[s]
    BY <1>a, <1>f, <2>5 DEF Send, OwnerTypes
  <2>6. ASSUME NEW q \in Statements, DialAndSend(d, q) PROVE strm'[s] = strm[s]
    <3>1. PICK n \in Streams :
            /\ strm[n] = Unused
            /\ strm' = [Cut({cur[d]}) EXCEPT ![n] =
                 [Unused EXCEPT !.client = d, !.node = sess[d], !.place = "opened", !.req = q]]
      BY <2>6 DEF DialAndSend
    <3>2. s # n
      BY <1>a, <1>f, <3>1, PlaceOfUnused DEF StreamsMatch
    <3>3. strm'[s] = Cut({cur[d]})[s]
      BY <1>a, <3>1, <3>2, CutType
    <3> QED BY <1>a, <1>f, <3>3, CutEffect
  <2> QED BY <1>a, <2>1, <2>2, <2>3, <2>4, <2>5, <2>6, ClientSteps
<1>g. cur[c] # None => strm'[cur[c]] = strm[cur[c]]
  BY <1>c, <1>f
<1>h. cur[c] # None /\ Holds(c) => Holds(c)'
  <2>1. cur[c] # None /\ Holds(c) => holder'[strm[cur[c]].node] = cur[c]
    BY <1>c, <1>d DEF Holds
  <2> QED BY <1>e, <1>g, <2>1 DEF Holds
<1> QED BY <1>e, <1>g, <1>h

\* A step of a client keeps what every client is told right.
LEMMA ClientKeepsTold ==
  ASSUME Base, NEW d \in Clients, ClientNext(d), NEW c \in Clients, Told(c)
  PROVE  Told(c)'
<1> USE Distinct DEF nodeVars, ownerVars
<1>a. ClientTypes /\ OwnerTypes /\ StreamsUsed /\ StreamsMatch
  BY DEF Base
<1>1. CASE c # d
  BY <1>1, OtherClient, ToldStays
<1>2. CASE c = d
  <2>1. CASE Resolve(d)
    <3>1. sess[d] = None /\ cur' = cur /\ (Counts(d)' <=> Counts(d))
      BY <2>1 DEF Resolve, Counts
    <3>2. cur[d] = None
      BY <1>a, <3>1 DEF StreamsMatch, StreamsUsed, ClientTypes
    <3>3. ~Local(d)
      BY <3>1, ClientsAssumption DEF Local
    <3> QED BY <1>2, <3>1, <3>2, <3>3 DEF Told
  <2>2. CASE Loses(d)
    <3>1. cur'[d] = None /\ ~Counts(d)'
      BY <1>a, <2>2 DEF Loses, DropSession, DropStream, Forgets, ClientTypes, Counts
    <3> QED BY <1>2, <3>1 DEF Told
  <2>3. CASE Rest(d)
    <3>1. /\ UNCHANGED <<cur, stmt, sess, strm, holder>>
          /\ Counts(d)' <=> Counts(d)
      BY <2>3 DEF Rest, Counts
    <3> QED BY <1>2, <3>1 DEF Told, Holds, Local
  <2>4. CASE Reads(d)
    <3>1. cur[d] \in Streams
      BY <1>a, <2>4 DEF Reads, StreamsMatch, ClientTypes
    <3>2. /\ cur' = cur /\ stmt'[d] = "none" /\ sess' = sess /\ holder' = holder
      BY <1>a, <2>4 DEF Reads, ClientTypes
    <3>3. /\ strm'[cur[d]].reply = "none" /\ strm'[cur[d]].req = strm[cur[d]].req
          /\ strm'[cur[d]].place = strm[cur[d]].place /\ strm'[cur[d]].node = strm[cur[d]].node
      BY <1>a, <2>4, <3>1 DEF Reads, OwnerTypes, StreamRecord
    <3>4. strm[cur[d]].req = "none" /\ cur[d] # None
      BY <1>2, <2>4, <3>1 DEF Reads, Told
    <3>5. Holds(d)' <=> Holds(d)
      BY <3>2, <3>3 DEF Holds
    <3>6. Counts(d)' => strm[cur[d]].place = "ended" \/ Holds(d)
      <4>1. CASE strm[cur[d]].reply = "ok"
        <5>1. believes' = CASE stmt[d] = "lock" -> believes \cup {d}
                            [] stmt[d] \in {"unlock", "release"} -> believes \ {d}
                            [] OTHER -> believes
          BY <2>4, <4>1 DEF Reads, Answered
        <5>2. CASE stmt[d] = "lock"
          BY <1>2, <3>4, <4>1, <5>2 DEF Told
        <5>3. CASE stmt[d] \in {"unlock", "release"}
          <6>1. believes' = believes \ {d}
            BY <5>1, <5>3
          <6> QED BY <6>1 DEF Counts
        <5>4. CASE stmt[d] \notin {"lock", "unlock", "release"}
          <6>1. believes' = believes /\ swapped' = swapped
            BY <2>4, <4>1, <5>1, <5>4 DEF Reads, Answered
          <6> QED BY <1>2, <3>4, <5>4, <6>1 DEF Told, Counts
        <5> QED BY <5>2, <5>3, <5>4
      <4>2. CASE strm[cur[d]].reply # "ok"
        <5>1. believes' = believes /\ swapped' = swapped
          BY <2>4, <4>2 DEF Reads
        <5> QED BY <1>2, <3>4, <4>2, <5>1 DEF Told, Counts
      <4> QED BY <4>1, <4>2
    <3> QED BY <1>2, <3>2, <3>3, <3>4, <3>5, <3>6 DEF Told
  <2>5. ASSUME NEW q \in Statements, RunLocal(d, q) PROVE Told(d)'
    <3>1. Local(d) /\ cur[d] = None /\ cur' = cur /\ sess' = sess
      BY <1>a, <2>5 DEF RunLocal, StreamsMatch, Local
    <3> QED BY <3>1 DEF Told, Local
  <2>6. ASSUME NEW q \in Statements, Send(d, q) PROVE Told(d)'
    <3>1. cur[d] \in Streams /\ stmt[d] = "none"
      BY <1>a, <2>6 DEF Send, Sends, ClientTypes
    <3>2. stmt'[d] = q /\ UNCHANGED <<cur, sess, holder>> /\ (Counts(d)' <=> Counts(d))
      BY <1>a, <2>6 DEF Send, ClientTypes, Counts
    <3>3. /\ strm'[cur[d]].req = q /\ strm'[cur[d]].reply = strm[cur[d]].reply
          /\ strm'[cur[d]].place = strm[cur[d]].place /\ strm'[cur[d]].node = strm[cur[d]].node
      BY <1>a, <2>6, <3>1 DEF Send, OwnerTypes, StreamRecord
    <3>4. strm[cur[d]].reply = "none" /\ cur[d] # None
      BY <1>2, <3>1 DEF Told
    <3>5. Holds(d)' <=> Holds(d)
      BY <3>2, <3>3 DEF Holds
    <3> QED BY <1>2, <3>1, <3>2, <3>3, <3>4, <3>5 DEF Told
  <2>7. ASSUME NEW q \in Statements, DialAndSend(d, q) PROVE Told(d)'
    <3>1. PICK n \in Streams :
            /\ cur' = [cur EXCEPT ![d] = n]
            /\ strm' = [Cut({cur[d]}) EXCEPT ![n] =
                 [Unused EXCEPT !.client = d, !.node = sess[d], !.place = "opened", !.req = q]]
      BY <2>7 DEF DialAndSend
    <3>2. cur'[d] = n /\ strm'[n].req = q /\ strm'[n].reply = "none"
      BY <1>a, <3>1, CutType DEF Unused, ClientTypes
    <3>3. stmt'[d] = q
      BY <1>a, <2>7 DEF DialAndSend, ClientTypes
    <3>4. ~Counts(d)'
      <4>1. CASE Replaces(d)
        BY <2>7, <4>1 DEF DialAndSend, Counts
      <4>2. CASE ~Replaces(d)
        <5>1. cur[d] = None /\ ~Local(d) /\ believes' = believes /\ swapped' = swapped
          BY <2>7, <4>2 DEF DialAndSend
        <5> QED BY <1>2, <5>1 DEF Told, Counts
      <4> QED BY <4>1, <4>2
    <3> QED BY <3>2, <3>3, <3>4 DEF Told
  <2> QED BY <1>a, <1>2, <2>1, <2>2, <2>3, <2>4, <2>5, <2>6, <2>7, ClientSteps
<1> QED BY <1>1, <1>2

\* So does a step of a stream's task: an unlock is answered, a grant is held.
LEMMA OwnerKeepsTold ==
  ASSUME Base, NEW s \in Streams, OwnerNext(s), NEW c \in Clients, Told(c)
  PROVE  Told(c)'
<1> USE Distinct DEF nodeVars, clientVars
<1>a. ClientTypes /\ OwnerTypes /\ StreamsUsed /\ StreamsMatch
  BY DEF Base
<1>b. UNCHANGED <<cur, stmt, sess>> /\ (Counts(c)' <=> Counts(c))
  BY DEF OwnerNext, Accept, Refuse, Check, Execute, Eof, OwnerTimesOut, Counts
<1>c. \A t \in Streams : t # s => strm'[t] = strm[t]
  <2>1. CASE Accept(s) \/ Starts(s)
    BY <1>a, <2>1 DEF Accept, Starts, OwnerTypes
  <2>2. CASE Ends(s) \/ Execute(s)
    BY <1>a, <2>2, EndEffect, DoneEffect DEF Ends, Execute
  <2> QED BY <2>1, <2>2, OwnerSteps
<1>d. \A n \in Nodes : holder'[n] = holder[n] \/ holder[n] \in {None, s}
  <2>1. Accept(s) \/ Starts(s) => holder' = holder
    BY DEF Accept, Starts
  <2>2. Ends(s) => holder' = Freed({s})
    BY <1>a, EndEffect DEF Ends
  <2>3. CASE Execute(s)
    <3>1. \/ holder' = holder \/ holder' = Freed({s})
          \/ holder' = [holder EXCEPT ![strm[s].node] = s] /\ holder[strm[s].node] \in {None, s}
      BY <2>3 DEF Execute
    <3> QED BY <1>a, <3>1, FreedEffect DEF OwnerTypes
  <2> QED BY <2>1, <2>2, <2>3, FreedEffect, OwnerSteps
<1>e. cur[c] # None => /\ cur[c] \in Streams /\ strm[cur[c]].client = c
                       /\ strm[cur[c]].place # "unused" /\ strm[cur[c]].node \in Nodes
  BY <1>a DEF ClientTypes, StreamsMatch, StreamsUsed
<1>1. CASE cur[c] # s
  <2>1. cur[c] # None => strm'[cur[c]] = strm[cur[c]]
    BY <1>1, <1>c, <1>e
  <2>2. cur[c] # None /\ Holds(c) => Holds(c)'
    <3>1. cur[c] # None /\ Holds(c) => holder'[strm[cur[c]].node] = cur[c]
      BY <1>1, <1>d, <1>e DEF Holds
    <3> QED BY <1>b, <2>1, <3>1 DEF Holds
  <2> QED BY <1>b, <2>1, <2>2, ToldStays
<1>2. CASE cur[c] = s
  <2>a. cur[c] # None /\ strm[s].client = c /\ strm[s].node \in Nodes /\ cur'[c] = s
    BY <1>2, <1>b, <1>e
  <2>1. CASE Accept(s) \/ Starts(s)
    <3>1. /\ strm'[s].req = strm[s].req /\ strm'[s].reply = strm[s].reply
          /\ strm'[s].node = strm[s].node
          /\ strm[s].place # "ended" /\ holder' = holder
      BY <1>a, <2>1 DEF Accept, Starts, OwnerTypes, StreamRecord
    <3>2. Holds(c)' <=> Holds(c)
      BY <1>2, <1>b, <3>1 DEF Holds
    <3> QED BY <1>2, <1>b, <2>a, <3>1, <3>2 DEF Told
  <2>2. CASE Ends(s)
    <3>1. /\ strm'[s].place = "ended" /\ strm'[s].req = "none"
          /\ strm'[s].reply = strm[s].reply \/ strm[s].req # "none"
      BY <1>2, <1>a, <2>2, <2>a, EndEffect, ZenonT(60) DEF Ends
    <3>2. stmt[c] = "none" => strm[s].req = "none" /\ strm[s].reply = "none"
      BY <1>2, <2>a DEF Told
    <3> QED BY <1>2, <1>b, <2>a, <3>1, <3>2 DEF Told
  <2>3. CASE Execute(s)
    <3>1. strm[s].req = stmt[c] /\ strm[s].req # "none" /\ strm[s].reply = "none"
          /\ strm[s].place = "running"
      BY <1>2, <2>3, <2>a DEF Execute, Told
    <3>2. /\ strm'[s].req = "none" /\ strm'[s].node = strm[s].node
      BY <1>a, <2>3, DoneEffect DEF Execute
    <3>3. stmt[c] \in {"unlock", "release"} => strm'[s].reply = "ok"
      BY <1>2, <1>a, <2>3, <2>a, <3>1, DoneEffect DEF Execute
    <3>4. stmt[c] = "lock" /\ strm'[s].reply = "ok" => holder'[strm[s].node] = s
      BY <1>2, <1>a, <2>3, <2>a, <3>1, DoneEffect DEF Execute, OwnerTypes
    <3>5. stmt[c] \notin {"unlock", "release"} /\ holder[strm[s].node] = s
            => holder'[strm[s].node] = s
      BY <1>a, <2>3, <2>a, <3>1 DEF Execute, OwnerTypes
    <3>6. Holds(c) <=> holder[strm[s].node] = s
      BY <1>2 DEF Holds
    <3>7. Holds(c)' <=> holder'[strm[s].node] = s
      BY <2>a, <3>2 DEF Holds
    <3> QED BY <1>2, <1>b, <2>a, <3>1, <3>2, <3>3, <3>4, <3>5, <3>6, <3>7 DEF Told
  <2> QED BY <2>1, <2>2, <2>3, OwnerSteps
<1> QED BY <1>1, <1>2

\* So does a step of a node: a crash ends the streams it takes locks from.
LEMMA NodeKeepsTold ==
  ASSUME Base, LockDiesWithSession, NEW n \in Nodes, NodeNext(n), NEW c \in Clients, Told(c)
  PROVE  Told(c)'
<1> USE Distinct DEF clientVars, ownerVars
<1>a. ClientTypes /\ OwnerTypes /\ StreamsUsed /\ StreamsMatch
  BY DEF Base
<1>e. cur[c] # None => /\ cur[c] \in Streams /\ strm[cur[c]].client = c
                       /\ strm[cur[c]].place # "unused" /\ strm[cur[c]].node \in Nodes
  BY <1>a DEF ClientTypes, StreamsMatch, StreamsUsed
<1>1. CASE Crash(n)
  <2>1. CASE Home[c] = n
    <3>1. cur'[c] = None /\ ~Counts(c)'
      BY <1>1, <2>1 DEF Crash, Counts
    <3> QED BY <3>1 DEF Told
  <2>2. CASE Home[c] # n
    <3>1. /\ cur'[c] = cur[c] /\ stmt'[c] = stmt[c] /\ sess'[c] = sess[c]
          /\ Counts(c)' <=> Counts(c)
      BY <1>1, <2>2 DEF Crash, Counts
    <3>3. CASE cur[c] = None
      BY <3>1, <3>3 DEF Told, Local
    <3>4. CASE cur[c] # None /\ strm[cur[c]].node # n
      <4>1. strm'[cur[c]] = strm[cur[c]]
        BY <1>1, <1>e, <2>2, <3>4, CrashEffect
      <4>2. holder'[strm[cur[c]].node] = holder[strm[cur[c]].node]
        BY <1>1, <1>a, <1>e, <3>4 DEF Crash, OwnerTypes
      <4>3. Holds(c)' <=> Holds(c)
        BY <3>1, <4>1, <4>2 DEF Holds
      <4> QED BY <3>1, <3>4, <4>1, <4>3 DEF Told
    <3>5. CASE cur[c] # None /\ strm[cur[c]].node = n
      <4>1. /\ strm'[cur[c]].place = "ended" /\ strm'[cur[c]].req = "none"
            /\ strm'[cur[c]].reply = "none"
        BY <1>1, <1>e, <2>2, <3>5, CrashEffect
      <4> QED BY <3>1, <3>5, <4>1 DEF Told
    <3> QED BY <3>3, <3>4, <3>5
  <2> QED BY <2>1, <2>2
<1>2. CASE ~Crash(n)
  <2>1. UNCHANGED <<cur, stmt, sess, holder>> /\ (Counts(c)' <=> Counts(c))
    BY <1>2 DEF NodeNext, Boot, AnnounceLeave, CloseChannel, Learn, Counts
  <2>2. \A s \in Streams : /\ strm'[s].req = strm[s].req /\ strm'[s].reply = strm[s].reply
                           /\ strm'[s].place = strm[s].place /\ strm'[s].node = strm[s].node
    <3>1. CASE CloseChannel(n)
      BY <1>a, <3>1 DEF CloseChannel, OwnerTypes, StreamRecord
    <3>2. CASE ~CloseChannel(n)
      BY <1>2, <3>2 DEF NodeNext, Boot, AnnounceLeave, Learn
    <3> QED BY <3>1, <3>2
  <2>3. cur[c] # None => (Holds(c)' <=> Holds(c))
    BY <1>e, <2>1, <2>2 DEF Holds
  <2> QED BY <1>e, <2>1, <2>2, <2>3, ToldStays
<1> QED BY <1>1, <1>2

\* So does any step.
LEMMA ToldStep ==
  ASSUME Base, LockDiesWithSession, Next, NEW c \in Clients, Told(c)
  PROVE  Told(c)'
<1>1. CASE Tick
  <2>1. UNCHANGED <<cur, stmt, sess, holder>> /\ (Counts(c)' <=> Counts(c))
    BY <1>1 DEF Tick, clientVars, Counts
  <2>2. \A s \in Streams : /\ strm'[s].req = strm[s].req /\ strm'[s].reply = strm[s].reply
                           /\ strm'[s].place = strm[s].place /\ strm'[s].node = strm[s].node
    BY <1>1 DEF Tick, Base, OwnerTypes, StreamRecord
  <2>3. cur[c] # None => cur[c] \in Streams
    BY DEF Base, ClientTypes
  <2>4. cur[c] # None => (Holds(c)' <=> Holds(c))
    BY <2>1, <2>2, <2>3 DEF Holds
  <2> QED BY <2>1, <2>2, <2>3, <2>4, ToldStays
<1> QED BY <1>1, ClientKeepsTold, OwnerKeepsTold, NodeKeepsTold DEF Next

-----------------------------------------------------------------------------
(* The inductive invariant and the theorems.                               *)

\* FwdInv in the form of the lemmas above.
LEMMA InvByPart ==
  FwdInv <=> /\ Base /\ KnowsItself /\ DemotedKnows /\ LockDiesWithSession
             /\ \A c \in Clients : Told(c)
BY TypesByGroup, ToldByClient DEF FwdInv, Base

\* FwdInv is inductive.
LEMMA FwdInvStep ==
  ASSUME FwdInv, [Next]_vars
  PROVE  FwdInv'
<1>a. /\ Base /\ KnowsItself /\ DemotedKnows /\ LockDiesWithSession
      /\ \A c \in Clients : Told(c)
  BY InvByPart
<1>1. CASE Next
  <2>1. (/\ Base /\ KnowsItself /\ DemotedKnows /\ LockDiesWithSession
         /\ \A c \in Clients : Told(c))'
    BY <1>1, <1>a, BaseStep, MembershipStep, DemotedStep, LockStep, ToldStep DEF Base
  <2> QED BY <2>1, InvByPart, PTL
<1>2. CASE UNCHANGED vars
  <2> USE <1>2 DEF vars
  <2>1. FwdTypes'
    BY DEF FwdInv, FwdTypes, TypeOK
  <2>2. KnowsItself' /\ StreamsUsed' /\ StreamsMatch' /\ LockDiesWithSession'
    BY DEF FwdInv, KnowsItself, StreamsUsed, StreamsMatch, LockDiesWithSession
  <2>3. DemotedKnows'
    BY SameMembershipSameOwner DEF FwdInv, DemotedKnows
  <2>4. Talk' /\ GrantHeld' /\ BeliefHeld'
    BY DEF FwdInv, Talk, GrantHeld, BeliefHeld, Holds, Local
  <2> QED BY <2>1, <2>2, <2>3, <2>4 DEF FwdInv
<1> QED BY <1>1, <1>2

\* FwdInv holds initially.
LEMMA FwdInvInit == Init => FwdInv
<1> SUFFICES ASSUME Init PROVE FwdInv
  OBVIOUS
<1> USE Distinct DEF Init
<1>1. NodeTypes /\ ClientTypes
  BY NodesAssumption, BoundsAssumption DEF NodeTypes, ClientTypes
<1>2. OwnerTypes
  BY UnusedType DEF OwnerTypes, Sessions
<1>3. KnowsItself /\ DemotedKnows
  BY NodesAssumption DEF KnowsItself, DemotedKnows, Unused, Live
<1>4. StreamsUsed /\ StreamsMatch
  BY PlaceOfUnused DEF StreamsUsed, StreamsMatch
<1>5. LockDiesWithSession
  BY DEF LockDiesWithSession
<1>6. \A c \in Clients : Told(c)
  BY DEF Told, Counts
<1> QED BY <1>1, <1>2, <1>3, <1>4, <1>5, <1>6, InvByPart DEF Base

\* FwdInv holds in every reachable state.
LEMMA FwdInvariant == Spec => []FwdInv
BY FwdInvInit, FwdInvStep, PTL DEF Spec

\* The state of the forwarder, the owner's streams and the lock tables is
\* well formed in every reachable state: in particular hrw_owner always names a
\* node, so a session is never pinned to nothing.
THEOREM ForwardTypeCorrect == Spec => []TypeOK
<1>1. FwdInv => TypeOK
  BY DEF FwdInv, FwdTypes
<1> QED BY <1>1, FwdInvariant, PTL

\* Release is the session's lifetime: whatever ends a stream or a local session
\* (a refusal, end of file, an idle timeout, a crash, the end of a request) no
\* lock table keeps its lock.
THEOREM LocksDieWithSessions == Spec => []LockDiesWithSession
<1>1. FwdInv => LockDiesWithSession
  BY DEF FwdInv
<1> QED BY <1>1, FwdInvariant, PTL

\* The re-checks of serve_owner_statements: no request starts on a node that
\* has not owned the site for a whole interval or that announced its leave.
THEOREM DemotedNodesAreQuiet == Spec => DemotedIsQuiet
<1>1. ASSUME FwdInv, [Next]_vars, NEW s \in Streams,
             strm[s].place = "serving", strm'[s].place = "running"
      PROVE  strm[s].node \notin demoted \cup draining
  <2>a. Base /\ DemotedKnows
    BY <1>1, InvByPart
  <2>b. ClientTypes /\ OwnerTypes /\ StreamsMatch
    BY <2>a DEF Base
  <2>1. ~Kept(s)
    BY <1>1 DEF Kept, Live
  <2>2. strm' # strm
    BY <1>1
  <2>3. CASE Starts(s)
    <3>1. CASE RecheckDue(s)
      BY <2>3, <2>a, <3>1 DEF Starts, DemotedKnows
    <3>2. CASE ~RecheckDue(s)
      BY <2>3, <2>a, <3>2 DEF Starts, RecheckDue, DemotedKnows, Live
    <3> QED BY <2>3, <3>1, <3>2 DEF Starts
  <2>4. ASSUME NEW t \in Streams, OwnerNext(t) PROVE Starts(s)
    <3>1. CASE Accept(t) \/ Starts(t)
      BY <1>1, <2>b, <3>1 DEF Accept, Starts, OwnerTypes, StreamRecord
    <3>2. CASE Ends(t)
      BY <1>1, <2>b, <3>2, EndEffect, PlaceOfUnused DEF Ends
    <3>3. CASE Execute(t)
      BY <1>1, <2>b, <3>3, DoneEffect DEF Execute
    <3> QED BY <2>4, <3>1, <3>2, <3>3, OwnerSteps
  <2>5. ASSUME NEW c \in Clients, ClientNext(c) PROVE FALSE
    BY <2>1, <2>5, <2>a, ClientKeepsServed
  <2>6. ASSUME NEW n \in Nodes, NodeNext(n) PROVE FALSE
    BY <1>1, <2>1, <2>6, <2>a, NodeKeepsServed DEF Live
  <2>7. CASE Tick
    BY <1>1, <2>7, <2>b DEF Tick, OwnerTypes, StreamRecord
  <2> QED BY <1>1, <2>2, <2>3, <2>4, <2>5, <2>6, <2>7 DEF Next, vars
<1>2. FwdInv /\ [Next]_vars =>
        [\A s \in Streams :
           strm[s].place = "serving" /\ strm'[s].place = "running"
             => strm[s].node \notin demoted \cup draining]_vars
  BY <1>1
<1> QED BY <1>2, FwdInvariant, PTL DEF Spec, DemotedIsQuiet

\* A client whose lock went with a stream learns it from a failing statement:
\* while it counts on its lock, no statement of it is executed by a session
\* that does not hold it.  A client whose resting stream was replaced before
\* use (swapped) is excepted: nobody tells it.
THEOREM LossesAreTold == Spec => LossIsTold
<1>1. ASSUME FwdInv, [Next]_vars, NEW s \in Streams, strm[s].place = "running",
             strm'[s].place = "serving", cur[strm[s].client] = s, strm[s].client \in believes \ swapped
      PROVE  holder[strm[s].node] = s
  <2>a. Base /\ \A c \in Clients : Told(c)
    BY <1>1, InvByPart
  <2>b. ClientTypes /\ OwnerTypes /\ StreamsMatch
    BY <2>a DEF Base
  <2>1. ~Kept(s) /\ strm' # strm
    BY <1>1 DEF Kept, Live
  <2>2. ASSUME NEW t \in Streams, OwnerNext(t) PROVE Execute(s)
    <3>1. CASE Accept(t) \/ Starts(t)
      BY <1>1, <2>b, <3>1 DEF Accept, Starts, OwnerTypes, StreamRecord
    <3>2. CASE Ends(t)
      BY <1>1, <2>b, <3>2, EndEffect, PlaceOfUnused DEF Ends
    <3>3. CASE Execute(t)
      BY <1>1, <2>b, <3>3, DoneEffect DEF Execute
    <3> QED BY <2>2, <3>1, <3>2, <3>3, OwnerSteps
  <2>3. ASSUME NEW c \in Clients, ClientNext(c) PROVE FALSE
    BY <2>1, <2>3, <2>a, ClientKeepsServed
  <2>4. ASSUME NEW n \in Nodes, NodeNext(n) PROVE FALSE
    BY <1>1, <2>1, <2>4, <2>a, NodeKeepsServed DEF Live
  <2>5. ASSUME Tick PROVE FALSE
    BY <1>1, <2>5, <2>b DEF Tick, OwnerTypes, StreamRecord
  <2>6. Execute(s)
    BY <1>1, <2>1, <2>2, <2>3, <2>4, <2>5 DEF Next, vars
  <2>7. strm[s].req # "none"
    BY <2>6 DEF Execute
  <2>8. strm[s].client \in Clients /\ s # None
    BY <1>1, <2>b, Distinct DEF ClientTypes
  <2> QED BY <1>1, <2>7, <2>8, <2>a DEF Told, Counts, Holds
<1>2. FwdInv /\ [Next]_vars =>
        [\A s \in Streams :
           LET c == strm[s].client IN
           strm[s].place = "running" /\ strm'[s].place = "serving" /\ cur[c] = s
               /\ c \in believes \ swapped
             => holder[strm[s].node] = s]_vars
  BY <1>1
<1> QED BY <1>2, FwdInvariant, PTL DEF Spec, LossIsTold

=============================================================================
