---------------------------- MODULE DbPoolProofs ----------------------------
(***************************************************************************)
(* Proofs about DbPool, for any number of clients, connections and permits *)
(* and every reset strategy.                                               *)
(*                                                                         *)
(* The safety invariants are proved together: how many permits are out     *)
(* depends on who waits, and who may be given a connection depends on who  *)
(* owns it.  PoolInv adds to them which places of a task own a connection, *)
(* whose dirty flag vouches for a connection's state, and what warm knows  *)
(* about the queue it counted.                                             *)
(***************************************************************************)
EXTENDS DbPool, SeqLemmas, FiniteSetTheorems

\* The types of the variables, without the bound on permits, which takes the
\* accounting to prove.
Types ==
  /\ permits \in Nat
  /\ waiters \in Seq(Clients)
  /\ idle \in Seq(Conns) /\ slots \in Seq(Conns) /\ healthy \in Seq(Conns)
  /\ closed \in BOOLEAN /\ clearing \in BOOLEAN
  /\ pc \in [Clients -> Places]
  /\ conn \in [Clients -> Conns \cup {NoConn}]
  /\ dirty \in [Clients -> BOOLEAN]
  /\ used \subseteq Conns \X Residues
  /\ mpc \in {"tick", "stopped", "count", "headroom", "warm", "dialling",
              "check", "pinging"}
  /\ current \in Nat /\ needed \in 0..MinConnections

\* warm goes on to the headroom only when the queue it counted was short.
WarmIsShort == mpc = "headroom" => current < MinConnections

\* A task owns a backend stream exactly at the places where acquire has given
\* it one and recycle, retire or a failed ping has not taken it back.
ConnMatchesPlace ==
  \A u \in Clients :
    conn[u] # NoConn <=> pc[u] \in {"ping", "session", "reset", "park"}

\* The queue, the drained slots and the survivors hold nothing twice.
QueuesApart ==
  /\ IsInjective(idle) /\ IsInjective(slots) /\ IsInjective(healthy)
  /\ Range(idle) \cap Range(slots) = {}
  /\ Range(idle) \cap Range(healthy) = {}
  /\ Range(slots) \cap Range(healthy) = {}

\* What a task owns is in none of them and with no other task.
OwnedApart ==
  \A u \in Clients : conn[u] # NoConn =>
    /\ conn[u] \notin Range(idle) \cup Range(slots) \cup Range(healthy)
    /\ \A v \in Clients \ {u} : conn[v] # conn[u]

\* The residues the strategy promises to erase.
Owed == {r \in used : r[2] \in Erased}

\* A residue to be erased is with a session, or its reset, and what a write left is
\* with one that knows of it.
UsedIsDirty ==
  \A r \in Owed : \E u \in Clients :
    conn[u] = r[1] /\ pc[u] \in {"session", "reset"} /\ (r[2] = "write" => dirty[u])

\* The inductive invariant.
PoolInv ==
  /\ Types /\ WarmIsShort
  /\ PermitsConserved /\ WaitersWait
  /\ ConnMatchesPlace /\ QueuesApart /\ OwnedApart /\ UsedIsDirty

-----------------------------------------------------------------------------
(* The operators the actions are built from.                               *)

\* retain keeps a queue free of duplicates and adds nothing to it.
LEMMA RetainedKeeps ==
  ASSUME NEW S, NEW s \in Seq(S), IsInjective(s), NEW t \in Retained(s)
  PROVE  t \in Seq(S) /\ IsInjective(t) /\ Range(t) \subseteq Range(s)
<1> PICK n \in 0..Len(s) : \E f \in [1..n -> DOMAIN s] :
        /\ \A i, j \in 1..n : i < j => f[i] < f[j]
        /\ t = [i \in 1..n |-> s[f[i]]]
  BY DEF Retained
<1>1. PICK f \in [1..n -> DOMAIN s] :
        /\ \A i, j \in 1..n : i < j => f[i] < f[j]
        /\ t = [i \in 1..n |-> s[f[i]]]
  OBVIOUS
<1>2. DOMAIN s = 1..Len(s) /\ Len(s) \in Nat /\ n \in Nat BY LenProperties
<1>3. \A i \in 1..n : s[f[i]] \in S BY <1>2, ElementOfSeq
<1>4. t \in Seq(S) /\ Len(t) = n BY <1>1, <1>2, <1>3
<1>5. \A i, j \in 1..Len(s) : s[i] = s[j] => i = j BY InjectivePositions
<1>6. IsInjective(t)
  <2>1. SUFFICES ASSUME NEW i \in 1..n, NEW j \in 1..n, t[i] = t[j] PROVE i = j
    BY <1>4, InjectivePositions
  <2>2. f[i] = f[j] BY <1>1, <1>2, <1>5, <2>1
  <2>3. f[i] \in Nat /\ f[j] \in Nat BY <1>2
  <2> QED BY <1>1, <1>2, <2>2, <2>3
<1>7. Range(t) \subseteq Range(s)
  <2>1. SUFFICES ASSUME NEW x \in Range(t) PROVE x \in Range(s) OBVIOUS
  <2>2. PICK i \in 1..n : t[i] = x BY <1>4, RangeMember
  <2>3. f[i] \in 1..Len(s) /\ s[f[i]] = x BY <1>1, <1>2, <2>2
  <2> QED BY <2>3, RangeMember
<1> QED BY <1>4, <1>6, <1>7

\* OneOwner, which speaks of the three queues joined, in its parts.
LEMMA OneOwnerParts ==
  ASSUME Types
  PROVE  OneOwner <=> QueuesApart /\ OwnedApart
<1>1. /\ idle \in Seq(Conns) /\ slots \in Seq(Conns) /\ healthy \in Seq(Conns)
  BY DEF Types
<1>2. /\ idle \o slots \in Seq(Conns)
      /\ Range(idle \o slots) = Range(idle) \cup Range(slots)
      /\ IsInjective(idle \o slots) <=>
           IsInjective(idle) /\ IsInjective(slots) /\ Range(idle) \cap Range(slots) = {}
  BY <1>1, JoinQueues
<1>3. IsInjective((idle \o slots) \o healthy) <=>
        /\ IsInjective(idle \o slots) /\ IsInjective(healthy)
        /\ Range(idle \o slots) \cap Range(healthy) = {}
  BY <1>1, <1>2, JoinQueues
<1>4. IsInjective((idle \o slots) \o healthy) <=> QueuesApart
  BY <1>2, <1>3 DEF QueuesApart
<1> QED BY <1>4 DEF OneOwner, OwnedApart

-----------------------------------------------------------------------------
(* Types.                                                                  *)

\* Dropping a permit keeps the types of what it touches.
LEMMA ReleaseTypes ==
  ASSUME Types, WaitersWait, NEW u \in Clients, Release(u)
  PROVE  /\ permits' \in Nat /\ waiters' \in Seq(Clients)
         /\ pc' \in [Clients -> Places]
         /\ conn' \in [Clients -> Conns \cup {NoConn}]
         /\ dirty' \in [Clients -> BOOLEAN]
<1>0. /\ permits \in Nat /\ waiters \in Seq(Clients) /\ pc \in [Clients -> Places]
      /\ conn \in [Clients -> Conns \cup {NoConn}] /\ dirty \in [Clients -> BOOLEAN]
      /\ "out" \in Places /\ "permit" \in Places
  BY DEF Types, Places
<1>1. CASE waiters = <<>> BY <1>0, <1>1 DEF Release
<1>2. CASE waiters # <<>>
  <2>1. Head(waiters) \in Clients /\ Tail(waiters) \in Seq(Clients)
    BY <1>0, <1>2, PopFront
  <2> QED BY <1>0, <1>2, <2>1 DEF Release
<1> QED BY <1>1, <1>2

\* Every step keeps the types.
LEMMA TypesStep ==
  ASSUME PoolInv, [Next]_vars
  PROVE  Types' /\ WarmIsShort'
<1> USE DEF Types, WarmIsShort, Residues, Without
<1>0. Types /\ WarmIsShort /\ WaitersWait BY DEF PoolInv
<1>1. ASSUME NEW u \in Clients, Client(u) PROVE Types' /\ WarmIsShort'
  <2> USE <1>0 DEF Places, maintVars
  <2>1. CASE Ask(u)
    <3>1. Append(waiters, u) \in Seq(Clients) BY PushBack
    <3>2. permits > 0 => permits - 1 \in Nat OBVIOUS
    <3>3. permits' \in Nat /\ waiters' \in Seq(Clients) BY <2>1, <3>1, <3>2 DEF Ask
    <3>4. pc' \in [Clients -> Places] BY <2>1 DEF Ask
    <3> QED BY <2>1, <3>3, <3>4 DEF Ask
  <2>2. CASE AskTimesOut(u)
    <3>1. PICK i \in DOMAIN waiters : waiters' = RemoveAt(waiters, i)
      BY <2>2 DEF AskTimesOut
    <3>2. waiters' \in Seq(Clients)
      BY <3>1, RemoveMiddle, LenProperties DEF WaitersWait
    <3> QED BY <2>2, <3>2 DEF AskTimesOut
  <2>3. CASE Pop(u)
    <3>1. Head(idle) \in Conns /\ Tail(idle) \in Seq(Conns)
      BY <2>3, PopFront DEF Pop
    <3> QED BY <2>3, <3>1 DEF Pop
  <2>4. CASE Pinged(u) BY <2>4 DEF Pinged
  <2>5. CASE Dial(u) BY <2>5 DEF Dial
  <2>6. CASE Dialled(u) BY <2>6 DEF Dialled
  <2>7. CASE DialFails(u) BY <2>7, ReleaseTypes DEF DialFails
  <2>8. CASE WriteCommand(u)
    <3>1. conn[u] \in Conns BY <2>8 DEF WriteCommand, PoolInv, ConnMatchesPlace
    <3> QED BY <2>8, <3>1 DEF WriteCommand
  <2>15. CASE StatefulRead(u)
    <3>1. conn[u] \in Conns BY <2>15 DEF StatefulRead, PoolInv, ConnMatchesPlace
    <3> QED BY <2>15, <3>1 DEF StatefulRead
  <2>9. CASE EndSession(u)
    <3>1. conn[u] \in Conns BY <2>9 DEF EndSession, PoolInv, ConnMatchesPlace
    <3> QED BY <2>9, <3>1 DEF EndSession
  <2>10. CASE Retire(u) BY <2>10, ReleaseTypes DEF Retire
  <2>11. CASE ResetOk(u) BY <2>11 DEF ResetOk
  <2>12. CASE ResetFails(u) BY <2>12, ReleaseTypes DEF ResetFails
  <2>13. CASE Park(u)
    <3>1. conn[u] \in Conns BY <2>13 DEF Park, PoolInv, ConnMatchesPlace
    <3>2. Append(idle, conn[u]) \in Seq(Conns) BY <3>1, PushBack
    <3> QED BY <2>13, <3>2 DEF Park
  <2>14. CASE DropPermit(u) BY <2>14, ReleaseTypes DEF DropPermit
  <2> QED BY <1>1, <2>1, <2>2, <2>3, <2>4, <2>5, <2>6, <2>7, <2>8, <2>9, <2>10,
             <2>11, <2>12, <2>13, <2>14, <2>15 DEF Client, Proceed
<1>2. ASSUME Maintain PROVE Types' /\ WarmIsShort'
  <2> USE <1>0, LimitsAssumption DEF clientVars
  <2>1. CASE Prune
    <3>1. idle' \in Seq(Conns)
      BY <2>1, RetainedKeeps DEF Prune, PoolInv, QueuesApart
    <3> QED BY <2>1, <3>1 DEF Prune
  <2>2. CASE StopMaintenance BY <2>2 DEF StopMaintenance
  <2>3. CASE WarmCount
    <3>1. Len(idle) \in Nat BY LenProperties
    <3>2. current' \in Nat BY <2>3, <3>1 DEF WarmCount
    <3>3. mpc' = "headroom" => current' < MinConnections BY <2>3, <3>1 DEF WarmCount
    <3>4. mpc' \in {"check", "headroom"} BY <2>3 DEF WarmCount
    <3> QED BY <2>3, <3>1, <3>2, <3>3, <3>4 DEF WarmCount
  <2>4. CASE WarmHeadroom BY <2>4 DEF WarmHeadroom, Least, SaturatingSub
  <2>5. CASE WarmDial BY <2>5 DEF WarmDial
  <2>6. CASE WarmDialled
    <3>1. \A c \in Conns : Append(idle, c) \in Seq(Conns) BY PushBack
    <3>2. idle' \in Seq(Conns) BY <2>6, <3>1 DEF WarmDialled
    <3> QED BY <2>6, <3>2 DEF WarmDialled
  <2>7. CASE WarmEnds BY <2>7 DEF WarmEnds
  <2>8. CASE CheckDrain BY <2>8 DEF CheckDrain
  <2>9. CASE CheckPinged
    <3>1. Head(slots) \in Conns /\ Tail(slots) \in Seq(Conns)
      BY <2>9, PopFront DEF CheckPinged
    <3>2. Append(healthy, Head(slots)) \in Seq(Conns) BY <3>1, PushBack
    <3>3. slots' \in Seq(Conns) /\ healthy' \in Seq(Conns) /\ used' \subseteq Conns \X Residues
      BY <2>9, <3>1, <3>2 DEF CheckPinged
    <3> QED BY <2>9, <3>3 DEF CheckPinged
  <2>10. CASE CheckReplace BY <2>10 DEF CheckReplace
  <2> QED BY <1>2, <2>1, <2>2, <2>3, <2>4, <2>5, <2>6, <2>7, <2>8, <2>9, <2>10
          DEF Maintain
<1>3. CASE Close BY <1>0, <1>3 DEF Close, clientVars, maintVars
<1>4. CASE CloseClears
  <2>1. idle' \in Seq(Conns) /\ used' \subseteq Conns \X Residues BY <1>0, <1>4 DEF CloseClears
  <2> QED BY <1>0, <1>4, <2>1 DEF CloseClears, clientVars, maintVars
<1>5. CASE UNCHANGED vars BY <1>0, <1>5 DEF vars
<1> QED BY <1>1, <1>2, <1>3, <1>4, <1>5 DEF Next

-----------------------------------------------------------------------------
(* The accounting of permits.                                              *)

\* A step that takes no task into or out of acquire's wait or its permit.
SamePermits ==
  /\ UNCHANGED <<permits, waiters>>
  /\ \A u \in Clients :
       /\ (pc'[u] \in {"out", "wait"}) <=> (pc[u] \in {"out", "wait"})
       /\ (pc'[u] = "wait") <=> (pc[u] = "wait")

\* Such a step leaves the accounting alone.
LEMMA SamePermitsKeeps ==
  ASSUME PermitsConserved, WaitersWait, SamePermits
  PROVE  PermitsConserved' /\ WaitersWait'
<1>1. Holders' = Holders BY DEF Holders, SamePermits
<1>2. {u \in Clients : pc'[u] = "wait"} = {u \in Clients : pc[u] = "wait"}
  BY DEF SamePermits
<1>3. permits' = permits /\ waiters' = waiters BY DEF SamePermits
<1>4. PermitsConserved' BY <1>1, <1>3 DEF PermitsConserved
<1>5. WaitersWait' BY <1>2, <1>3 DEF WaitersWait
<1> QED BY <1>4, <1>5

\* Any change of one task's place among the ones that hold a permit is one.
LEMMA MoveIsSamePermits ==
  ASSUME Types, NEW u \in Clients, NEW p \in Places \ {"out", "wait"},
         pc[u] \notin {"out", "wait"},
         pc' = [pc EXCEPT ![u] = p], UNCHANGED <<permits, waiters>>
  PROVE  SamePermits
BY DEF Types, SamePermits

\* The holders are finitely many.
LEMMA HoldersFinite ==
  /\ IsFiniteSet(Holders) /\ Cardinality(Holders) \in Nat
  /\ IsFiniteSet(Holders') /\ Cardinality(Holders') \in Nat
<1>1. Holders \subseteq Clients /\ Holders' \subseteq Clients BY DEF Holders
<1> QED BY <1>1, ClientsAssumption, FS_Subset, FS_CardinalityType

\* A dropped permit goes back to the semaphore or on to the first waiter.
LEMMA ReleaseKeeps ==
  ASSUME Types, PermitsConserved, WaitersWait, NEW u \in Clients,
         pc[u] \notin {"out", "wait"}, Release(u)
  PROVE  PermitsConserved' /\ WaitersWait'
<1>1. pc \in [Clients -> Places] /\ permits \in Nat /\ MaxConnections \in Nat
  BY LimitsAssumption DEF Types
<1>2. u \in Holders BY DEF Holders
<1>3. CASE waiters = <<>>
  <2>1. permits' = permits + 1 /\ waiters' = <<>> /\ pc' = [pc EXCEPT ![u] = "out"]
    BY <1>3 DEF Release
  <2>2. Holders' = Holders \ {u} BY <1>1, <2>1 DEF Holders
  <2>3. Cardinality(Holders') = Cardinality(Holders) - 1
    BY <1>2, <2>2, HoldersFinite, FS_RemoveElement
  <2>4. PermitsConserved' BY <1>1, <2>1, <2>3, HoldersFinite DEF PermitsConserved
  <2>5. {v \in Clients : pc'[v] = "wait"} = {v \in Clients : pc[v] = "wait"}
    BY <1>1, <2>1
  <2>6. WaitersWait' BY <1>3, <2>1, <2>5 DEF WaitersWait
  <2> QED BY <2>4, <2>6
<1>4. CASE waiters # <<>>
  <2> DEFINE w == Head(waiters)
  <2>1. /\ w \in Clients /\ Range(waiters) = Range(Tail(waiters)) \cup {w}
        /\ IsInjective(Tail(waiters)) /\ w \notin Range(Tail(waiters))
    BY <1>4, PopFront DEF Types, WaitersWait
  <2>2. pc[w] = "wait" BY <2>1 DEF WaitersWait
  <2>3. w # u BY <2>2
  <2>4. /\ permits' = permits /\ waiters' = Tail(waiters)
        /\ pc' = [pc EXCEPT ![u] = "out", ![w] = "permit"]
    BY <1>4 DEF Release
  <2> HIDE DEF w
  <2>5. Holders' = (Holders \ {u}) \cup {w} BY <1>1, <2>1, <2>3, <2>4 DEF Holders
  <2>6. w \notin Holders \ {u} BY <2>2 DEF Holders
  <2>7. IsFiniteSet(Holders \ {u}) /\ Cardinality(Holders \ {u}) = Cardinality(Holders) - 1
    BY <1>2, HoldersFinite, FS_RemoveElement
  <2>8. Cardinality(Holders') = (Cardinality(Holders) - 1) + 1
    BY <2>5, <2>6, <2>7, FS_AddElement
  <2>9. PermitsConserved' BY <1>1, <2>4, <2>8, HoldersFinite DEF PermitsConserved
  <2>10. {v \in Clients : pc'[v] = "wait"} = {v \in Clients : pc[v] = "wait"} \ {w}
    BY <1>1, <2>1, <2>2, <2>3, <2>4
  <2>11. permits = 0 BY <1>4 DEF WaitersWait
  <2>12. Range(waiters') = {v \in Clients : pc'[v] = "wait"}
    BY <2>1, <2>4, <2>10 DEF WaitersWait
  <2>13. WaitersWait' BY <2>1, <2>4, <2>11, <2>12 DEF WaitersWait
  <2> QED BY <2>9, <2>13
<1> QED BY <1>3, <1>4

\* A caller takes a free permit, or joins the queue when there is none.
LEMMA AskKeeps ==
  ASSUME Types, PermitsConserved, WaitersWait, NEW u \in Clients, Ask(u)
  PROVE  PermitsConserved' /\ WaitersWait'
<1>1. /\ pc \in [Clients -> Places] /\ permits \in Nat /\ MaxConnections \in Nat
      /\ waiters \in Seq(Clients) /\ pc[u] = "out"
  BY LimitsAssumption DEF Types, Ask
<1>2. u \notin Holders BY <1>1 DEF Holders
<1>3. CASE permits > 0
  <2>1. permits' = permits - 1 /\ waiters' = waiters /\ pc' = [pc EXCEPT ![u] = "permit"]
    BY <1>3 DEF Ask
  <2>2. Holders' = Holders \cup {u} BY <1>1, <2>1 DEF Holders
  <2>3. Cardinality(Holders') = Cardinality(Holders) + 1
    BY <1>2, <2>2, HoldersFinite, FS_AddElement
  <2>4. PermitsConserved' BY <1>1, <1>3, <2>1, <2>3, HoldersFinite DEF PermitsConserved
  <2>5. {v \in Clients : pc'[v] = "wait"} = {v \in Clients : pc[v] = "wait"}
    BY <1>1, <2>1
  <2>6. waiters = <<>> BY <1>1, <1>3 DEF WaitersWait
  <2>7. WaitersWait' BY <2>1, <2>5, <2>6 DEF WaitersWait
  <2> QED BY <2>4, <2>7
<1>4. CASE ~(permits > 0)
  <2>1. permits' = permits /\ waiters' = Append(waiters, u) /\ pc' = [pc EXCEPT ![u] = "wait"]
    BY <1>4 DEF Ask
  <2>2. Holders' = Holders BY <1>1, <2>1 DEF Holders
  <2>3. PermitsConserved' BY <2>1, <2>2 DEF PermitsConserved
  <2>4. {v \in Clients : pc'[v] = "wait"} = {v \in Clients : pc[v] = "wait"} \cup {u}
    BY <1>1, <2>1
  <2>5. u \notin Range(waiters) BY <1>1 DEF WaitersWait
  <2>6. Range(waiters') = Range(waiters) \cup {u} /\ IsInjective(waiters')
    BY <1>1, <2>1, <2>5, PushBack DEF WaitersWait
  <2>7. permits = 0 BY <1>1, <1>4
  <2>8. WaitersWait' BY <2>1, <2>4, <2>6, <2>7 DEF WaitersWait
  <2> QED BY <2>3, <2>8
<1> QED BY <1>3, <1>4

\* A caller whose wait times out leaves the queue, and only it does.
LEMMA AskTimesOutKeeps ==
  ASSUME Types, PermitsConserved, WaitersWait, NEW u \in Clients, AskTimesOut(u)
  PROVE  PermitsConserved' /\ WaitersWait'
<1>1. /\ pc \in [Clients -> Places] /\ waiters \in Seq(Clients) /\ pc[u] = "wait"
      /\ permits' = permits /\ pc' = [pc EXCEPT ![u] = "out"]
  BY DEF Types, AskTimesOut
<1>2. PICK i \in 1..Len(waiters) : waiters[i] = u /\ waiters' = RemoveAt(waiters, i)
  BY <1>1, LenProperties DEF AskTimesOut
<1>3. /\ IsInjective(waiters') /\ Range(waiters') = Range(waiters) \ {u}
  BY <1>1, <1>2, RemoveMiddle DEF WaitersWait
<1>4. Holders' = Holders BY <1>1 DEF Holders
<1>5. {v \in Clients : pc'[v] = "wait"} = {v \in Clients : pc[v] = "wait"} \ {u}
  BY <1>1
<1>6. waiters # <<>> BY <1>1, <1>2, EmptySeq
<1>7. PermitsConserved' BY <1>1, <1>4 DEF PermitsConserved
<1>8. WaitersWait' BY <1>1, <1>3, <1>5, <1>6 DEF WaitersWait
<1> QED BY <1>7, <1>8

\* Every step keeps the accounting.
LEMMA PermitsStep ==
  ASSUME PoolInv, [Next]_vars
  PROVE  PermitsConserved' /\ WaitersWait'
<1>0. Types /\ PermitsConserved /\ WaitersWait BY DEF PoolInv
<1>1. ASSUME NEW u \in Clients, Client(u) PROVE PermitsConserved' /\ WaitersWait'
  <2>1. CASE Ask(u) BY <1>0, <2>1, AskKeeps
  <2>2. CASE AskTimesOut(u) BY <1>0, <2>2, AskTimesOutKeeps
  <2>3. CASE DialFails(u) BY <1>0, <2>3, ReleaseKeeps DEF DialFails
  <2>4. CASE Retire(u) BY <1>0, <2>4, ReleaseKeeps DEF Retire
  <2>5. CASE ResetFails(u) BY <1>0, <2>5, ReleaseKeeps DEF ResetFails
  <2>6. CASE DropPermit(u) BY <1>0, <2>6, ReleaseKeeps DEF DropPermit
  <2>7. CASE WriteCommand(u) \/ StatefulRead(u)
    <3>1. SamePermits BY <2>7 DEF WriteCommand, StatefulRead, SamePermits
    <3> QED BY <1>0, <3>1, SamePermitsKeeps
  <2>8. CASE Pop(u)
    <3>1. CASE UNCHANGED pc
      <4>1. SamePermits BY <2>8, <3>1 DEF Pop, SamePermits
      <4> QED BY <1>0, <4>1, SamePermitsKeeps
    <3>2. ASSUME NEW p \in {"ping", "session"}, pc' = [pc EXCEPT ![u] = p]
          PROVE  PermitsConserved' /\ WaitersWait'
      <4>1. SamePermits BY <1>0, <2>8, <3>2, MoveIsSamePermits DEF Pop, Places
      <4> QED BY <1>0, <4>1, SamePermitsKeeps
    <3> QED BY <2>8, <3>1, <3>2 DEF Pop
  <2>9. CASE Pinged(u)
    <3>1. PICK p \in {"session", "permit"} : pc' = [pc EXCEPT ![u] = p]
      BY <2>9 DEF Pinged
    <3>2. SamePermits BY <1>0, <2>9, <3>1, MoveIsSamePermits DEF Pinged, Places
    <3> QED BY <1>0, <3>2, SamePermitsKeeps
  <2>10. CASE Dial(u) \/ Dialled(u) \/ EndSession(u) \/ ResetOk(u) \/ Park(u)
    <3>1. PICK p \in {"dial", "session", "reset", "park", "drop"} :
            pc' = [pc EXCEPT ![u] = p]
      BY <2>10 DEF Dial, Dialled, EndSession, ResetOk, Park
    <3>2. pc[u] \notin {"out", "wait"} /\ UNCHANGED <<permits, waiters>>
      BY <2>10 DEF Dial, Dialled, EndSession, ResetOk, Park
    <3>3. SamePermits BY <1>0, <3>1, <3>2, MoveIsSamePermits DEF Places
    <3> QED BY <1>0, <3>3, SamePermitsKeeps
  <2> QED BY <1>1, <2>1, <2>2, <2>3, <2>4, <2>5, <2>6, <2>7, <2>8, <2>9, <2>10
          DEF Client, Proceed
<1>2. CASE Maintain \/ Close \/ CloseClears \/ UNCHANGED vars
  <2>1. UNCHANGED <<permits, waiters, pc>>
    BY <1>2 DEF Maintain, Prune, StopMaintenance, WarmCount, WarmHeadroom, WarmDial,
                WarmDialled, WarmEnds, CheckDrain, CheckPinged, CheckReplace, Close,
                CloseClears, vars, clientVars
  <2>2. SamePermits BY <2>1 DEF SamePermits
  <2> QED BY <1>0, <2>2, SamePermitsKeeps
<1> QED BY <1>1, <1>2 DEF Next

-----------------------------------------------------------------------------
(* Who owns which connection.                                              *)

\* The part of the invariant that is about connections.
ConnsInv == ConnMatchesPlace /\ QueuesApart /\ OwnedApart /\ UsedIsDirty

\* Dropping a permit ends the task's ownership, and leaves the others alone.
LEMMA ReleaseConns ==
  ASSUME Types, WaitersWait, ConnsInv, NEW u \in Clients,
         pc[u] \notin {"out", "wait"}, Release(u),
         UNCHANGED <<idle, slots, healthy>>, used' = Without({conn[u]})
  PROVE  ConnsInv'
<1>1. /\ pc \in [Clients -> Places] /\ conn \in [Clients -> Conns \cup {NoConn}]
      /\ dirty \in [Clients -> BOOLEAN]
  BY DEF Types
<1>2. conn' = [conn EXCEPT ![u] = NoConn] /\ dirty' = [dirty EXCEPT ![u] = FALSE]
  BY DEF Release
<1>3. /\ pc'[u] = "out"
      /\ \A v \in Clients \ {u} :
           pc'[v] = pc[v] \/ (pc[v] = "wait" /\ pc'[v] = "permit")
  <2>1. CASE waiters = <<>> BY <1>1, <2>1 DEF Release
  <2>2. CASE waiters # <<>>
    <3>1. Head(waiters) \in Range(waiters) /\ Head(waiters) \in Clients
      BY <2>2, PopFront DEF Types
    <3>2. pc[Head(waiters)] = "wait" BY <3>1 DEF WaitersWait
    <3>3. pc' = [pc EXCEPT ![u] = "out", ![Head(waiters)] = "permit"]
      BY <2>2 DEF Release
    <3> QED BY <1>1, <3>1, <3>2, <3>3
  <2> QED BY <2>1, <2>2
<1>4. conn'[u] = NoConn /\ \A v \in Clients \ {u} : conn'[v] = conn[v] /\ dirty'[v] = dirty[v]
  BY <1>1, <1>2
<1>5. ConnMatchesPlace' BY <1>3, <1>4 DEF ConnsInv, ConnMatchesPlace
<1>6. QueuesApart' BY DEF ConnsInv, QueuesApart
<1>7. OwnedApart' BY <1>4 DEF ConnsInv, OwnedApart
<1>8. UsedIsDirty'
  <2>1. SUFFICES ASSUME NEW c \in Owed'
                 PROVE  \E v \in Clients :
                          /\ conn'[v] = c[1] /\ pc'[v] \in {"session", "reset"}
                          /\ c[2] = "write" => dirty'[v]
    BY DEF UsedIsDirty, Owed
  <2>2. PICK v \in Clients : /\ conn[v] = c[1] /\ pc[v] \in {"session", "reset"}
                             /\ c[2] = "write" => dirty[v]
    BY <2>1 DEF ConnsInv, UsedIsDirty, Owed, Without
  <2>3. v # u BY <2>1, <2>2 DEF Owed, Without
  <2> QED BY <1>3, <1>4, <2>2, <2>3
<1> QED BY <1>5, <1>6, <1>7, <1>8 DEF ConnsInv

\* Shutting, or changing hands between the queues, touches no task's stream.
LEMMA QueuesChange ==
  ASSUME Types, ConnsInv, UNCHANGED <<pc, conn, dirty>>, Owed' \subseteq Owed,
         QueuesApart',
         \A u \in Clients : conn[u] # NoConn =>
           conn[u] \notin Range(idle') \cup Range(slots') \cup Range(healthy')
  PROVE  ConnsInv'
<1>1. ConnMatchesPlace' BY DEF ConnsInv, ConnMatchesPlace
<1>2. OwnedApart' BY DEF ConnsInv, OwnedApart
<1>3. UsedIsDirty' BY DEF ConnsInv, UsedIsDirty
<1> QED BY <1>1, <1>2, <1>3 DEF ConnsInv

\* acquire's loop takes the front of the queue, for itself or to discard it.
LEMMA PopConns ==
  ASSUME Types, ConnsInv, NEW u \in Clients, Pop(u)
  PROVE  ConnsInv'
<1> DEFINE c == Head(idle)
<1>1. /\ pc \in [Clients -> Places] /\ conn \in [Clients -> Conns \cup {NoConn}]
      /\ idle \in Seq(Conns) /\ idle # <<>> /\ pc[u] = "permit" /\ idle' = Tail(idle)
      /\ UNCHANGED <<slots, healthy, dirty>>
  BY DEF Types, Pop, maintVars
<1>2. /\ c \in Conns /\ Range(idle) = Range(idle') \cup {c}
      /\ IsInjective(idle') /\ c \notin Range(idle')
  BY <1>1, PopFront DEF ConnsInv, QueuesApart
<1>3. QueuesApart' BY <1>1, <1>2 DEF ConnsInv, QueuesApart
<1>4. CASE used' = Without({c}) /\ UNCHANGED <<pc, conn>>
  <2>1. \A v \in Clients : conn[v] # NoConn =>
          conn[v] \notin Range(idle') \cup Range(slots') \cup Range(healthy')
    BY <1>1, <1>2 DEF ConnsInv, OwnedApart
  <2>2. Owed' \subseteq Owed BY <1>4 DEF Owed, Without
  <2> QED BY <1>1, <1>3, <1>4, <2>1, <2>2, QueuesChange
<1>5. ASSUME NEW p \in {"ping", "session"}, pc' = [pc EXCEPT ![u] = p],
             conn' = [conn EXCEPT ![u] = c], used' = used
      PROVE  ConnsInv'
  <2>1. conn[u] = NoConn BY <1>1 DEF ConnsInv, ConnMatchesPlace
  <2>2. /\ conn'[u] = c /\ pc'[u] = p
        /\ \A v \in Clients \ {u} : conn'[v] = conn[v] /\ pc'[v] = pc[v]
    BY <1>1, <1>5
  <2>3. c \in Range(idle) /\ c # NoConn BY <1>2, ConnsAssumption
  <2>4. \A v \in Clients : conn[v] # c BY <2>3 DEF ConnsInv, OwnedApart
  <2> HIDE DEF c
  <2>5. ConnMatchesPlace' BY <2>2, <2>3 DEF ConnsInv, ConnMatchesPlace
  <2>6. OwnedApart'
    <3>1. c \notin Range(idle') \cup Range(slots') \cup Range(healthy')
      BY <1>1, <1>2, <2>3 DEF ConnsInv, QueuesApart
    <3>2. \A v \in Clients \ {u} : conn'[v] # NoConn =>
            conn'[v] \notin Range(idle') \cup Range(slots') \cup Range(healthy')
      BY <1>1, <1>2, <2>2 DEF ConnsInv, OwnedApart
    <3>3. \A v \in Clients \ {u} : conn'[v] # c BY <2>2, <2>4
    <3>4. \A v \in Clients \ {u} : conn'[v] # NoConn =>
            \A w \in Clients \ {v} : conn'[w] # conn'[v]
      BY <2>2, <3>3 DEF ConnsInv, OwnedApart
    <3> QED BY <2>2, <3>1, <3>2, <3>3, <3>4 DEF OwnedApart
  <2>7. UsedIsDirty'
    <3>1. SUFFICES ASSUME NEW d \in Owed
                   PROVE  \E v \in Clients :
                            /\ conn'[v] = d[1] /\ pc'[v] \in {"session", "reset"}
                            /\ d[2] = "write" => dirty'[v]
      BY <1>5 DEF UsedIsDirty, Owed
    <3>2. PICK v \in Clients : /\ conn[v] = d[1] /\ pc[v] \in {"session", "reset"}
                               /\ d[2] = "write" => dirty[v]
      BY <3>1 DEF ConnsInv, UsedIsDirty, Owed, Without
    <3>3. v # u BY <1>1, <3>2
    <3> QED BY <1>1, <2>2, <3>2, <3>3
  <2> QED BY <1>3, <2>5, <2>6, <2>7 DEF ConnsInv
<1> QED BY <1>4, <1>5 DEF Pop

\* A task's step that takes its own stream no further than a new place: what
\* is left of the used connections must be vouched for.
LEMMA PlaceChange ==
  ASSUME Types, ConnsInv, NEW u \in Clients, NEW p \in Places,
         pc' = [pc EXCEPT ![u] = p], conn' = [conn EXCEPT ![u] = conn'[u]],
         UNCHANGED <<idle, slots, healthy, dirty>>,
         conn'[u] \in {conn[u], NoConn},
         conn'[u] # NoConn <=> p \in {"ping", "session", "reset", "park"},
         Owed' \subseteq Owed,
         (\E r \in Owed' : r[1] = conn[u]) =>
           p \in {"session", "reset"} /\ conn'[u] = conn[u]
  PROVE  ConnsInv'
<1>1. /\ pc \in [Clients -> Places] /\ conn \in [Clients -> Conns \cup {NoConn}]
  BY DEF Types
<1>2. /\ pc'[u] = p
      /\ \A v \in Clients \ {u} : conn'[v] = conn[v] /\ pc'[v] = pc[v]
  BY <1>1
<1>3. ConnMatchesPlace' BY <1>2 DEF ConnsInv, ConnMatchesPlace
<1>4. QueuesApart' BY DEF ConnsInv, QueuesApart
<1>5. OwnedApart' BY <1>2 DEF ConnsInv, OwnedApart
<1>6. UsedIsDirty'
  <2>1. SUFFICES ASSUME NEW d \in Owed'
                 PROVE  \E v \in Clients :
                          /\ conn'[v] = d[1] /\ pc'[v] \in {"session", "reset"}
                          /\ d[2] = "write" => dirty'[v]
    BY DEF UsedIsDirty, Owed
  <2>2. PICK v \in Clients : /\ conn[v] = d[1] /\ pc[v] \in {"session", "reset"}
                             /\ d[2] = "write" => dirty[v]
    BY <2>1 DEF ConnsInv, UsedIsDirty, Owed, Without
  <2>3. CASE v = u BY <1>2, <2>1, <2>2, <2>3
  <2>4. CASE v # u BY <1>2, <2>2, <2>4
  <2> QED BY <2>3, <2>4
<1> QED BY <1>3, <1>4, <1>5, <1>6 DEF ConnsInv

\* Every step of a client's task keeps the ownership of connections.
LEMMA ClientConns ==
  ASSUME PoolInv, NEW u \in Clients, Client(u)
  PROVE  ConnsInv'
<1> USE DEF maintVars
<1>0. Types /\ WaitersWait /\ ConnsInv BY DEF PoolInv, ConnsInv
<1>a. /\ pc \in [Clients -> Places] /\ conn \in [Clients -> Conns \cup {NoConn}]
      /\ dirty \in [Clients -> BOOLEAN] /\ used \subseteq Conns \X Residues
      /\ idle \in Seq(Conns)
  BY <1>0 DEF Types
<1>b. pc[u] \in {"out", "wait", "permit", "dial", "drop"} => conn[u] = NoConn
  BY <1>0 DEF ConnsInv, ConnMatchesPlace
<1>c. pc[u] \in {"ping", "session", "reset", "park"} => conn[u] \in Conns
  BY <1>0, <1>a DEF ConnsInv, ConnMatchesPlace
<1>d. \A r \in used : r[1] \in Conns /\ r[1] # NoConn BY <1>a, ConnsAssumption
<1>e. conn = [conn EXCEPT ![u] = conn[u]] BY <1>a
<1>f. \A r \in Owed : r[1] = conn[u] => /\ pc[u] \in {"session", "reset"}
                                        /\ r[2] = "write" => dirty[u]
  <2>1. SUFFICES ASSUME NEW r \in Owed, r[1] = conn[u]
                 PROVE  pc[u] \in {"session", "reset"} /\ (r[2] = "write" => dirty[u])
    OBVIOUS
  <2>2. PICK v \in Clients : /\ conn[v] = r[1] /\ pc[v] \in {"session", "reset"}
                             /\ r[2] = "write" => dirty[v]
    BY <1>0, <2>1 DEF ConnsInv, UsedIsDirty
  <2>3. v = u BY <1>0, <1>d, <2>1, <2>2 DEF ConnsInv, OwnedApart, Owed
  <2> QED BY <2>2, <2>3
<1>g. used' = used => Owed' = Owed BY DEF Owed
<1>h. used' = Without({conn[u]}) => Owed' \subseteq Owed /\ \A r \in Owed' : r[1] # conn[u]
  BY DEF Owed, Without
<1>i. conn[u] = NoConn => \A r \in Owed : r[1] # conn[u] BY <1>d DEF Owed
<1>1. CASE Ask(u)
  <2>1. PICK p \in {"permit", "wait"} : pc' = [pc EXCEPT ![u] = p] BY <1>1 DEF Ask
  <2>2. UNCHANGED <<conn, idle, slots, healthy, dirty, used>> /\ conn[u] = NoConn
    BY <1>1, <1>b DEF Ask
  <2> QED BY <1>0, <1>e, <1>g, <1>i, <2>1, <2>2, PlaceChange DEF Places
<1>2. CASE AskTimesOut(u)
  <2>1. UNCHANGED <<conn, idle, slots, healthy, dirty, used>> /\ conn[u] = NoConn
    BY <1>2, <1>b DEF AskTimesOut
  <2>2. pc' = [pc EXCEPT ![u] = "out"] BY <1>2 DEF AskTimesOut
  <2> QED BY <1>0, <1>e, <1>g, <1>i, <2>1, <2>2, PlaceChange DEF Places
<1>3. CASE Pop(u) BY <1>0, <1>3, PopConns
<1>4. CASE Pinged(u)
  <2>1. CASE pc' = [pc EXCEPT ![u] = "session"] /\ UNCHANGED <<conn, used>>
    <3>1. UNCHANGED <<idle, slots, healthy, dirty>> /\ conn[u] # NoConn
      BY <1>4, <1>c, ConnsAssumption DEF Pinged
    <3> QED BY <1>0, <1>e, <1>g, <2>1, <3>1, PlaceChange DEF Places
  <2>2. CASE /\ pc' = [pc EXCEPT ![u] = "permit"]
             /\ conn' = [conn EXCEPT ![u] = NoConn]
             /\ used' = Without({conn[u]})
    <3>1. UNCHANGED <<idle, slots, healthy, dirty>> /\ conn'[u] = NoConn
      BY <1>4, <1>a, <2>2 DEF Pinged
    <3> QED BY <1>0, <1>h, <2>2, <3>1, PlaceChange DEF Places
  <2> QED BY <1>4, <2>1, <2>2 DEF Pinged
<1>5. CASE Dial(u)
  <2>1. UNCHANGED <<conn, idle, slots, healthy, dirty, used>> /\ conn[u] = NoConn
    BY <1>5, <1>b DEF Dial
  <2>2. pc' = [pc EXCEPT ![u] = "dial"] BY <1>5 DEF Dial
  <2> QED BY <1>0, <1>e, <1>g, <1>i, <2>1, <2>2, PlaceChange DEF Places
<1>6. CASE Dialled(u)
  <2>1. PICK c \in Conns \ Live : conn' = [conn EXCEPT ![u] = c] BY <1>6 DEF Dialled
  <2>2. /\ c # NoConn /\ c \notin Range(idle) \cup Range(slots) \cup Range(healthy)
        /\ \A v \in Clients : conn[v] # c
    BY <2>1, <1>a, ConnsAssumption DEF Live, Range
  <2>3. /\ conn'[u] = c /\ pc'[u] = "session"
        /\ \A v \in Clients \ {u} : conn'[v] = conn[v] /\ pc'[v] = pc[v]
        /\ UNCHANGED <<idle, slots, healthy, dirty, used>>
    BY <1>a, <1>6, <2>1 DEF Dialled
  <2>4. ConnMatchesPlace' BY <1>0, <2>2, <2>3 DEF ConnsInv, ConnMatchesPlace
  <2>5. QueuesApart' BY <1>0, <2>3 DEF ConnsInv, QueuesApart
  <2>6. OwnedApart' BY <1>0, <2>2, <2>3 DEF ConnsInv, OwnedApart
  <2>7. UsedIsDirty'
    <3>1. SUFFICES ASSUME NEW d \in Owed
                   PROVE  \E v \in Clients :
                            /\ conn'[v] = d[1] /\ pc'[v] \in {"session", "reset"}
                            /\ d[2] = "write" => dirty'[v]
      BY <2>3 DEF UsedIsDirty, Owed
    <3>2. PICK v \in Clients : /\ conn[v] = d[1] /\ pc[v] \in {"session", "reset"}
                               /\ d[2] = "write" => dirty[v]
      BY <1>0, <3>1 DEF ConnsInv, UsedIsDirty, Owed, Without
    <3>3. v # u BY <1>6, <3>2 DEF Dialled
    <3> QED BY <2>3, <3>2, <3>3
  <2> QED BY <2>4, <2>5, <2>6, <2>7 DEF ConnsInv
<1>7. CASE DialFails(u)
  <2>1. used' = Without({conn[u]}) BY <1>7, <1>b, <1>d DEF DialFails, Without
  <2> QED BY <1>0, <1>7, <2>1, ReleaseConns DEF DialFails
<1>8. CASE WriteCommand(u)
  <2>1. /\ pc[u] = "session" /\ UNCHANGED <<pc, conn, idle, slots, healthy>>
        /\ dirty' = [dirty EXCEPT ![u] = TRUE] /\ used' = used \cup {<<conn[u], "write">>}
    BY <1>8 DEF WriteCommand
  <2>2. dirty'[u] /\ \A v \in Clients : dirty[v] => dirty'[v] BY <1>a, <2>1
  <2>3. UsedIsDirty'
    <3>1. ASSUME NEW r \in Owed'
          PROVE  \E v \in Clients : /\ conn[v] = r[1] /\ pc[v] \in {"session", "reset"}
                                    /\ r[2] = "write" => dirty'[v]
      <4>1. CASE r \in Owed BY <1>0, <2>2, <4>1 DEF ConnsInv, UsedIsDirty
      <4>2. CASE r = <<conn[u], "write">> BY <2>1, <2>2, <4>2
      <4> QED BY <2>1, <3>1, <4>1, <4>2 DEF Owed
    <3> QED BY <2>1, <3>1 DEF UsedIsDirty
  <2>4. ConnMatchesPlace' /\ QueuesApart' /\ OwnedApart'
    BY <1>0, <2>1 DEF ConnsInv, ConnMatchesPlace, QueuesApart, OwnedApart
  <2> QED BY <2>3, <2>4 DEF ConnsInv
<1>15. CASE StatefulRead(u)
  <2>1. /\ pc[u] = "session" /\ UNCHANGED <<pc, conn, idle, slots, healthy, dirty>>
        /\ used' = used \cup {<<conn[u], "read">>}
    BY <1>15 DEF StatefulRead
  <2>2. UsedIsDirty'
    <3>1. ASSUME NEW r \in Owed'
          PROVE  \E v \in Clients : /\ conn[v] = r[1] /\ pc[v] \in {"session", "reset"}
                                    /\ r[2] = "write" => dirty[v]
      <4>1. CASE r \in Owed BY <1>0, <4>1 DEF ConnsInv, UsedIsDirty
      <4>2. CASE r = <<conn[u], "read">> BY <2>1, <4>2
      <4> QED BY <2>1, <3>1, <4>1, <4>2 DEF Owed
    <3> QED BY <2>1, <3>1 DEF UsedIsDirty
  <2>3. ConnMatchesPlace' /\ QueuesApart' /\ OwnedApart'
    BY <1>0, <2>1 DEF ConnsInv, ConnMatchesPlace, QueuesApart, OwnedApart
  <2> QED BY <2>2, <2>3 DEF ConnsInv
<1>9. CASE EndSession(u)
  <2>1. /\ pc[u] = "session" /\ UNCHANGED <<conn, idle, slots, healthy, dirty>>
        /\ pc' = [pc EXCEPT ![u] = IF NeedsReset(u) THEN "reset" ELSE "park"]
        /\ used' \in {used, used \cup {<<conn[u], "bytes">>}}
    BY <1>9 DEF EndSession
  <2>2. conn[u] # NoConn BY <1>c, <2>1, ConnsAssumption
  <2>3. Owed' \subseteq Owed BY <2>1, StrategyAssumption DEF Owed, Erased
  <2>4. CASE NeedsReset(u)
    <3>1. pc' = [pc EXCEPT ![u] = "reset"] BY <2>1, <2>4
    <3> QED BY <1>0, <1>e, <2>1, <2>2, <2>3, <3>1, PlaceChange DEF Places
  <2>5. CASE ~NeedsReset(u)
    <3>1. \A r \in Owed : r[1] # conn[u]
      <4> SUFFICES ASSUME NEW r \in Owed, r[1] = conn[u] PROVE FALSE OBVIOUS
      <4>1. r[2] = "write" /\ Strategy = "smart"
        BY <2>5, StrategyAssumption DEF NeedsReset, Owed, Erased
      <4> QED BY <1>f, <2>5, <4>1 DEF NeedsReset
    <3>2. pc' = [pc EXCEPT ![u] = "park"] BY <2>1, <2>5
    <3> QED BY <1>0, <1>e, <2>1, <2>2, <2>3, <3>1, <3>2, PlaceChange DEF Places
  <2> QED BY <2>4, <2>5
<1>10. CASE Retire(u) BY <1>0, <1>10, ReleaseConns DEF Retire
<1>11. CASE ResetOk(u)
  <2>1. /\ pc[u] = "reset" /\ UNCHANGED <<conn, idle, slots, healthy, dirty>>
        /\ pc' = [pc EXCEPT ![u] = "park"]
        /\ used' = used \ {<<conn[u], kind>> : kind \in {"write", "read"}}
    BY <1>11 DEF ResetOk
  <2>2. conn[u] # NoConn BY <1>c, <2>1, ConnsAssumption
  <2>3. Owed' \subseteq Owed BY <2>1 DEF Owed
  <2>4. \A r \in Owed' : r[1] # conn[u]
    <3> SUFFICES ASSUME NEW r \in Owed', r[1] = conn[u] PROVE FALSE OBVIOUS
    <3>1. r \in used /\ r = <<r[1], r[2]>> BY <1>a, <2>3 DEF Owed
    <3>2. r[2] \in {"write", "read"} BY StrategyAssumption DEF Owed, Erased
    <3> QED BY <2>1, <3>1, <3>2 DEF Owed
  <2> QED BY <1>0, <1>e, <2>1, <2>2, <2>3, <2>4, PlaceChange DEF Places
<1>12. CASE ResetFails(u) BY <1>0, <1>12, ReleaseConns DEF ResetFails
<1>13. CASE Park(u)
  <2> DEFINE c == conn[u]
  <2>1. /\ pc[u] = "park" /\ idle' = Append(idle, c)
        /\ conn' = [conn EXCEPT ![u] = NoConn] /\ pc' = [pc EXCEPT ![u] = "drop"]
        /\ UNCHANGED <<slots, healthy, dirty, used>>
    BY <1>13 DEF Park
  <2>2. /\ c \in Conns /\ c # NoConn
        /\ c \notin Range(idle) \cup Range(slots) \cup Range(healthy)
        /\ \A v \in Clients \ {u} : conn[v] # c
    BY <1>0, <1>c, <2>1, ConnsAssumption DEF ConnsInv, OwnedApart
  <2>3. /\ conn'[u] = NoConn /\ pc'[u] = "drop"
        /\ \A v \in Clients \ {u} : conn'[v] = conn[v] /\ pc'[v] = pc[v]
    BY <1>a, <2>1
  <2> HIDE DEF c
  <2>4. Range(idle') = Range(idle) \cup {c} /\ IsInjective(idle')
    BY <1>0, <1>a, <2>1, <2>2, PushBack DEF ConnsInv, QueuesApart
  <2>5. ConnMatchesPlace' BY <1>0, <2>3 DEF ConnsInv, ConnMatchesPlace
  <2>6. QueuesApart' BY <1>0, <2>1, <2>2, <2>4 DEF ConnsInv, QueuesApart
  <2>7. OwnedApart' BY <1>0, <2>1, <2>2, <2>3, <2>4 DEF ConnsInv, OwnedApart
  <2>8. UsedIsDirty'
    <3>1. SUFFICES ASSUME NEW d \in Owed
                   PROVE  \E v \in Clients :
                            /\ conn'[v] = d[1] /\ pc'[v] \in {"session", "reset"}
                            /\ d[2] = "write" => dirty'[v]
      BY <2>1 DEF UsedIsDirty, Owed
    <3>2. PICK v \in Clients : /\ conn[v] = d[1] /\ pc[v] \in {"session", "reset"}
                               /\ d[2] = "write" => dirty[v]
      BY <1>0, <3>1 DEF ConnsInv, UsedIsDirty, Owed, Without
    <3>3. v # u BY <2>1, <3>2
    <3> QED BY <2>1, <2>3, <3>2, <3>3
  <2> QED BY <2>5, <2>6, <2>7, <2>8 DEF ConnsInv
<1>14. CASE DropPermit(u)
  <2>1. used' = Without({conn[u]}) BY <1>14, <1>b, <1>d DEF DropPermit, Without
  <2> QED BY <1>0, <1>14, <2>1, ReleaseConns DEF DropPermit
<1> QED BY <1>1, <1>2, <1>3, <1>4, <1>5, <1>6, <1>7, <1>8, <1>9, <1>10, <1>11, <1>12,
           <1>13, <1>14, <1>15 DEF Client, Proceed

\* So do the maintenance task and close.
LEMMA OtherConns ==
  ASSUME PoolInv, Maintain \/ Close \/ CloseClears \/ UNCHANGED vars
  PROVE  ConnsInv'
<1> USE DEF clientVars, maintVars
<1>0. Types /\ ConnsInv BY DEF PoolInv, ConnsInv
<1>a. /\ idle \in Seq(Conns) /\ slots \in Seq(Conns) /\ healthy \in Seq(Conns)
      /\ conn \in [Clients -> Conns \cup {NoConn}]
  BY <1>0 DEF Types
<1>b. /\ QueuesApart
      /\ \A u \in Clients : conn[u] # NoConn =>
           conn[u] \notin Range(idle) \cup Range(slots) \cup Range(healthy)
  BY <1>0 DEF ConnsInv, OwnedApart
<1>c. used' \subseteq used => Owed' \subseteq Owed BY DEF Owed
<1>1. CASE UNCHANGED <<idle, slots, healthy, used, pc, conn, dirty>>
  <2>1. QueuesApart' BY <1>b, <1>1 DEF QueuesApart
  <2> QED BY <1>0, <1>b, <1>c, <1>1, <2>1, QueuesChange
<1>2. CASE CloseClears
  <2>1. /\ Range(idle') = {} /\ IsInjective(idle') /\ used' \subseteq used
        /\ UNCHANGED <<slots, healthy, pc, conn, dirty>>
    BY <1>2, EmptyQueue DEF CloseClears, Without
  <2>2. QueuesApart' BY <1>b, <2>1 DEF QueuesApart
  <2> QED BY <1>0, <1>b, <1>c, <2>1, <2>2, QueuesChange
<1>3. CASE Prune
  <2>1. /\ Range(idle') \subseteq Range(idle) /\ IsInjective(idle')
    BY <1>a, <1>b, <1>3, RetainedKeeps DEF Prune, QueuesApart
  <2>2. used' \subseteq used /\ UNCHANGED <<slots, healthy, pc, conn, dirty>>
    BY <1>3 DEF Prune, Without
  <2>3. QueuesApart' BY <1>b, <2>1, <2>2 DEF QueuesApart
  <2> QED BY <1>0, <1>b, <1>c, <2>1, <2>2, <2>3, QueuesChange
<1>4. CASE WarmDialled
  <2>1. UNCHANGED <<used, slots, healthy, pc, conn, dirty>> BY <1>4 DEF WarmDialled
  <2>2. CASE UNCHANGED idle BY <1>1, <2>1, <2>2
  <2>3. ASSUME NEW c \in Conns \ Live, idle' = Append(idle, c) PROVE ConnsInv'
    <3>1. /\ c \notin Range(idle) \cup Range(slots) \cup Range(healthy)
          /\ \A v \in Clients : conn[v] # c
      BY <2>3, <1>a, ConnsAssumption DEF Live, Range
    <3>2. Range(idle') = Range(idle) \cup {c} /\ IsInjective(idle')
      BY <1>a, <1>b, <2>3, <3>1, PushBack DEF QueuesApart
    <3>3. QueuesApart' BY <1>b, <2>1, <3>1, <3>2 DEF QueuesApart
    <3>4. \A u \in Clients : conn[u] # NoConn =>
            conn[u] \notin Range(idle') \cup Range(slots') \cup Range(healthy')
      BY <1>b, <2>1, <3>1, <3>2
    <3> QED BY <1>0, <1>c, <2>1, <3>3, <3>4, QueuesChange
  <2> QED BY <1>4, <2>2, <2>3 DEF WarmDialled
<1>5. CASE CheckDrain
  <2>1. /\ slots' = idle /\ Range(idle') = {} /\ IsInjective(idle')
        /\ UNCHANGED <<used, healthy, pc, conn, dirty>>
    BY <1>5, EmptyQueue DEF CheckDrain
  <2>2. QueuesApart' BY <1>b, <2>1 DEF QueuesApart
  <2> QED BY <1>0, <1>b, <1>c, <2>1, <2>2, QueuesChange
<1>6. CASE CheckPinged
  <2> DEFINE c == Head(slots)
  <2>1. /\ slots' = Tail(slots) /\ UNCHANGED <<idle, pc, conn, dirty>>
        /\ used' \subseteq used /\ healthy' \in {healthy, Append(healthy, c)}
    BY <1>6 DEF CheckPinged, Without
  <2>2. /\ c \in Conns /\ Range(slots) = Range(slots') \cup {c}
        /\ IsInjective(slots') /\ c \notin Range(slots')
    BY <1>a, <1>b, <1>6, <2>1, PopFront DEF CheckPinged, QueuesApart
  <2> HIDE DEF c
  <2>3. c \notin Range(healthy) /\ c \notin Range(idle)
    BY <1>b, <2>2 DEF QueuesApart
  <2>4. Range(healthy') \subseteq Range(healthy) \cup {c} /\ IsInjective(healthy')
    <3>1. CASE healthy' = healthy BY <1>b, <3>1 DEF QueuesApart
    <3>2. CASE healthy' = Append(healthy, c)
      BY <1>a, <1>b, <2>2, <2>3, <3>2, PushBack DEF QueuesApart
    <3> QED BY <2>1, <3>1, <3>2
  <2>5. QueuesApart' BY <1>b, <2>1, <2>2, <2>3, <2>4 DEF QueuesApart
  <2>6. \A u \in Clients : conn[u] # NoConn =>
          conn[u] \notin Range(idle') \cup Range(slots') \cup Range(healthy')
    BY <1>b, <2>1, <2>2, <2>4
  <2> QED BY <1>0, <1>c, <2>1, <2>5, <2>6, QueuesChange
<1>7. CASE CheckReplace
  <2>1. /\ idle' = healthy /\ Range(healthy') = {} /\ IsInjective(healthy')
        /\ used' \subseteq used /\ UNCHANGED <<slots, pc, conn, dirty>>
    BY <1>7, EmptyQueue DEF CheckReplace, Without
  <2>2. QueuesApart' BY <1>b, <2>1 DEF QueuesApart
  <2> QED BY <1>0, <1>b, <1>c, <2>1, <2>2, QueuesChange
<1>8. CASE Close \/ StopMaintenance \/ WarmCount \/ WarmHeadroom \/ WarmDial \/ WarmEnds
  BY <1>1, <1>8 DEF Close, StopMaintenance, WarmCount, WarmHeadroom, WarmDial, WarmEnds
<1>9. CASE UNCHANGED vars BY <1>1, <1>9 DEF vars
<1> QED BY <1>2, <1>3, <1>4, <1>5, <1>6, <1>7, <1>8, <1>9 DEF Maintain

-----------------------------------------------------------------------------
(* The theorems.                                                           *)

\* The invariant holds of every behaviour of the pool.
LEMMA PoolInvariant == Spec => []PoolInv
<1>1. Init => PoolInv
  <2> SUFFICES ASSUME Init PROVE PoolInv OBVIOUS
  <2>1. Types /\ WarmIsShort
    <3>1. /\ <<>> \in Seq(Conns) /\ <<>> \in Seq(Clients)
          /\ MaxConnections \in Nat /\ 0 \in 0..MinConnections
      BY LimitsAssumption, EmptySeq
    <3> QED BY <3>1 DEF Init, Types, WarmIsShort, Places
  <2>2. Holders = {} BY DEF Init, Holders
  <2>3. PermitsConserved
    BY <2>2, FS_EmptySet, LimitsAssumption DEF Init, PermitsConserved
  <2>4. WaitersWait BY EmptyQueue DEF Init, WaitersWait
  <2>5. ConnMatchesPlace /\ OwnedApart /\ UsedIsDirty
    BY DEF Init, ConnMatchesPlace, OwnedApart, UsedIsDirty, Owed
  <2>6. QueuesApart BY EmptyQueue DEF Init, QueuesApart
  <2> QED BY <2>1, <2>3, <2>4, <2>5, <2>6 DEF PoolInv
<1>2. PoolInv /\ [Next]_vars => PoolInv'
  <2> SUFFICES ASSUME PoolInv, [Next]_vars PROVE PoolInv' OBVIOUS
  <2>1. Types' /\ WarmIsShort' BY TypesStep
  <2>2. PermitsConserved' /\ WaitersWait' BY PermitsStep
  <2>3. ConnsInv' BY ClientConns, OtherConns DEF Next
  <2> QED BY <2>1, <2>2, <2>3 DEF PoolInv, ConnsInv
<1> QED BY <1>1, <1>2, PTL DEF Spec

\* The variables keep their types: in particular the semaphore never holds
\* more permits than max_connections (Pool::new's Semaphore::new).
THEOREM TypeCorrect == Spec => []TypeOK
<1>1. PoolInv => TypeOK
  <2> SUFFICES ASSUME PoolInv PROVE TypeOK OBVIOUS
  <2>1. Types /\ PermitsConserved BY DEF PoolInv
  <2>2. permits \in 0..MaxConnections
    BY <2>1, HoldersFinite, LimitsAssumption DEF Types, PermitsConserved
  <2> QED BY <2>1, <2>2 DEF Types, TypeOK
<1> QED BY <1>1, PoolInvariant, PTL

\* On every path a checkout can take (recycle, retire, a failed reset, a failed
\* dial, a timed out wait) the permits out and the permits free add up to
\* max_connections.
THEOREM PermitsAreConserved == Spec => []PermitsConserved
<1>1. PoolInv => PermitsConserved BY DEF PoolInv
<1> QED BY <1>1, PoolInvariant, PTL

\* acquire makes a caller wait only while no permit is free, and its queue
\* holds exactly the callers that wait, once each.
THEOREM OnlyWaitersQueue == Spec => []WaitersWait
<1>1. PoolInv => WaitersWait BY DEF PoolInv
<1> QED BY <1>1, PoolInvariant, PTL

\* However checkouts, returns, pruning, warming, health checks and close
\* interleave, no backend connection has two owners.
THEOREM ConnectionsHaveOneOwner == Spec => []OneOwner
<1>1. PoolInv => OneOwner BY OneOwnerParts DEF PoolInv
<1> QED BY <1>1, PoolInvariant, PTL

\* What a session leaves on a connection and its strategy promises to erase ("always":
\* the server's session state, "smart": that of commands the relay counts as writes)
\* is reset, or closed with it, before another session can have the connection.
THEOREM StateIsNotInherited == Spec => []StateStaysWithSession
<1>1. PoolInv => StateStaysWithSession
  BY DEF PoolInv, UsedIsDirty, Owed, StateStaysWithSession
<1> QED BY <1>1, PoolInvariant, PTL
=============================================================================
