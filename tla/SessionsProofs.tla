--------------------------- MODULE SessionsProofs ---------------------------
(***************************************************************************)
(* Proofs about module Sessions, for every number of tasks, keys and links *)
(* and every connection limit.                                             *)
(***************************************************************************)
EXTENDS Sessions, FiniteSetTheorems, TLAPS

USE DEF cancelVars

\* Every variable has the type the code gives it: the counters stay in range,
\* and each task is in a phase of Conn::handle with ids, keys and links of the
\* right kind.
THEOREM TypeCorrect == Spec => []TypeOK
<1> USE SessionConstants DEF TypeOK
<1>1. Init => TypeOK
  BY DEF Init, Ids, Phases
<1>2. TypeOK /\ [Next]_vars => TypeOK'
  <2> SUFFICES ASSUME TypeOK, [Next]_vars PROVE TypeOK'
    OBVIOUS
  <2>1. CASE UNCHANGED vars
    BY <2>1 DEF vars, taskVars, registryVars
  <2>2. ASSUME NEW t \in Tasks, RuntimeStep(t) PROVE TypeOK'
    <3>1. CASE Admit(t) \/ Refuse(t) \/ SendRefusal(t)
      BY <3>1 DEF Admit, Refuse, SendRefusal, Goto, Phases, HoldsPermit, registryVars
    <3>2. ASSUME NEW k \in Keys, Register(t, k) PROVE TypeOK'
      BY <3>2 DEF Register, Goto, Phases, HoldsPermit
    <3>3. CASE RegisterExhausted(t) \/ Expire(t) \/ SendExpired(t) \/ ReleasePermit(t)
      BY <3>3 DEF RegisterExhausted, Expire, SendExpired, ReleasePermit, Goto,
                  Phases, HoldsPermit, registryVars
    <3>4. CASE DropConn(t)
      <4>1. pc' \in [Tasks -> Phases] /\ backend' \in [Tasks -> Links \cup {NoLink}]
            /\ session_key' \in [Tasks -> Keys \cup {NoKey}]
        BY <3>4 DEF DropConn, Goto, Phases
      <4>2. conn_backend' \in [Ids -> Links \cup {NoLink}]
            /\ key_secret_backend' \in [Keys -> Links \cup {NoLink}]
        BY <3>4 DEF DropConn, DropGuard, registryVars
      <4> QED
        BY <3>4, <4>1, <4>2 DEF DropConn
    <3> QED
      BY <2>2, <3>1, <3>2, <3>3, <3>4 DEF RuntimeStep
  <2>3. ASSUME NEW t \in Tasks, PeerStep(t) PROVE TypeOK'
    <3>1. CASE Accept(t)
      <4>1. (next_id + 1) % IdSpace \in Ids
        BY DEF Ids
      <4> QED
        BY <3>1, <4>1 DEF Accept, NextId, Goto, Phases, registryVars
    <3>2. CASE \/ FailStartup(t) \/ Authenticated(t) \/ SendCancel(t) \/ LinkFail(t)
               \/ Announce(t) \/ SendExpiredLate(t)
      BY <3>2 DEF FailStartup, Authenticated, SendCancel, LinkFail, Announce,
                  SendExpiredLate, Goto, Phases, HoldsPermit, registryVars
    <3>3. ASSUME NEW k \in Keys, CancelRequest(t, k) \/ CancelIgnored(t, k) PROVE TypeOK'
      BY <3>3 DEF CancelRequest, CancelIgnored, LookupByKey, Goto, Phases, HoldsPermit, registryVars
    <3>4. ASSUME NEW l \in Links, LinkUp(t, l) PROVE TypeOK'
      BY <3>4 DEF LinkUp, Goto, Phases, HoldsPermit, registryVars
    <3> QED
      BY <2>3, <3>1, <3>2, <3>3, <3>4 DEF PeerStep
  <2> QED
    BY <2>1, <2>2, <2>3 DEF Next
<1> QED
  BY <1>1, <1>2, PTL DEF Spec
-----------------------------------------------------------------------------
(* The permit counter. *)

\* A task that enters handle raises the number of permit holders by one.
LEMMA HolderAdded ==
  ASSUME NEW S, IsFiniteSet(S), NEW t, t \notin S
  PROVE  Cardinality(S \cup {t}) = Cardinality(S) + 1
BY FS_AddElement

\* A task that leaves handle lowers it by one.
LEMMA HolderRemoved ==
  ASSUME NEW S, IsFiniteSet(S), NEW t \in S
  PROVE  /\ Cardinality(S \ {t}) = Cardinality(S) - 1
         /\ Cardinality(S) \in Nat \ {0}
<1>1. Cardinality(S) \in Nat /\ Cardinality(S \ {t}) = Cardinality(S) - 1
  BY FS_RemoveElement, FS_CardinalityType
<1>2. Cardinality(S) # 0
  BY FS_EmptySet
<1> QED BY <1>1, <1>2

\* The steps that neither acquire nor release a permit keep the holders.
LEMMA HoldersKept ==
  ASSUME TypeOK, NEW t \in Tasks, NEW p \in Phases, Goto(t, p),
         pc[t] \in HoldsPermit <=> p \in HoldsPermit
  PROVE  PermitHolders' = PermitHolders
BY DEF TypeOK, Goto, PermitHolders

\* The permit counter equals the number of tasks inside handle, and the limit
\* is never exceeded, whichever way the tasks leave handle.
THEOREM PermitsCorrect == Spec => []PermitsBalanced
<1> USE SessionConstants
<1>1. Init => PermitsBalanced
  <2> SUFFICES ASSUME Init PROVE PermitsBalanced
    OBVIOUS
  <2>1. PermitHolders = {}
    BY DEF Init, PermitHolders, HoldsPermit
  <2> QED
    BY <2>1, FS_EmptySet DEF Init, PermitsBalanced
<1>2. TypeOK /\ PermitsBalanced /\ [Next]_vars => PermitsBalanced'
  <2> SUFFICES ASSUME TypeOK, PermitsBalanced, [Next]_vars PROVE PermitsBalanced'
    OBVIOUS
  <2>f. IsFiniteSet(PermitHolders)
    BY FS_Subset DEF PermitHolders
  <2>k. ASSUME PermitHolders' = PermitHolders, live' = live PROVE PermitsBalanced'
    BY <2>k DEF PermitsBalanced
  <2>1. CASE UNCHANGED vars
    BY <2>1, <2>k DEF vars, taskVars, PermitHolders
  <2>2. ASSUME NEW t \in Tasks, Admit(t) PROVE PermitsBalanced'
    <3>1. t \notin PermitHolders /\ PermitHolders' = PermitHolders \cup {t}
      BY <2>2 DEF Admit, Goto, PermitHolders, HoldsPermit, TypeOK
    <3> QED
      BY <2>2, <2>f, <3>1, HolderAdded DEF Admit, HasRoom, PermitsBalanced, TypeOK
  <2>3. ASSUME NEW t \in Tasks, ReleasePermit(t) PROVE PermitsBalanced'
    <3>1. t \in PermitHolders /\ PermitHolders' = PermitHolders \ {t}
      BY <2>3 DEF ReleasePermit, Goto, PermitHolders, HoldsPermit, TypeOK
    <3>2. Cardinality(PermitHolders') = Cardinality(PermitHolders) - 1
          /\ Cardinality(PermitHolders) \in Nat \ {0}
      BY <2>f, <3>1, HolderRemoved
    <3> QED
      BY <2>3, <3>2 DEF ReleasePermit, PermitsBalanced, TypeOK
  <2>4. ASSUME NEW t \in Tasks,
               \/ Accept(t) \/ Refuse(t) \/ SendRefusal(t) \/ DropConn(t)
        PROVE  PermitsBalanced'
    <3>1. PermitHolders' = PermitHolders
      <4>1. PICK p \in {"spawned", "refusing", "dropping", "idle"} :
              Goto(t, p) /\ pc[t] \in {"idle", "spawned", "refusing", "dropping"}
        BY <2>4 DEF Accept, Refuse, SendRefusal, DropConn
      <4> QED
        BY <4>1, HoldersKept DEF Phases, HoldsPermit
    <3> QED
      BY <2>4, <2>k, <3>1 DEF Accept, Refuse, SendRefusal, DropConn
  <2>5. ASSUME NEW t \in Tasks,
               \/ FailStartup(t) \/ SendCancel(t) \/ Authenticated(t) \/ LinkFail(t)
               \/ RegisterExhausted(t) \/ Announce(t) \/ Expire(t) \/ SendExpired(t)
               \/ SendExpiredLate(t)
               \/ \E k \in Keys : \/ CancelRequest(t, k) \/ CancelIgnored(t, k)
                                  \/ Register(t, k)
               \/ \E l \in Links : LinkUp(t, l)
        PROVE  PermitsBalanced'
    <3>1. PermitHolders' = PermitHolders
      <4>1. PICK p \in HoldsPermit : Goto(t, p) /\ pc[t] \in HoldsPermit
        BY <2>5 DEF FailStartup, SendCancel, Authenticated, LinkFail, RegisterExhausted,
                    Announce, Expire, SendExpired, SendExpiredLate, CancelRequest, CancelIgnored,
                    Register, LinkUp, HoldsPermit, Awaiting
      <4> QED
        BY <4>1, HoldersKept DEF Phases
    <3>2. live' = live
      BY <2>5 DEF FailStartup, SendCancel, Authenticated, LinkFail, RegisterExhausted,
                  Announce, Expire, SendExpired, SendExpiredLate, CancelRequest, CancelIgnored,
                  Register, LinkUp
    <3> QED
      BY <2>k, <3>1, <3>2
  <2> QED
    BY <2>1, <2>2, <2>3, <2>4, <2>5 DEF Next, RuntimeStep, PeerStep
<1> QED
  BY <1>1, <1>2, TypeCorrect, PTL DEF Spec
-----------------------------------------------------------------------------
(* The registry.  The argument: while ids do not wrap, the entry a guard   *)
(* removes is the entry it inserted, so the two maps and the guards stay   *)
(* in step; a link is fresh when it is opened and only registered links    *)
(* become cancel targets, so nobody shares a link or a key.                *)

\* A step that moves one task between phases in which it may hold nothing but
\* a session, and changes nothing else the registry depends on.
LEMMA QuietStep ==
  ASSUME RegistryInv, TypeOK', NEW t \in Tasks, NEW p, Goto(t, p),
         UNCHANGED <<next_id, accepted, registryVars, conn_id, backend,
                     session_key, cancelVars>>,
         pc[t] \notin {"idle", "linked", "cancelling"},
         p \notin {"idle", "linked", "cancelling", "announcing"},
         Sessioned(t) => p \in {"returning", "dropping"}
  PROVE  RegistryInv'
<1> USE DEF RegistryInv, Goto, TypeOK, registryVars, Sessioned
<1>1. IdsDistinct'
  BY DEF IdsDistinct
<1>2. HoldingsMatchPhase'
  BY DEF HoldingsMatchPhase
<1>3. HoldingsExclusive'
  BY DEF HoldingsExclusive
<1>4. KeyLivesWithSession'
  BY DEF KeyLivesWithSession, CancelKeyExact
<1> QED
  BY <1>1, <1>2, <1>3, <1>4

\* Below its modulus, an id is not wrapped.
LEMMA SmallMod ==
  ASSUME NEW n \in Nat, NEW m \in Nat \ {0}, n < m
  PROVE  n % m = n
OBVIOUS

\* Accepting a connection gives it an id no live task has.
LEMMA AcceptStep ==
  ASSUME NoWrap, RegistryInv, TypeOK', NEW t \in Tasks, Accept(t)
  PROVE  RegistryInv'
<1> USE SessionConstants DEF RegistryInv, Accept, Goto, registryVars
<1>1. next_id' = next_id + 1
  <2>1. next_id + 1 \in Nat /\ next_id + 1 < IdSpace /\ IdSpace \in Nat \ {0}
    BY DEF NoWrap, IdsDistinct, TypeOK
  <2> QED
    BY <2>1, SmallMod DEF NextId
<1>2. /\ ~Sessioned(t) /\ backend[t] = NoLink
      /\ cancel_target[t] = NoLink /\ cancel_key[t] = NoKey
  BY DEF HoldingsMatchPhase
<1>3. IdsDistinct'
  BY <1>1 DEF IdsDistinct, TypeOK, Ids
<1>4. HoldingsMatchPhase'
  BY <1>2 DEF HoldingsMatchPhase, Sessioned, TypeOK
<1>5. HoldingsExclusive'
  BY DEF HoldingsExclusive, Sessioned, TypeOK
<1>6. KeyLivesWithSession'
  BY <1>2 DEF KeyLivesWithSession, CancelKeyExact, Sessioned, TypeOK
<1> QED
  BY <1>3, <1>4, <1>5, <1>6

\* A cancel handler starts or stops holding a link, or the deadline passes.
LEMMA CancelStep ==
  ASSUME RegistryInv, TypeOK', NEW t \in Tasks,
         (\E k \in Keys : CancelRequest(t, k)) \/ SendCancel(t) \/ Expire(t)
  PROVE  RegistryInv'
<1> USE SessionConstants DEF RegistryInv, Goto, registryVars, Sessioned
<1>1. /\ UNCHANGED <<next_id, accepted, conn_backend, key_secret_backend, conn_id,
                      backend, session_key>>
      /\ \E p \in {"cancelling", "returning", "expiring", "blocked"} : pc' = [pc EXCEPT ![t] = p]
      /\ pc[t] \in Awaiting
  BY DEF CancelRequest, SendCancel, Expire, Awaiting
<1>2. IdsDistinct'
  BY <1>1 DEF IdsDistinct, TypeOK, Awaiting
<1>3. HoldingsMatchPhase'
  BY DEF HoldingsMatchPhase, TypeOK, CancelRequest, LookupByKey, SendCancel, Expire, Awaiting
<1>4. HoldingsExclusive'
  <2>1. ASSUME NEW u \in Tasks, pc'[u] = "linked"
        PROVE  cancel_target'[t] # backend[u]
    <3>1. pc[u] = "linked" /\ u # t /\ backend[u] # NoLink
      BY <1>1, <2>1 DEF TypeOK, Awaiting, HoldingsMatchPhase
    <3>2. CASE SendCancel(t) \/ Expire(t)
      BY <3>1, <3>2 DEF SendCancel, Expire, TypeOK
    <3>3. ASSUME NEW k \in Keys, CancelRequest(t, k)
          PROVE  cancel_target'[t] # backend[u]
      <4>1. PICK v \in Tasks : session_key[v] = k
        BY <3>3 DEF CancelRequest, LookupByKey, KeyLivesWithSession, CancelKeyExact
      <4>2. cancel_target'[t] = backend[v] /\ Sessioned(v)
        BY <3>3, <4>1 DEF CancelRequest, LookupByKey, KeyLivesWithSession, TypeOK
      <4>3. v # u
        BY <3>1, <4>2 DEF HoldingsMatchPhase
      <4> QED
        BY <3>1, <4>2, <4>3 DEF HoldingsExclusive
    <3> QED
      BY <3>2, <3>3
  <2>2. \A u \in Tasks : u # t => cancel_target'[u] = cancel_target[u]
    BY DEF CancelRequest, SendCancel, Expire, TypeOK
  <2>3. \A u \in Tasks : pc'[u] = "linked" => pc[u] = "linked"
    BY <1>1 DEF TypeOK
  <2> QED
    BY <1>1, <2>1, <2>2, <2>3 DEF HoldingsExclusive
<1>5. KeyLivesWithSession'
  BY <1>1 DEF KeyLivesWithSession, CancelKeyExact
<1> QED
  BY <1>2, <1>3, <1>4, <1>5

\* A new link is nobody's.
LEMMA LinkUpStep ==
  ASSUME RegistryInv, TypeOK', NEW t \in Tasks, NEW l \in Links, LinkUp(t, l)
  PROVE  RegistryInv'
<1> USE SessionConstants DEF RegistryInv, LinkUp, Goto, registryVars, Sessioned
<1>1. IdsDistinct'
  BY DEF IdsDistinct, TypeOK
<1>2. HoldingsMatchPhase'
  BY DEF HoldingsMatchPhase, TypeOK
<1>3. \A u \in Tasks : backend[u] # l /\ cancel_target[u] # l
  BY DEF Held
<1>4. HoldingsExclusive'
  BY <1>3 DEF HoldingsExclusive, TypeOK
<1>5. KeyLivesWithSession'
  BY DEF KeyLivesWithSession, CancelKeyExact, HoldingsMatchPhase, TypeOK
<1> QED
  BY <1>1, <1>2, <1>4, <1>5

\* register inserts both entries of a new session.
LEMMA RegisterStep ==
  ASSUME RegistryInv, TypeOK', NEW t \in Tasks, NEW k \in Keys, Register(t, k)
  PROVE  RegistryInv'
<1> USE SessionConstants DEF RegistryInv, Register, Goto, Sessioned
<1>1. IdsDistinct'
  BY DEF IdsDistinct, TypeOK
<1>2. HoldingsMatchPhase'
  BY DEF HoldingsMatchPhase, TypeOK
<1>3. \A u \in Tasks : session_key[u] # k
  BY DEF KeyFree, KeyLivesWithSession, CancelKeyExact
<1>4. HoldingsExclusive'
  BY <1>3 DEF HoldingsExclusive, TypeOK
<1>5. session_key[t] = NoKey /\ backend[t] \in Links
  BY DEF HoldingsMatchPhase, TypeOK
<1>6. KeyLivesWithSession'
  <2>1. CancelKeyExact'
    BY <1>5 DEF KeyLivesWithSession, CancelKeyExact, TypeOK
  <2>2. \A u \in Tasks : u # t /\ Sessioned(u) => conn_id[u] # conn_id[t]
    BY DEF IdsDistinct, HoldingsMatchPhase
  <2>3. ASSUME NEW u \in Tasks, Sessioned(u)'
        PROVE  /\ key_secret_backend'[session_key'[u]] = backend'[u]
               /\ conn_backend'[conn_id'[u]] = backend'[u]
    BY <1>3, <2>2, <2>3 DEF KeyLivesWithSession, TypeOK
  <2>4. ASSUME NEW i \in Ids, conn_backend'[i] # NoLink
        PROVE  \E u \in Tasks : Sessioned(u)' /\ conn_id'[u] = i
    BY <2>4 DEF KeyLivesWithSession, TypeOK
  <2> QED
    BY <2>1, <2>3, <2>4 DEF KeyLivesWithSession
<1> QED
  BY <1>1, <1>2, <1>4, <1>6

\* Every candidate collided: the link is dropped, nothing was inserted.
LEMMA RegisterExhaustedStep ==
  ASSUME RegistryInv, TypeOK', NEW t \in Tasks, RegisterExhausted(t)
  PROVE  RegistryInv'
<1> USE SessionConstants DEF RegistryInv, RegisterExhausted, Goto, registryVars, Sessioned
<1>1. IdsDistinct'
  BY DEF IdsDistinct, TypeOK
<1>2. HoldingsMatchPhase'
  BY DEF HoldingsMatchPhase, TypeOK
<1>3. HoldingsExclusive'
  BY DEF HoldingsExclusive, TypeOK
<1>4. KeyLivesWithSession'
  BY DEF KeyLivesWithSession, CancelKeyExact, HoldingsMatchPhase, TypeOK
<1> QED
  BY <1>1, <1>2, <1>3, <1>4

\* The guard of a session removes that session's two entries and no other.
LEMMA DropConnStep ==
  ASSUME RegistryInv, TypeOK', NEW t \in Tasks, DropConn(t)
  PROVE  RegistryInv'
<1> USE SessionConstants DEF RegistryInv, DropConn, Goto, Sessioned
<1>1. IdsDistinct'
  BY DEF IdsDistinct, TypeOK
<1>2. HoldingsMatchPhase'
  BY DEF HoldingsMatchPhase, TypeOK
<1>3. HoldingsExclusive'
  BY DEF HoldingsExclusive, TypeOK
<1>4. KeyLivesWithSession'
  <2>1. CASE ~Sessioned(t)
    BY <2>1 DEF KeyLivesWithSession, CancelKeyExact, registryVars, HoldingsMatchPhase, TypeOK
  <2>2. CASE Sessioned(t)
    <3>1. conn_backend[conn_id[t]] = backend[t] /\ backend[t] # NoLink
      BY <2>2 DEF KeyLivesWithSession, HoldingsMatchPhase
    <3>2. /\ conn_backend' = [conn_backend EXCEPT ![conn_id[t]] = NoLink]
          /\ key_secret_backend' = [key_secret_backend EXCEPT ![session_key[t]] = NoLink]
      BY <2>2, <3>1 DEF DropGuard
    <3>3. \A u \in Tasks : u # t /\ Sessioned(u) =>
            conn_id[u] # conn_id[t] /\ session_key[u] # session_key[t]
      BY DEF IdsDistinct, HoldingsMatchPhase, HoldingsExclusive
    <3>4. CancelKeyExact'
      BY <2>2, <3>2, <3>3 DEF KeyLivesWithSession, CancelKeyExact, TypeOK
    <3>5. ASSUME NEW u \in Tasks, Sessioned(u)'
          PROVE  /\ key_secret_backend'[session_key'[u]] = backend'[u]
                 /\ conn_backend'[conn_id'[u]] = backend'[u]
      BY <3>2, <3>3, <3>5 DEF KeyLivesWithSession, TypeOK
    <3>6. ASSUME NEW i \in Ids, conn_backend'[i] # NoLink
          PROVE  \E u \in Tasks : Sessioned(u)' /\ conn_id'[u] = i
      BY <3>2, <3>6 DEF KeyLivesWithSession, TypeOK
    <3> QED
      BY <3>4, <3>5, <3>6 DEF KeyLivesWithSession
  <2> QED
    BY <2>1, <2>2
<1> QED
  BY <1>1, <1>2, <1>3, <1>4

\* While ids do not wrap, the inductive invariant of the registry holds.
THEOREM RegistryInvariant ==
  ASSUME NoWrap
  PROVE  Spec => []RegistryInv
<1>1. Init => RegistryInv
  BY SessionConstants
  DEF Init, RegistryInv, TypeOK, IdsDistinct, HoldingsMatchPhase, HoldingsExclusive,
      KeyLivesWithSession, CancelKeyExact, Sessioned, Ids, Phases
<1>2. RegistryInv /\ TypeOK' /\ [Next]_vars => RegistryInv'
  <2> SUFFICES ASSUME RegistryInv, TypeOK', [Next]_vars PROVE RegistryInv'
    OBVIOUS
  <2>1. CASE UNCHANGED vars
    BY <2>1 DEF vars, taskVars, registryVars, RegistryInv, TypeOK, IdsDistinct,
       HoldingsMatchPhase, HoldingsExclusive, KeyLivesWithSession, CancelKeyExact, Sessioned
  <2>2. ASSUME NEW t \in Tasks,
               \/ Admit(t) \/ Refuse(t) \/ SendRefusal(t) \/ FailStartup(t)
               \/ Authenticated(t) \/ LinkFail(t) \/ Announce(t) \/ SendExpired(t)
               \/ SendExpiredLate(t) \/ ReleasePermit(t) \/ \E k \in Keys : CancelIgnored(t, k)
        PROVE  RegistryInv'
    <3> DEFINE Targets == {"startup", "refusing", "dropping", "returning", "linking"}
    <3>1. UNCHANGED <<next_id, accepted, registryVars, conn_id, backend,
                      session_key, cancelVars>>
      BY <2>2 DEF Admit, Refuse, SendRefusal, FailStartup, Authenticated, LinkFail,
                  Announce, SendExpired, SendExpiredLate, ReleasePermit,
                  CancelIgnored
    <3>2. PICK p \in Targets :
            /\ Goto(t, p)
            /\ pc[t] \notin {"idle", "linked", "cancelling"}
            /\ pc[t] \in {"announcing", "blocked", "returning", "dropping"}
                 => p \in {"returning", "dropping"}
      BY <2>2 DEF Admit, Refuse, SendRefusal, FailStartup, Authenticated, LinkFail,
                  Announce, SendExpired, SendExpiredLate, ReleasePermit,
                  CancelIgnored
    <3>3. Sessioned(t) => p \in {"returning", "dropping"}
      BY <3>2 DEF RegistryInv, HoldingsMatchPhase
    <3> QED
      BY <3>1, <3>2, <3>3, QuietStep
  <2>3. ASSUME NEW t \in Tasks, Accept(t) PROVE RegistryInv'
    BY <2>3, AcceptStep
  <2>4. ASSUME NEW t \in Tasks,
               (\E k \in Keys : CancelRequest(t, k)) \/ SendCancel(t) \/ Expire(t)
        PROVE  RegistryInv'
    BY <2>4, CancelStep
  <2>5. ASSUME NEW t \in Tasks, NEW l \in Links, LinkUp(t, l) PROVE RegistryInv'
    BY <2>5, LinkUpStep
  <2>6. ASSUME NEW t \in Tasks, NEW k \in Keys, Register(t, k) PROVE RegistryInv'
    BY <2>6, RegisterStep
  <2>7. ASSUME NEW t \in Tasks, RegisterExhausted(t) PROVE RegistryInv'
    BY <2>7, RegisterExhaustedStep
  <2>8. ASSUME NEW t \in Tasks, DropConn(t) PROVE RegistryInv'
    BY <2>8, DropConnStep
  <2> QED
    BY <2>1, <2>2, <2>3, <2>4, <2>5, <2>6, <2>7, <2>8 DEF Next, RuntimeStep, PeerStep
<1> QED
  BY <1>1, <1>2, TypeCorrect, PTL DEF Spec

\* The two registry maps and the session guards agree in every reachable state
\* (conn.rs: the cancel key exists exactly as long as the session does).
THEOREM KeysCorrect ==
  ASSUME NoWrap
  PROVE  Spec => []KeyLivesWithSession
<1>1. RegistryInv => KeyLivesWithSession
  BY DEF RegistryInv
<1> QED
  BY <1>1, RegistryInvariant, PTL
-----------------------------------------------------------------------------
(* The backend links. *)

\* The link a task keeps open: its own backend, or its cancel target.
LinkOf(t) == IF backend[t] # NoLink THEN backend[t] ELSE cancel_target[t]

LinkHolders == {t \in Tasks : LinkOf(t) # NoLink}

HeldLinks == {l \in Links : Held(l)}

\* No task keeps two links: a cancel handler has no backend of its own.
LEMMA OneLinkEach ==
  ASSUME RegistryInv, NEW t \in Tasks, NEW l \in Links,
         backend[t] = l \/ cancel_target[t] = l
  PROVE  t \in LinkHolders /\ LinkOf(t) = l
BY SessionConstants DEF RegistryInv, HoldingsMatchPhase, LinkHolders, LinkOf

\* Every open link is kept by some task, the registry keeps none by itself.
LEMMA HeldByTask ==
  ASSUME RegistryInv, NEW l \in HeldLinks
  PROVE  \E t \in LinkHolders : LinkOf(t) = l
<1> USE SessionConstants DEF RegistryInv
<1>0. l \in Links /\ l # NoLink /\ Held(l)
  BY DEF HeldLinks
<1>1. \E t \in Tasks : backend[t] = l \/ cancel_target[t] = l
  <2>1. ASSUME NEW i \in Ids, conn_backend[i] = l PROVE \E t \in Tasks : backend[t] = l
    BY <1>0, <2>1 DEF KeyLivesWithSession
  <2>2. ASSUME NEW k \in Keys, key_secret_backend[k] = l PROVE \E t \in Tasks : backend[t] = l
    <3>1. PICK t \in Tasks : session_key[t] = k
      BY <1>0, <2>2 DEF KeyLivesWithSession, CancelKeyExact
    <3> QED
      BY <2>2, <3>1 DEF KeyLivesWithSession, Sessioned
  <2> QED
    BY <1>0, <2>1, <2>2 DEF Held, InRegistry
<1> QED
  BY <1>0, <1>1, OneLinkEach

\* A task that keeps a link has its permit, or has returned it and is about to
\* drop its Conn.
LEMMA HoldersCounted ==
  ASSUME RegistryInv
  PROVE  LinkHolders \subseteq PermitHolders \cup Dropping
BY DEF RegistryInv, TypeOK, HoldingsMatchPhase, LinkHolders, LinkOf, PermitHolders,
       Dropping, HoldsPermit

\* At any moment there are no more backend links than permits taken plus
\* connections whose Conn is still being dropped, for any number of tasks and
\* links (server.rs, conn.rs: the Arc<Backend> is dropped after the permit).
THEOREM LinksCorrect ==
  ASSUME NoWrap
  PROVE  Spec => []LinksBounded
<1>1. RegistryInv /\ PermitsBalanced => LinksBounded
  <2> SUFFICES ASSUME RegistryInv, PermitsBalanced PROVE LinksBounded
    OBVIOUS
  <2>1. /\ IsFiniteSet(PermitHolders) /\ IsFiniteSet(Dropping)
        /\ Cardinality(PermitHolders) \in Nat /\ Cardinality(Dropping) \in Nat
    BY SessionConstants, FS_Subset, FS_CardinalityType DEF PermitHolders, Dropping
  <2>2. PermitHolders \cap Dropping = {}
    BY DEF PermitHolders, Dropping, HoldsPermit
  <2>3. /\ IsFiniteSet(PermitHolders \cup Dropping)
        /\ Cardinality(PermitHolders \cup Dropping)
             = Cardinality(PermitHolders) + Cardinality(Dropping)
             - Cardinality(PermitHolders \cap Dropping)
    BY <2>1, FS_Union
  <2>4. Cardinality(PermitHolders \cap Dropping) = 0
    BY <2>2, FS_EmptySet
  <2>5. /\ IsFiniteSet(LinkHolders)
        /\ Cardinality(LinkHolders) <= Cardinality(PermitHolders \cup Dropping)
    BY <2>3, HoldersCounted, FS_Subset
  <2> DEFINE taken == {t \in LinkHolders : LinkOf(t) \in HeldLinks}
             f == [t \in taken |-> LinkOf(t)]
  <2>6. IsFiniteSet(taken) /\ Cardinality(taken) <= Cardinality(LinkHolders)
    <3>1. taken \subseteq LinkHolders
      OBVIOUS
    <3> HIDE DEF taken
    <3> QED
      BY <2>5, <3>1, FS_Subset
  <2>7. f \in Surjection(taken, HeldLinks)
    BY HeldByTask DEF Surjection
  <2>8. Cardinality(HeldLinks) <= Cardinality(taken)
    <3> HIDE DEF taken, f
    <3> QED
      BY <2>6, <2>7, FS_Surjection
  <2>9. /\ Cardinality(HeldLinks) \in Nat /\ Cardinality(taken) \in Nat
        /\ Cardinality(LinkHolders) \in Nat
    <3>1. IsFiniteSet(HeldLinks)
      <4> HIDE DEF taken, f
      <4> QED
        BY <2>6, <2>7, FS_Surjection
    <3> HIDE DEF taken
    <3> QED
      BY <2>5, <2>6, <3>1, FS_CardinalityType
  <2> HIDE DEF taken
  <2>10. Cardinality(HeldLinks) <= live + Cardinality(Dropping)
    BY <2>1, <2>3, <2>4, <2>5, <2>6, <2>8, <2>9 DEF PermitsBalanced
  <2> QED
    BY <2>10 DEF LinksBounded, HeldLinks
<1> QED
  BY <1>1, RegistryInvariant, PermitsCorrect, PTL
-----------------------------------------------------------------------------
(* The refinement. *)

\* A step that keeps every session and every cancel target is a stutter of the
\* abstract specification.
LEMMA PromiseStutters ==
  ASSUME UNCHANGED <<backend, session_key, cancelVars>>
  PROVE  UNCHANGED Promise!keyVars
BY DEF Promise!keyVars, Promise!cancelVars, SessionOf, Sessioned

\* Opening, dropping and giving up a link before it is registered is invisible.
LEMMA UnregisteredInvisible ==
  ASSUME TypeOK, NEW t \in Tasks, NEW l, ~Sessioned(t),
         backend' = [backend EXCEPT ![t] = l],
         UNCHANGED <<session_key, cancelVars>>
  PROVE  UNCHANGED Promise!keyVars
<1>1. \A u \in Tasks : SessionOf(u)' = SessionOf(u)
  BY DEF SessionOf, Sessioned, TypeOK
<1> QED
  BY <1>1 DEF Promise!keyVars, Promise!cancelVars

\* register opens a session with a fresh key and a fresh link.
LEMMA RegisterOpens ==
  ASSUME RegistryInv, NEW t \in Tasks, NEW k \in Keys, Register(t, k)
  PROVE  Promise!Next
<1> USE SessionConstants DEF RegistryInv, Register, Sessioned
<1>1. session_key[t] = NoKey /\ backend[t] \in Links
  BY DEF HoldingsMatchPhase, TypeOK
<1>2. SessionOf(t) = Promise!None
  BY <1>1 DEF SessionOf, Promise!None
<1>3. \A u \in Tasks : SessionOf(u).key # k
  BY DEF SessionOf, KeyFree, KeyLivesWithSession, CancelKeyExact
<1>4. ASSUME NEW u \in Tasks
      PROVE  SessionOf(u).link # backend[t] /\ cancel_target[u] # backend[t]
  BY <1>1 DEF SessionOf, HoldingsExclusive
<1>5. [u \in Tasks |-> SessionOf(u)]'
        = [[u \in Tasks |-> SessionOf(u)] EXCEPT ![t] = [key |-> k, link |-> backend[t]]]
  BY DEF SessionOf, TypeOK
<1>6. Promise!Open(t, k, backend[t])
  BY <1>2, <1>3, <1>4, <1>5 DEF Promise!Open, Promise!InUse, Promise!cancelVars
<1> QED
  BY <1>1, <1>6 DEF Promise!Next

\* A cancel handler that starts forwarding sends its cancel to the session that
\* holds the key it was asked for.
LEMMA CancelForwards ==
  ASSUME RegistryInv, NEW t \in Tasks, NEW k \in Keys, CancelRequest(t, k)
  PROVE  Promise!Next
<1> USE SessionConstants DEF RegistryInv, CancelRequest, LookupByKey, Sessioned
<1>1. PICK u \in Tasks : session_key[u] = k
  BY DEF KeyLivesWithSession, CancelKeyExact
<1>2. SessionOf(u).key = k /\ SessionOf(u).link = key_secret_backend[k]
  BY <1>1 DEF SessionOf, KeyLivesWithSession
<1>3. cancel_target[t] = NoLink
  BY DEF HoldingsMatchPhase
<1>4. [v \in Tasks |-> SessionOf(v)]' = [v \in Tasks |-> SessionOf(v)]
  BY DEF SessionOf
<1>5. Promise!Forward(t, k)
  BY <1>2, <1>3, <1>4 DEF Promise!Forward
<1> QED
  BY <1>5 DEF Promise!Next

\* The handler finishes, or the deadline takes its Arc away.
LEMMA CancelEnds ==
  ASSUME RegistryInv, NEW t \in Tasks, SendCancel(t) \/ Expire(t)
  PROVE  Promise!Next \/ UNCHANGED Promise!keyVars
<1> USE DEF RegistryInv, SendCancel, Expire
<1>1. [v \in Tasks |-> SessionOf(v)]' = [v \in Tasks |-> SessionOf(v)]
  BY DEF SessionOf, Sessioned
<1>2. CASE cancel_target[t] = NoLink
  <2>1. cancel_key[t] = NoKey
    BY <1>2 DEF HoldingsMatchPhase
  <2> QED
    BY <1>1, <1>2, <2>1 DEF Promise!keyVars, Promise!cancelVars, TypeOK
<1>3. CASE cancel_target[t] # NoLink
  BY <1>1, <1>3 DEF Promise!Next, Promise!Forwarded
<1> QED
  BY <1>2, <1>3

\* Dropping the Conn closes its session, if it had one.
LEMMA DropCloses ==
  ASSUME RegistryInv, NEW t \in Tasks, DropConn(t)
  PROVE  Promise!Next \/ UNCHANGED Promise!keyVars
<1> USE SessionConstants DEF RegistryInv, DropConn, Sessioned
<1>1. [v \in Tasks |-> SessionOf(v)]'
        = [[v \in Tasks |-> SessionOf(v)] EXCEPT ![t] = Promise!None]
  BY DEF SessionOf, TypeOK, Promise!None
<1>2. CASE SessionOf(t) = Promise!None
  BY <1>1, <1>2 DEF Promise!keyVars, Promise!cancelVars
<1>3. CASE SessionOf(t) # Promise!None
  BY <1>1, <1>3 DEF Promise!Next, Promise!Close, Promise!cancelVars
<1> QED
  BY <1>2, <1>3

\* The tasks, the registry and its guards implement the abstract promise about
\* cancel keys (module SessionKeys): one fresh key and one link of its own for
\* each session, and a cancel that reaches the holder of the key it names.
THEOREM PromiseKept ==
  ASSUME NoWrap
  PROVE  Spec => ImplementsPromise
<1>1. Init => Promise!Init
  BY DEF Init, Promise!Init, Promise!None, SessionOf, Sessioned
<1>2. RegistryInv /\ [Next]_vars => [Promise!Next]_(Promise!keyVars)
  <2> SUFFICES ASSUME RegistryInv, [Next]_vars
               PROVE  Promise!Next \/ UNCHANGED Promise!keyVars
    OBVIOUS
  <2>1. CASE UNCHANGED vars
    BY <2>1, PromiseStutters DEF vars, taskVars
  <2>2. ASSUME NEW t \in Tasks,
               \/ Admit(t) \/ Refuse(t) \/ SendRefusal(t) \/ FailStartup(t)
               \/ Authenticated(t) \/ LinkFail(t) \/ Announce(t) \/ SendExpired(t)
               \/ SendExpiredLate(t) \/ ReleasePermit(t) \/ Accept(t)
               \/ \E k \in Keys : CancelIgnored(t, k)
        PROVE  UNCHANGED Promise!keyVars
    BY <2>2, PromiseStutters
    DEF Admit, Refuse, SendRefusal, FailStartup, Authenticated, LinkFail, Announce,
        SendExpired, SendExpiredLate, ReleasePermit, Accept, CancelIgnored
  <2>3. ASSUME NEW t \in Tasks, NEW k \in Keys, CancelRequest(t, k)
        PROVE  Promise!Next
    BY <2>3, CancelForwards
  <2>4. ASSUME NEW t \in Tasks, SendCancel(t) \/ Expire(t)
        PROVE  Promise!Next \/ UNCHANGED Promise!keyVars
    BY <2>4, CancelEnds
  <2>5. ASSUME NEW t \in Tasks, RegisterExhausted(t) \/ \E l \in Links : LinkUp(t, l)
        PROVE  UNCHANGED Promise!keyVars
    <3>1. ~Sessioned(t)
      BY <2>5 DEF RegisterExhausted, LinkUp, RegistryInv, HoldingsMatchPhase
    <3>2. PICK l : backend' = [backend EXCEPT ![t] = l]
      BY <2>5 DEF RegisterExhausted, LinkUp
    <3>3. UNCHANGED <<session_key, cancelVars>>
      BY <2>5 DEF RegisterExhausted, LinkUp
    <3> QED
      BY <3>1, <3>2, <3>3, UnregisteredInvisible DEF RegistryInv
  <2>6. ASSUME NEW t \in Tasks, NEW k \in Keys, Register(t, k) PROVE Promise!Next
    BY <2>6, RegisterOpens
  <2>7. ASSUME NEW t \in Tasks, DropConn(t)
        PROVE  Promise!Next \/ UNCHANGED Promise!keyVars
    BY <2>7, DropCloses
  <2> QED
    BY <2>1, <2>2, <2>3, <2>4, <2>5, <2>6, <2>7 DEF Next, RuntimeStep, PeerStep
<1> QED
  BY <1>1, <1>2, RegistryInvariant, PTL DEF Spec, ImplementsPromise, Promise!Spec
-----------------------------------------------------------------------------
(* Each task as the life of a connection. *)

\* Where the task stands in that life.
LifePhase(t) ==
  CASE pc[t] \in {"idle", "spawned", "refusing"} -> "outside"
    [] pc[t] = "linked" -> "linking"
    [] pc[t] = "blocked" -> "expiring"
    [] pc[t] = "dropping" -> "returning"
    [] OTHER -> pc[t]

Life(t) == INSTANCE ConnLife WITH phase <- LifePhase(t), session <- Sessioned(t)

\* Only a task that has registered holds a guard.
GuardsInv ==
  \A t \in Tasks : Sessioned(t) => pc[t] \in {"announcing", "blocked", "returning", "dropping"}

\* What a step of task t leaves in the phases and guards of all tasks.
Moves(t, p, k) == pc' = [pc EXCEPT ![t] = p] /\ session_key' = [session_key EXCEPT ![t] = k]

\* The moves of a task: where it goes, and with which guard.
LEMMA TaskMoves ==
  ASSUME TypeOK, NEW t \in Tasks, RuntimeStep(t) \/ PeerStep(t)
  PROVE  \/ Moves(t, "startup", session_key[t]) /\ pc[t] = "spawned"
         \/ Moves(t, "spawned", session_key[t]) /\ pc[t] = "idle"
         \/ Moves(t, "refusing", session_key[t]) /\ pc[t] = "spawned"
         \/ Moves(t, "dropping", session_key[t]) /\ pc[t] \in {"refusing", "returning"}
         \/ Moves(t, "linking", session_key[t]) /\ pc[t] = "startup"
         \/ Moves(t, "cancelling", session_key[t]) /\ pc[t] = "startup"
         \/ Moves(t, "linked", session_key[t]) /\ pc[t] = "linking"
         \/ Moves(t, "expiring", session_key[t]) /\ pc[t] \in Awaiting \ {"announcing"}
         \/ Moves(t, "blocked", session_key[t]) /\ pc[t] = "announcing"
         \/ /\ Moves(t, "returning", session_key[t])
            /\ pc[t] \in HoldsPermit \ {"returning"}
         \/ pc[t] = "linked" /\ \E k \in Keys : Moves(t, "announcing", k)
         \/ Moves(t, "idle", NoKey) /\ pc[t] = "dropping"
<1>0. session_key = [session_key EXCEPT ![t] = session_key[t]]
  BY DEF TypeOK
<1> USE <1>0 DEF Moves, Goto
<1>1. CASE Accept(t) \/ Admit(t) \/ Refuse(t) \/ SendRefusal(t)
  BY <1>1 DEF Accept, Admit, Refuse, SendRefusal
<1>2. CASE \/ FailStartup(t) \/ Authenticated(t) \/ SendCancel(t) \/ LinkFail(t)
           \/ Announce(t) \/ SendExpiredLate(t)
  BY <1>2 DEF FailStartup, Authenticated, SendCancel, LinkFail, Announce, SendExpiredLate,
              HoldsPermit
<1>3. ASSUME NEW k \in Keys, CancelRequest(t, k) \/ CancelIgnored(t, k)
      PROVE  /\ pc[t] = "startup"
             /\ \/ Moves(t, "cancelling", session_key[t])
                \/ Moves(t, "returning", session_key[t])
  BY <1>3 DEF CancelRequest, CancelIgnored
<1>4. ASSUME NEW l \in Links, LinkUp(t, l)
      PROVE  Moves(t, "linked", session_key[t]) /\ pc[t] = "linking"
  BY <1>4 DEF LinkUp
<1>5. ASSUME NEW k \in Keys, Register(t, k)
      PROVE  pc[t] = "linked" /\ Moves(t, "announcing", k)
  BY <1>5 DEF Register
<1>6. CASE RegisterExhausted(t) \/ Expire(t) \/ SendExpired(t) \/ ReleasePermit(t)
  BY <1>6 DEF RegisterExhausted, Expire, SendExpired, ReleasePermit, HoldsPermit, Awaiting
<1>7. CASE DropConn(t)
  BY <1>7 DEF DropConn
<1> HIDE DEF Moves
<1> QED
  BY <1>1, <1>2, <1>3, <1>4, <1>5, <1>6, <1>7 DEF RuntimeStep, PeerStep, HoldsPermit

\* A guard comes with the announcement and goes with the Conn.
LEMMA GuardsKept ==
  ASSUME TypeOK, GuardsInv, [Next]_vars PROVE GuardsInv'
<1>1. CASE UNCHANGED vars
  BY <1>1 DEF vars, taskVars, GuardsInv, Sessioned
<1>2. ASSUME NEW t \in Tasks, RuntimeStep(t) \/ PeerStep(t) PROVE GuardsInv'
  <2>1. PICK p, k :
          /\ Moves(t, p, k)
          /\ \/ k = NoKey
             \/ p = "announcing"
             \/ k = session_key[t] /\ p \in {"blocked", "returning", "dropping"}
             \/ /\ k = session_key[t]
                /\ pc[t] \in {"idle", "spawned", "startup", "linking", "cancelling"}
    BY <1>2, TaskMoves DEF Awaiting
  <2>2. \A u \in Tasks : pc'[u] = (IF u = t THEN p ELSE pc[u])
                         /\ session_key'[u] = IF u = t THEN k ELSE session_key[u]
    BY <2>1 DEF Moves, TypeOK
  <2>3. ASSUME NEW u \in Tasks, session_key'[u] # NoKey
        PROVE  pc'[u] \in {"announcing", "blocked", "returning", "dropping"}
    BY <2>1, <2>2, <2>3 DEF GuardsInv, Sessioned
  <2> QED
    BY <2>3 DEF GuardsInv, Sessioned
<1> QED
  BY <1>1, <1>2 DEF Next

\* Every task lives as module ConnLife says, however the others interleave with
\* it: it is registered once, after a link came up, keeps its session until the
\* Conn is dropped, and a cancel never registers (conn.rs handle, server.rs
\* serve).  The dialogue of module Startup is shown to be such a life too.
THEOREM TasksAreLives ==
  ASSUME NEW t \in Tasks
  PROVE  Spec => Life(t)!Spec
<1>1. Init => Life(t)!Init /\ GuardsInv
  BY DEF Init, Life!Init, LifePhase, GuardsInv, Sessioned
<1>2. TypeOK /\ GuardsInv /\ [Next]_vars => GuardsInv'
  BY GuardsKept
<1>3. TypeOK /\ GuardsInv /\ [Next]_vars => [Life(t)!Next]_(Life(t)!lifeVars)
  <2> SUFFICES ASSUME TypeOK, GuardsInv, [Next]_vars
               PROVE  Life(t)!Next \/ UNCHANGED Life(t)!lifeVars
    OBVIOUS
  <2>1. CASE UNCHANGED vars
    BY <2>1 DEF vars, taskVars, Life!lifeVars, LifePhase, Sessioned
  <2>2. ASSUME NEW u \in Tasks, u # t, RuntimeStep(u) \/ PeerStep(u)
        PROVE  UNCHANGED Life(t)!lifeVars
    <3>1. \E p, k : Moves(u, p, k)
      BY <2>2, TaskMoves
    <3>2. pc'[t] = pc[t] /\ session_key'[t] = session_key[t]
      BY <2>2, <3>1 DEF Moves, TypeOK
    <3> QED
      BY <3>2 DEF Life!lifeVars, LifePhase, Sessioned
  <2>3. ASSUME RuntimeStep(t) \/ PeerStep(t)
        PROVE  Life(t)!Next \/ UNCHANGED Life(t)!lifeVars
    <3>1. ASSUME NEW p, NEW k, Moves(t, p, k) PROVE pc'[t] = p /\ session_key'[t] = k
      BY <3>1 DEF Moves, TypeOK
    <3>2. \/ pc'[t] = "startup" /\ pc[t] = "spawned" /\ session_key'[t] = session_key[t]
          \/ pc'[t] = "spawned" /\ pc[t] = "idle" /\ session_key'[t] = session_key[t]
          \/ pc'[t] = "refusing" /\ pc[t] = "spawned" /\ session_key'[t] = session_key[t]
          \/ /\ pc'[t] = "dropping" /\ pc[t] \in {"refusing", "returning"}
             /\ session_key'[t] = session_key[t]
          \/ pc'[t] = "linked" /\ pc[t] = "linking" /\ session_key'[t] = session_key[t]
          \/ /\ pc'[t] \in {"linking", "cancelling"} /\ pc[t] = "startup"
             /\ session_key'[t] = session_key[t]
          \/ /\ pc'[t] \in {"expiring", "blocked"} /\ pc[t] \in Awaiting
             /\ session_key'[t] = session_key[t]
          \/ /\ pc'[t] = "returning" /\ session_key'[t] = session_key[t]
             /\ pc[t] \in HoldsPermit \ {"returning"}
          \/ pc'[t] = "announcing" /\ pc[t] = "linked" /\ session_key'[t] \in Keys
          \/ pc'[t] = "idle" /\ pc[t] = "dropping" /\ session_key'[t] = NoKey
      BY <2>3, <3>1, TaskMoves DEF Awaiting
    <3> USE DEF LifePhase, Sessioned
    <3>3. CASE /\ \/ pc[t] = "spawned" /\ pc'[t] \in {"startup", "refusing"}
                  \/ pc[t] = "idle" /\ pc'[t] = "spawned"
                  \/ pc[t] \in {"refusing", "returning"} /\ pc'[t] = "dropping"
                  \/ pc[t] = "linking" /\ pc'[t] = "linked"
               /\ session_key'[t] = session_key[t]
      BY <3>3 DEF Life!Next, Life!Enter, Life!lifeVars
    <3>4. CASE /\ pc'[t] \in {"linking", "cancelling"} /\ pc[t] = "startup"
               /\ session_key'[t] = session_key[t]
      BY <3>4 DEF Life!Next, Life!Proceed
    <3>5. CASE /\ pc'[t] \in {"expiring", "blocked"} /\ pc[t] \in Awaiting
               /\ session_key'[t] = session_key[t]
      BY <3>5 DEF Life!Next, Life!Expire, Awaiting
    <3>6. CASE /\ pc'[t] = "returning" /\ session_key'[t] = session_key[t]
               /\ pc[t] \in HoldsPermit \ {"returning"}
      BY <3>6 DEF Life!Next, Life!Return, HoldsPermit
    <3>7. CASE pc'[t] = "announcing" /\ pc[t] = "linked" /\ session_key'[t] \in Keys
      <4>1. session_key[t] = NoKey /\ session_key'[t] # NoKey
        BY <3>7, SessionConstants DEF GuardsInv
      <4> QED
        BY <3>7, <4>1 DEF Life!Next, Life!Register
    <3>8. CASE pc'[t] = "idle" /\ pc[t] = "dropping" /\ session_key'[t] = NoKey
      BY <3>8 DEF Life!Next, Life!Leave
    <3> QED
      BY <3>2, <3>3, <3>4, <3>5, <3>6, <3>7, <3>8
  <2> QED
    BY <2>1, <2>2, <2>3 DEF Next
<1> QED
  BY <1>1, <1>2, <1>3, TypeCorrect, PTL DEF Spec, Life!Spec
=============================================================================
