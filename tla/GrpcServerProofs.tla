-------------------------- MODULE GrpcServerProofs --------------------------
(***************************************************************************)
(* Proofs about the connection pool as coded (PgPool) and about the server *)
(* process that destroys it (GrpcServer), for every number of threads,     *)
(* every pool size and every mix of RPCs.  The first part is about PgPool: *)
(*                                                                         *)
(*   - types;                                                              *)
(*   - it implements ConnPool, hence leases are exclusive and no           *)
(*     connection is lost;                                                 *)
(*   - no wakeup is lost, although release() notifies after the unlock.    *)
(***************************************************************************)
EXTENDS GrpcServer, FiniteSetTheorems, SequenceTheorems, TLAPS

\* The part of the inductive invariant that ties a thread's place in the code
\* to the connections on its stack.
Stack(t) ==
    /\ pc[t] \in {"use", "unwind", "push"} <=> conn[<<t, frame[t]>>] # NoConn
    /\ frame[t] = "inner" => /\ conn[<<t, "outer">>] # NoConn
                             /\ pc[t] # "idle"
    /\ frame[t] = "outer" => conn[<<t, "inner">>] = NoConn
    /\ pc[t] # "idle" => served[t] < MaxRpcs

\* The inductive invariant behind the refinement: types, and what every
\* thread's stack holds.
PoolInv == TypeOK /\ \A t \in Threads : Stack(t)

\* The constants of ConnPool satisfy its assumption.
LEMMA AbstractSize == Size \in Nat \ {0}
  BY PoolAssumption

\* A new pool and threads without an RPC satisfy the invariant.
LEMMA InitPoolInv == Init => PoolInv
<1> SUFFICES ASSUME Init PROVE PoolInv
  OBVIOUS
<1>1. TypeOK
  BY PoolAssumption DEF Init, TypeOK, Conns, NoConn, PCs, Frames
<1>2. \A t \in Threads : Stack(t)
  BY DEF Init, Stack, Holders, Frames
<1>. QED  BY <1>1, <1>2 DEF PoolInv

\* Taking the front of the queue of idle connections.
LEMMA PopsAConnection ==
    ASSUME NEW q \in Seq(Conns), q # <<>>
    PROVE  Head(q) \in Conns /\ Tail(q) \in Seq(Conns) /\ Head(q) # NoConn
  BY PoolAssumption, EmptySeq, HeadTailProperties DEF Conns, NoConn

\* Every step of every thread preserves types and stacks.
LEMMA NextPoolInv == PoolInv /\ [Next]_vars => PoolInv'
<1> SUFFICES ASSUME PoolInv, [Next]_vars PROVE PoolInv'
  OBVIOUS
<1> USE DEF PoolInv, TypeOK
<1>1. ASSUME NEW t \in Threads, NEW r \in Rpcs, StartRpc(t, r) PROVE PoolInv'
  BY <1>1, PoolAssumption DEF StartRpc, Stack, PCs, Frames
<1>2. ASSUME NEW t \in Threads, AcquireLock(t) PROVE PoolInv'
  BY <1>2 DEF AcquireLock, Stack, PCs
<1>3. ASSUME NEW t \in Threads, Block(t) PROVE PoolInv'
  BY <1>3 DEF Block, Stack, PCs
<1>4. ASSUME NEW t \in Threads, Pop(t) PROVE PoolInv'
  BY <1>4, PopsAConnection DEF Pop, Stack, PCs, Holder, Holders, Frames
<1>5. ASSUME NEW t \in Threads, SpuriousWakeup(t) PROVE PoolInv'
  BY <1>5 DEF SpuriousWakeup, Stack, PCs
<1>6. ASSUME NEW t \in Threads, CallGetVehicle(t) PROVE PoolInv'
  BY <1>6 DEF CallGetVehicle, Stack, PCs, Frames
<1>7. ASSUME NEW t \in Threads, LeaveScope(t) PROVE PoolInv'
  BY <1>7 DEF LeaveScope, Stack, PCs
<1>8. ASSUME NEW t \in Threads, ReleaseLock(t) PROVE PoolInv'
  BY <1>8 DEF ReleaseLock, Stack, PCs
<1>9. ASSUME NEW t \in Threads, Push(t) PROVE PoolInv'
  <2>1. <<t, frame[t]>> \in Holders /\ conn[<<t, frame[t]>>] \in Conns
    BY <1>9 DEF Push, Stack, Holders
  <2>2. idle' \in Seq(Conns)
    BY <1>9, <2>1, AppendProperties DEF Push, Holder
  <2>3. TypeOK'
    BY <1>9, <2>1, <2>2 DEF Push, PCs, Holder
  <2>4. \A s \in Threads : Stack(s)'
    BY <1>9 DEF Push, Stack, PCs, Holder, Holders, Frames
  <2>. QED  BY <2>3, <2>4
<1>10. ASSUME NEW t \in Threads, NotifyOne(t) PROVE PoolInv'
  <2>1. pc' \in [Threads -> PCs]
    BY <1>10 DEF NotifyOne, PCs, Returns
  <2>2. served[t] < MaxRpcs
    BY <1>10 DEF NotifyOne, Stack
  <2>3. TypeOK'
    BY <1>10, <2>1, <2>2, PoolAssumption DEF NotifyOne, Frames
  <2>4. pc'[t] = Returns(t) /\ frame'[t] = "outer"
    BY <1>10 DEF NotifyOne, Waiting, Returns
  <2>5. Stack(t)'
    BY <1>10, <2>2, <2>4, PoolAssumption
    DEF NotifyOne, Stack, Returns, Frames
  <2>6. ASSUME NEW s \in Threads, s # t PROVE Stack(s)'
    <3>1. /\ (pc'[s] = pc[s]) \/ (pc[s] = "wait" /\ pc'[s] = "relock")
          /\ frame'[s] = frame[s] /\ served'[s] = served[s] /\ conn' = conn
      BY <1>10, <2>6 DEF NotifyOne, Waiting
    <3>. QED  BY <3>1 DEF Stack
  <2>. QED  BY <2>3, <2>5, <2>6
<1>11. CASE UNCHANGED vars
  BY <1>11 DEF vars, Stack
<1>. QED
  BY <1>1, <1>2, <1>3, <1>4, <1>5, <1>6, <1>7, <1>8, <1>9, <1>10, <1>11
  DEF Next, Step, Quiet

\* Types, for every number of threads, pool size and mix of RPCs.
THEOREM TypeCorrect == Spec => []TypeOK
<1>1. Spec => []PoolInv
  BY InitPoolInv, NextPoolInv, PTL DEF Spec
<1>2. PoolInv => TypeOK
  BY DEF PoolInv
<1>. QED  BY <1>1, <1>2, PTL

-----------------------------------------------------------------------------

\* Every step of a thread is an atomic step of the promised pool: Pop is its
\* Acquire, Push its Release, and every other step changes neither idle_ nor
\* a PgConn.
LEMMA StepSimulation ==
    PoolInv /\ [Next]_vars => [Abstract!Next]_(Abstract!poolVars)
<1> SUFFICES ASSUME PoolInv, [Next]_vars
             PROVE  [Abstract!Next]_(Abstract!poolVars)
  OBVIOUS
<1> USE DEF PoolInv, TypeOK
<1>1. ASSUME NEW t \in Threads, Pop(t) PROVE Abstract!Next
  <2>1. <<t, frame[t]>> \in Holders /\ conn[<<t, frame[t]>>] = NoConn
    BY <1>1 DEF Pop, Stack, Holders
  <2>2. Abstract!Acquire(<<t, frame[t]>>)
    BY <1>1, <2>1 DEF Pop, Abstract!Acquire, Holder, NoConn, Abstract!NoConn
  <2>. QED  BY <2>1, <2>2 DEF Abstract!Next
<1>2. ASSUME NEW t \in Threads, Push(t) PROVE Abstract!Next
  <2>1. <<t, frame[t]>> \in Holders /\ conn[<<t, frame[t]>>] # NoConn
    BY <1>2 DEF Push, Stack, Holders
  <2>2. Abstract!Release(<<t, frame[t]>>)
    BY <1>2, <2>1 DEF Push, Abstract!Release, Holder, NoConn, Abstract!NoConn
  <2>. QED  BY <2>1, <2>2 DEF Abstract!Next
<1>3. ASSUME NEW t \in Threads,
             \/ \E r \in Rpcs : StartRpc(t, r)
             \/ SpuriousWakeup(t) \/ AcquireLock(t) \/ Block(t)
             \/ CallGetVehicle(t) \/ LeaveScope(t) \/ ReleaseLock(t)
             \/ NotifyOne(t)
      PROVE  UNCHANGED Abstract!poolVars
  BY <1>3 DEF StartRpc, SpuriousWakeup, AcquireLock, Block, CallGetVehicle,
              LeaveScope, ReleaseLock, NotifyOne, Abstract!poolVars
<1>4. CASE UNCHANGED vars
  BY <1>4 DEF vars, Abstract!poolVars
<1>. QED
  BY <1>1, <1>2, <1>3, <1>4 DEF Next, Step, Quiet

\* The pool as coded implements the pool as promised.
THEOREM Refinement == Spec => ImplementsConnPool
<1>1. Init => Abstract!Init
  BY DEF Init, Abstract!Init, NoConn, Abstract!NoConn
<1>2. Spec => []PoolInv
  BY InitPoolInv, NextPoolInv, PTL DEF Spec
<1>. QED
  BY <1>1, <1>2, StepSimulation, PTL
  DEF Spec, ImplementsConnPool, Abstract!Spec

\* The theorems of ConnPoolProofs, about the variables of this module.
Promise == INSTANCE ConnPoolProofs WITH lease <- conn

\* The two instances of ConnPool are the same specification.
LEMMA SamePromise == Abstract!Spec => Promise!Spec
<1>1. Abstract!Init => Promise!Init
  BY DEF Abstract!Init, Promise!Init, Abstract!NoConn, Promise!NoConn
<1>2. [Abstract!Next]_(Abstract!poolVars) => [Promise!Next]_(Promise!poolVars)
  BY DEF Abstract!Next, Promise!Next, Abstract!Acquire, Promise!Acquire,
         Abstract!Release, Promise!Release, Abstract!NoConn, Promise!NoConn,
         Abstract!poolVars, Promise!poolVars
<1>. QED  BY <1>1, <1>2, PTL DEF Abstract!Spec, Promise!Spec

\* No two PgConn objects, in any number of threads and nested frames, hold
\* the same connection, and none holds one that is idle.
THEOREM ExclusiveLeaseHolds == Spec => []ExclusiveLease
<1>1. Promise!Spec => []Promise!ExclusiveLease
  BY PoolAssumption, Promise!ExclusiveLeaseAlways DEF Promise!SizeOK
<1>2. Promise!ExclusiveLease => ExclusiveLease
  BY DEF Promise!ExclusiveLease, ExclusiveLease, Abstract!ExclusiveLease,
         Abstract!NoConn, Promise!NoConn
<1>. QED
  BY <1>1, <1>2, SamePromise, Refinement, PTL DEF ImplementsConnPool

\* Every connection opened at start is idle or held, however handlers end.
THEOREM NoConnectionLostHolds == Spec => []NoConnectionLost
<1>1. Promise!Spec => []Promise!NoConnectionLost
  BY PoolAssumption, Promise!NoConnectionLostAlways DEF Promise!SizeOK
<1>2. Promise!NoConnectionLost => NoConnectionLost
  BY DEF Promise!NoConnectionLost, NoConnectionLost,
         Abstract!NoConnectionLost, Abstract!Conns, Promise!Conns
<1>. QED
  BY <1>1, <1>2, SamePromise, Refinement, PTL DEF ImplementsConnPool

-----------------------------------------------------------------------------

\* The inductive invariant behind the wakeups.
WakeInv == PoolInv /\ EnoughAwake

\* Awake is a finite set of threads, before and after a step.
LEMMA AwakeFinite ==
    /\ IsFiniteSet(Awake) /\ Cardinality(Awake) \in Nat
    /\ IsFiniteSet(Awake') /\ Cardinality(Awake') \in Nat
<1>1. Awake \subseteq Threads /\ Awake' \subseteq Threads
  BY DEF Awake
<1>2. IsFiniteSet(Awake) /\ IsFiniteSet(Awake')
  BY <1>1, PoolAssumption, FS_Subset
<1>. QED  BY <1>2, FS_CardinalityType

\* A step that leaves the queue alone and puts nobody to sleep.
LEMMA AwakeGrows ==
    ASSUME EnoughAwake, idle' = idle, Awake \subseteq Awake',
           PoolInv, PoolInv',
           \A w \in Threads : pc'[w] = "wait" => pc[w] = "wait"
    PROVE  EnoughAwake'
<1>1. Cardinality(Awake) <= Cardinality(Awake')
  BY AwakeFinite, FS_Subset
<1>. QED
  BY <1>1, AwakeFinite, LenProperties
  DEF EnoughAwake, Waiting, PoolInv, TypeOK

\* At the start nobody waits.
LEMMA InitWakeInv == Init => WakeInv
  BY InitPoolInv DEF Init, WakeInv, EnoughAwake, Waiting

\* Every step keeps as many threads awake as there are idle connections,
\* while anybody waits.
LEMMA NextWakeInv == WakeInv /\ [Next]_vars => WakeInv'
<1> SUFFICES ASSUME PoolInv, EnoughAwake, [Next]_vars PROVE EnoughAwake'
  BY NextPoolInv DEF WakeInv
<1>0. /\ PoolInv'
      /\ idle \in Seq(Conns) /\ idle' \in Seq(Conns)
      /\ pc \in [Threads -> PCs] /\ pc' \in [Threads -> PCs]
      /\ Len(idle) \in Nat
  BY NextPoolInv, LenProperties DEF PoolInv, TypeOK
<1>1. ASSUME NEW t \in Threads,
             \/ \E r \in Rpcs : StartRpc(t, r)
             \/ SpuriousWakeup(t) \/ AcquireLock(t) \/ CallGetVehicle(t)
             \/ LeaveScope(t) \/ ReleaseLock(t)
      PROVE  EnoughAwake'
  <2>1. /\ idle' = idle
        /\ \A w \in Threads : pc'[w] = "wait" => pc[w] = "wait"
        /\ Awake \subseteq Awake'
    BY <1>0, <1>1 DEF StartRpc, SpuriousWakeup, AcquireLock, CallGetVehicle,
                      LeaveScope, ReleaseLock, Awake
  <2>. QED  BY <1>0, <2>1, AwakeGrows
<1>2. ASSUME NEW t \in Threads, Block(t) PROVE EnoughAwake'
  BY <1>2, AwakeFinite, EmptySeq DEF Block, EnoughAwake
<1>3. ASSUME NEW t \in Threads, Pop(t) PROVE EnoughAwake'
  <2>1. t \in Awake /\ Awake' = Awake \ {t}
    BY <1>0, <1>3 DEF Pop, Awake
  <2>2. Cardinality(Awake') = Cardinality(Awake) - 1
    BY <2>1, AwakeFinite, FS_RemoveElement
  <2>3. Len(idle') = Len(idle) - 1
    BY <1>0, <1>3, EmptySeq, HeadTailProperties DEF Pop
  <2>4. \A w \in Threads : pc'[w] = "wait" => pc[w] = "wait"
    BY <1>0, <1>3 DEF Pop
  <2>. QED
    BY <1>0, <2>2, <2>3, <2>4, AwakeFinite DEF EnoughAwake, Waiting
<1>4. ASSUME NEW t \in Threads, Push(t) PROVE EnoughAwake'
  <2>1. t \notin Awake /\ Awake' = Awake \cup {t}
    BY <1>0, <1>4 DEF Push, Awake
  <2>2. Cardinality(Awake') = Cardinality(Awake) + 1
    BY <2>1, AwakeFinite, FS_AddElement
  <2>3. conn[Holder(t)] \in Conns
    BY <1>4 DEF Push, PoolInv, TypeOK, Stack, Holder, Holders
  <2>4. Len(idle') = Len(idle) + 1
    BY <1>0, <1>4, <2>3, AppendProperties DEF Push
  <2>5. \A w \in Threads : pc'[w] = "wait" => pc[w] = "wait"
    BY <1>0, <1>4 DEF Push
  <2>. QED
    BY <1>0, <2>2, <2>4, <2>5, AwakeFinite DEF EnoughAwake, Waiting
<1>5. ASSUME NEW t \in Threads, NotifyOne(t) PROVE EnoughAwake'
  <2>0. /\ pc[t] = "notify" /\ idle' = idle
        /\ Returns(t) \in {"unwind", "idle"}
    BY <1>5 DEF NotifyOne, Returns
  <2>1. CASE /\ \A w \in Threads : ~Waiting(w)
             /\ pc' = [pc EXCEPT ![t] = Returns(t)]
    BY <1>0, <2>0, <2>1 DEF EnoughAwake, Waiting
  <2>2. ASSUME NEW w \in Threads, Waiting(w),
               pc' = [pc EXCEPT ![t] = Returns(t), ![w] = "relock"]
        PROVE  EnoughAwake'
    <3>1. w # t /\ t \in Awake /\ w \notin Awake
      BY <2>0, <2>2 DEF Waiting, Awake
    <3>2. Awake' = (Awake \ {t}) \cup {w}
      BY <1>0, <2>0, <2>2, <3>1 DEF Awake
    <3>3. /\ IsFiniteSet(Awake \ {t})
          /\ Cardinality(Awake \ {t}) = Cardinality(Awake) - 1
      BY <3>1, AwakeFinite, FS_RemoveElement
    <3>4. Cardinality(Awake') = Cardinality(Awake)
      <4>1. w \notin Awake \ {t}
        BY <3>1
      <4>2. Cardinality((Awake \ {t}) \cup {w}) = Cardinality(Awake \ {t}) + 1
        BY <3>3, <4>1, FS_AddElement
      <4>. QED  BY <3>2, <3>3, <4>2, AwakeFinite
    <3>. QED
      BY <1>0, <2>0, <2>2, <3>4, AwakeFinite DEF EnoughAwake, Waiting
  <2>. QED  BY <1>5, <2>1, <2>2 DEF NotifyOne
<1>6. CASE UNCHANGED vars
  BY <1>6 DEF vars, EnoughAwake, Waiting, Awake
<1>. QED
  BY <1>1, <1>2, <1>3, <1>4, <1>5, <1>6 DEF Next, Step, Quiet

\* While somebody waits, release() has woken or is about to wake enough
\* threads for all idle connections: for any number of threads and any size.
THEOREM EnoughAwakeHolds == Spec => []EnoughAwake
<1>1. Spec => []WakeInv
  BY InitWakeInv, NextWakeInv, PTL DEF Spec
<1>2. WakeInv => EnoughAwake
  BY DEF WakeInv
<1>. QED  BY <1>1, <1>2, PTL

\* While a connection is idle and somebody waits for one, some thread is on
\* its way to take it or to notify: for any number of threads and any size.
THEOREM NoLostWakeupHolds == Spec => []NoLostWakeup
<1>1. Spec => []WakeInv
  BY InitWakeInv, NextWakeInv, PTL DEF Spec
<1>2. WakeInv => NoLostWakeup
  <2> SUFFICES ASSUME WakeInv, idle # <<>>, \E w \in Threads : Waiting(w)
               PROVE  Awake # {}
    BY DEF NoLostWakeup
  <2>1. Len(idle) \in Nat /\ Len(idle) >= 1
    BY EmptySeq, LenProperties DEF WakeInv, PoolInv, TypeOK
  <2>2. Cardinality(Awake) >= 1
    BY <2>1, AwakeFinite DEF WakeInv, EnoughAwake
  <2>. QED  BY <2>2, FS_EmptySet
<1>. QED  BY <1>1, <1>2, PTL

-----------------------------------------------------------------------------
(***************************************************************************)
(* The server process: when main destroys the pool nobody is inside it.    *)
(*                                                                         *)
(* Whatever the process does is a step of the pool (ServerStep), so the    *)
(* first part gives the types, the stacks, exclusive leases and no lost    *)
(* connection.  New here are who may hold mu_ (MutexOwner) and that the    *)
(* last phase is never left by a handler (HandlersGone).  With no handler  *)
(* running no PgConn holds a connection, so that idle_ lists every         *)
(* connection exactly once: its length is Size by counting.                *)
(***************************************************************************)

\* mu_ is held by a thread that is inside acquire() or release().
MutexOwner == \A t \in Threads : mu = t => pc[t] \in {"check", "push"}

\* Once main has left the scope of the pool, no handler runs.
HandlersGone == phase = "exited" => \A t \in Threads : pc[t] = "idle"

ServerInv ==
    /\ ServerTypeOK
    /\ PoolInv
    /\ MutexOwner
    /\ HandlersGone

\* Every step of the process is a step of the pool, or leaves it alone.
LEMMA ServerStep == [ServerNext]_serverVars => [Next]_vars
  BY DEF ServerNext, serverVars, Signal, HookShutdown, DeadlinePasses,
         WaitReturns, Dispatch, HandlerStep, Exited, Next

\* A server that has just begun to listen.
LEMMA InitServerInv == ServerInit => ServerInv
<1> SUFFICES ASSUME ServerInit PROVE ServerInv
  OBVIOUS
<1>1. PoolInv
  BY InitPoolInv DEF ServerInit
<1>2. ServerTypeOK
  BY <1>1 DEF ServerInit, ServerTypeOK, PoolInv, Phases
<1>3. MutexOwner
  BY PoolAssumption DEF ServerInit, Init, MutexOwner
<1>4. HandlersGone
  BY DEF ServerInit, HandlersGone
<1>. QED  BY <1>1, <1>2, <1>3, <1>4 DEF ServerInv

\* Who locks mu_ is in acquire() or release() until it unlocks it.
LEMMA NextMutexOwner == TypeOK /\ MutexOwner /\ [Next]_vars => MutexOwner'
<1> SUFFICES ASSUME TypeOK, MutexOwner, [Next]_vars PROVE MutexOwner'
  OBVIOUS
<1> USE PoolAssumption DEF TypeOK, MutexOwner
<1>1. ASSUME NEW t \in Threads, NEW r \in Rpcs, StartRpc(t, r)
      PROVE  MutexOwner'
  BY <1>1 DEF StartRpc
<1>2. ASSUME NEW t \in Threads, AcquireLock(t) \/ ReleaseLock(t)
      PROVE  MutexOwner'
  BY <1>2 DEF AcquireLock, ReleaseLock
<1>3. ASSUME NEW t \in Threads, Block(t) \/ Pop(t) \/ Push(t)
      PROVE  MutexOwner'
  BY <1>3 DEF Block, Pop, Push
<1>4. ASSUME NEW t \in Threads,
             SpuriousWakeup(t) \/ CallGetVehicle(t) \/ LeaveScope(t)
      PROVE  MutexOwner'
  BY <1>4 DEF SpuriousWakeup, CallGetVehicle, LeaveScope
<1>5. ASSUME NEW t \in Threads, NotifyOne(t) PROVE MutexOwner'
  <2>1. mu' = mu
    BY <1>5 DEF NotifyOne
  <2>2. \A u \in Threads : pc[u] \in {"check", "push"} => pc'[u] = pc[u]
    BY <1>5 DEF NotifyOne, Waiting
  <2>. QED  BY <2>1, <2>2
<1>6. CASE UNCHANGED vars
  BY <1>6 DEF vars
<1>. QED
  BY <1>1, <1>2, <1>3, <1>4, <1>5, <1>6 DEF Next, Step, Quiet

\* Shutdown admits no RPC, and main waits for the handlers that run.
LEMMA NextHandlersGone ==
    ServerInv /\ [ServerNext]_serverVars => HandlersGone'
<1> SUFFICES ASSUME ServerInv, [ServerNext]_serverVars, phase' = "exited",
                    NEW u \in Threads
             PROVE  pc'[u] = "idle"
  BY DEF HandlersGone
<1>1. CASE phase = "exited"
  <2>1. \A t \in Threads : pc[t] = "idle"
    BY <1>1 DEF ServerInv, HandlersGone
  <2>2. ~ \E t \in Threads : HandlerStep(t)
    BY <2>1 DEF HandlerStep, Step, AcquireLock, Block, Pop, CallGetVehicle,
                LeaveScope, ReleaseLock, Push, NotifyOne, SpuriousWakeup
  <2>3. UNCHANGED vars
    BY <1>1, <2>2 DEF ServerNext, Signal, HookShutdown, DeadlinePasses,
                      WaitReturns, Dispatch, Exited, serverVars
  <2>. QED  BY <2>1, <2>3 DEF vars
<1>2. CASE phase # "exited"
  <2>1. WaitReturns
    BY <1>2 DEF ServerNext, Signal, HookShutdown, DeadlinePasses, Dispatch,
                HandlerStep, Exited, serverVars
  <2>. QED  BY <2>1 DEF WaitReturns, vars
<1>. QED  BY <1>1, <1>2

\* ServerInv is inductive.
LEMMA NextServerInv == ServerInv /\ [ServerNext]_serverVars => ServerInv'
<1> SUFFICES ASSUME ServerInv, [ServerNext]_serverVars PROVE ServerInv'
  OBVIOUS
<1>1. PoolInv'
  BY ServerStep, NextPoolInv DEF ServerInv
<1>2. phase' \in Phases
  BY DEF ServerInv, ServerTypeOK, Phases, ServerNext, Signal, HookShutdown,
         DeadlinePasses, WaitReturns, Dispatch, HandlerStep, Exited, serverVars
<1>3. MutexOwner'
  BY ServerStep, NextMutexOwner DEF ServerInv, PoolInv
<1>. QED
  BY <1>1, <1>2, <1>3, NextHandlersGone DEF ServerInv, ServerTypeOK, PoolInv

\* A queue that lists every connection exactly once has Size entries.
LEMMA FullQueue ==
    ASSUME NEW q \in Seq(Conns),
           \A i, j \in DOMAIN q : q[i] = q[j] => i = j,
           \A c \in Conns : \E i \in DOMAIN q : q[i] = c
    PROVE  Len(q) = Size
<1>1. /\ Len(q) \in Nat /\ DOMAIN q = 1 .. Len(q)
      /\ q \in [1 .. Len(q) -> Conns]
  BY LenProperties
<1>2. q \in Injection(1 .. Len(q), Conns)
  BY <1>1 DEF Injection, IsInjective
<1>3. q \in Surjection(1 .. Len(q), Conns)
  BY <1>1 DEF Surjection
<1>4. /\ IsFiniteSet(Conns) /\ Cardinality(Conns) = Size
  BY PoolAssumption, FS_Interval DEF Conns
<1>5. Cardinality(1 .. Len(q)) = Len(q)
  BY <1>1, FS_Interval
<1>6. Cardinality(1 .. Len(q)) = Cardinality(Conns)
  BY <1>2, <1>3, <1>4, FS_Injection
<1>. QED  BY <1>4, <1>5, <1>6

\* When no handler runs, nobody has mu_ and every connection is idle.
LEMMA QuietPool ==
    ASSUME ServerInv, ExclusiveLease, NoConnectionLost
    PROVE  PoolQuietAtExit
<1> SUFFICES ASSUME phase = "exited"
             PROVE  /\ mu = NoThread
                    /\ Len(idle) = Size
                    /\ \A t \in Threads : pc[t] = "idle"
  BY DEF PoolQuietAtExit
<1>1. \A t \in Threads : pc[t] = "idle"
  BY DEF ServerInv, HandlersGone
<1>2. mu = NoThread
  BY <1>1 DEF ServerInv, MutexOwner, PoolInv, TypeOK
<1>3. \A h \in Holders : conn[h] = NoConn
  <2> SUFFICES ASSUME NEW t \in Threads, NEW f \in Frames
               PROVE  conn[<<t, f>>] = NoConn
    BY DEF Holders
  <2>1. Stack(t) /\ pc[t] = "idle" /\ frame[t] \in Frames
    BY <1>1 DEF ServerInv, PoolInv, TypeOK
  <2>. QED  BY <2>1 DEF Stack, Frames
<1>4. \A c \in Conns : \E i \in DOMAIN idle : idle[i] = c
  BY <1>3, PoolAssumption DEF NoConnectionLost, Abstract!NoConnectionLost,
     Abstract!Conns, Conns, NoConn
<1>5. Len(idle) = Size
  BY <1>4, FullQueue DEF ExclusiveLease, Abstract!ExclusiveLease, ServerInv,
     PoolInv, TypeOK
<1>. QED  BY <1>1, <1>2, <1>5

\* A behaviour of the process is a behaviour of the pool.
LEMMA ServerUsesPool == ServerSpec => Spec
<1>1. ServerInit => Init
  BY DEF ServerInit
<1>. QED  BY <1>1, ServerStep, PTL DEF ServerSpec, Spec

\* Types of the process, for every number of threads and pool size.
THEOREM ServerTypeCorrect == ServerSpec => []ServerTypeOK
<1>1. ServerInv => ServerTypeOK
  BY DEF ServerInv
<1>. QED
  BY <1>1, InitServerInv, NextServerInv, PTL DEF ServerSpec

\* Nothing of the pool is in use when main destroys it: mu_ is free, every
\* connection is back in idle_ and no thread is before its notify_one.  For
\* every number of threads, pool size and mix of RPCs, whether or not the
\* deadline of the shutdown passed first.
THEOREM PoolQuietAtExitHolds == ServerSpec => []PoolQuietAtExit
<1>1. ServerSpec => []ServerInv
  BY InitServerInv, NextServerInv, PTL DEF ServerSpec
<1>2. ServerSpec => []ExclusiveLease /\ []NoConnectionLost
  BY ServerUsesPool, ExclusiveLeaseHolds, NoConnectionLostHolds, PTL
<1>3. ServerInv /\ ExclusiveLease /\ NoConnectionLost => PoolQuietAtExit
  BY QuietPool
<1>. QED  BY <1>1, <1>2, <1>3, PTL

=============================================================================
