------------------------------- MODULE PgPool -------------------------------
(***************************************************************************)
(* The connection pool of src/src/db/pool.cc and the threads of the        *)
(* synchronous gRPC server that share it.                                  *)
(*                                                                         *)
(* Every RPC handler owns its connection through a PgConn on its stack: it *)
(* calls PgPool::acquire once, runs its statements, and returns the        *)
(* connection when the PgConn is destroyed, on every path out of the       *)
(* handler, an exception included.  One handler is different:              *)
(* CreateVehicle calls GetVehicle while its own PgConn is alive, and       *)
(* GetVehicle acquires a second connection.  The handler called by gRPC is *)
(* the "outer" frame of the thread, the nested GetVehicle its "inner" one. *)
(*                                                                         *)
(* Each place where another thread can run is a state of pc: before a      *)
(* lock, inside the wait, between the unlock of release() and its          *)
(* notify_one (called after the unlock).  What a thread does while it      *)
(* holds mu_ and cannot wait is one step.                                  *)
(***************************************************************************)
EXTENDS Integers, Sequences, FiniteSets

CONSTANTS
    Threads,    \* threads of the gRPC server
    NoThread,   \* the owner of mu_ when it is unlocked
    Size,       \* connections in the pool (4 in main.cc)
    Rpcs,       \* the kinds of RPC that arrive: "plain" takes one connection,
                \* "create" is CreateVehicle
    MaxRpcs     \* bound: RPCs one thread serves in a behaviour

ASSUME PoolAssumption ==
    /\ Size \in Nat \ {0}
    /\ IsFiniteSet(Threads)
    /\ NoThread \notin Threads
    /\ Rpcs \subseteq {"plain", "create"}
    /\ MaxRpcs \in Nat

VARIABLES
    mu,         \* PgPool::mu_: the thread that has it, or NoThread
    idle,       \* PgPool::idle_
    conn,       \* conn[t, f]: the connection in the PgConn of frame f of t
    pc,         \* where each thread is
    frame,      \* the frame each thread executes
    rpc,        \* the kind of RPC each thread executes, or executed last
    served      \* RPCs each thread has finished

vars == <<mu, idle, conn, pc, frame, rpc, served>>

Conns == 1 .. Size

NoConn == 0

Frames == {"outer", "inner"}

Holders == Threads \X Frames

PCs ==
    { "idle",       \* no RPC
      "lock",       \* acquire(): about to lock mu_
      "check",      \* acquire(): has mu_, evaluates !idle_.empty()
      "wait",       \* acquire(): blocked in cv_.wait, mu_ released
      "relock",     \* acquire(): woken, cv_.wait about to lock mu_ again
      "use",        \* has its connection, runs its statements
      "unwind",     \* ~PgConn: about to lock mu_ in release()
      "push",       \* release(): has mu_
      "notify" }    \* release(): mu_ unlocked, before notify_one

TypeOK ==
    /\ mu \in Threads \cup {NoThread}
    /\ idle \in Seq(Conns)
    /\ conn \in [Holders -> Conns \cup {NoConn}]
    /\ pc \in [Threads -> PCs]
    /\ frame \in [Threads -> Frames]
    /\ rpc \in [Threads -> {"plain", "create"}]
    /\ served \in [Threads -> 0 .. MaxRpcs]

Waiting(t) == pc[t] = "wait"

\* The PgConn being filled or emptied by thread t.
Holder(t) == <<t, frame[t]>>

Init ==
    /\ mu = NoThread
    /\ idle = [i \in 1 .. Size |-> i]
    /\ conn = [h \in Holders |-> NoConn]
    /\ pc = [t \in Threads |-> "idle"]
    /\ frame = [t \in Threads |-> "outer"]
    /\ rpc = [t \in Threads |-> "plain"]
    /\ served = [t \in Threads |-> 0]

-----------------------------------------------------------------------------

\* gRPC hands an RPC to an idle thread, whose handler passed authentication
\* and validation and calls acquire().  (A handler that returns before
\* acquire() never touches the pool.)
StartRpc(t, r) ==
    /\ pc[t] = "idle"
    /\ served[t] < MaxRpcs
    /\ pc' = [pc EXCEPT ![t] = "lock"]
    /\ frame' = [frame EXCEPT ![t] = "outer"]
    /\ rpc' = [rpc EXCEPT ![t] = r]
    /\ UNCHANGED <<mu, idle, conn, served>>

\* acquire(): the unique_lock, or the lock cv_.wait takes again when woken.
AcquireLock(t) ==
    /\ pc[t] \in {"lock", "relock"}
    /\ mu = NoThread
    /\ mu' = t
    /\ pc' = [pc EXCEPT ![t] = "check"]
    /\ UNCHANGED <<idle, conn, frame, rpc, served>>

\* Mutant of Block: the wait has no predicate.
BlockWithoutPredicate(t) ==
    /\ pc[t] = "check"
    /\ mu' = NoThread
    /\ pc' = [pc EXCEPT ![t] = "wait"]
    /\ UNCHANGED <<idle, conn, frame, rpc, served>>

\* acquire(): the predicate is false; cv_.wait unlocks and blocks atomically.
Block(t) ==
    /\ pc[t] = "check"
    /\ idle = <<>>
    /\ mu' = NoThread
    /\ pc' = [pc EXCEPT ![t] = "wait"]
    /\ UNCHANGED <<idle, conn, frame, rpc, served>>

\* Mutant of Pop: idle_.pop() is forgotten.
PopKeepsFront(t) ==
    /\ pc[t] = "check"
    /\ idle # <<>>
    /\ conn' = [conn EXCEPT ![Holder(t)] = Head(idle)]
    /\ mu' = NoThread
    /\ pc' = [pc EXCEPT ![t] = "use"]
    /\ UNCHANGED <<idle, frame, rpc, served>>

\* Mutant of Pop: the connection released last is taken first.
PopBack(t) ==
    /\ pc[t] = "check"
    /\ idle # <<>>
    /\ conn' = [conn EXCEPT ![Holder(t)] = idle[Len(idle)]]
    /\ idle' = SubSeq(idle, 1, Len(idle) - 1)
    /\ mu' = NoThread
    /\ pc' = [pc EXCEPT ![t] = "use"]
    /\ UNCHANGED <<frame, rpc, served>>

\* acquire(): the predicate is true; take the front of idle_ and unlock.
Pop(t) ==
    /\ pc[t] = "check"
    /\ idle # <<>>
    /\ conn' = [conn EXCEPT ![Holder(t)] = Head(idle)]
    /\ idle' = Tail(idle)
    /\ mu' = NoThread
    /\ pc' = [pc EXCEPT ![t] = "use"]
    /\ UNCHANGED <<frame, rpc, served>>

\* A condition variable may wake a waiter although nobody notified it.
SpuriousWakeup(t) ==
    /\ pc[t] = "wait"
    /\ pc' = [pc EXCEPT ![t] = "relock"]
    /\ UNCHANGED <<mu, idle, conn, frame, rpc, served>>

\* CreateVehicle has committed and calls GetVehicle, which authenticates and
\* calls acquire() while the caller's PgConn still holds its connection.
CallGetVehicle(t) ==
    /\ pc[t] = "use"
    /\ rpc[t] = "create"
    /\ frame[t] = "outer"
    /\ frame' = [frame EXCEPT ![t] = "inner"]
    /\ pc' = [pc EXCEPT ![t] = "lock"]
    /\ UNCHANGED <<mu, idle, conn, rpc, served>>

\* The handler leaves the scope of its PgConn: its statements are done or
\* threw (for CreateVehicle: its INSERT or its commit threw, or the nested
\* GetVehicle refused the token before it acquired).
LeaveScope(t) ==
    /\ pc[t] = "use"
    /\ pc' = [pc EXCEPT ![t] = "unwind"]
    /\ UNCHANGED <<mu, idle, conn, frame, rpc, served>>

\* release(): the lock_guard.
ReleaseLock(t) ==
    /\ pc[t] = "unwind"
    /\ mu = NoThread
    /\ mu' = t
    /\ pc' = [pc EXCEPT ![t] = "push"]
    /\ UNCHANGED <<idle, conn, frame, rpc, served>>

\* Mutant of Push: the PgConn was moved from before its connection is pushed.
PushMovedFrom(t) ==
    /\ pc[t] = "push"
    /\ idle' = Append(idle, NoConn)
    /\ conn' = [conn EXCEPT ![Holder(t)] = NoConn]
    /\ mu' = NoThread
    /\ pc' = [pc EXCEPT ![t] = "notify"]
    /\ UNCHANGED <<frame, rpc, served>>

\* Mutant of Push: the connection is dropped, not pushed.
PushDrops(t) ==
    /\ pc[t] = "push"
    /\ conn' = [conn EXCEPT ![Holder(t)] = NoConn]
    /\ mu' = NoThread
    /\ pc' = [pc EXCEPT ![t] = "notify"]
    /\ UNCHANGED <<idle, frame, rpc, served>>

\* release(): push the connection and unlock.
Push(t) ==
    /\ pc[t] = "push"
    /\ idle' = Append(idle, conn[Holder(t)])
    /\ conn' = [conn EXCEPT ![Holder(t)] = NoConn]
    /\ mu' = NoThread
    /\ pc' = [pc EXCEPT ![t] = "notify"]
    /\ UNCHANGED <<frame, rpc, served>>

\* What thread t does once release() returns: GetVehicle returns into
\* CreateVehicle, which returns and destroys its own PgConn; any other
\* handler is finished.
Returns(t) == IF frame[t] = "inner" THEN "unwind" ELSE "idle"

\* Mutant of NotifyOne: release() does not notify.
NotifyNobody(t) ==
    /\ pc[t] = "notify"
    /\ pc' = [pc EXCEPT ![t] = Returns(t)]
    /\ frame' = [frame EXCEPT ![t] = "outer"]
    /\ served' = [served EXCEPT ![t] = IF frame[t] = "inner" THEN @ ELSE @ + 1]
    /\ UNCHANGED <<mu, idle, conn, rpc>>

\* release(): notify_one, after the unlock, wakes one waiter, any of them, or
\* nobody when nobody waits at that moment.
NotifyOne(t) ==
    /\ pc[t] = "notify"
    /\ \/ /\ \A w \in Threads : ~Waiting(w)
          /\ pc' = [pc EXCEPT ![t] = Returns(t)]
       \/ \E w \in Threads :
            /\ Waiting(w)
            /\ pc' = [pc EXCEPT ![t] = Returns(t), ![w] = "relock"]
    /\ frame' = [frame EXCEPT ![t] = "outer"]
    /\ served' = [served EXCEPT ![t] = IF frame[t] = "inner" THEN @ ELSE @ + 1]
    /\ UNCHANGED <<mu, idle, conn, rpc>>

\* Every thread has served its MaxRpcs RPCs (the bound, not the program).
Quiet ==
    /\ \A t \in Threads : pc[t] = "idle" /\ served[t] = MaxRpcs
    /\ UNCHANGED vars

Step(t) ==
    \/ AcquireLock(t)
    \/ Block(t)
    \/ Pop(t)
    \/ CallGetVehicle(t)
    \/ LeaveScope(t)
    \/ ReleaseLock(t)
    \/ Push(t)
    \/ NotifyOne(t)

Next ==
    \/ \E t \in Threads :
         \/ \E r \in Rpcs : StartRpc(t, r)
         \/ SpuriousWakeup(t)
         \/ Step(t)
    \/ Quiet

Spec == Init /\ [][Next]_vars

-----------------------------------------------------------------------------

(***************************************************************************)
(* Fairness.  A running thread goes on running, and its SQL statements     *)
(* return (the code sets no statement timeout): weak fairness of the       *)
(* thread's steps.  mu_ is taken and released again and again, so that a   *)
(* thread which wants it gets it needs strong fairness: glibc's mutex is   *)
(* not a queue, but no thread loses every race for it.  RPCs need not      *)
(* arrive and spurious wakeups need not happen.                            *)
(***************************************************************************)
Fairness ==
    \A t \in Threads :
        /\ WF_vars(Step(t))
        /\ SF_vars(AcquireLock(t))
        /\ SF_vars(ReleaseLock(t))

FairSpec == Spec /\ Fairness

-----------------------------------------------------------------------------

Abstract == INSTANCE ConnPool WITH lease <- conn

\* The pool as coded implements the pool as promised: seen through idle_ and
\* the PgConn objects, every step of every thread is an atomic Acquire, an
\* atomic Release, or changes nothing.
ImplementsConnPool == Abstract!Spec

\* The two promises of ConnPool, as invariants of the pool as coded: no
\* connection is in two hands, and none leaks, with acquires and releases of
\* several threads interleaved and a handler that holds two connections.
ExclusiveLease == Abstract!ExclusiveLease

NoConnectionLost == Abstract!NoConnectionLost

\* Threads that will look at idle_ or notify a waiter without being woken
\* first.
Awake == { t \in Threads : pc[t] \in {"check", "relock", "notify"} }

\* The reason no wakeup is lost: while anybody waits, there are at least as
\* many awake threads as idle connections.  A thread goes to sleep only when
\* idle_ is empty, each push adds the pusher, each pop costs one of both.
EnoughAwake ==
    (\E w \in Threads : Waiting(w)) => Len(idle) <= Cardinality(Awake)

\* No wakeup is lost: while a connection is idle and a thread waits for one,
\* some thread is on its way to take a connection or to notify.  Checked
\* because release() notifies after it unlocked mu_, when other threads may
\* already have taken the connection or begun to wait.
NoLostWakeup ==
    idle # <<>> /\ (\E w \in Threads : Waiting(w))
        => Awake # {}

\* Every RPC that a thread began is finished: no thread waits for a
\* connection or for mu_ for ever (acquire() has no timeout).
EveryRpcFinishes ==
    \A t \in Threads : pc[t] # "idle" ~> pc[t] = "idle"

=============================================================================
