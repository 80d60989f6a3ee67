------------------------------ MODULE ConnPool ------------------------------
(***************************************************************************)
(* What the connection pool of the server promises, without its mutex, its *)
(* condition variable and its threads: Size database connections, each of *)
(* them at any time either in the queue of idle connections or leased to   *)
(* exactly one holder.  A holder is a C++ object (a PgConn); acquiring     *)
(* gives it the connection that has been idle longest, destroying it puts  *)
(* the connection back at the end of the queue.                            *)
(*                                                                         *)
(* Module PgPool is the pool as src/src/db/pool.cc codes it, and           *)
(* implements this specification.                                          *)
(***************************************************************************)
EXTENDS Integers, Sequences

CONSTANTS
    Holders,    \* the PgConn objects that may hold a connection
    Size        \* PgPool::size_, the number of connections opened at start

\* The constructor is called with a positive size (4 in main.cc).
SizeOK == Size \in Nat \ {0}

VARIABLES
    idle,       \* PgPool::idle_, the queue of connections nobody uses
    lease       \* lease[h]: the connection in PgConn h, NoConn when it has none

poolVars == <<idle, lease>>

Conns == 1 .. Size

NoConn == 0

TypeOK ==
    /\ idle \in Seq(Conns)
    /\ lease \in [Holders -> Conns \cup {NoConn}]

\* The constructor opens the connections one by one and queues them.
Init ==
    /\ idle = [i \in 1 .. Size |-> i]
    /\ lease = [h \in Holders |-> NoConn]

Acquire(h) ==
    /\ lease[h] = NoConn
    /\ idle # <<>>
    /\ lease' = [lease EXCEPT ![h] = Head(idle)]
    /\ idle' = Tail(idle)

Release(h) ==
    /\ lease[h] # NoConn
    /\ idle' = Append(idle, lease[h])
    /\ lease' = [lease EXCEPT ![h] = NoConn]

Next == \E h \in Holders : Acquire(h) \/ Release(h)

Spec == Init /\ [][Next]_poolVars

-----------------------------------------------------------------------------

\* No connection is in two hands: two PgConn objects never hold the same
\* connection, a held connection is not in idle_, and idle_ does not list a
\* connection twice.  A second owner would interleave the statements of two
\* RPCs on one libpq socket, inside each other's transaction.
ExclusiveLease ==
    /\ \A g, h \in Holders :
          lease[g] # NoConn /\ lease[g] = lease[h] => g = h
    /\ \A h \in Holders : \A i \in DOMAIN idle : idle[i] # lease[h]
    /\ \A i, j \in DOMAIN idle : idle[i] = idle[j] => i = j

\* No connection leaks: every connection opened by the constructor is idle or
\* in some PgConn, whatever was acquired, released and thrown since.
NoConnectionLost ==
    \A c \in Conns :
        \/ \E i \in DOMAIN idle : idle[i] = c
        \/ \E h \in Holders : lease[h] = c

=============================================================================
