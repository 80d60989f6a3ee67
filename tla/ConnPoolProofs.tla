--------------------------- MODULE ConnPoolProofs ---------------------------
(***************************************************************************)
(* Proofs about the promise of the connection pool (ConnPool): exclusive   *)
(* leases and no lost connection, for every pool size and every set of     *)
(* holders.                                                                *)
(***************************************************************************)
EXTENDS ConnPool, SequenceTheorems, TLAPS

\* The inductive invariant.  Exclusive leases alone are inductive with the
\* types; conservation is too, and is kept apart because its steps need a
\* witness for each connection.
IInv == TypeOK /\ ExclusiveLease

\* Taking the front of a non-empty queue of connections: what is left, place
\* by place.
LEMMA TailShifts ==
    ASSUME NEW q \in Seq(Conns), q # <<>>
    PROVE  /\ Head(q) \in Conns
           /\ Head(q) = q[1]
           /\ Len(q) \in Nat
           /\ Len(q) >= 1
           /\ Tail(q) \in Seq(Conns)
           /\ DOMAIN Tail(q) = 1 .. Len(q) - 1
           /\ DOMAIN q = 1 .. Len(q)
           /\ \A i \in 1 .. Len(q) - 1 : Tail(q)[i] = q[i + 1]
  BY EmptySeq, HeadTailProperties, LenProperties

\* Pushing a connection: the old places, and one more.
LEMMA AppendExtends ==
    ASSUME NEW q \in Seq(Conns), NEW c \in Conns
    PROVE  /\ Append(q, c) \in Seq(Conns)
           /\ Len(q) \in Nat
           /\ DOMAIN q = 1 .. Len(q)
           /\ DOMAIN Append(q, c) = 1 .. Len(q) + 1
           /\ \A i \in 1 .. Len(q) : Append(q, c)[i] = q[i]
           /\ Append(q, c)[Len(q) + 1] = c
  BY AppendProperties, LenProperties

\* A pool fresh from its constructor satisfies the invariant.
LEMMA InitIInv == SizeOK /\ Init => IInv
<1> SUFFICES ASSUME SizeOK, Init PROVE IInv
  OBVIOUS
<1>1. TypeOK
  BY DEF SizeOK, Init, TypeOK, Conns, NoConn
<1>2. ExclusiveLease
  BY DEF SizeOK, Init, ExclusiveLease, Conns, NoConn
<1>. QED  BY <1>1, <1>2 DEF IInv

\* A step of the pool preserves types and exclusive leases.
LEMMA NextIInv == SizeOK /\ IInv /\ [Next]_poolVars => IInv'
<1> SUFFICES ASSUME SizeOK, IInv, [Next]_poolVars PROVE IInv'
  OBVIOUS
<1> USE DEF IInv, TypeOK
<1>1. ASSUME NEW h \in Holders, Acquire(h) PROVE IInv'
  <2>1. TypeOK'
    BY <1>1, TailShifts DEF Acquire
  <2>2. /\ lease' = [lease EXCEPT ![h] = idle[1]]
        /\ DOMAIN idle' = 1 .. Len(idle) - 1
        /\ DOMAIN idle = 1 .. Len(idle)
        /\ Len(idle) \in Nat /\ Len(idle) >= 1
        /\ \A i \in 1 .. Len(idle) - 1 : idle'[i] = idle[i + 1]
    BY <1>1, TailShifts DEF Acquire
  <2>3. ASSUME NEW f \in Holders, NEW g \in Holders,
               lease'[f] # NoConn, lease'[f] = lease'[g]
        PROVE  f = g
    BY <2>2, <2>3 DEF ExclusiveLease
  <2>4. ASSUME NEW g \in Holders, NEW i \in DOMAIN idle'
        PROVE  idle'[i] # lease'[g]
    BY <2>2, <2>4 DEF ExclusiveLease
  <2>5. ASSUME NEW i \in DOMAIN idle', NEW j \in DOMAIN idle',
               idle'[i] = idle'[j]
        PROVE  i = j
    <3>1. /\ idle[i + 1] = idle[j + 1]
          /\ i + 1 \in DOMAIN idle
          /\ j + 1 \in DOMAIN idle
      BY <2>2, <2>5
    <3>2. i + 1 = j + 1
      BY <3>1 DEF ExclusiveLease
    <3>. QED  BY <2>2, <3>2
  <2>. QED  BY <2>1, <2>3, <2>4, <2>5 DEF ExclusiveLease
<1>2. ASSUME NEW h \in Holders, Release(h) PROVE IInv'
  <2>1. lease[h] \in Conns
    BY <1>2 DEF Release
  <2>2. TypeOK'
    BY <1>2, <2>1, AppendExtends DEF Release
  <2>3. /\ lease' = [lease EXCEPT ![h] = NoConn]
        /\ DOMAIN idle' = 1 .. Len(idle) + 1
        /\ DOMAIN idle = 1 .. Len(idle)
        /\ Len(idle) \in Nat
        /\ \A i \in 1 .. Len(idle) : idle'[i] = idle[i]
        /\ idle'[Len(idle) + 1] = lease[h]
    BY <1>2, <2>1, AppendExtends DEF Release
  <2>4. ASSUME NEW f \in Holders, NEW g \in Holders,
               lease'[f] # NoConn, lease'[f] = lease'[g]
        PROVE  f = g
    BY <2>3, <2>4 DEF ExclusiveLease
  <2>5. ASSUME NEW g \in Holders, NEW i \in DOMAIN idle'
        PROVE  idle'[i] # lease'[g]
    BY <2>1, <2>3, <2>5 DEF SizeOK, ExclusiveLease, Conns, NoConn
  <2>6. ASSUME NEW i \in DOMAIN idle', NEW j \in DOMAIN idle',
               idle'[i] = idle'[j]
        PROVE  i = j
    BY <2>3, <2>6 DEF ExclusiveLease
  <2>. QED  BY <2>2, <2>4, <2>5, <2>6 DEF ExclusiveLease
<1>3. CASE UNCHANGED poolVars
  BY <1>3 DEF poolVars, ExclusiveLease
<1>. QED  BY <1>1, <1>2, <1>3 DEF Next

\* For every pool size and every set of holders, no connection is ever in two
\* hands (two PgConn objects, or a PgConn and idle_).
THEOREM ExclusiveLeaseAlways ==
    ASSUME SizeOK
    PROVE  Spec => []ExclusiveLease
<1>1. Init => IInv
  BY InitIInv
<1>2. IInv /\ [Next]_poolVars => IInv'
  BY NextIInv
<1>3. IInv => ExclusiveLease
  BY DEF IInv
<1>. QED  BY <1>1, <1>2, <1>3, PTL DEF Spec

\* The constructor queues every connection.
LEMMA InitKeepsAll == SizeOK /\ Init => NoConnectionLost
  BY DEF SizeOK, Init, NoConnectionLost, Conns

\* A step moves one connection and loses none.
LEMMA NextKeepsAll ==
    SizeOK /\ IInv /\ NoConnectionLost /\ [Next]_poolVars
        => NoConnectionLost'
<1> SUFFICES ASSUME SizeOK, IInv, NoConnectionLost, [Next]_poolVars, NEW c \in Conns
             PROVE  \/ \E i \in DOMAIN idle' : idle'[i] = c
                    \/ \E h \in Holders : lease'[h] = c
  BY DEF NoConnectionLost
<1> USE DEF IInv, TypeOK
<1>1. ASSUME NEW h \in Holders, Acquire(h)
      PROVE  \/ \E i \in DOMAIN idle' : idle'[i] = c
             \/ \E g \in Holders : lease'[g] = c
  <2>1. /\ lease' = [lease EXCEPT ![h] = idle[1]]
        /\ DOMAIN idle' = 1 .. Len(idle) - 1
        /\ DOMAIN idle = 1 .. Len(idle)
        /\ Len(idle) \in Nat /\ Len(idle) >= 1
        /\ \A i \in 1 .. Len(idle) - 1 : idle'[i] = idle[i + 1]
    BY <1>1, TailShifts DEF Acquire
  <2>2. CASE \E i \in DOMAIN idle : idle[i] = c
    <3>1. PICK i \in 1 .. Len(idle) : idle[i] = c
      BY <2>1, <2>2
    <3>2. CASE i = 1
      BY <2>1, <3>1, <3>2
    <3>3. CASE i # 1
      <4>1. i - 1 \in 1 .. Len(idle) - 1 /\ (i - 1) + 1 = i
        BY <2>1, <3>1, <3>3
      <4>2. idle'[i - 1] = c
        BY <2>1, <3>1, <4>1
      <4>. QED  BY <2>1, <4>1, <4>2
    <3>. QED  BY <3>2, <3>3
  <2>3. CASE \E g \in Holders : lease[g] = c
    <3>1. PICK g \in Holders : lease[g] = c
      BY <2>3
    <3>2. g # h
      BY <1>1, <3>1 DEF SizeOK, Acquire, Conns, NoConn
    <3>. QED  BY <2>1, <3>1, <3>2
  <2>. QED  BY <2>2, <2>3 DEF NoConnectionLost
<1>2. ASSUME NEW h \in Holders, Release(h)
      PROVE  \/ \E i \in DOMAIN idle' : idle'[i] = c
             \/ \E g \in Holders : lease'[g] = c
  <2>1. lease[h] \in Conns
    BY <1>2 DEF Release
  <2>2. /\ lease' = [lease EXCEPT ![h] = NoConn]
        /\ DOMAIN idle' = 1 .. Len(idle) + 1
        /\ DOMAIN idle = 1 .. Len(idle)
        /\ Len(idle) \in Nat
        /\ \A i \in 1 .. Len(idle) : idle'[i] = idle[i]
        /\ idle'[Len(idle) + 1] = lease[h]
    BY <1>2, <2>1, AppendExtends DEF Release
  <2>3. CASE \E i \in DOMAIN idle : idle[i] = c
    BY <2>2, <2>3
  <2>4. CASE \E g \in Holders : lease[g] = c
    BY <2>2, <2>4
  <2>. QED  BY <2>3, <2>4 DEF NoConnectionLost
<1>3. CASE UNCHANGED poolVars
  BY <1>3 DEF poolVars, NoConnectionLost
<1>. QED  BY <1>1, <1>2, <1>3 DEF Next

\* For every pool size and every set of holders, every connection the
\* constructor opened stays in idle_ or in a PgConn.
THEOREM NoConnectionLostAlways ==
    ASSUME SizeOK
    PROVE  Spec => []NoConnectionLost
<1>1. Init => IInv /\ NoConnectionLost
  BY InitIInv, InitKeepsAll
<1>2. IInv /\ [Next]_poolVars => IInv'
  BY NextIInv
<1>3. IInv /\ NoConnectionLost /\ [Next]_poolVars => NoConnectionLost'
  BY NextKeepsAll
<1>. QED  BY <1>1, <1>2, <1>3, PTL DEF Spec

=============================================================================
