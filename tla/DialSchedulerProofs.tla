------------------------- MODULE DialSchedulerProofs -------------------------
(***************************************************************************)
(* Proofs about DialScheduler for every set of chains and peers, every cap *)
(* and every queue bound.  The inductive invariant says that the counters  *)
(* are exact and that the caps hold of the coroutines alive; neither is    *)
(* inductive without the other, because release() tests the counters and   *)
(* what it must bound is the number of coroutines.                         *)
(***************************************************************************)
EXTENDS DialScheduler, FiniteSetTheorems, FunctionTheorems, TLAPS

-----------------------------------------------------------------------------
(* Cardinality of images *)

\* An injective image of a finite set is finite and of the same size.
LEMMA ImageSize ==
    ASSUME NEW S, IsFiniteSet(S), NEW T, NEW f \in [S -> T],
           T = {f[x] : x \in S}, \A x, y \in S : f[x] = f[y] => x = y
    PROVE  IsFiniteSet(T) /\ Cardinality(T) = Cardinality(S)
<1>1. f \in Surjection(S, T)
  BY Fun_IsSurj
<1>2. f \in Injection(S, T)
  BY Fun_IsInj
<1> QED
  BY <1>1, <1>2, FS_Surjection

\* A finite set grows by at most one when one element is added.
LEMMA OneMore ==
    ASSUME NEW S, IsFiniteSet(S), NEW x, NEW T \in SUBSET (S \cup {x})
    PROVE  IsFiniteSet(T) /\ Cardinality(T) <= Cardinality(S) + 1
<1>1. IsFiniteSet(S \cup {x}) /\ Cardinality(S \cup {x}) <= Cardinality(S) + 1
  <2>1. Cardinality(S) \in Nat
    BY FS_CardinalityType
  <2>2. /\ IsFiniteSet(S \cup {x})
        /\ Cardinality(S \cup {x}) = IF x \in S THEN Cardinality(S) ELSE Cardinality(S) + 1
    BY FS_AddElement
  <2> QED
    BY <2>1, <2>2
<1>2. IsFiniteSet(T) /\ Cardinality(T) <= Cardinality(S \cup {x})
  BY <1>1, FS_Subset
<1>3. Cardinality(S) \in Nat /\ Cardinality(T) \in Nat /\ Cardinality(S \cup {x}) \in Nat
  BY <1>1, <1>2, FS_CardinalityType
<1> QED
  BY <1>1, <1>2, <1>3

\* Disjoint finite sets add up.
LEMMA DisjointUnion ==
    ASSUME NEW S, IsFiniteSet(S), NEW T, IsFiniteSet(T), S \cap T = {}
    PROVE  /\ IsFiniteSet(S \cup T)
           /\ Cardinality(S \cup T) = Cardinality(S) + Cardinality(T)
           /\ Cardinality(S) \in Nat /\ Cardinality(T) \in Nat
<1>1. /\ IsFiniteSet(S \cup T)
      /\ Cardinality(S \cup T) = Cardinality(S) + Cardinality(T) - Cardinality(S \cap T)
  BY FS_Union
<1>2. Cardinality(S \cap T) = 0
  BY FS_EmptySet
<1>3. Cardinality(S) \in Nat /\ Cardinality(T) \in Nat
  BY FS_CardinalityType
<1> QED
  BY <1>1, <1>2, <1>3

-----------------------------------------------------------------------------
(* Tags and launched dials *)

\* There is always a tag that no live dial of the peer uses: the code needs no
\* such tag, the model does to tell coroutines apart.
LEMMA FreshTagIsFresh ==
    ASSUME IsFiniteSet(dials), NEW c, NEW p
    PROVE  FreshTag(c, p) \in Nat /\ Dial(c, p, FreshTag(c, p)) \notin dials
<1> DEFINE N == Cardinality(dials)
<1> DEFINE I == 0 .. N
<1> DEFINE f == [t \in I |-> Dial(c, p, t)]
<1>1. N \in Nat /\ IsFiniteSet(I) /\ Cardinality(I) = N + 1
  BY FS_CardinalityType, FS_Interval
<1>2. \E t \in I : Dial(c, p, t) \notin dials
  <2> SUFFICES ASSUME \A t \in I : Dial(c, p, t) \in dials
               PROVE  FALSE
    OBVIOUS
  <2>1. f \in [I -> dials]
    OBVIOUS
  <2>2. \A x, y \in I : f[x] = f[y] => x = y
    BY DEF Dial
  <2>3. f \in Injection(I, dials)
    BY <2>1, <2>2, Fun_IsInj
  <2>4. Cardinality(I) <= N
    BY <2>3, FS_Injection
  <2> QED
    BY <1>1, <2>4
<1>3. FreshTag(c, p) \in I /\ Dial(c, p, FreshTag(c, p)) \notin dials
  BY <1>2 DEF FreshTag
<1> QED
  BY <1>1, <1>3

\* The dials a launch creates.
NewDials(c, ps) == {Dial(c, p, FreshTag(c, p)) : p \in ps}

\* A launch creates one coroutine per peer, all of them new and all on chain c.
LEMMA NewDialsSize ==
    ASSUME IsFiniteSet(dials), NEW c \in Chains, NEW ps \in SUBSET Peers, IsFiniteSet(ps)
    PROVE  /\ NewDials(c, ps) \subseteq Dials
           /\ NewDials(c, ps) \cap dials = {}
           /\ \A d \in NewDials(c, ps) : d.chain = c
           /\ IsFiniteSet(NewDials(c, ps))
           /\ Cardinality(NewDials(c, ps)) = Cardinality(ps)
<1> DEFINE f == [p \in ps |-> Dial(c, p, FreshTag(c, p))]
<1>1. \A p \in ps : FreshTag(c, p) \in Nat /\ Dial(c, p, FreshTag(c, p)) \notin dials
  BY FreshTagIsFresh
<1>2. \A x, y \in ps : f[x] = f[y] => x = y
  BY DEF Dial
<1>3. NewDials(c, ps) = {f[p] : p \in ps}
  BY DEF NewDials
<1>4. IsFiniteSet(NewDials(c, ps)) /\ Cardinality(NewDials(c, ps)) = Cardinality(ps)
  <2>1. f \in [ps -> NewDials(c, ps)]
    BY DEF NewDials
  <2> HIDE DEF f
  <2> QED
    BY <1>2, <1>3, <2>1, ImageSize
<1>5. NewDials(c, ps) \subseteq Dials /\ \A d \in NewDials(c, ps) : d.chain = c
  BY <1>1 DEF NewDials, Dials, Dial
<1>6. NewDials(c, ps) \cap dials = {}
  BY <1>1 DEF NewDials
<1> QED
  BY <1>4, <1>5, <1>6

-----------------------------------------------------------------------------
(* The drain loop of release() *)

\* The loop entered below both caps leaves with at most that many launches: it
\* had not ended one position earlier, and one position launches at most one.
LEMMA DrainRespectsCaps ==
    ASSUME NEW q \in Seq(Peers), NEW h, NEW a \in Int, NEW t \in Int,
           a < max_per_chain, t < max_total,
           NEW n \in 0 .. Len(q),
           \A m \in 0 .. n - 1 : ~LoopEnds(m, q, h, a, t)
    PROVE  /\ Launched(q, h, n) \in SUBSET Peers /\ IsFiniteSet(Launched(q, h, n))
           /\ a + Cardinality(Launched(q, h, n)) <= max_per_chain
           /\ t + Cardinality(Launched(q, h, n)) <= max_total
<1>1. \A m \in 0 .. Len(q) : Launched(q, h, m) \in SUBSET Peers
  BY DEF Launched, Launchable
<1>2. Launched(q, h, 0) = {}
  BY DEF Launched
<1>3. CASE n = 0
  <2>1. IsFiniteSet(Launched(q, h, n)) /\ Cardinality(Launched(q, h, n)) = 0
    BY <1>2, <1>3, FS_EmptySet
  <2> QED
    BY <1>1, <2>1, CapsAssumption
<1>4. CASE n # 0
  <2> DEFINE S == Launched(q, h, n - 1)
  <2>1. n - 1 \in 0 .. n - 1 /\ n - 1 \in 0 .. Len(q)
    BY <1>4
  <2>2. IsFiniteSet(S)
    <3>1. IsFiniteSet(1 .. n - 1)
      BY FS_Interval
    <3>2. IsFiniteSet(Launchable(q, h) \cap (1 .. n - 1))
      BY <3>1, FS_Subset
    <3> DEFINE D == Launchable(q, h) \cap (1 .. n - 1)
    <3> DEFINE f == [i \in D |-> q[i]]
    <3>3. f \in Surjection(D, S)
      BY Fun_IsSurj DEF Launched
    <3> HIDE DEF D, f, S
    <3> QED
      BY <3>2, <3>3, FS_Surjection DEF D
  <2>3. a + Cardinality(S) < max_per_chain /\ t + Cardinality(S) < max_total
    BY <2>1, <2>2, FS_CardinalityType, CapsAssumption DEF LoopEnds
  <2>4. Launched(q, h, n) \subseteq S \cup {q[n]}
    BY DEF Launched
  <2> HIDE DEF S
  <2>5. /\ IsFiniteSet(Launched(q, h, n))
        /\ Cardinality(Launched(q, h, n)) <= Cardinality(S) + 1
    BY <2>2, <2>4, OneMore
  <2>6. Cardinality(S) \in Nat /\ Cardinality(Launched(q, h, n)) \in Nat
    BY <2>2, <2>5, FS_CardinalityType
  <2> QED
    BY <1>1, <2>3, <2>5, <2>6, CapsAssumption
<1> QED
  BY <1>3, <1>4

-----------------------------------------------------------------------------
(* The inductive invariant *)

\* A stopping scheduler's queue is empty, and stays so.
StoppedQueueEmpty == \A c \in Chains : stopping[c] => queue[c] = <<>>

\* The history remembers exactly the dials whose cooldown is not over.
HistoryTracksDials ==
    \A c \in Chains, p \in Peers :
        since_dial[c][p] < Expiry => dial_history[c][p] = Expiry - since_dial[c][p]

\* A scheduler holds weak_ptrs to sessions of its own dials only.
SessionsOwned == \A c \in Chains : active_sessions[c] \subseteq DialsOf(c)

IInv ==
    /\ TypeOK
    /\ SessionsOwned
    /\ IsFiniteSet(dials)
    /\ CountersExact
    /\ CapsRespected
    /\ StoppedQueueEmpty
    /\ HistoryTracksDials

\* What holds of the coroutines alive after a launch, from the live ones before.
LEMMA LaunchCounts ==
    ASSUME IsFiniteSet(dials), dials \subseteq Dials, active \in [Chains -> Int],
           NEW c \in Chains, NEW ps \in SUBSET Peers, IsFiniteSet(ps),
           NEW live \in SUBSET dials, NEW a, NEW t, NEW h,
           a = Cardinality({d \in live : d.chain = c}), t = Cardinality(live),
           \A e \in Chains \ {c} :
              active[e] = Cardinality(DialsOf(e)) /\ {d \in live : d.chain = e} = DialsOf(e),
           Launch(c, ps, a, t, h, live)
    PROVE  /\ dials' \subseteq Dials /\ IsFiniteSet(dials') /\ live \subseteq dials'
           /\ dials' \cap dials = live
           /\ \A d \in dials' \ dials : d.chain = c /\ d.peer \in ps
           /\ active_total' = Cardinality(dials')
           /\ \A e \in Chains : active'[e] = Cardinality(DialsOf(e)')
           /\ active' \in [Chains -> Int] /\ active_total' \in Int
<1> DEFINE N == NewDials(c, ps)
<1> DEFINE M == {d \in live : d.chain = c}
<1>1. /\ N \subseteq Dials /\ N \cap dials = {} /\ \A d \in N : d.chain = c /\ d.peer \in ps
      /\ IsFiniteSet(N) /\ Cardinality(N) = Cardinality(ps)
  <2>1. \A d \in N : d.peer \in ps
    BY DEF NewDials, Dial
  <2> QED
    BY <2>1, NewDialsSize
<1>2. dials' = live \cup N
  BY DEF Launch, NewDials
<1>3. IsFiniteSet(live) /\ IsFiniteSet(M)
  <2>1. IsFiniteSet(live)
    BY FS_Subset
  <2>2. M \in SUBSET live
    OBVIOUS
  <2> QED
    BY <2>1, <2>2, FS_Subset
<1> HIDE DEF N
<1>4. /\ IsFiniteSet(live \cup N)
      /\ Cardinality(live \cup N) = Cardinality(live) + Cardinality(N)
      /\ Cardinality(live) \in Nat /\ Cardinality(N) \in Nat
  BY <1>1, <1>3, DisjointUnion
<1>5. Cardinality(M \cup N) = Cardinality(M) + Cardinality(N) /\ Cardinality(M) \in Nat
  <2>1. M \cap N = {}
    BY <1>1
  <2> HIDE DEF M
  <2> QED
    BY <1>1, <1>3, <2>1, DisjointUnion
<1>6. DialsOf(c)' = M \cup N
  BY <1>1, <1>2 DEF DialsOf
<1>7. \A e \in Chains \ {c} : DialsOf(e)' = DialsOf(e)
  <2> TAKE e \in Chains \ {c}
  <2>1. DialsOf(e)' = {d \in live : d.chain = e}
    BY <1>1, <1>2 DEF DialsOf
  <2> QED
    BY <2>1
<1>8. active_total' = Cardinality(dials') /\ active_total' \in Int
  <2>1. active_total' = t + Cardinality(ps)
    BY DEF Launch
  <2> QED
    BY <1>1, <1>2, <1>4, <2>1
<1>9. \A e \in Chains : active'[e] = Cardinality(DialsOf(e)')
  <2>1. active' = [active EXCEPT ![c] = a + Cardinality(ps)]
    BY DEF Launch
  <2>2. active'[c] = Cardinality(DialsOf(c)')
    BY <1>1, <1>5, <1>6, <2>1
  <2>3. \A e \in Chains \ {c} : active'[e] = active[e]
    BY <2>1
  <2> QED
    BY <1>7, <2>2, <2>3
<1>10. active' \in [Chains -> Int]
  <2>1. active' = [active EXCEPT ![c] = a + Cardinality(ps)]
    BY DEF Launch
  <2>2. a + Cardinality(ps) \in Int
    BY <1>1, <1>4, <1>5
  <2> QED
    BY <2>1, <2>2
<1> QED
  BY <1>1, <1>2, <1>4, <1>8, <1>9, <1>10

\* A launch keeps the history the exact record of the dials still cooling down.
LEMMA LaunchHistory ==
    ASSUME TypeOK, HistoryTracksDials,
           NEW c \in Chains, NEW ps \in SUBSET Peers, NEW live, NEW a, NEW t,
           Launch(c, ps, a, t, Expire(dial_history[c]), live)
    PROVE  /\ dial_history' \in [Chains -> Histories]
           /\ since_dial' \in [Chains -> [Peers -> 0 .. Expiry]]
           /\ HistoryTracksDials'
<1> DEFINE h == Expire(dial_history[c])
<1> DEFINE hh == [p \in Peers |-> IF p \in ps THEN Add(h, p)[p] ELSE h[p]]
<1> DEFINE ss == [p \in Peers |-> IF p \in ps THEN 0 ELSE since_dial[c][p]]
<1>1. dial_history' = [dial_history EXCEPT ![c] = hh] /\ since_dial' = [since_dial EXCEPT ![c] = ss]
  BY DEF Launch, TypeOK
<1>2. h \in Histories /\ \A p \in Peers : dial_history[c][p] > 0 => h[p] = dial_history[c][p]
  BY DEF TypeOK, Expire, Histories, Absent
<1>3. \A p \in ps : Add(h, p)[p] = Expiry
  BY <1>2 DEF Add, Histories
<1>4. hh \in Histories /\ ss \in [Peers -> 0 .. Expiry]
  <2>1. hh \in Histories
    BY <1>2, <1>3, ExpiryAssumption DEF Histories
  <2>2. ss \in [Peers -> 0 .. Expiry]
    BY ExpiryAssumption DEF TypeOK
  <2> QED
    BY <2>1, <2>2
<1>5. \A p \in Peers : ss[p] < Expiry => hh[p] = Expiry - ss[p]
  <2> SUFFICES ASSUME NEW p \in Peers, ss[p] < Expiry PROVE hh[p] = Expiry - ss[p]
    OBVIOUS
  <2>1. CASE p \in ps
    BY <1>3, <2>1, ExpiryAssumption
  <2>2. CASE p \notin ps
    <3>1. dial_history[c][p] = Expiry - since_dial[c][p] /\ since_dial[c][p] \in 0 .. Expiry
      BY <2>2 DEF HistoryTracksDials, TypeOK
    <3>2. h[p] = dial_history[c][p]
      BY <1>2, <2>2, <3>1, ExpiryAssumption
    <3> QED
      BY <2>2, <3>1, <3>2
  <2> QED
    BY <2>1, <2>2
<1> HIDE DEF hh, ss, h
<1> QED
  BY <1>1, <1>4, <1>5 DEF HistoryTracksDials, TypeOK

-----------------------------------------------------------------------------
(* Each action preserves the invariant *)

LEMMA InitIInv == Init => IInv
<1> SUFFICES ASSUME Init PROVE IInv
  OBVIOUS
<1>1. TypeOK
  BY ExpiryAssumption DEF Init, TypeOK, EmptyHistory, Histories, Absent
<1>2. IsFiniteSet(dials) /\ Cardinality(dials) = 0
  BY FS_EmptySet DEF Init
<1>3. \A c \in Chains : DialsOf(c) = {} /\ DialsOf(c) \cap was_validated = {}
  BY DEF Init, DialsOf
<1>4. CountersExact
  BY <1>2, <1>3, FS_EmptySet DEF Init, CountersExact
<1>5. CapsRespected
  BY <1>2, <1>3, FS_EmptySet, CapsAssumption DEF CapsRespected
<1>6. StoppedQueueEmpty /\ HistoryTracksDials /\ SessionsOwned
  BY ExpiryAssumption DEF Init, StoppedQueueEmpty, HistoryTracksDials, SessionsOwned
<1> QED
  BY <1>1, <1>2, <1>4, <1>5, <1>6 DEF IInv

\* Facts about the coroutines that several actions need.
LEMMA DialsOfFinite ==
    ASSUME IsFiniteSet(dials), NEW c
    PROVE  /\ IsFiniteSet(DialsOf(c)) /\ Cardinality(DialsOf(c)) \in Nat
           /\ IsFiniteSet(DialsOf(c) \cap was_validated)
           /\ Cardinality(DialsOf(c) \cap was_validated) \in Nat
           /\ Cardinality(dials) \in Nat
<1>1. DialsOf(c) \in SUBSET dials /\ DialsOf(c) \cap was_validated \in SUBSET dials
  BY DEF DialsOf
<1> QED
  BY <1>1, FS_Subset, FS_CardinalityType

LEMMA EnqueueIInv ==
    ASSUME IInv, NEW c \in Chains, NEW p \in Peers, Enqueue(c, p)
    PROVE  IInv'
<1> DEFINE h == Expire(dial_history[c])
<1>0. TypeOK /\ IsFiniteSet(dials) /\ CountersExact /\ CapsRespected
      /\ StoppedQueueEmpty /\ HistoryTracksDials /\ SessionsOwned
  BY DEF IInv
<1>a. UNCHANGED <<validated_count, total_validated, stopping, active_sessions, was_validated, disconnected>>
  BY DEF Enqueue, sessions
<1>h. ASSUME dial_history' = [dial_history EXCEPT ![c] = h], since_dial' = since_dial
      PROVE  dial_history' \in [Chains -> Histories] /\ HistoryTracksDials'
  <2>1. h \in Histories /\ \A x \in Peers : dial_history[c][x] > 0 => h[x] = dial_history[c][x]
    BY <1>0 DEF TypeOK, Expire, Histories, Absent
  <2>2. \A x \in Peers : since_dial[c][x] < Expiry => dial_history[c][x] > 0
    BY <1>0, ExpiryAssumption DEF HistoryTracksDials, TypeOK
  <2> HIDE DEF h
  <2> QED
    BY <1>0, <1>h, <2>1, <2>2 DEF HistoryTracksDials, TypeOK
<1>1. CASE /\ UNCHANGED <<active, active_total, dials, since_dial>>
           /\ dial_history' = [dial_history EXCEPT ![c] = h]
           /\ queue' = queue \/ (~stopping[c] /\ queue' = [queue EXCEPT ![c] = Append(@, p)])
  <2>1. dial_history' \in [Chains -> Histories] /\ HistoryTracksDials'
    BY <1>1, <1>h
  <2>2. queue' \in [Chains -> Seq(Peers)]
    <3>1. queue \in [Chains -> Seq(Peers)] /\ Append(queue[c], p) \in Seq(Peers)
      BY <1>0 DEF TypeOK
    <3> QED
      BY <1>1, <3>1
  <2>3. TypeOK'
    BY <1>0, <1>1, <1>a, <2>1, <2>2 DEF TypeOK
  <2>4. CountersExact' /\ CapsRespected' /\ IsFiniteSet(dials')
    BY <1>0, <1>1, <1>a DEF CountersExact, CapsRespected, DialsOf
  <2>5. StoppedQueueEmpty' /\ SessionsOwned'
    BY <1>0, <1>1, <1>a DEF StoppedQueueEmpty, TypeOK, SessionsOwned, DialsOf
  <2> QED
    BY <2>1, <2>3, <2>4, <2>5 DEF IInv
<1>2. CASE /\ active[c] < max_per_chain /\ active_total < max_total
           /\ Launch(c, {p}, active[c], active_total, h, dials)
           /\ UNCHANGED queue
  <2>1. IsFiniteSet({p}) /\ {p} \in SUBSET Peers /\ Cardinality({p}) = 1
    BY FS_Singleton
  <2>2. /\ active[c] = Cardinality({d \in dials : d.chain = c}) /\ active_total = Cardinality(dials)
        /\ \A e \in Chains \ {c} :
              active[e] = Cardinality(DialsOf(e)) /\ {d \in dials : d.chain = e} = DialsOf(e)
    BY <1>0 DEF CountersExact, DialsOf
  <2>3. /\ dials' \subseteq Dials /\ IsFiniteSet(dials') /\ dials \subseteq dials'
        /\ \A d \in dials' \ dials : d.chain = c
        /\ active_total' = Cardinality(dials')
        /\ \A e \in Chains : active'[e] = Cardinality(DialsOf(e)')
        /\ active' \in [Chains -> Int] /\ active_total' \in Int
    <3>1. dials \subseteq Dials /\ active \in [Chains -> Int] /\ dials \in SUBSET dials
      BY <1>0 DEF TypeOK
    <3> HIDE DEF h
    <3> QED
      BY <1>0, <1>2, <2>1, <2>2, <3>1, LaunchCounts
  <2>4. /\ dial_history' \in [Chains -> Histories]
        /\ since_dial' \in [Chains -> [Peers -> 0 .. Expiry]]
        /\ HistoryTracksDials'
    BY <1>0, <1>2, <2>1, LaunchHistory
  <2>5. TypeOK'
    BY <1>0, <1>2, <1>a, <2>3, <2>4 DEF TypeOK
  <2>6. CountersExact'
    <3>1. \A e \in Chains : DialsOf(e)' \cap was_validated' = DialsOf(e) \cap was_validated
      BY <1>0, <1>a, <2>3 DEF DialsOf, TypeOK
    <3> QED
      BY <1>0, <1>a, <2>3, <3>1 DEF CountersExact
  <2>7. CapsRespected'
    <3>1. active' = [active EXCEPT ![c] = active[c] + 1] /\ active_total' = active_total + 1
      BY <1>2, <2>1 DEF Launch
    <3>2. active_total' <= max_total
      BY <1>0, <1>2, <3>1, CapsAssumption DEF TypeOK
    <3>3. \A e \in Chains : active'[e] <= max_per_chain
      <4>1. active \in [Chains -> Int] /\ \A e \in Chains : active[e] <= max_per_chain
        BY <1>0 DEF TypeOK, CapsRespected, CountersExact
      <4> QED
        BY <1>2, <3>1, <4>1, CapsAssumption
    <3> QED
      BY <2>3, <3>2, <3>3 DEF CapsRespected
  <2>8. StoppedQueueEmpty' /\ SessionsOwned'
    BY <1>0, <1>2, <1>a, <2>3 DEF StoppedQueueEmpty, SessionsOwned, DialsOf
  <2> QED
    BY <2>3, <2>4, <2>5, <2>6, <2>7, <2>8 DEF IInv
<1> QED
  BY <1>1, <1>2 DEF Enqueue

\* The exit of a dial: release() recycles the slot and drains the queue.
LEMMA DoneIInv ==
    ASSUME IInv, NEW d \in dials, Done(d)
    PROVE  IInv'
<1> DEFINE c == d.chain
<1> DEFINE h == Expire(dial_history[c])
<1> DEFINE q == queue[c]
<1> DEFINE a == active[c] - 1
<1> DEFINE t == active_total - 1
<1> DEFINE live == dials \ {d}
<1>0. TypeOK /\ IsFiniteSet(dials) /\ CountersExact /\ CapsRespected
      /\ StoppedQueueEmpty /\ HistoryTracksDials /\ SessionsOwned
  BY DEF IInv
<1>1. c \in Chains /\ q \in Seq(Peers) /\ live \in SUBSET dials
  BY <1>0 DEF TypeOK, Dials
<1>2. /\ t = Cardinality(live) /\ IsFiniteSet(live)
      /\ a = Cardinality({x \in live : x.chain = c})
      /\ \A e \in Chains \ {c} :
            active[e] = Cardinality(DialsOf(e)) /\ {x \in live : x.chain = e} = DialsOf(e)
  <2>1. Cardinality(live) = Cardinality(dials) - 1 /\ IsFiniteSet(live)
    BY <1>0, FS_RemoveElement
  <2>2. {x \in live : x.chain = c} = DialsOf(c) \ {d} /\ d \in DialsOf(c)
    BY DEF DialsOf
  <2>3. Cardinality(DialsOf(c) \ {d}) = Cardinality(DialsOf(c)) - 1
    BY <1>0, <2>2, DialsOfFinite, FS_RemoveElement
  <2>4. \A e \in Chains \ {c} : {x \in live : x.chain = e} = DialsOf(e)
    BY DEF DialsOf
  <2> QED
    BY <1>0, <1>1, <2>1, <2>2, <2>3, <2>4 DEF CountersExact
<1>3. /\ a \in Int /\ t \in Int /\ a < max_per_chain /\ t < max_total
      /\ \A e \in Chains : active[e] <= max_per_chain
  <2>1. active_total \in Int /\ active[c] \in Int
    BY <1>0, <1>1 DEF TypeOK
  <2>2. active_total <= max_total /\ \A e \in Chains : active[e] <= max_per_chain
    BY <1>0 DEF CapsRespected, CountersExact
  <2> QED
    BY <1>1, <2>1, <2>2, CapsAssumption
<1>4. /\ validated_count' = [validated_count EXCEPT ![c] = IF d \in was_validated THEN @ - 1 ELSE @]
      /\ was_validated' = was_validated \ {d} /\ disconnected' = disconnected \ {d}
      /\ active_sessions' = [active_sessions EXCEPT ![c] = @ \ {d}]
      /\ UNCHANGED <<total_validated, stopping>>
  BY DEF Done
\* What remains to be shown of the shared part of the two cases.
<1>5. ASSUME /\ dials' \subseteq Dials /\ IsFiniteSet(dials') /\ live \subseteq dials'
             /\ dials' \cap dials = live
             /\ active_total' = Cardinality(dials')
             /\ \A e \in Chains : active'[e] = Cardinality(DialsOf(e)')
             /\ active' \in [Chains -> Int] /\ active_total' \in Int
             /\ active_total' <= max_total /\ \A e \in Chains : active'[e] <= max_per_chain
             /\ dial_history' \in [Chains -> Histories]
             /\ since_dial' \in [Chains -> [Peers -> 0 .. Expiry]]
             /\ HistoryTracksDials'
             /\ queue' \in [Chains -> Seq(Peers)]
             /\ StoppedQueueEmpty'
      PROVE  IInv'
  <2>1. validated_count' \in [Chains -> Int]
    BY <1>0, <1>1, <1>4 DEF TypeOK
  <2>2. was_validated' \subseteq dials' /\ disconnected' \subseteq dials'
    BY <1>0, <1>4, <1>5 DEF TypeOK
  <2>3. active_sessions' \in [Chains -> SUBSET dials'] /\ SessionsOwned'
    <3>1. \A e \in Chains : active_sessions[e] \subseteq {x \in dials : x.chain = e}
      BY <1>0 DEF SessionsOwned, DialsOf
    <3>2. \A e \in Chains : active_sessions'[e] \subseteq {x \in live : x.chain = e}
      BY <1>0, <1>4, <3>1 DEF TypeOK
    <3> QED
      BY <1>0, <1>4, <1>5, <3>2 DEF TypeOK, SessionsOwned, DialsOf
  <2>4. TypeOK'
    BY <1>0, <1>4, <1>5, <2>1, <2>2, <2>3 DEF TypeOK
  <2>5. CountersExact'
    <3>1. \A e \in Chains \ {c} :
             DialsOf(e)' \cap was_validated' = DialsOf(e) \cap was_validated
      BY <1>0, <1>4, <1>5 DEF DialsOf, TypeOK
    <3>2. DialsOf(c)' \cap was_validated' = (DialsOf(c) \cap was_validated) \ {d}
      BY <1>0, <1>4, <1>5 DEF DialsOf, TypeOK
    <3>3. d \in DialsOf(c) \cap was_validated <=> d \in was_validated
      BY DEF DialsOf
    <3>4. validated_count'[c] = Cardinality((DialsOf(c) \cap was_validated) \ {d})
      <4>1. /\ IsFiniteSet(DialsOf(c) \cap was_validated)
            /\ validated_count[c] = Cardinality(DialsOf(c) \cap was_validated)
        BY <1>0, <1>1, DialsOfFinite DEF CountersExact
      <4>2. Cardinality((DialsOf(c) \cap was_validated) \ {d})
               = IF d \in was_validated THEN validated_count[c] - 1 ELSE validated_count[c]
        BY <3>3, <4>1, FS_RemoveElement
      <4> QED
        BY <1>0, <1>1, <1>4, <4>2 DEF TypeOK
    <3>5. \A e \in Chains \ {c} : validated_count'[e] = Cardinality(DialsOf(e)' \cap was_validated')
      BY <1>0, <1>1, <1>4, <3>1 DEF CountersExact, TypeOK
    <3> QED
      BY <1>5, <3>2, <3>4, <3>5 DEF CountersExact
  <2>6. CapsRespected'
    BY <1>5 DEF CapsRespected
  <2> QED
    BY <1>5, <2>3, <2>4, <2>5, <2>6 DEF IInv
<1>6. CASE stopping[c] /\ active' = [active EXCEPT ![c] = a] /\ active_total' = t
           /\ dials' = live /\ UNCHANGED <<queue, dial_history, since_dial>>
  <2>1. \A e \in Chains : DialsOf(e)' = {x \in live : x.chain = e}
    BY <1>6 DEF DialsOf
  <2>2. \A e \in Chains : active'[e] = Cardinality(DialsOf(e)')
    <3>1. active'[c] = a /\ \A e \in Chains \ {c} : active'[e] = active[e]
      BY <1>0, <1>1, <1>6 DEF TypeOK
    <3> HIDE DEF c, a, live
    <3> QED
      BY <1>2, <2>1, <3>1
  <2>3. active' \in [Chains -> Int] /\ \A e \in Chains : active'[e] <= max_per_chain
    BY <1>0, <1>1, <1>3, <1>6, CapsAssumption DEF TypeOK
  <2>4. HistoryTracksDials' /\ StoppedQueueEmpty'
    BY <1>0, <1>4, <1>6 DEF HistoryTracksDials, StoppedQueueEmpty
  <2>5. /\ dials' \subseteq Dials /\ IsFiniteSet(dials') /\ dials' \cap dials = live
        /\ active_total' = Cardinality(dials') /\ active_total' \in Int /\ active_total' <= max_total
    BY <1>0, <1>2, <1>3, <1>6, CapsAssumption DEF TypeOK
  <2>6. /\ dial_history' \in [Chains -> Histories] /\ queue' \in [Chains -> Seq(Peers)]
        /\ since_dial' \in [Chains -> [Peers -> 0 .. Expiry]]
    BY <1>0, <1>6 DEF TypeOK
  <2> QED
    BY <1>5, <1>6, <2>2, <2>3, <2>4, <2>5, <2>6
<1>7. CASE ~stopping[c] /\ \E n \in 0 .. Len(q) :
              /\ LoopEnds(n, q, h, a, t)
              /\ \A m \in 0 .. n - 1 : ~LoopEnds(m, q, h, a, t)
              /\ Launch(c, Launched(q, h, n), a, t, h, live)
              /\ queue' = [queue EXCEPT ![c] = SubSeq(q, n + 1, Len(q))]
  <2>1. PICK n \in 0 .. Len(q) :
              /\ \A m \in 0 .. n - 1 : ~LoopEnds(m, q, h, a, t)
              /\ Launch(c, Launched(q, h, n), a, t, h, live)
              /\ queue' = [queue EXCEPT ![c] = SubSeq(q, n + 1, Len(q))]
    BY <1>7
  <2> DEFINE ps == Launched(q, h, n)
  <2>2. /\ ps \in SUBSET Peers /\ IsFiniteSet(ps)
        /\ a + Cardinality(ps) <= max_per_chain /\ t + Cardinality(ps) <= max_total
    <3> HIDE DEF q, h, a, t
    <3> QED
      BY <1>1, <1>3, <2>1, DrainRespectsCaps
  <2>3. Launch(c, ps, a, t, h, live)
    BY <2>1
  <2>4. /\ dials' \subseteq Dials /\ IsFiniteSet(dials') /\ live \subseteq dials'
        /\ dials' \cap dials = live
        /\ active_total' = Cardinality(dials')
        /\ \A e \in Chains : active'[e] = Cardinality(DialsOf(e)')
        /\ active' \in [Chains -> Int] /\ active_total' \in Int
    <3>1. dials \subseteq Dials /\ active \in [Chains -> Int]
      BY <1>0 DEF TypeOK
    <3> HIDE DEF q, h, a, t, live, ps, c
    <3> QED
      BY <1>0, <1>1, <1>2, <2>2, <2>3, <3>1, LaunchCounts
  <2>5. /\ dial_history' \in [Chains -> Histories]
        /\ since_dial' \in [Chains -> [Peers -> 0 .. Expiry]]
        /\ HistoryTracksDials'
    <3> HIDE DEF q, a, t, live, ps, c
    <3> QED
      BY <1>0, <1>1, <2>2, <2>3, LaunchHistory
  <2>6. active_total' <= max_total /\ \A e \in Chains : active'[e] <= max_per_chain
    <3>1. active' = [active EXCEPT ![c] = a + Cardinality(ps)] /\ active_total' = t + Cardinality(ps)
      BY <2>3 DEF Launch
    <3> HIDE DEF a, t, ps, c
    <3> QED
      BY <1>0, <1>1, <1>3, <2>2, <3>1 DEF TypeOK
  <2>7. queue' \in [Chains -> Seq(Peers)]
    <3>1. SubSeq(q, n + 1, Len(q)) \in Seq(Peers)
      BY <1>1, <2>1
    <3> QED
      BY <1>0, <1>1, <2>1, <3>1 DEF TypeOK
  <2>8. StoppedQueueEmpty'
    BY <1>0, <1>1, <1>4, <1>7, <2>1 DEF StoppedQueueEmpty, TypeOK
  <2> QED
    BY <1>5, <2>4, <2>5, <2>6, <2>7, <2>8
<1> QED
  BY <1>6, <1>7 DEF Done

LEMMA ConnectedIInv ==
    ASSUME IInv, NEW d \in dials, Connected(d)
    PROVE  IInv'
<1> DEFINE c == d.chain
<1>0. TypeOK /\ IsFiniteSet(dials) /\ CountersExact /\ CapsRespected
      /\ StoppedQueueEmpty /\ HistoryTracksDials /\ SessionsOwned
  BY DEF IInv
<1>1. /\ c \in Chains /\ d \notin was_validated
      /\ was_validated' = was_validated \cup {d}
      /\ validated_count' = [validated_count EXCEPT ![c] = @ + 1]
      /\ total_validated' = [total_validated EXCEPT ![c] = @ + 1]
      /\ active_sessions' = [active_sessions EXCEPT ![c] = @ \cup {d}]
      /\ UNCHANGED <<active, active_total, stopping, queue, dial_history, dials, disconnected, since_dial>>
  BY <1>0 DEF Connected, OnConnected, TypeOK, Dials
<1>2. TypeOK' /\ SessionsOwned'
  <2>1. \A e \in Chains : active_sessions'[e] \subseteq {x \in dials : x.chain = e}
    BY <1>0, <1>1 DEF TypeOK, SessionsOwned, DialsOf
  <2>2. active_sessions' \in [Chains -> SUBSET dials']
    BY <1>0, <1>1, <2>1 DEF TypeOK
  <2>3. validated_count' \in [Chains -> Int] /\ total_validated' \in [Chains -> Nat]
    BY <1>0, <1>1 DEF TypeOK
  <2> QED
    BY <1>0, <1>1, <2>1, <2>2, <2>3 DEF TypeOK, SessionsOwned, DialsOf
<1>3. CountersExact'
  <2>1. \A e \in Chains : DialsOf(e)' = DialsOf(e)
    BY <1>1 DEF DialsOf
  <2>2. \A e \in Chains \ {c} : DialsOf(e) \cap was_validated' = DialsOf(e) \cap was_validated
    BY <1>1 DEF DialsOf
  <2>3. /\ DialsOf(c) \cap was_validated' = (DialsOf(c) \cap was_validated) \cup {d}
        /\ d \notin DialsOf(c) \cap was_validated
    BY <1>1 DEF DialsOf
  <2>4. Cardinality((DialsOf(c) \cap was_validated) \cup {d})
           = Cardinality(DialsOf(c) \cap was_validated) + 1
    BY <1>0, <2>3, DialsOfFinite, FS_AddElement
  <2>5. validated_count'[c] = Cardinality(DialsOf(c)' \cap was_validated')
    BY <1>0, <1>1, <2>1, <2>3, <2>4 DEF CountersExact, TypeOK
  <2>6. \A e \in Chains \ {c} : validated_count'[e] = Cardinality(DialsOf(e)' \cap was_validated')
    BY <1>0, <1>1, <2>1, <2>2 DEF CountersExact, TypeOK
  <2> QED
    BY <1>0, <1>1, <2>1, <2>5, <2>6 DEF CountersExact
<1>4. CapsRespected' /\ StoppedQueueEmpty' /\ HistoryTracksDials' /\ IsFiniteSet(dials')
  BY <1>0, <1>1 DEF CapsRespected, DialsOf, StoppedQueueEmpty, HistoryTracksDials
<1> QED
  BY <1>2, <1>3, <1>4 DEF IInv

LEMMA StopIInv ==
    ASSUME IInv, NEW c \in Chains, Stop(c)
    PROVE  IInv'
<1>0. TypeOK /\ IsFiniteSet(dials) /\ CountersExact /\ CapsRespected
      /\ StoppedQueueEmpty /\ HistoryTracksDials /\ SessionsOwned
  BY DEF IInv
<1>1. /\ stopping' = [stopping EXCEPT ![c] = TRUE]
      /\ queue' = [queue EXCEPT ![c] = <<>>]
      /\ disconnected' = disconnected \cup active_sessions[c]
      /\ active_sessions' = [active_sessions EXCEPT ![c] = {}]
      /\ UNCHANGED <<active, active_total, validated_count, total_validated, dial_history,
                     dials, was_validated, since_dial>>
  BY DEF Stop, counters
<1>2. TypeOK'
  <2>1. <<>> \in Seq(Peers) /\ active_sessions[c] \subseteq dials
    BY <1>0 DEF TypeOK
  <2>2. queue' \in [Chains -> Seq(Peers)] /\ stopping' \in [Chains -> BOOLEAN]
    BY <1>0, <1>1, <2>1 DEF TypeOK
  <2>3. active_sessions' \in [Chains -> SUBSET dials'] /\ disconnected' \subseteq dials'
    BY <1>0, <1>1, <2>1 DEF TypeOK
  <2> QED
    BY <1>0, <1>1, <2>2, <2>3 DEF TypeOK
<1>3. CountersExact' /\ CapsRespected' /\ HistoryTracksDials' /\ IsFiniteSet(dials')
  BY <1>0, <1>1 DEF CountersExact, CapsRespected, DialsOf, HistoryTracksDials
<1>4. StoppedQueueEmpty' /\ SessionsOwned'
  BY <1>0, <1>1 DEF StoppedQueueEmpty, SessionsOwned, DialsOf, TypeOK
<1> QED
  BY <1>2, <1>3, <1>4 DEF IInv

LEMMA TickIInv ==
    ASSUME IInv, Tick
    PROVE  IInv'
<1>0. TypeOK /\ IsFiniteSet(dials) /\ CountersExact /\ CapsRespected
      /\ StoppedQueueEmpty /\ HistoryTracksDials /\ SessionsOwned
  BY DEF IInv
<1>1. UNCHANGED <<active, active_total, validated_count, total_validated, stopping, queue,
                  active_sessions, was_validated, disconnected, dials>>
  BY DEF Tick, counters, sessions
<1>2. \A c \in Chains : dial_history[c] \in Histories /\ since_dial[c] \in [Peers -> 0 .. Expiry]
  BY <1>0 DEF TypeOK
<1>3. \A c \in Chains : Elapse(dial_history[c]) \in Histories
  BY <1>2, ExpiryAssumption DEF Elapse, Histories, Absent
<1>4. /\ dial_history' \in [Chains -> Histories]
      /\ since_dial' \in [Chains -> [Peers -> 0 .. Expiry]]
  BY <1>2, <1>3, ExpiryAssumption DEF Tick
<1>5. HistoryTracksDials'
  <2> SUFFICES ASSUME NEW c \in Chains, NEW p \in Peers, since_dial'[c][p] < Expiry
               PROVE  dial_history'[c][p] = Expiry - since_dial'[c][p]
    BY DEF HistoryTracksDials
  <2>1. since_dial[c][p] \in 0 .. Expiry /\ dial_history[c][p] \in {Absent} \cup (0 .. Expiry)
    BY <1>2 DEF Histories
  <2>2. since_dial'[c][p] = IF since_dial[c][p] < Expiry THEN since_dial[c][p] + 1 ELSE Expiry
    BY DEF Tick
  <2>3. dial_history'[c][p] = IF dial_history[c][p] > 0 THEN dial_history[c][p] - 1 ELSE dial_history[c][p]
    BY DEF Tick, Elapse
  <2>4. since_dial[c][p] < Expiry => dial_history[c][p] = Expiry - since_dial[c][p]
    BY <1>0 DEF HistoryTracksDials
  <2> QED
    BY <2>1, <2>2, <2>3, <2>4, ExpiryAssumption DEF Absent
<1>6. TypeOK'
  BY <1>0, <1>1, <1>4 DEF TypeOK
<1>7. CountersExact' /\ CapsRespected' /\ IsFiniteSet(dials') /\ StoppedQueueEmpty' /\ SessionsOwned'
  BY <1>0, <1>1 DEF CountersExact, CapsRespected, DialsOf, StoppedQueueEmpty, SessionsOwned
<1> QED
  BY <1>5, <1>6, <1>7 DEF IInv

LEMMA NextIInv == IInv /\ [Next]_vars => IInv'
<1> SUFFICES ASSUME IInv, [Next]_vars PROVE IInv'
  OBVIOUS
<1>1. ASSUME NEW c \in Chains, NEW p \in Peers, Enqueue(c, p) PROVE IInv'
  BY <1>1, EnqueueIInv
<1>2. ASSUME NEW d \in dials, Done(d) PROVE IInv'
  BY <1>2, DoneIInv
<1>3. ASSUME NEW d \in dials, Connected(d) PROVE IInv'
  BY <1>3, ConnectedIInv
<1>4. ASSUME NEW c \in Chains, Stop(c) PROVE IInv'
  BY <1>4, StopIInv
<1>5. CASE Tick
  BY <1>5, TickIInv
<1>6. CASE UNCHANGED vars
  BY <1>6 DEF vars, counters, sessions, IInv, TypeOK, CountersExact, CapsRespected, DialsOf,
              StoppedQueueEmpty, HistoryTracksDials, SessionsOwned
<1> QED
  BY <1>1, <1>2, <1>3, <1>4, <1>5, <1>6 DEF Next

-----------------------------------------------------------------------------
(* Theorems *)

LEMMA IInvHolds == Spec => []IInv
  BY InitIInv, NextIInv, PTL DEF Spec

\* The scheduler's state keeps its declared shape.
THEOREM TypeCorrect == Spec => []TypeOK
<1>1. IInv => TypeOK
  BY DEF IInv
<1> QED
  BY <1>1, IInvHolds, PTL

\* active_total, active and validated_count are exact in every reachable state,
\* for any number of chains that share the pool.
THEOREM CountersAreExact == Spec => []CountersExact
<1>1. IInv => CountersExact
  BY DEF IInv
<1> QED
  BY <1>1, IInvHolds, PTL

\* Neither cap of the pool is ever exceeded, whatever the queues hold when
\* release() drains them.
THEOREM CapsAreRespected == Spec => []CapsRespected
<1>1. IInv => CapsRespected
  BY DEF IInv
<1> QED
  BY <1>1, IInvHolds, PTL

\* A launch touches no dial but its own.
LEMMA LaunchDials ==
    ASSUME NEW c, NEW ps, NEW a, NEW t, NEW h, NEW live \in SUBSET dials,
           Launch(c, ps, a, t, h, live)
    PROVE  \A d \in dials' \ dials : d.chain = c /\ d.peer \in ps
<1>1. dials' = live \cup {Dial(c, p, FreshTag(c, p)) : p \in ps}
  BY DEF Launch
<1> TAKE d \in dials' \ dials
<1>2. PICK p \in ps : d = Dial(c, p, FreshTag(c, p))
  BY <1>1
<1>3. Dial(c, p, FreshTag(c, p)).chain = c /\ Dial(c, p, FreshTag(c, p)).peer = p
  BY DEF Dial
<1> QED
  BY <1>2, <1>3

\* stop() is final on every chain: no exit of a dial still running, and no late
\* enqueue, makes a stopping scheduler queue or dial again.
THEOREM StopFinal == Spec => StopIsFinal
<1> DEFINE A == \A c \in Chains : stopping[c] =>
                    /\ stopping'[c] /\ queue'[c] = <<>>
                    /\ {d \in dials' : d.chain = c} \subseteq dials
<1>1. IInv /\ [Next]_vars => A
  <2> SUFFICES ASSUME IInv, [Next]_vars, NEW c \in Chains, stopping[c]
               PROVE  /\ stopping'[c] /\ queue'[c] = <<>>
                      /\ {d \in dials' : d.chain = c} \subseteq dials
    OBVIOUS
  <2>0. queue[c] = <<>> /\ TypeOK
    BY DEF IInv, StoppedQueueEmpty
  <2>1. ASSUME NEW e \in Chains, NEW p \in Peers, Enqueue(e, p)
        PROVE  stopping'[c] /\ queue'[c] = <<>> /\ {d \in dials' : d.chain = c} \subseteq dials
    <3>1. e # c /\ stopping' = stopping
      BY <2>1 DEF Enqueue
    <3>2. queue'[c] = queue[c]
      BY <2>0, <2>1, <3>1 DEF Enqueue, TypeOK
    <3>3. \A d \in dials' \ dials : d.chain = e
      BY <2>1, LaunchDials DEF Enqueue
    <3> QED
      BY <2>0, <3>1, <3>2, <3>3
  <2>2. ASSUME NEW x \in dials, Done(x)
        PROVE  stopping'[c] /\ queue'[c] = <<>> /\ {d \in dials' : d.chain = c} \subseteq dials
    <3>1. CASE x.chain = c
      <4>1. stopping' = stopping /\ dials' = dials \ {x} /\ queue' = queue
        BY <2>2, <3>1 DEF Done
      <4> QED
        BY <2>0, <4>1
    <3>2. CASE x.chain # c
      <4>1. stopping' = stopping /\ queue'[c] = queue[c]
        BY <2>0, <2>2, <3>2 DEF Done, TypeOK
      <4>2. \A d \in dials' \ dials : d.chain = x.chain
        <5>1. \/ dials' = dials \ {x}
              \/ \E ps : dials' = (dials \ {x}) \cup {Dial(x.chain, p, FreshTag(x.chain, p)) : p \in ps}
          BY <2>2 DEF Done, Launch
        <5> QED
          BY <5>1 DEF Dial
      <4> QED
        BY <2>0, <3>2, <4>1, <4>2
    <3> QED
      BY <3>1, <3>2
  <2>3. ASSUME NEW x \in dials, Connected(x)
        PROVE  stopping'[c] /\ queue'[c] = <<>> /\ {d \in dials' : d.chain = c} \subseteq dials
    BY <2>0, <2>3 DEF Connected, OnConnected
  <2>4. ASSUME NEW e \in Chains, Stop(e)
        PROVE  stopping'[c] /\ queue'[c] = <<>> /\ {d \in dials' : d.chain = c} \subseteq dials
    BY <2>0, <2>4 DEF Stop, TypeOK
  <2>5. CASE Tick \/ UNCHANGED vars
    BY <2>0, <2>5 DEF Tick, vars
  <2> QED
    BY <2>1, <2>2, <2>3, <2>4, <2>5 DEF Next
<1>2. IInv /\ [Next]_vars => [A]_vars
  BY <1>1
<1> QED
  BY <1>2, IInvHolds, PTL DEF Spec, StopIsFinal

\* The cooldown holds for every peer and every chain: both the check in enqueue
\* and the one in release are needed, and together they suffice.
THEOREM CooldownHolds == Spec => CooldownRespected
<1> DEFINE A == \A d \in dials' \ dials : since_dial[d.chain][d.peer] = Expiry
<1>0. ASSUME IInv, NEW c \in Chains, NEW p \in Peers, ~Contains(Expire(dial_history[c]), p)
      PROVE  since_dial[c][p] = Expiry
  <2>1. /\ since_dial[c][p] \in 0 .. Expiry
        /\ dial_history[c][p] \in {Absent} \cup (0 .. Expiry)
        /\ since_dial[c][p] < Expiry => dial_history[c][p] = Expiry - since_dial[c][p]
    BY <1>0 DEF IInv, TypeOK, Histories, HistoryTracksDials
  <2>2. ~(dial_history[c][p] > 0)
    BY <1>0, <2>1 DEF Contains, Expire
  <2> QED
    BY <2>1, <2>2, ExpiryAssumption
<1>1. IInv /\ [Next]_vars => A
  <2> SUFFICES ASSUME IInv, [Next]_vars, NEW d \in dials' \ dials
               PROVE  since_dial[d.chain][d.peer] = Expiry
    OBVIOUS
  <2>1. ASSUME NEW c \in Chains, NEW p \in Peers, Enqueue(c, p)
        PROVE  since_dial[d.chain][d.peer] = Expiry
    <3>1. ~Contains(Expire(dial_history[c]), p) /\ d.chain = c /\ d.peer \in {p}
      BY <2>1, LaunchDials DEF Enqueue
    <3> QED
      BY <1>0, <3>1
  <2>2. ASSUME NEW x \in dials, Done(x)
        PROVE  since_dial[d.chain][d.peer] = Expiry
    <3> DEFINE c == x.chain
    <3> DEFINE q == queue[c]
    <3> DEFINE h == Expire(dial_history[c])
    <3>1. c \in Chains /\ q \in Seq(Peers)
      BY DEF IInv, TypeOK, Dials
    <3>2. PICK n \in 0 .. Len(q) :
             Launch(c, Launched(q, h, n), active[c] - 1,
                    active_total - 1, h, dials \ {x})
      BY <2>2 DEF Done
    <3>3. d.chain = c /\ d.peer \in Launched(q, h, n)
      BY <3>2, LaunchDials
    <3>4. d.peer \in Peers /\ ~Contains(h, d.peer)
      BY <3>1, <3>3 DEF Launched, Launchable
    <3> QED
      BY <1>0, <3>1, <3>3, <3>4
  <2>3. CASE (\E x \in dials : Connected(x)) \/ (\E c \in Chains : Stop(c)) \/ Tick \/ UNCHANGED vars
    BY <2>3 DEF Connected, OnConnected, Stop, Tick, vars
  <2> QED
    BY <2>1, <2>2, <2>3 DEF Next
<1>2. IInv /\ [Next]_vars => [A]_vars
  BY <1>1
<1> QED
  BY <1>2, IInvHolds, PTL DEF Spec, CooldownRespected

\* release() leaves a peer in the queue only when one of the caps stopped its loop.
LEMMA DoneFills ==
    ASSUME IInv, NEW d \in dials, Done(d), queue'[d.chain] # <<>>
    PROVE  active'[d.chain] >= max_per_chain \/ active_total' >= max_total
<1> DEFINE e == d.chain
<1> DEFINE h == Expire(dial_history[e])
<1> DEFINE q == queue[e]
<1> DEFINE a == active[e] - 1
<1> DEFINE t == active_total - 1
<1>0. TypeOK /\ e \in Chains
  BY DEF IInv, TypeOK, Dials
<1>1. q \in Seq(Peers) /\ a \in Int /\ t \in Int
  BY <1>0 DEF TypeOK
<1>2. ~stopping[e]
  BY <1>0 DEF Done, IInv, StoppedQueueEmpty
<1>3. PICK n \in 0 .. Len(q) :
         /\ LoopEnds(n, q, h, a, t)
         /\ \A m \in 0 .. n - 1 : ~LoopEnds(m, q, h, a, t)
         /\ Launch(e, Launched(q, h, n), a, t, h, dials \ {d})
         /\ queue' = [queue EXCEPT ![e] = SubSeq(q, n + 1, Len(q))]
  BY <1>2 DEF Done
<1>4. n # Len(q)
  <2> SUFFICES ASSUME n = Len(q) PROVE FALSE
    OBVIOUS
  <2>1. SubSeq(q, n + 1, Len(q)) = <<>>
    BY <1>1
  <2> QED
    BY <1>0, <1>1, <1>3, <2>1 DEF TypeOK
<1> DEFINE ps == Launched(q, h, n)
<1>5. a + Cardinality(ps) >= max_per_chain \/ t + Cardinality(ps) >= max_total
  BY <1>3, <1>4 DEF LoopEnds
<1>6. active'[e] = a + Cardinality(ps) /\ active_total' = t + Cardinality(ps)
  BY <1>0, <1>1, <1>3 DEF Launch, TypeOK
<1> QED
  BY <1>5, <1>6

\* Whatever the other chains do with the pool, the exit of a dial leaves a peer of
\* its own chain waiting only while one of the caps is reached.
THEOREM ExitDrains == Spec => OwnExitDrains
<1> DEFINE Fills == \A d \in dials \ dials' :
                       queue'[d.chain] # <<>> =>
                           active'[d.chain] >= max_per_chain \/ active_total' >= max_total
<1>1. IInv /\ [Next]_vars => [Fills]_vars
  <2> SUFFICES ASSUME IInv, Next, NEW d \in dials \ dials', queue'[d.chain] # <<>>
               PROVE  active'[d.chain] >= max_per_chain \/ active_total' >= max_total
    OBVIOUS
  <2>1. ASSUME NEW c \in Chains, NEW p \in Peers, Enqueue(c, p) PROVE FALSE
    <3>1. dials \subseteq dials'
      BY <2>1 DEF Enqueue, Launch
    <3> QED
      BY <3>1
  <2>2. ASSUME NEW x \in dials, Done(x)
        PROVE  active'[d.chain] >= max_per_chain \/ active_total' >= max_total
    <3>1. dials \ {x} \subseteq dials'
      BY <2>2 DEF Done, Launch
    <3>2. d = x
      BY <3>1
    <3> QED
      BY <2>2, <3>2, DoneFills
  <2>3. ASSUME NEW x \in dials, Connected(x) PROVE FALSE
    BY <2>3 DEF Connected, OnConnected
  <2>4. ASSUME NEW c \in Chains, Stop(c) PROVE FALSE
    BY <2>4 DEF Stop
  <2>5. CASE Tick
    BY <2>5 DEF Tick
  <2> QED
    BY <2>1, <2>2, <2>3, <2>4, <2>5 DEF Next
<1> QED
  BY <1>1, IInvHolds, PTL DEF Spec, OwnExitDrains

\* With one scheduler on the pool a peer waits only while a cap is reached: every
\* slot that becomes free is that scheduler's to fill.  (With two schedulers the
\* slot a dial of one chain frees is not offered to the other chain's queue.)
THEOREM SingleChainQueue ==
    ASSUME NEW CONSTANT c, Chains = {c}
    PROVE  Spec => []QueuedOnlyWhenFull
<1> DEFINE Full == active[c] >= max_per_chain \/ active_total >= max_total
<1>0. QueuedOnlyWhenFull <=> (queue[c] # <<>> => Full)
  BY DEF QueuedOnlyWhenFull
<1>1. Init => QueuedOnlyWhenFull
  BY DEF Init, QueuedOnlyWhenFull
<1>2. IInv /\ QueuedOnlyWhenFull /\ [Next]_vars => QueuedOnlyWhenFull'
  <2> SUFFICES ASSUME IInv, queue[c] # <<>> => Full, [Next]_vars, queue'[c] # <<>>
               PROVE  Full'
    BY <1>0 DEF QueuedOnlyWhenFull
  <2>0. TypeOK /\ c \in Chains /\ active[c] \in Int /\ active_total \in Int
    BY DEF IInv, TypeOK
  <2>1. ASSUME NEW p \in Peers, Enqueue(c, p) PROVE Full'
    <3>1. CASE active[c] < max_per_chain /\ active_total < max_total /\ queue' = queue
      BY <2>0, <3>1, CapsAssumption
    <3>2. CASE UNCHANGED <<active, active_total, queue>>
      BY <3>2
    <3>3. CASE ~(active[c] < max_per_chain /\ active_total < max_total)
               /\ UNCHANGED <<active, active_total>>
      BY <2>0, <3>3, CapsAssumption
    <3> QED
      BY <2>1, <3>1, <3>2, <3>3 DEF Enqueue
  <2>2. ASSUME NEW d \in dials, Done(d) PROVE Full'
    <3>1. d.chain = c
      BY <2>0 DEF TypeOK, Dials
    <3> QED
      BY <2>2, <3>1, DoneFills
  <2>3. ASSUME NEW d \in dials, Connected(d) PROVE Full'
    BY <2>3 DEF Connected, OnConnected
  <2>4. ASSUME Stop(c) PROVE Full'
    BY <2>0, <2>4 DEF Stop, TypeOK
  <2>5. CASE Tick \/ UNCHANGED vars
    BY <2>5 DEF Tick, vars, counters
  <2> QED
    BY <2>1, <2>2, <2>3, <2>4, <2>5 DEF Next
<1> QED
  BY <1>1, <1>2, IInvHolds, PTL DEF Spec
=============================================================================
