-------------------------- MODULE ChainTrackerProofs --------------------------
(***************************************************************************)
(* ChainTracker implements SeenWindow for every window size: the ring and  *)
(* the set always hold the same hashes, and read from its head the ring is *)
(* the list of the last window_size_ distinct hashes, oldest first.        *)
(***************************************************************************)
EXTENDS ChainTracker, FiniteSetTheorems, SequenceTheorems, TLAPS

\* The remainder of a number below twice the divisor.
LEMMA ModOnce ==
    ASSUME NEW m \in Nat \ {0}, NEW x \in 0 .. 2 * m - 1
    PROVE  x % m = IF x < m THEN x ELSE x - m
  OBVIOUS

-----------------------------------------------------------------------------
(* The invariant of a tracker *)

\* The ring positions in use: a prefix of the ring until the window is full, then
\* all of it, wherever the head stands.
Slots(t) == 0 .. Cardinality(t.seen_set_) - 1

Sound(t) ==
    /\ t \in Trackers
    /\ IsFiniteSet(t.seen_set_)
    /\ Cardinality(t.seen_set_) <= window_size_
    /\ Cardinality(t.seen_set_) < window_size_ => t.eviction_head_ = 0
    /\ t.seen_set_ = {t.eviction_queue_[i] : i \in Slots(t)}
    /\ \A i, j \in Slots(t) : t.eviction_queue_[i] = t.eviction_queue_[j] => i = j

LEMMA NewTrackerSound == Sound(NewTracker) /\ Cardinality(NewTracker.seen_set_) = 0
<1>1. NewTracker.seen_set_ = {} /\ NewTracker.eviction_head_ = 0
  BY DEF NewTracker
<1>2. IsFiniteSet({}) /\ Cardinality({}) = 0
  BY FS_EmptySet
<1>3. NewTracker \in Trackers
  BY TrackerAssumption DEF NewTracker, Trackers
<1>4. Slots(NewTracker) = {}
  BY <1>1, <1>2 DEF Slots
<1> QED
  BY <1>1, <1>2, <1>3, <1>4, TrackerAssumption DEF Sound

\* A new hash enters a window that has room behind the last one.
LEMMA InsertWithRoom ==
    ASSUME NEW t, Sound(t), NEW h \in Hash256, h \notin t.seen_set_, NEW n \in Numbers,
           ~WindowFull(t)
    PROVE  /\ Sound(Insert(t, h, n))
           /\ Cardinality(Insert(t, h, n).seen_set_) = Cardinality(t.seen_set_) + 1
<1> DEFINE k == Cardinality(t.seen_set_)
<1> DEFINE u == Insert(t, h, n)
<1>1. k \in Nat /\ k < window_size_ /\ t.eviction_head_ = 0 /\ t \in Trackers
  BY FS_CardinalityType, TrackerAssumption DEF Sound, WindowFull
<1>2. /\ u.seen_set_ = t.seen_set_ \cup {h}
      /\ u.eviction_queue_ = [t.eviction_queue_ EXCEPT ![k] = h]
      /\ u.eviction_head_ = 0
      /\ u.tip_number_ = IF n > t.tip_number_ THEN n ELSE t.tip_number_
      /\ u.tip_hash_ = IF n > t.tip_number_ THEN h ELSE t.tip_hash_
  BY <1>1 DEF Insert, SeenAfter, InsertPos, HeadAfter
<1>3. IsFiniteSet(u.seen_set_) /\ Cardinality(u.seen_set_) = k + 1
  <2>1. IsFiniteSet(t.seen_set_)
    BY DEF Sound
  <2>2. /\ IsFiniteSet(t.seen_set_ \cup {h})
        /\ Cardinality(t.seen_set_ \cup {h}) = Cardinality(t.seen_set_) + 1
    BY <2>1, FS_AddElement
  <2>3. u.seen_set_ = t.seen_set_ \cup {h}
    BY <1>2
  <2> HIDE DEF u
  <2> QED
    BY <2>2, <2>3
<1>4. u \in Trackers
  <2>1. u.eviction_queue_ \in [0 .. window_size_ - 1 -> Hash256]
    BY <1>1, <1>2 DEF Trackers
  <2>2. u.tip_number_ \in Nat /\ u.tip_hash_ \in Hash256 \cup {NoHash}
    BY <1>1, <1>2, TrackerAssumption DEF Trackers
  <2>3. u.seen_set_ \in SUBSET Hash256 /\ u.eviction_head_ \in 0 .. window_size_ - 1
    BY <1>1, <1>2 DEF Trackers
  <2>4. u = [seen_set_ |-> u.seen_set_, eviction_queue_ |-> u.eviction_queue_,
             eviction_head_ |-> u.eviction_head_, tip_number_ |-> u.tip_number_,
             tip_hash_ |-> u.tip_hash_]
    BY DEF Insert
  <2> HIDE DEF u
  <2> QED
    BY <2>1, <2>2, <2>3, <2>4 DEF Trackers
<1>5. Slots(t) = 0 .. k - 1 /\ Slots(u) = 0 .. k
  BY <1>1, <1>3 DEF Slots
<1>6. /\ \A i \in 0 .. k - 1 : u.eviction_queue_[i] = t.eviction_queue_[i]
      /\ u.eviction_queue_[k] = h
  <2>1. t.eviction_queue_ \in [0 .. window_size_ - 1 -> Hash256]
    BY <1>1 DEF Trackers
  <2>2. k \in 0 .. window_size_ - 1 /\ \A i \in 0 .. k - 1 : i \in 0 .. window_size_ - 1 /\ i # k
    BY <1>1, TrackerAssumption
  <2> HIDE DEF u, k
  <2> QED
    BY <1>2, <2>1, <2>2
<1>8. \A i \in 0 .. k - 1 : t.eviction_queue_[i] \in t.seen_set_
  BY <1>5 DEF Sound
<1> HIDE DEF u
<1>9. u.seen_set_ = {u.eviction_queue_[i] : i \in Slots(u)}
  <2>1. t.seen_set_ = {t.eviction_queue_[i] : i \in 0 .. k - 1}
    BY <1>5 DEF Sound
  <2>2. 0 .. k = (0 .. k - 1) \cup {k}
    BY <1>1
  <2> QED
    BY <1>2, <1>5, <1>6, <2>1, <2>2
<1>10. \A i, j \in Slots(u) : u.eviction_queue_[i] = u.eviction_queue_[j] => i = j
  <2>1. \A i, j \in 0 .. k - 1 : t.eviction_queue_[i] = t.eviction_queue_[j] => i = j
    BY <1>5 DEF Sound
  <2>2. \A i \in 0 .. k : i # k => i \in 0 .. k - 1
    BY <1>1
  <2> QED
    BY <1>5, <1>6, <1>8, <2>1, <2>2
<1>11. Cardinality(u.seen_set_) <= window_size_
  BY <1>1, <1>3, TrackerAssumption
<1>12. Sound(u) /\ Cardinality(u.seen_set_) = k + 1
  BY <1>2, <1>3, <1>4, <1>9, <1>10, <1>11, Zenon DEF Sound
<1> QED
  BY <1>12 DEF u

\* A new hash enters a full window in the place of the oldest one.
LEMMA InsertWhenFull ==
    ASSUME NEW t, Sound(t), NEW h \in Hash256, h \notin t.seen_set_, NEW n \in Numbers,
           WindowFull(t)
    PROVE  /\ Sound(Insert(t, h, n))
           /\ Cardinality(t.seen_set_) = window_size_
           /\ Cardinality(Insert(t, h, n).seen_set_) = window_size_
<1> DEFINE N == window_size_
<1> DEFINE hd == t.eviction_head_
<1> DEFINE u == Insert(t, h, n)
<1>1. Cardinality(t.seen_set_) = N /\ N \in Nat \ {0} /\ hd \in 0 .. N - 1 /\ t \in Trackers
  <2>1. Cardinality(t.seen_set_) \in Nat
    BY FS_CardinalityType DEF Sound
  <2> QED
    BY <2>1, TrackerAssumption DEF Sound, WindowFull, Trackers
<1>2. /\ u.seen_set_ = (t.seen_set_ \ {t.eviction_queue_[hd]}) \cup {h}
      /\ u.eviction_queue_ = [t.eviction_queue_ EXCEPT ![hd] = h]
      /\ u.eviction_head_ = (hd + 1) % N
      /\ u.tip_number_ = IF n > t.tip_number_ THEN n ELSE t.tip_number_
      /\ u.tip_hash_ = IF n > t.tip_number_ THEN h ELSE t.tip_hash_
  BY DEF Insert, SeenAfter, InsertPos, HeadAfter
<1>3. Slots(t) = 0 .. N - 1
  BY <1>1 DEF Slots
<1>4. IsFiniteSet(u.seen_set_) /\ Cardinality(u.seen_set_) = N
  <2> DEFINE S == t.seen_set_
  <2> DEFINE x == t.eviction_queue_[hd]
  <2>1. IsFiniteSet(S) /\ x \in S /\ Cardinality(S) = N
    BY <1>1, <1>3 DEF Sound
  <2>2. IsFiniteSet(S \ {x}) /\ Cardinality(S \ {x}) = N - 1 /\ h \notin S \ {x}
    <3> HIDE DEF x
    <3> QED
      BY <2>1, FS_RemoveElement
  <2>3. IsFiniteSet((S \ {x}) \cup {h}) /\ Cardinality((S \ {x}) \cup {h}) = N - 1 + 1
    <3> HIDE DEF S, x
    <3> QED
      BY <2>2, FS_AddElement
  <2> HIDE DEF u
  <2> QED
    BY <1>1, <1>2, <2>3
<1>5. u \in Trackers
  <2>1. u.eviction_queue_ \in [0 .. N - 1 -> Hash256]
    BY <1>1, <1>2 DEF Trackers
  <2>2. u.tip_number_ \in Nat /\ u.tip_hash_ \in Hash256 \cup {NoHash}
    BY <1>1, <1>2, TrackerAssumption DEF Trackers
  <2>3. u.seen_set_ \in SUBSET Hash256
    BY <1>1, <1>2 DEF Trackers
  <2>4. u.eviction_head_ \in 0 .. N - 1
    <3>1. hd + 1 \in 0 .. 2 * N - 1
      BY <1>1
    <3>2. (hd + 1) % N = IF hd + 1 < N THEN hd + 1 ELSE hd + 1 - N
      BY <1>1, <3>1, ModOnce
    <3> QED
      BY <1>1, <1>2, <3>2
  <2>5. u = [seen_set_ |-> u.seen_set_, eviction_queue_ |-> u.eviction_queue_,
             eviction_head_ |-> u.eviction_head_, tip_number_ |-> u.tip_number_,
             tip_hash_ |-> u.tip_hash_]
    BY DEF Insert
  <2> HIDE DEF u
  <2> QED
    BY <2>1, <2>2, <2>3, <2>4, <2>5 DEF Trackers
<1>6. Slots(u) = 0 .. N - 1
  BY <1>1, <1>4 DEF Slots
<1> DEFINE Q == t.eviction_queue_
<1> DEFINE R == u.eviction_queue_
<1>7. R[hd] = h /\ \A i \in 0 .. N - 1 : i # hd => R[i] = Q[i]
  <2>1. Q \in [0 .. N - 1 -> Hash256]
    BY <1>1 DEF Trackers
  <2> HIDE DEF u, hd
  <2> QED
    BY <1>1, <1>2, <2>1
<1>8. /\ t.seen_set_ = {Q[i] : i \in 0 .. N - 1}
      /\ \A i, j \in 0 .. N - 1 : Q[i] = Q[j] => i = j
  BY <1>3 DEF Sound
<1> HIDE DEF u, Q, R, hd
<1>9. u.seen_set_ = {R[i] : i \in Slots(u)}
  <2>1. u.seen_set_ = (t.seen_set_ \ {Q[hd]}) \cup {h}
    BY <1>2 DEF Q
  <2> QED
    BY <1>1, <1>6, <1>7, <1>8, <2>1
<1>10. \A i, j \in Slots(u) : R[i] = R[j] => i = j
  <2>1. \A i \in 0 .. N - 1 : Q[i] # h
    BY <1>8
  <2> QED
    BY <1>1, <1>6, <1>7, <1>8, <2>1
<1>11. Cardinality(u.seen_set_) <= N /\ ~(Cardinality(u.seen_set_) < N)
  BY <1>1, <1>4
<1>12. Sound(u)
  BY <1>4, <1>5, <1>9, <1>10, <1>11, Zenon DEF Sound, R
<1> QED
  BY <1>1, <1>4, <1>12 DEF u

-----------------------------------------------------------------------------
(* The ring read from its head *)

\* Where the i-th oldest hash of a sound tracker stands.
SlotOf(t, i) ==
    IF t.eviction_head_ + i - 1 < window_size_
    THEN t.eviction_head_ + i - 1
    ELSE t.eviction_head_ + i - 1 - window_size_

LEMMA SoundNumbers ==
    ASSUME NEW t, Sound(t)
    PROVE  /\ Cardinality(t.seen_set_) \in Nat /\ Cardinality(t.seen_set_) <= window_size_
           /\ window_size_ \in Nat \ {0} /\ t.eviction_head_ \in 0 .. window_size_ - 1
           /\ Cardinality(t.seen_set_) < window_size_ => t.eviction_head_ = 0
           /\ t.eviction_queue_ \in [0 .. window_size_ - 1 -> Hash256]
<1>1. Cardinality(t.seen_set_) \in Nat
  BY FS_CardinalityType DEF Sound
<1> QED
  BY <1>1, TrackerAssumption DEF Sound, Trackers

LEMMA RingIndex ==
    ASSUME NEW t, Sound(t), NEW i \in 1 .. Cardinality(t.seen_set_)
    PROVE  /\ (t.eviction_head_ + i - 1) % window_size_ = SlotOf(t, i)
           /\ SlotOf(t, i) \in Slots(t)
<1> DEFINE N == window_size_
<1> DEFINE x == t.eviction_head_ + i - 1
<1>1. x \in 0 .. 2 * N - 1 /\ N \in Nat \ {0}
  BY SoundNumbers
<1>2. x % N = IF x < N THEN x ELSE x - N
  <2> HIDE DEF x
  <2> QED
    BY <1>1, ModOnce
<1>3. SlotOf(t, i) \in Slots(t)
  BY SoundNumbers DEF SlotOf, Slots
<1>4. SlotOf(t, i) = IF x < N THEN x ELSE x - N
  BY SoundNumbers DEF SlotOf
<1> HIDE DEF x
<1>5. x % N = SlotOf(t, i)
  BY <1>2, <1>4
<1> QED
  BY <1>3, <1>5 DEF x

LEMMA RingIsSeq ==
    ASSUME NEW t, Sound(t)
    PROVE  /\ Ring(t) \in Seq(Hash256)
           /\ Len(Ring(t)) = Cardinality(t.seen_set_)
           /\ Cardinality(t.seen_set_) \in Nat
           /\ \A i \in 1 .. Cardinality(t.seen_set_) : Ring(t)[i] = t.eviction_queue_[SlotOf(t, i)]
<1> DEFINE k == Cardinality(t.seen_set_)
<1>1. Ring(t) = [i \in 1 .. k |-> t.eviction_queue_[SlotOf(t, i)]]
  BY RingIndex DEF Ring
<1>2. \A i \in 1 .. k : t.eviction_queue_[SlotOf(t, i)] \in Hash256
  <2> TAKE i \in 1 .. k
  <2>1. SlotOf(t, i) \in 0 .. k - 1
    BY RingIndex DEF Slots
  <2> QED
    BY <2>1, SoundNumbers
<1> QED
  BY <1>1, <1>2, SoundNumbers

\* The ring from its head holds the set, each hash once.
LEMMA SoundMatches ==
    ASSUME NEW t, Sound(t)
    PROVE  /\ {Ring(t)[i] : i \in DOMAIN Ring(t)} = t.seen_set_
           /\ \A i, j \in DOMAIN Ring(t) : Ring(t)[i] = Ring(t)[j] => i = j
<1> DEFINE N == window_size_
<1> DEFINE k == Cardinality(t.seen_set_)
<1> DEFINE hd == t.eviction_head_
<1> DEFINE Q == t.eviction_queue_
<1>1. k \in Nat /\ k <= N /\ N \in Nat \ {0} /\ hd \in 0 .. N - 1 /\ (k < N => hd = 0)
  BY SoundNumbers
<1>2. DOMAIN Ring(t) = 1 .. k
  BY DEF Ring
<1>3. \A i \in 1 .. k : Ring(t)[i] = Q[SlotOf(t, i)] /\ SlotOf(t, i) \in 0 .. k - 1
  BY RingIsSeq, RingIndex DEF Slots
<1>4. \A i, j \in 1 .. k : SlotOf(t, i) = SlotOf(t, j) => i = j
  BY <1>1 DEF SlotOf
<1>5. \A p \in 0 .. k - 1 : \E i \in 1 .. k : SlotOf(t, i) = p
  <2> TAKE p \in 0 .. k - 1
  <2>1. CASE p >= hd
    <3>1. p - hd + 1 \in 1 .. k /\ SlotOf(t, p - hd + 1) = p
      BY <1>1, <2>1 DEF SlotOf
    <3> QED
      BY <3>1
  <2>2. CASE p < hd
    <3>1. p - hd + 1 + N \in 1 .. k /\ SlotOf(t, p - hd + 1 + N) = p
      BY <1>1, <2>2 DEF SlotOf
    <3> QED
      BY <3>1
  <2> QED
    BY <1>1, <2>1, <2>2
<1>6. /\ t.seen_set_ = {Q[i] : i \in 0 .. k - 1}
      /\ \A i, j \in 0 .. k - 1 : Q[i] = Q[j] => i = j
  BY DEF Sound, Slots
<1> HIDE DEF Q, k
<1> QED
  BY <1>2, <1>3, <1>4, <1>5, <1>6

\* A new hash is appended to the ring read from its head, and pushes out the
\* oldest one when the window is full.
LEMMA RingAfterInsert ==
    ASSUME NEW t, Sound(t), NEW h \in Hash256, h \notin t.seen_set_, NEW n \in Numbers
    PROVE  Ring(Insert(t, h, n))
              = Append(IF Len(Ring(t)) < window_size_ THEN Ring(t) ELSE Tail(Ring(t)), h)
<1> DEFINE N == window_size_
<1> DEFINE k == Cardinality(t.seen_set_)
<1> DEFINE hd == t.eviction_head_
<1> DEFINE u == Insert(t, h, n)
<1>0. /\ k \in Nat /\ k <= N /\ N \in Nat \ {0} /\ hd \in 0 .. N - 1 /\ (k < N => hd = 0)
      /\ t.eviction_queue_ \in [0 .. N - 1 -> Hash256]
  BY SoundNumbers
<1>1. Ring(t) \in Seq(Hash256) /\ Len(Ring(t)) = k
      /\ \A i \in 1 .. k : Ring(t)[i] = t.eviction_queue_[SlotOf(t, i)]
  BY RingIsSeq
<1>2. CASE ~WindowFull(t)
  <2>1. k < N /\ hd = 0
    BY <1>0, <1>2 DEF WindowFull
  <2>2. Sound(u) /\ Cardinality(u.seen_set_) = k + 1
    BY <1>2, InsertWithRoom
  <2>3. u.eviction_queue_ = [t.eviction_queue_ EXCEPT ![k] = h] /\ u.eviction_head_ = 0
    BY <1>2, <2>1 DEF Insert, InsertPos, HeadAfter
  <2> HIDE DEF u
  <2>4. Ring(u) \in Seq(Hash256) /\ Len(Ring(u)) = k + 1
        /\ \A i \in 1 .. k + 1 : Ring(u)[i] = u.eviction_queue_[SlotOf(u, i)]
    BY <2>2, RingIsSeq
  <2>5. \A i \in 1 .. k + 1 : SlotOf(u, i) = i - 1
    BY <1>0, <2>1, <2>3 DEF SlotOf
  <2>6. \A i \in 1 .. k : SlotOf(t, i) = i - 1
    BY <1>0, <2>1 DEF SlotOf
  <2>7. Ring(u)[k + 1] = h
    BY <1>0, <2>1, <2>3, <2>4, <2>5
  <2>8. \A i \in 1 .. k : Ring(u)[i] = Ring(t)[i]
    <3> TAKE i \in 1 .. k
    <3>1. Ring(u)[i] = u.eviction_queue_[i - 1]
      BY <1>0, <2>4, <2>5
    <3>2. i - 1 \in 0 .. N - 1 /\ i - 1 # k
      BY <1>0, <2>1
    <3>3. u.eviction_queue_[i - 1] = t.eviction_queue_[i - 1]
      BY <1>0, <2>3, <3>2
    <3> QED
      BY <1>1, <2>6, <3>1, <3>3
  <2> DEFINE r == Append(Ring(t), h)
  <2>9. r \in Seq(Hash256) /\ Len(r) = k + 1 /\ r[k + 1] = h /\ \A i \in 1 .. k : r[i] = Ring(t)[i]
    BY <1>0, <1>1
  <2>10. \A i \in 1 .. Len(Ring(u)) : Ring(u)[i] = r[i]
    BY <1>0, <2>4, <2>7, <2>8, <2>9
  <2>11. Ring(u) = r
    <3> HIDE DEF r
    <3> QED
      BY <2>4, <2>9, <2>10, SeqEqual
  <2> QED
    BY <1>1, <2>1, <2>11 DEF u
<1>3. CASE WindowFull(t)
  <2>1. Sound(u) /\ k = N /\ Cardinality(u.seen_set_) = N
    BY <1>3, InsertWhenFull
  <2>2. u.eviction_queue_ = [t.eviction_queue_ EXCEPT ![hd] = h] /\ u.eviction_head_ = (hd + 1) % N
    BY <1>3 DEF Insert, InsertPos, HeadAfter
  <2>3. (hd + 1) % N = IF hd + 1 < N THEN hd + 1 ELSE hd + 1 - N
    <3> DEFINE x == hd + 1
    <3>1. x \in 0 .. 2 * N - 1
      BY <1>0
    <3> HIDE DEF x
    <3>2. x % N = IF x < N THEN x ELSE x - N
      BY <1>0, <3>1, ModOnce
    <3> QED
      BY <1>0, <3>2 DEF x
  <2> HIDE DEF u
  <2>4. Ring(u) \in Seq(Hash256) /\ Len(Ring(u)) = N
        /\ \A i \in 1 .. N : Ring(u)[i] = u.eviction_queue_[SlotOf(u, i)]
    BY <2>1, RingIsSeq
  <2>5. \A i \in 1 .. N - 1 : SlotOf(u, i) = SlotOf(t, i + 1) /\ SlotOf(u, i) # hd
                              /\ SlotOf(u, i) \in 0 .. N - 1
    <3> TAKE i \in 1 .. N - 1
    <3> DEFINE g == u.eviction_head_
    <3>1. g = IF hd + 1 < N THEN hd + 1 ELSE 0
      BY <1>0, <2>2, <2>3
    <3>2. /\ SlotOf(u, i) = IF g + i - 1 < N THEN g + i - 1 ELSE g + i - 1 - N
          /\ SlotOf(t, i + 1) = IF hd + (i + 1) - 1 < N THEN hd + (i + 1) - 1 ELSE hd + (i + 1) - 1 - N
      BY DEF SlotOf
    <3> HIDE DEF g, hd, N
    <3> QED
      BY <1>0, <3>1, <3>2
  <2>6. SlotOf(u, N) = hd
    <3> DEFINE g == u.eviction_head_
    <3>1. g = IF hd + 1 < N THEN hd + 1 ELSE 0
      BY <1>0, <2>2, <2>3
    <3>2. SlotOf(u, N) = IF g + N - 1 < N THEN g + N - 1 ELSE g + N - 1 - N
      BY DEF SlotOf
    <3> HIDE DEF g, hd, N
    <3> QED
      BY <1>0, <3>1, <3>2
  <2>7. Ring(u)[N] = h
    BY <1>0, <2>2, <2>4, <2>6
  <2>8. \A i \in 1 .. N - 1 : Ring(u)[i] = Ring(t)[i + 1]
    <3> TAKE i \in 1 .. N - 1
    <3>1. Ring(u)[i] = u.eviction_queue_[SlotOf(u, i)]
      BY <1>0, <2>4
    <3>2. u.eviction_queue_[SlotOf(u, i)] = t.eviction_queue_[SlotOf(u, i)]
      BY <1>0, <2>2, <2>5
    <3>3. Ring(t)[i + 1] = t.eviction_queue_[SlotOf(t, i + 1)]
      BY <1>0, <1>1, <2>1
    <3> QED
      BY <2>5, <3>1, <3>2, <3>3
  <2> DEFINE r == Append(Tail(Ring(t)), h)
  <2>9. r \in Seq(Hash256) /\ Len(r) = N /\ r[N] = h /\ \A i \in 1 .. N - 1 : r[i] = Ring(t)[i + 1]
    <3>1. Ring(t) # <<>>
      BY <1>0, <1>1, <2>1
    <3>2. /\ Tail(Ring(t)) \in Seq(Hash256) /\ Len(Tail(Ring(t))) = N - 1
          /\ \A i \in 1 .. N - 1 : Tail(Ring(t))[i] = Ring(t)[i + 1]
      BY <1>1, <2>1, <3>1, HeadTailProperties
    <3> DEFINE tl == Tail(Ring(t))
    <3> HIDE DEF tl
    <3> QED
      BY <1>0, <3>2 DEF tl
  <2>10. \A i \in 1 .. Len(Ring(u)) : Ring(u)[i] = r[i]
    BY <1>0, <2>4, <2>7, <2>8, <2>9
  <2>11. Ring(u) = r
    <3> HIDE DEF r
    <3> QED
      BY <2>4, <2>9, <2>10, SeqEqual
  <2> QED
    BY <1>0, <1>1, <2>1, <2>11 DEF u
<1> QED
  BY <1>2, <1>3

-----------------------------------------------------------------------------
(* The theorems *)

LEMMA SoundAlways == TrackerSpec => []Sound(tracker)
<1>1. TrackerInit => Sound(tracker)
  BY NewTrackerSound DEF TrackerInit
<1>2. Sound(tracker) /\ [TrackerNext]_tracker => Sound(tracker)'
  <2> SUFFICES ASSUME Sound(tracker), TrackerNext
               PROVE  Sound(tracker')
    OBVIOUS
  <2>1. ASSUME NEW h \in Hash256, NEW n \in Numbers, tracker' = MarkSeen(tracker, h, n)
        PROVE  Sound(tracker')
    <3>1. CASE IsSeen(tracker, h)
      BY <2>1, <3>1 DEF MarkSeen
    <3>2. CASE ~IsSeen(tracker, h)
      <4>1. tracker' = Insert(tracker, h, n) /\ h \notin tracker.seen_set_
        BY <2>1, <3>2 DEF MarkSeen, IsSeen
      <4>2. CASE WindowFull(tracker)
        BY <4>1, <4>2, InsertWhenFull
      <4>3. CASE ~WindowFull(tracker)
        BY <4>1, <4>3, InsertWithRoom
      <4> QED
        BY <4>2, <4>3
    <3> QED
      BY <3>1, <3>2
  <2>2. CASE tracker' = NewTracker
    BY <2>2, NewTrackerSound
  <2> QED
    BY <2>1, <2>2 DEF TrackerNext
<1> QED
  BY <1>1, <1>2, PTL DEF TrackerSpec

\* Every member keeps its type: the ring index never leaves the ring.
THEOREM TrackerTypes == TrackerSpec => []TrackerTypeOK
<1>1. Sound(tracker) => TrackerTypeOK
  BY DEF Sound, TrackerTypeOK
<1> QED
  BY <1>1, SoundAlways, PTL

\* For every window size and any sequence of blocks and resets, the set and the
\* ring hold the same hashes, each once.
THEOREM RingAgreesWithSet == TrackerSpec => []RingMatchesSet
<1>1. Sound(tracker) => RingMatchesSet
  BY SoundMatches DEF RingMatchesSet
<1> QED
  BY <1>1, SoundAlways, PTL

\* mark_seen and reset implement the first-in first-out window: for every window
\* size, what the ring and the set remember is the last window_size_ new hashes.
THEOREM TrackerImplementsWindow == TrackerSpec => ImplementsWindow
<1>1. TrackerInit => Window!Init
  <2> SUFFICES ASSUME TrackerInit PROVE Window!Init
    OBVIOUS
  <2>1. tracker = NewTracker /\ Sound(tracker)
    BY NewTrackerSound DEF TrackerInit
  <2>2. Cardinality(tracker.seen_set_) = 0 /\ tracker.tip_number_ = 0
    BY <2>1, FS_EmptySet DEF NewTracker
  <2>3. Ring(tracker) \in Seq(Hash256) /\ Len(Ring(tracker)) = 0
    BY <2>1, <2>2, RingIsSeq
  <2>4. Ring(tracker) = <<>>
    BY <2>3
  <2> QED
    BY <2>2, <2>4 DEF Window!Init
<1>2. /\ Sound(tracker) /\ [TrackerNext]_tracker
      => [Window!Next]_<<Ring(tracker), tracker.tip_number_>>
  <2> SUFFICES ASSUME Sound(tracker), [TrackerNext]_tracker,
                      ~(Ring(tracker)' = Ring(tracker)
                        /\ tracker'.tip_number_ = tracker.tip_number_)
               PROVE  Window!Next
    BY Zenon
  <2>0. tracker' # tracker
    BY Zenon DEF Ring
  <2>1. TrackerNext
    BY <2>0
  <2>2. ASSUME NEW h \in Hash256, NEW n \in Numbers, tracker' = MarkSeen(tracker, h, n)
        PROVE  Window!Accept(h, n)
    <3>1. tracker' = Insert(tracker, h, n) /\ h \notin tracker.seen_set_
      BY <2>0, <2>2 DEF MarkSeen, IsSeen
    <3>2. Ring(tracker') = Append(IF Len(Ring(tracker)) < window_size_
                                  THEN Ring(tracker) ELSE Tail(Ring(tracker)), h)
      BY <3>1, RingAfterInsert
    <3>3. tracker'.tip_number_ = IF n > tracker.tip_number_ THEN n ELSE tracker.tip_number_
      BY <3>1 DEF Insert
    <3>4. {Ring(tracker)[i] : i \in 1 .. Len(Ring(tracker))} = tracker.seen_set_
      <4>1. DOMAIN Ring(tracker) = 1 .. Len(Ring(tracker))
        BY RingIsSeq
      <4> QED
        BY <4>1, SoundMatches
    <3>5. h \notin Window!Remembered
      BY <3>1, <3>4 DEF Window!Remembered
    <3>6. Ring(tracker)' = Ring(tracker')
      BY Zenon DEF Ring
    <3> QED
      BY <3>2, <3>3, <3>5, <3>6 DEF Window!Accept
  <2>3. ASSUME tracker' = NewTracker PROVE Window!Clear
    <3>1. Sound(tracker') /\ Cardinality(tracker'.seen_set_) = 0 /\ tracker'.tip_number_ = 0
      BY <2>3, NewTrackerSound, FS_EmptySet DEF NewTracker
    <3>2. Ring(tracker') \in Seq(Hash256) /\ Len(Ring(tracker')) = 0
      BY <3>1, RingIsSeq
    <3>3. Ring(tracker') = <<>>
      BY <3>2
    <3>4. Ring(tracker)' = Ring(tracker')
      BY Zenon DEF Ring
    <3> QED
      BY <3>1, <3>3, <3>4 DEF Window!Clear
  <2> QED
    BY <2>1, <2>2, <2>3 DEF TrackerNext, Window!Next
<1> QED
  BY <1>1, <1>2, SoundAlways, PTL DEF TrackerSpec, ImplementsWindow, Window!Spec
=============================================================================
