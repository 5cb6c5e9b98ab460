---------------------------- MODULE AccessProofs ----------------------------
(***************************************************************************)
(* Who is let in, and whom a tab takes its visitor for.                    *)
(*                                                                         *)
(* RateLimiter, for any keys, limits, windows and callers: the table keeps *)
(* its type, the overshoot of register and login is bounded by the callers *)
(* in flight, a stretch of one window lets in at most twice the limit, and *)
(* a caller that was refused is told a wait that, with one second more, is *)
(* long enough.                                                            *)
(*                                                                         *)
(* Session, for any people, sessions and calls: tab, cookie and backend    *)
(* agree between calls that come one at a time, and the panel confirms an  *)
(* address only on sight of a visitor whose address is verified.           *)
(***************************************************************************)
EXTENDS RateLimiter, Session, FiniteSetTheorems, TLAPS

(* The limiter's table and the history beside it keep their type.          *)
THEOREM LimiterTyped == LimiterSpec => []LimiterTypeOK
<1>1. LimiterInit => LimiterTypeOK
  BY LimitsAssumption, FS_EmptySet
     DEF LimiterInit, LimiterTypeOK, Bucket, NoBucket, NoPromise
<1>2. LimiterTypeOK /\ [LimiterNext]_limiter => LimiterTypeOK'
  <2> SUFFICES ASSUME LimiterTypeOK, [LimiterNext]_limiter
               PROVE  LimiterTypeOK'
    OBVIOUS
  <2> USE LimitsAssumption DEF LimiterTypeOK
  <2>1. ASSUME NEW k \in Key
        PROVE  AfterHit(k) \in Bucket /\ AfterCheck(k) \in Bucket
    BY DEF AfterHit, AfterCheck, Bucket, NoBucket
  <2>2. ASSUME NEW k \in Key, CheckAndHit(k)
        PROVE  LimiterTypeOK'
    <3>1. Cardinality(admitted[k]) \in Nat
      BY FS_CardinalityType
    <3>2. Admission(k) \in [at : 0..Horizon, window : 0..Horizon, nth : Nat]
      BY <2>1, <3>1 DEF Admission, Bucket
    <3>3. /\ admitted' \in [Key -> SUBSET [at : 0..Horizon, window : 0..Horizon, nth : Nat]]
          /\ admitted'[k] = admitted[k] \cup {Admission(k)}
          /\ \A q \in Key \ {k} : admitted'[q] = admitted[q]
      BY <2>2, <3>2, Zenon DEF CheckAndHit, NoteAdmitted
    <3>4. promised' \in [Key -> Int]
      BY <2>2 DEF CheckAndHit, NoteAdmitted, NoPromise
    <3>5. \A q \in Key : IsFiniteSet(admitted'[q])
      <4>1. IsFiniteSet(admitted[k] \cup {Admission(k)})
        BY FS_AddElement
      <4>2. QED
        BY <3>3, <4>1
    <3>6. QED
      BY <2>1, <2>2, <3>3, <3>4, <3>5 DEF CheckAndHit
  <2>3. ASSUME NEW k \in Key, TellWait(k)
        PROVE  LimiterTypeOK'
    <3>1. Refused(k) /\ RetryAfter(k) \in Int
      BY <2>3 DEF TellWait, RetryAfter, Bucket
    <3>2. QED
      BY <2>3, <3>1 DEF TellWait
  <2>4. ASSUME NEW k \in Key, HitUnchecked(k)
        PROVE  LimiterTypeOK'
    BY <2>1, <2>4 DEF HitUnchecked
  <2>5. ASSUME NEW r \in Caller, NEW k \in Key, CheckAttempt(r, k)
        PROVE  LimiterTypeOK'
    BY <2>1, <2>5 DEF CheckAttempt
  <2>6. ASSUME NEW r \in Caller, HitAttempt(r)
        PROVE  LimiterTypeOK'
    <3>1. letIn[r] \in Key
      BY <2>6 DEF HitAttempt, Key
    <3>2. QED
      BY <2>1, <2>6, <3>1 DEF HitAttempt
  <2>7. ASSUME NEW r \in Caller, ClearAttempt(r)
        PROVE  LimiterTypeOK'
    <3>1. letIn[r] \in Key /\ NoBucket \in Bucket
      BY <2>7 DEF ClearAttempt, Key, NoBucket, Bucket
    <3>2. QED
      BY <2>7, <3>1 DEF ClearAttempt
  <2>8. ASSUME NEW r \in Caller, DropAttempt(r)
        PROVE  LimiterTypeOK'
    BY <2>8 DEF DropAttempt
  <2>9. CASE Tick
    BY <2>9 DEF Tick
  <2>10. CASE Restart
    BY <2>10, FS_EmptySet DEF Restart, NoBucket, Bucket, NoPromise
  <2>11. CASE UNCHANGED limiter
    BY <2>11 DEF limiter
  <2>12. QED
    BY <2>2, <2>3, <2>4, <2>5, <2>6, <2>7, <2>8, <2>9, <2>10, <2>11 DEF LimiterNext
<1>3. QED
  BY <1>1, <1>2, PTL DEF LimiterSpec

(* The requests in flight on a key are finitely many, at most all of them. *)
LEMMA InFlightFinite ==
  ASSUME NEW k
  PROVE  /\ IsFiniteSet(InFlight(k))
         /\ Cardinality(InFlight(k)) \in Nat
         /\ Cardinality(InFlight(k)) <= Cardinality(Caller)
         /\ Cardinality(Caller) \in Nat
BY LimitsAssumption, FS_Subset, FS_CardinalityType DEF InFlight

(* A request that leaves the gap between its check and its hit is one less *)
(* in flight on its key, and changes no other key.                         *)
LEMMA OneLessInFlight ==
  ASSUME LimiterTypeOK, NEW r \in Caller, letIn[r] # NoKey,
         letIn' = [letIn EXCEPT ![r] = NoKey], NEW k \in Key
  PROVE  Cardinality(InFlight(k))' =
           IF k = letIn[r] THEN Cardinality(InFlight(k)) - 1
                           ELSE Cardinality(InFlight(k))
<1>1. InFlight(k)' = InFlight(k) \ {r}
  BY KeysAssumption DEF InFlight, LimiterTypeOK
<1>2. CASE k = letIn[r]
  <2>1. IsFiniteSet(InFlight(k)) /\ r \in InFlight(k)
    BY <1>2, InFlightFinite DEF InFlight
  <2>2. Cardinality(InFlight(k) \ {r}) = Cardinality(InFlight(k)) - 1
    BY <2>1, FS_RemoveElement
  <2>3. QED
    BY <1>1, <1>2, <2>2
<1>3. CASE k # letIn[r]
  <2>1. InFlight(k)' = InFlight(k)
    BY <1>1, <1>3 DEF InFlight
  <2>2. QED
    BY <1>3, <2>1
<1>4. QED
  BY <1>2, <1>3

(* One more request enters the gap.                                        *)
LEMMA OneMoreInFlight ==
  ASSUME LimiterTypeOK, NEW r \in Caller, letIn[r] = NoKey,
         NEW key \in Key, letIn' = [letIn EXCEPT ![r] = key], NEW k \in Key
  PROVE  Cardinality(InFlight(k))' =
           IF k = key THEN Cardinality(InFlight(k)) + 1
                      ELSE Cardinality(InFlight(k))
<1>1. InFlight(k)' = IF k = key THEN InFlight(k) \cup {r} ELSE InFlight(k)
  BY KeysAssumption DEF InFlight, LimiterTypeOK
<1>2. r \notin InFlight(k)
  BY KeysAssumption DEF InFlight
<1>3. QED
  BY <1>1, <1>2, InFlightFinite, FS_AddElement

(* The count of a register or login key exceeds its limit by no more than  *)
(* the requests that can be between their check and their hit, less one.   *)
THEOREM OvershootBounded == LimiterSpec => []AttemptOvershoot
<1>1. LimiterInit => AttemptOvershoot
  <2> SUFFICES ASSUME LimiterInit, NEW k \in AttemptKeys
               PROVE  buckets[k].count + Cardinality(InFlight(k))
                        <= MaxAttempts[k] - 1 + Cardinality(Caller)
    BY DEF AttemptOvershoot
  <2>1. buckets[k].count = 0 /\ MaxAttempts[k] \in Nat \ {0}
    BY LimitsAssumption DEF LimiterInit, NoBucket, Key
  <2>2. QED
    BY <2>1, InFlightFinite
<1>2. LimiterTypeOK /\ AttemptOvershoot /\ [LimiterNext]_limiter => AttemptOvershoot'
  <2> SUFFICES ASSUME LimiterTypeOK, AttemptOvershoot, [LimiterNext]_limiter,
                      NEW k \in AttemptKeys
               PROVE  (buckets[k].count + Cardinality(InFlight(k))
                         <= MaxAttempts[k] - 1 + Cardinality(Caller))'
    BY DEF AttemptOvershoot
  <2> DEFINE n == Cardinality(InFlight(k))
             N == Cardinality(Caller)
  <2>1. /\ k \in Key
        /\ MaxAttempts[k] \in Nat \ {0}
        /\ n \in Nat /\ N \in Nat /\ n <= N
        /\ buckets[k] \in Bucket
        /\ buckets[k].count + n <= MaxAttempts[k] - 1 + N
    BY LimitsAssumption, InFlightFinite DEF Key, LimiterTypeOK, AttemptOvershoot
  <2>2. n' \in Nat /\ n' <= N
    <3>1. InFlight(k)' \subseteq Caller
      BY DEF InFlight
    <3>2. QED
      BY <3>1, LimitsAssumption, FS_Subset, FS_CardinalityType
  <2>3. CASE UNCHANGED <<buckets, letIn>>
    <3>1. n' = n
      BY <2>3 DEF InFlight
    <3>2. QED
      BY <2>1, <2>3, <3>1
  <2>4. ASSUME NEW q \in Key \ {k}, buckets'[k] = buckets[k], UNCHANGED letIn
        PROVE  (buckets[k].count + n <= MaxAttempts[k] - 1 + N)'
    <3>1. n' = n
      BY <2>4 DEF InFlight
    <3>2. QED
      BY <2>1, <2>4, <3>1
  <2>5. ASSUME NEW q \in Key, CheckAndHit(q)
        PROVE  (buckets[k].count + n <= MaxAttempts[k] - 1 + N)'
    <3>1. q # k /\ buckets'[k] = buckets[k] /\ UNCHANGED letIn
      BY <2>5, <2>1, KeysAssumption DEF CheckAndHit, LimiterTypeOK
    <3>2. QED
      BY <2>4, <3>1
  <2>6. ASSUME NEW q \in Key, HitUnchecked(q)
        PROVE  (buckets[k].count + n <= MaxAttempts[k] - 1 + N)'
    <3>1. q # k /\ buckets'[k] = buckets[k] /\ UNCHANGED letIn
      BY <2>6, <2>1, KeysAssumption DEF HitUnchecked, LimiterTypeOK
    <3>2. QED
      BY <2>4, <3>1
  <2>7. ASSUME NEW r \in Caller, NEW q \in Key, CheckAttempt(r, q)
        PROVE  (buckets[k].count + n <= MaxAttempts[k] - 1 + N)'
    <3>1. n' = IF k = q THEN n + 1 ELSE n
      BY <2>7, <2>1, OneMoreInFlight DEF CheckAttempt
    <3>2. CASE k = q
      <4>1. buckets'[k] = AfterCheck(k) /\ ~Refused(k)
        BY <2>7, <2>1, <3>2 DEF CheckAttempt, LimiterTypeOK
      <4>2. buckets'[k].count = 0 \/ buckets'[k].count < MaxAttempts[k]
        BY <2>1, <4>1 DEF AfterCheck, Refused, NoBucket, Bucket
      <4>3. buckets'[k].count \in Nat
        BY <2>1, <4>1 DEF AfterCheck, NoBucket, Bucket
      <4>4. QED
        BY <2>1, <2>2, <4>2, <4>3
    <3>3. CASE k # q
      BY <2>7, <2>1, <3>1, <3>3 DEF CheckAttempt, LimiterTypeOK
    <3>4. QED
      BY <3>2, <3>3
  <2>8. ASSUME NEW r \in Caller, HitAttempt(r)
        PROVE  (buckets[k].count + n <= MaxAttempts[k] - 1 + N)'
    <3>1. n' = IF k = letIn[r] THEN n - 1 ELSE n
      BY <2>8, <2>1, OneLessInFlight DEF HitAttempt
    <3>2. CASE k = letIn[r]
      <4>1. buckets'[k] = AfterHit(k)
        BY <2>8, <2>1, <3>2 DEF HitAttempt, LimiterTypeOK
      <4>2. \/ buckets'[k].count = 1
            \/ buckets'[k].count = buckets[k].count + 1
        BY <2>1, <4>1 DEF AfterHit, Bucket
      <4>3. QED
        BY <2>1, <2>2, <3>1, <3>2, <4>2 DEF Bucket
    <3>3. CASE k # letIn[r]
      BY <2>8, <2>1, <3>1, <3>3 DEF HitAttempt, LimiterTypeOK
    <3>4. QED
      BY <3>2, <3>3
  <2>9. ASSUME NEW r \in Caller, ClearAttempt(r)
        PROVE  (buckets[k].count + n <= MaxAttempts[k] - 1 + N)'
    <3>1. buckets'[k].count = 0 \/ (k # letIn[r] /\ buckets'[k] = buckets[k])
      BY <2>9, <2>1 DEF ClearAttempt, LimiterTypeOK, NoBucket
    <3>2. n' = IF k = letIn[r] THEN n - 1 ELSE n
      BY <2>9, <2>1, OneLessInFlight DEF ClearAttempt
    <3>3. QED
      BY <2>1, <2>2, <3>1, <3>2
  <2>10. ASSUME NEW r \in Caller, DropAttempt(r)
         PROVE  (buckets[k].count + n <= MaxAttempts[k] - 1 + N)'
    <3>1. n' = IF k = letIn[r] THEN n - 1 ELSE n
      BY <2>10, <2>1, OneLessInFlight DEF DropAttempt
    <3>2. QED
      BY <2>10, <2>1, <3>1 DEF DropAttempt, Bucket
  <2>11. CASE Restart
    <3>1. buckets'[k].count = 0
      BY <2>11, <2>1 DEF Restart, NoBucket
    <3>2. QED
      BY <2>1, <2>2, <3>1
  <2>12. QED
    BY <2>3, <2>5, <2>6, <2>7, <2>8, <2>9, <2>10, <2>11
       DEF LimiterNext, TellWait, Tick, limiter
<1>3. QED
  BY <1>1, <1>2, LimiterTyped, PTL DEF LimiterSpec
(* What is told to a refused caller of a guarded key lasts, with a second  *)
(* more, until the window of its bucket is over.                           *)
WaitsOut ==
  \A k \in GuardedKeys :
    promised[k] # NoPromise =>
      buckets[k].window_start + Window[k] <= promised[k] + Second

(* A number of ticks is less than the whole seconds in it, but at least    *)
(* one second, and one second more.                                        *)
LEMMA WholeSeconds ==
  ASSUME NEW n \in Int, NEW s \in Nat \ {0}
  PROVE  /\ n \div s \in Int
         /\ n < s * (n \div s) + s
         /\ n \div s <= 1 => n < s * 1 + s
<1>1. n \div s \in Int /\ n < s * (n \div s) + s
  BY SMT
<1>2. ASSUME n \div s <= 1 PROVE s * (n \div s) <= s * 1
  BY <1>1, <1>2, SMT
<1>3. QED
  BY <1>1, <1>2, SMT

(* A refused caller that waits what it was told and one second more is let *)
(* in, unless another took its turn: Refuse tells at least the rest of the *)
(* window less a second, and nothing but an admission touches the bucket   *)
(* of a guarded key.                                                       *)
THEOREM PromisesHold == LimiterSpec => []PromiseKept
<1>1. LimiterInit => WaitsOut
  BY DEF LimiterInit, WaitsOut, Key
<1>2. LimiterTypeOK /\ WaitsOut /\ [LimiterNext]_limiter => WaitsOut'
  <2> SUFFICES ASSUME LimiterTypeOK, WaitsOut, [LimiterNext]_limiter, NEW k \in GuardedKeys
               PROVE  (promised[k] # NoPromise =>
                         buckets[k].window_start + Window[k] <= promised[k] + Second)'
    BY DEF WaitsOut
  <2>1. /\ k \in Key /\ Window[k] \in Nat \ {0} /\ Second \in Nat \ {0}
        /\ buckets[k] \in Bucket /\ now \in Nat
        /\ promised[k] # NoPromise =>
             buckets[k].window_start + Window[k] <= promised[k] + Second
    BY LimitsAssumption DEF Key, LimiterTypeOK, WaitsOut
  <2>2. CASE promised'[k] = promised[k] /\ buckets'[k] = buckets[k]
    BY <2>1, <2>2
  <2>3. CASE promised'[k] = NoPromise
    BY <2>3
  <2>4. ASSUME NEW q \in Key, CheckAndHit(q)
        PROVE  \/ promised'[k] = promised[k] /\ buckets'[k] = buckets[k]
               \/ promised'[k] = NoPromise
    BY <2>4, <2>1 DEF CheckAndHit, NoteAdmitted, LimiterTypeOK
  <2>5. ASSUME TellWait(k)
        PROVE  buckets'[k].window_start + Window[k] <= promised'[k] + Second
    <3> DEFINE rest == Window[k] - (now - buckets[k].window_start)
    <3>1. rest \in Int /\ buckets'[k] = buckets[k]
      BY <2>5, <2>1 DEF TellWait, Bucket
    <3>2. promised'[k] = now + Second * RetryAfter(k)
      BY <2>5, <2>1 DEF TellWait, LimiterTypeOK
    <3>3. rest < Second * RetryAfter(k) + Second /\ RetryAfter(k) \in Int
      <4>1. CASE rest \div Second > 1
        BY <4>1, <3>1, <2>1, WholeSeconds DEF RetryAfter
      <4>2. CASE ~(rest \div Second > 1)
        BY <4>2, <3>1, <2>1, WholeSeconds DEF RetryAfter
      <4>3. QED
        BY <4>1, <4>2
    <3>4. Second * RetryAfter(k) \in Int
      BY <3>3, <2>1
    <3> HIDE DEF RetryAfter
    <3>5. QED
      BY <3>1, <3>2, <3>3, <3>4, <2>1 DEF Bucket
  <2>6. ASSUME NEW q \in Key, TellWait(q), q # k
        PROVE  promised'[k] = promised[k] /\ buckets'[k] = buckets[k]
    BY <2>6, <2>1 DEF TellWait, LimiterTypeOK
  <2>7. ASSUME NEW q \in Key, HitUnchecked(q)
        PROVE  promised'[k] = promised[k] /\ buckets'[k] = buckets[k]
    BY <2>7, <2>1, KeysAssumption DEF HitUnchecked, LimiterTypeOK
  <2>8. ASSUME NEW r \in Caller, NEW q \in Key, CheckAttempt(r, q)
        PROVE  promised'[k] = promised[k] /\ buckets'[k] = buckets[k]
    BY <2>8, <2>1, KeysAssumption DEF CheckAttempt, LimiterTypeOK
  <2>9. ASSUME NEW r \in Caller, HitAttempt(r) \/ ClearAttempt(r) \/ DropAttempt(r)
        PROVE  promised'[k] = promised[k] /\ buckets'[k] = buckets[k]
    <3>1. letIn[r] \in AttemptKeys
      BY <2>9 DEF HitAttempt, ClearAttempt, DropAttempt, LimiterTypeOK
    <3>2. letIn[r] # k /\ letIn[r] \in Key
      BY <3>1, KeysAssumption DEF Key
    <3>3. QED
      BY <2>9, <2>1, <3>2 DEF HitAttempt, ClearAttempt, DropAttempt, LimiterTypeOK
  <2>10. CASE Restart
    BY <2>10, <2>1, <2>3 DEF Restart
  <2>11. QED
    BY <2>2, <2>3, <2>4, <2>5, <2>6, <2>7, <2>8, <2>9, <2>10 DEF LimiterNext, Tick, limiter
<1>3. LimiterTypeOK /\ WaitsOut => PromiseKept
  <2> SUFFICES ASSUME LimiterTypeOK, WaitsOut, NEW k \in GuardedKeys,
                      promised[k] # NoPromise, now >= promised[k] + Second
               PROVE  Expired(k)
    BY DEF PromiseKept, Refused
  <2>1. /\ Window[k] \in Nat /\ Second \in Nat /\ buckets[k] \in Bucket
        /\ promised[k] \in Int /\ now \in Nat
        /\ buckets[k].window_start + Window[k] <= promised[k] + Second
    BY LimitsAssumption DEF Key, LimiterTypeOK, WaitsOut
  <2>2. QED
    BY <2>1 DEF Expired, Bucket
<1>4. QED
  BY <1>1, <1>2, <1>3, LimiterTyped, PTL DEF LimiterSpec

(***************************************************************************)
(* The history of what was let in, for keys checked and hit in one go.     *)
(***************************************************************************)
OneGoKeys == GuardedKeys \cup CooldownKeys
OfWindow(S, w) == {e \in S : e.window = w}

(* Windows do not overlap, what was let in falls into its window, no       *)
(* window lets in more than the limit, and the bucket has counted all      *)
(* that its window has let in.                                             *)
CountedBy(k, S, b, t) ==
  /\ \A e \in S :
       /\ e.nth <= Cardinality(S)
       /\ e.window <= e.at /\ e.at <= t /\ e.at < e.window + Window[k]
       /\ e.window = b.window_start \/ e.window + Window[k] <= b.window_start
       /\ b.count > 0
  /\ \A e, f \in S :
       \/ e.window = f.window
       \/ e.window + Window[k] <= f.window
       \/ f.window + Window[k] <= e.window
  /\ \A w \in 0..Horizon : Cardinality(OfWindow(S, w)) <= MaxAttempts[k]
  /\ Cardinality(OfWindow(S, b.window_start)) <= b.count
  /\ b.window_start <= t
Counted(k) == CountedBy(k, admitted[k], buckets[k], now)
AllCounted == \A k \in OneGoKeys : Counted(k)

(* Nothing is none.                                                        *)
LEMMA NoneOfNothing ==
  IsFiniteSet({}) /\ Cardinality({}) = 0 /\ \A w : OfWindow({}, w) = {}
BY FS_EmptySet DEF OfWindow

(* What one window has let in is finite.                                   *)
LEMMA OfWindowFinite ==
  ASSUME LimiterTypeOK, NEW k \in Key, NEW w
  PROVE  IsFiniteSet(OfWindow(admitted[k], w)) /\ Cardinality(OfWindow(admitted[k], w)) \in Nat
BY FS_Subset, FS_CardinalityType DEF OfWindow, LimiterTypeOK

(* An admission adds one to its window and to no other: it falls into the  *)
(* window of its bucket as the hit leaves it.                              *)
LEMMA AdmissionCounts ==
  ASSUME LimiterTypeOK, NEW k \in OneGoKeys, Counted(k), CheckAndHit(k)
  PROVE  Counted(k)'
<1> DEFINE b == buckets[k]
           a == Admission(k)
           n == Cardinality(admitted[k])
<1>1. /\ k \in Key /\ Window[k] \in Nat \ {0} /\ MaxAttempts[k] \in Nat \ {0}
      /\ b \in Bucket /\ now \in 0..Horizon /\ n \in Nat /\ IsFiniteSet(admitted[k])
      /\ \A e \in admitted[k] : e.at \in Nat /\ e.window \in 0..Horizon /\ e.nth \in Nat
  BY LimitsAssumption, FS_CardinalityType DEF OneGoKeys, Key, LimiterTypeOK
<1>2. /\ buckets'[k] = AfterHit(k) /\ now' = now /\ ~Refused(k)
      /\ admitted'[k] = admitted[k] \cup {a}
  BY <1>1 DEF CheckAndHit, NoteAdmitted, LimiterTypeOK
<1>3. a.at = now /\ a.window = AfterHit(k).window_start /\ a.nth = n + 1
  BY DEF Admission
<1>4. a \notin admitted[k]
  BY <1>1, <1>3 DEF Counted, CountedBy
<1>5. Cardinality(admitted'[k]) = n + 1
  BY <1>1, <1>2, <1>4, FS_AddElement
<1>6. \A w : Cardinality(OfWindow(admitted'[k], w)) =
               IF w = a.window THEN Cardinality(OfWindow(admitted[k], w)) + 1 ELSE Cardinality(OfWindow(admitted[k], w))
  <2> SUFFICES ASSUME NEW w
               PROVE  Cardinality(OfWindow(admitted'[k], w)) =
                        IF w = a.window THEN Cardinality(OfWindow(admitted[k], w)) + 1
                                        ELSE Cardinality(OfWindow(admitted[k], w))
    OBVIOUS
  <2>1. OfWindow(admitted'[k], w) = IF w = a.window THEN OfWindow(admitted[k], w) \cup {a} ELSE OfWindow(admitted[k], w)
    BY <1>2 DEF OfWindow
  <2>2. a \notin OfWindow(admitted[k], w) /\ IsFiniteSet(OfWindow(admitted[k], w))
    BY <1>1, <1>4, OfWindowFinite DEF OfWindow
  <2> HIDE DEF a
  <2>3. QED
    BY <2>1, <2>2, FS_AddElement
<1>7. CASE b.count = 0 \/ Expired(k)
  <2>1. a.window = now /\ buckets'[k].window_start = now /\ buckets'[k].count = 1
    BY <1>7, <1>2, <1>3 DEF AfterHit
  <2>2. \A e \in admitted[k] : e.window + Window[k] <= now
    BY <1>7, <1>1 DEF Counted, CountedBy, Expired, Bucket
  <2>3. OfWindow(admitted[k], now) = {} /\ Cardinality(OfWindow(admitted[k], now)) = 0
    <3>1. OfWindow(admitted[k], now) = {}
      BY <2>2, <1>1 DEF OfWindow
    <3>2. QED
      BY <3>1, NoneOfNothing
  <2>4. QED
    <3> HIDE DEF a, b, n
    <3>1. \A e \in admitted'[k] :
            /\ e.nth <= n + 1
            /\ e.window <= e.at /\ e.at <= now /\ e.at < e.window + Window[k]
            /\ e.window = now \/ e.window + Window[k] <= now
      <4>1. \A e \in admitted[k] : e.nth <= n /\ e.window <= e.at /\ e.at <= now /\ e.at < e.window + Window[k]
        BY DEF Counted, CountedBy, n
      <4>2. QED
        BY <4>1, <2>1, <2>2, <1>1, <1>2, <1>3
    <3>2. \A e, f \in admitted'[k] :
            e.window = f.window \/ e.window + Window[k] <= f.window \/ f.window + Window[k] <= e.window
      BY <2>1, <2>2, <1>2 DEF Counted, CountedBy
    <3>3. Cardinality(OfWindow(admitted'[k], now)) = 1
      BY <1>6, <2>1, <2>3
    <3>4. \A w \in 0..Horizon : Cardinality(OfWindow(admitted'[k], w)) <= MaxAttempts[k]
      <4>1. ASSUME NEW w \in 0..Horizon, w = now
            PROVE  Cardinality(OfWindow(admitted'[k], w)) <= MaxAttempts[k]
        BY <4>1, <1>1, <3>3
      <4>2. ASSUME NEW w \in 0..Horizon, w # now
            PROVE  Cardinality(OfWindow(admitted'[k], w)) <= MaxAttempts[k]
        BY <4>2, <1>6, <2>1 DEF Counted, CountedBy
      <4>3. QED
        BY <4>1, <4>2
    <3>5. Cardinality(admitted'[k]) = n + 1
      BY <1>5
    <3>6. QED
      <4>1. CountedBy(k, admitted'[k], buckets'[k], now)
        BY <3>1, <3>2, <3>3, <3>4, <3>5, <2>1, <1>1 DEF CountedBy
      <4>2. QED
        BY <4>1, <1>2 DEF Counted
<1>8. CASE ~(b.count = 0 \/ Expired(k))
  <2>1. /\ a.window = b.window_start /\ buckets'[k].window_start = b.window_start
        /\ buckets'[k].count = b.count + 1 /\ b.count < MaxAttempts[k]
        /\ now < b.window_start + Window[k] /\ b.window_start \in Nat /\ b.count \in Nat
    BY <1>8, <1>2, <1>3, <1>1 DEF AfterHit, Refused, Expired, Bucket
  <2> HIDE DEF a, b, n
  <2>2. \A e \in admitted'[k] :
          /\ e.nth <= n + 1
          /\ e.window <= e.at /\ e.at <= now /\ e.at < e.window + Window[k]
          /\ e.window = b.window_start \/ e.window + Window[k] <= b.window_start
    <3>1. \A e \in admitted[k] :
            /\ e.nth <= n /\ e.window <= e.at /\ e.at <= now /\ e.at < e.window + Window[k]
            /\ e.window = b.window_start \/ e.window + Window[k] <= b.window_start
      BY DEF Counted, CountedBy, n, b
    <3>2. b.window_start <= now
      BY DEF Counted, CountedBy, b
    <3>3. QED
      BY <3>1, <3>2, <2>1, <1>1, <1>2, <1>3
  <2>3. \A e, f \in admitted'[k] :
          e.window = f.window \/ e.window + Window[k] <= f.window \/ f.window + Window[k] <= e.window
    BY <2>1, <1>2 DEF Counted, CountedBy, b
  <2>4. \A w \in 0..Horizon : Cardinality(OfWindow(admitted'[k], w)) <= MaxAttempts[k]
    <3>1. Cardinality(OfWindow(admitted[k], b.window_start)) <= b.count /\ Cardinality(OfWindow(admitted[k], b.window_start)) \in Nat
      BY <1>1, OfWindowFinite DEF Counted, CountedBy, b
    <3>2. QED
      <4>1. ASSUME NEW w \in 0..Horizon, w = b.window_start
            PROVE  Cardinality(OfWindow(admitted'[k], w)) <= MaxAttempts[k]
        BY <4>1, <3>1, <1>1, <1>6, <2>1
      <4>2. ASSUME NEW w \in 0..Horizon, w # b.window_start
            PROVE  Cardinality(OfWindow(admitted'[k], w)) <= MaxAttempts[k]
        BY <4>2, <1>6, <2>1 DEF Counted, CountedBy
      <4>3. QED
        BY <4>1, <4>2
  <2>5. Cardinality(OfWindow(admitted'[k], b.window_start)) <= b.count + 1
    <3>1. /\ Cardinality(OfWindow(admitted[k], b.window_start)) \in Nat
          /\ Cardinality(OfWindow(admitted[k], b.window_start)) <= b.count
      BY <1>1, OfWindowFinite DEF Counted, CountedBy, b
    <3>2. QED
      BY <3>1, <1>6, <2>1
  <2>6. Cardinality(admitted'[k]) = n + 1 /\ b.window_start <= now
    BY <1>5 DEF Counted, CountedBy, b
  <2>7. QED
    <3>1. CountedBy(k, admitted'[k], buckets'[k], now)
      BY <2>1, <2>2, <2>3, <2>4, <2>5, <2>6, <1>1 DEF CountedBy
    <3>2. QED
      BY <3>1, <1>2 DEF Counted
<1>9. QED
  BY <1>7, <1>8

(* A hit that was not checked may begin a window, or fill it.              *)
LEMMA UncheckedCounts ==
  ASSUME LimiterTypeOK, NEW k \in OneGoKeys, Counted(k), HitUnchecked(k)
  PROVE  Counted(k)'
<1>1. /\ k \in Key /\ Window[k] \in Nat \ {0} /\ buckets[k] \in Bucket /\ now \in 0..Horizon
      /\ \A e \in admitted[k] : e.at \in Nat /\ e.window \in 0..Horizon /\ e.nth \in Nat
  BY LimitsAssumption DEF OneGoKeys, Key, LimiterTypeOK
<1>2. buckets'[k] = AfterHit(k) /\ now' = now /\ admitted' = admitted
  BY <1>1 DEF HitUnchecked, LimiterTypeOK
<1>3. CASE buckets[k].count = 0 \/ Expired(k)
  <2>1. buckets'[k].window_start = now /\ buckets'[k].count = 1
    BY <1>3, <1>2 DEF AfterHit
  <2>2. \A e \in admitted[k] : e.window + Window[k] <= now
    BY <1>3, <1>1 DEF Counted, CountedBy, Expired, Bucket
  <2>3. OfWindow(admitted[k], now) = {} /\ Cardinality(OfWindow(admitted[k], now)) = 0
    <3>1. OfWindow(admitted[k], now) = {}
      BY <2>2, <1>1 DEF OfWindow
    <3>2. QED
      BY <3>1, NoneOfNothing
  <2>4. QED
    <3>1. CountedBy(k, admitted[k], buckets'[k], now)
      BY <2>1, <2>2, <2>3, <1>1 DEF Counted, CountedBy
    <3>2. QED
      BY <3>1, <1>2 DEF Counted
<1>4. CASE ~(buckets[k].count = 0 \/ Expired(k))
  <2>1. /\ buckets'[k].window_start = buckets[k].window_start
        /\ buckets'[k].count = buckets[k].count + 1 /\ buckets[k].count \in Nat
    BY <1>4, <1>2, <1>1 DEF AfterHit, Bucket
  <2>2. Cardinality(OfWindow(admitted[k], buckets[k].window_start)) \in Nat
    BY <1>1, OfWindowFinite
  <2>3. QED
    BY <2>1, <2>2, <1>1, <1>2 DEF Counted, CountedBy
<1>5. QED
  BY <1>3, <1>4

(* What is let in in a stretch of one window falls into two windows: one   *)
(* that began before it, and one within.                                   *)
LEMMA TwoWindows ==
  ASSUME LimiterTypeOK, NEW k \in OneGoKeys, Counted(k), NEW t \in 0..now
  PROVE  Cardinality(AdmittedIn(k, t, t + Window[k] - 1)) <= 2 * MaxAttempts[k]
<1> DEFINE in == AdmittedIn(k, t, t + Window[k] - 1)
           early == {e \in in : e.window < t}
           later == {e \in in : e.window >= t}
<1>1. /\ k \in Key /\ Window[k] \in Nat \ {0} /\ MaxAttempts[k] \in Nat \ {0}
      /\ IsFiniteSet(admitted[k]) /\ t \in Nat
      /\ \A e \in admitted[k] : e.at \in Nat /\ e.window \in 0..Horizon
  BY LimitsAssumption DEF OneGoKeys, Key, LimiterTypeOK
<1>2. \A e \in in :
        /\ e \in admitted[k] /\ t <= e.at /\ e.at <= t + Window[k] - 1
        /\ e.window <= e.at /\ e.at < e.window + Window[k]
  BY DEF Counted, CountedBy, AdmittedIn
<1>3. /\ \A e, f \in early : e.window = f.window
      /\ \A e, f \in later : e.window = f.window
  <2>1. \A e, f \in in :
          e.window = f.window \/ e.window + Window[k] <= f.window \/ f.window + Window[k] <= e.window
    BY <1>2 DEF Counted, CountedBy
  <2> HIDE DEF in
  <2>2. QED
    BY <1>1, <1>2, <2>1
<1>4. ASSUME NEW S \in SUBSET in, \A e, f \in S : e.window = f.window
      PROVE  IsFiniteSet(S) /\ Cardinality(S) \in Nat /\ Cardinality(S) <= MaxAttempts[k]
  <2>1. CASE S = {}
    BY <2>1, <1>1, FS_EmptySet
  <2>2. CASE S # {}
    <3>1. PICK e \in S : TRUE
      BY <2>2
    <3>2. S \subseteq OfWindow(admitted[k], e.window) /\ e.window \in 0..Horizon
      BY <1>1, <1>2, <1>4, <3>1 DEF OfWindow
    <3>3. /\ IsFiniteSet(OfWindow(admitted[k], e.window)) /\ Cardinality(OfWindow(admitted[k], e.window)) \in Nat
          /\ Cardinality(OfWindow(admitted[k], e.window)) <= MaxAttempts[k]
      BY <1>1, <3>2, OfWindowFinite DEF Counted, CountedBy
    <3>4. IsFiniteSet(S) /\ Cardinality(S) <= Cardinality(OfWindow(admitted[k], e.window))
      BY <3>2, <3>3, FS_Subset
    <3>5. QED
      BY <3>3, <3>4, <1>1, FS_CardinalityType
  <2>3. QED
    BY <2>1, <2>2
<1>5. in = early \cup later
  <2> HIDE DEF in
  <2>1. QED
    BY <1>1, <1>2
<1>6. Cardinality(in) = Cardinality(early) + Cardinality(later) - Cardinality(early \cap later)
  BY <1>3, <1>4, <1>5, FS_Union
<1>7. Cardinality(early \cap later) \in Nat
  BY <1>3, <1>4, FS_Subset, FS_CardinalityType
<1> HIDE DEF in, early, later
<1>8. Cardinality(early) \in Nat /\ Cardinality(early) <= MaxAttempts[k]
  BY <1>3, <1>4 DEF early
<1>9. Cardinality(later) \in Nat /\ Cardinality(later) <= MaxAttempts[k]
  BY <1>3, <1>4 DEF later
<1>10. QED
  BY <1>1, <1>6, <1>7, <1>8, <1>9 DEF in

(* A stretch of one window lets in at most twice the limit of a key that   *)
(* is checked and hit in one go, though the window is fixed, not sliding,  *)
(* and though change_email adds to a cooldown unchecked.                   *)
THEOREM TwoWindowsHold == LimiterSpec => []TwoWindowsBound
<1>1. LimiterInit => AllCounted
  <2> SUFFICES ASSUME LimiterInit, NEW k \in OneGoKeys
               PROVE  Counted(k)
    BY DEF AllCounted
  <2>1. /\ k \in Key /\ MaxAttempts[k] \in Nat \ {0}
        /\ admitted[k] = {} /\ buckets[k] = NoBucket /\ now = 0
    BY LimitsAssumption DEF LimiterInit, OneGoKeys, Key
  <2>2. QED
    BY <2>1, NoneOfNothing DEF Counted, CountedBy, NoBucket
<1>2. LimiterTypeOK /\ AllCounted /\ [LimiterNext]_limiter => AllCounted'
  <2> SUFFICES ASSUME LimiterTypeOK, AllCounted, [LimiterNext]_limiter, NEW k \in OneGoKeys
               PROVE  Counted(k)'
    BY DEF AllCounted
  <2>1. /\ k \in Key /\ k \notin AttemptKeys /\ Counted(k) /\ now \in Nat
        /\ MaxAttempts[k] \in Nat \ {0} /\ buckets[k] \in Bucket
        /\ \A e \in admitted[k] : e.at \in Nat
    BY LimitsAssumption, KeysAssumption DEF AllCounted, OneGoKeys, Key, LimiterTypeOK
  <2>2. ASSUME buckets'[k] = buckets[k], admitted'[k] = admitted[k], now' \in Nat, now <= now'
        PROVE  Counted(k)'
    BY <2>1, <2>2 DEF Counted, CountedBy, Bucket
  <2>3. ASSUME NEW q \in Key, CheckAndHit(q)
        PROVE  Counted(k)'
    <3>1. CASE q = k
      BY <2>1, <2>3, <3>1, AdmissionCounts
    <3>2. CASE q # k
      BY <2>1, <2>2, <2>3, <3>2 DEF CheckAndHit, NoteAdmitted, LimiterTypeOK
    <3>3. QED
      BY <3>1, <3>2
  <2>4. ASSUME NEW q \in Key, HitUnchecked(q)
        PROVE  Counted(k)'
    <3>1. CASE q = k
      BY <2>1, <2>4, <3>1, UncheckedCounts
    <3>2. CASE q # k
      BY <2>1, <2>2, <2>4, <3>2 DEF HitUnchecked, LimiterTypeOK
    <3>3. QED
      BY <3>1, <3>2
  <2>5. ASSUME NEW q \in Key, TellWait(q)
        PROVE  Counted(k)'
    BY <2>1, <2>2, <2>5 DEF TellWait
  <2>6. ASSUME NEW r \in Caller, NEW q \in Key, CheckAttempt(r, q)
        PROVE  Counted(k)'
    BY <2>1, <2>2, <2>6 DEF CheckAttempt, LimiterTypeOK
  <2>7. ASSUME NEW r \in Caller, HitAttempt(r) \/ ClearAttempt(r) \/ DropAttempt(r)
        PROVE  Counted(k)'
    <3>1. letIn[r] \in AttemptKeys /\ letIn[r] # k
      BY <2>1, <2>7 DEF HitAttempt, ClearAttempt, DropAttempt, LimiterTypeOK
    <3>2. buckets'[k] = buckets[k] /\ admitted' = admitted /\ now' = now
      BY <2>1, <2>7, <3>1 DEF HitAttempt, ClearAttempt, DropAttempt, LimiterTypeOK
    <3>3. QED
      BY <2>1, <2>2, <3>2
  <2>8. CASE Tick
    BY <2>1, <2>2, <2>8 DEF Tick
  <2>9. CASE Restart
    <3>1. admitted'[k] = {} /\ buckets'[k] = NoBucket /\ now' = now
      BY <2>1, <2>9 DEF Restart
    <3>2. QED
      <4>1. CountedBy(k, {}, NoBucket, now)
        BY <2>1, NoneOfNothing DEF CountedBy, NoBucket
      <4>2. QED
        BY <3>1, <4>1 DEF Counted
  <2>10. CASE UNCHANGED limiter
    BY <2>1, <2>2, <2>10 DEF limiter
  <2>11. QED
    BY <2>3, <2>4, <2>5, <2>6, <2>7, <2>8, <2>9, <2>10 DEF LimiterNext
<1>3. LimiterTypeOK /\ AllCounted => TwoWindowsBound
  BY TwoWindows DEF TwoWindowsBound, AllCounted, OneGoKeys
<1>4. QED
  BY <1>1, <1>2, <1>3, LimiterTyped, PTL DEF LimiterSpec

-----------------------------------------------------------------------------
(***************************************************************************)
(* The visitor of a tab.  That tab, cookie and backend agree holds between *)
(* calls only together with what is true while one is under way: that it   *)
(* is alone, that it goes with the cookie the browser holds, and that its  *)
(* answer brings the visitor its cookie will stand for.                    *)
(***************************************************************************)
Servers == [owner : [SessionId -> User \cup {None}], members : SUBSET User, verified : SUBSET User]
Tabs == [ready : BOOLEAN, user : Visitor, view : {"none", "login", "register"}, page : Pages,
         inbox : BOOLEAN, offers : Nat, link : Call \cup {None},
         status : {"pending", "confirming", "confirmed", "error"},
         busy : [{"page", "modal"} -> Call \cup {None}]]
Asking == [kind : Kinds, phase : {"idle", "sent", "served"}, session : SessionId \cup {None},
           who : User \cup {None, "yandex", "change"}, place : {"none", "page", "modal"},
           gone : BOOLEAN, ok : BOOLEAN, user : Visitor, jar : SessionId \cup {"keep", "drop"}]

(* A call: who enters or verifies is known, and a verified address is      *)
(* answered as one.                                                        *)
CallOK(a) ==
  /\ a \in Asking
  /\ a.phase = "idle" => a = Idle
  /\ a.phase # "idle" => a.kind # "none"
  /\ a.kind \in {"register", "yandex"} => a.who \in User
  /\ a.phase = "served" /\ a.ok /\ a.kind = "verify" => a.user.verified

(* Whom the session s stands for.                                          *)
Stands(srv, s) == Public(srv, IF s \in SessionId THEN srv.owner[s] ELSE None)
Agree(t, srv, s) == t.ready => t.user = Stands(srv, s)
JarOf(jar, s) == IF jar = "keep" THEN s ELSE IF jar = "drop" THEN None ELSE jar

Brings == {"me", "refresh", "login", "register", "verify", "profile"}

(* A call on its way to the backend, and an answer on its way back, while  *)
(* nothing else is under way.                                              *)
Sent(a, t, srv, s) ==
  /\ a.session = s
  /\ a.kind \notin {"me", "refresh", "logout"} => Agree(t, srv, s)
  /\ a.kind = "logout" => t.user = Guest

Brought(kind, ok, user, jar, t, srv, s) ==
  /\ ~ok => jar = "keep" /\ (kind \notin {"me", "refresh", "logout"} => Agree(t, srv, s))
  /\ ok /\ kind \in Brings => user = Stands(srv, JarOf(jar, s))
  /\ ok /\ kind \in {"reset", "logout"} => jar = "drop" /\ (kind = "logout" => t.user = Guest)
  /\ ok /\ kind \in {"resend", "forgot"} => jar = "keep" /\ Agree(t, srv, s)
Answered(a, t, srv, s) == Brought(a.kind, a.ok, a.user, a.jar, t, srv, s)

Alone(calls, t, srv, s) ==
  /\ \A c, d \in Call : calls[c] # Idle /\ calls[d] # Idle => c = d
  /\ (\A c \in Call : calls[c] = Idle) => Agree(t, srv, s)
  /\ \A c \in Call : calls[c] # Idle =>
       /\ calls[c].gone = FALSE
       /\ calls[c].phase = "sent" => Sent(calls[c], t, srv, s)
       /\ calls[c].phase = "served" => Answered(calls[c], t, srv, s)

Rest == clean \in BOOLEAN /\ torn \in BOOLEAN /\ asks \in 0 .. Asks
Typed == /\ server \in Servers /\ cookie \in SessionId \cup {None} /\ tab \in Tabs
         /\ call \in [Call -> Asking] /\ \A c \in Call : CallOK(call[c])

(* The strengthening.                                                      *)
SessionInv == Typed /\ Rest /\ (clean => Alone(call, tab, server, cookie))

LEMMA SessionConstants ==
  /\ None \notin User /\ None \notin SessionId /\ "keep" \notin SessionId /\ "drop" \notin SessionId
  /\ SessionId # {} /\ Asks \in Nat
BY SessionAssumption

(* What the page does with itself leaves the visitor alone.                *)
Kept(t, u) == u \in Tabs /\ u.ready = t.ready /\ u.user = t.user

LEMMA OpenIs ==
  ASSUME NEW t \in Tabs, NEW page \in Pages
  PROVE  /\ Kept(t, Open(t, page))
         /\ Open(t, page).status \in {"pending", t.status}
<1> DEFINE none == [place \in {"page", "modal"} |-> None]
           u == [t EXCEPT !.page = page, !.view = "none", !.status = "pending",
                          !.link = None, !.busy = none]
<1>1. none \in [{"page", "modal"} -> Call \cup {None}]
  OBVIOUS
<1> HIDE DEF none
<1>2. u \in Tabs /\ u.ready = t.ready /\ u.user = t.user /\ u.status = "pending"
  BY <1>1 DEF Tabs
<1>3. Open(t, page) = IF page = t.page THEN t ELSE u
  BY DEF Open, none
<1> HIDE DEF u
<1> QED BY <1>2, <1>3 DEF Kept

LEMMA GuardedIs ==
  ASSUME NEW t \in Tabs
  PROVE  /\ Kept(t, Guarded(t))
         /\ Guarded(t).status \in {"pending", t.status}
<1>1. AfterLogin(t.user) \in Pages /\ "login" \in Pages /\ "verify" \in Pages
  BY DEF AfterLogin, Pages, GuestPages, MemberPages, OpenPages
<1>2. \/ Guarded(t) = t
      \/ \E page \in Pages : Guarded(t) = Open(t, page)
  BY <1>1 DEF Guarded
<1>3. CASE Guarded(t) = t
  BY <1>3 DEF Kept
<1>4. CASE \E page \in Pages : Guarded(t) = Open(t, page)
  BY <1>4, OpenIs
<1> QED BY <1>2, <1>3, <1>4

LEMMA SettledIs ==
  ASSUME NEW t \in Tabs
  PROVE  /\ Kept(t, Settled(t))
         /\ Settled(t).status = "confirmed" => t.status = "confirmed" \/ t.user.verified
<1> DEFINE g == Guarded(t)
           h == [g EXCEPT !.status = "confirmed"]
<1>1. g \in Tabs /\ g.ready = t.ready /\ g.user = t.user /\ g.status \in {"pending", t.status}
  BY GuardedIs DEF Kept
<1>2. \/ Settled(t) = g
      \/ Settled(t) = h /\ g.user.verified
  BY DEF Settled
<1> HIDE DEF g
<1>3. h \in Tabs /\ h.ready = g.ready /\ h.user = g.user
  BY <1>1 DEF Tabs
<1> HIDE DEF h
<1>4. CASE Settled(t) = g
  BY <1>1, <1>4 DEF Kept
<1>5. CASE Settled(t) = h /\ g.user.verified
  BY <1>1, <1>3, <1>5 DEF Kept
<1> QED BY <1>2, <1>4, <1>5

LEMMA BusyIs ==
  ASSUME NEW t \in Tabs, NEW place \in {"page", "modal"}, NEW c \in Call \cup {None}
  PROVE  /\ Kept(t, [t EXCEPT !.busy[place] = c])
         /\ [t EXCEPT !.busy[place] = c].status = t.status
<1> DEFINE b == [t.busy EXCEPT ![place] = c]
           u == [t EXCEPT !.busy = b]
<1>1. b \in [{"page", "modal"} -> Call \cup {None}]
  BY DEF Tabs
<1>2. u = [t EXCEPT !.busy[place] = c]
  OBVIOUS
<1> HIDE DEF b
<1>3. u \in Tabs /\ u.ready = t.ready /\ u.user = t.user /\ u.status = t.status
  BY <1>1 DEF Tabs
<1> HIDE DEF u
<1> QED BY <1>2, <1>3 DEF Kept

LEMMA ViewIs ==
  ASSUME NEW t \in Tabs, NEW view \in {"none", "login", "register"}
  PROVE  /\ Kept(t, [t EXCEPT !.view = view, !.busy["modal"] = None])
         /\ [t EXCEPT !.view = view, !.busy["modal"] = None].status = t.status
<1> DEFINE b == [t.busy EXCEPT !["modal"] = None]
           u == [t EXCEPT !.view = view, !.busy = b]
<1>1. b \in [{"page", "modal"} -> Call \cup {None}]
  BY DEF Tabs
<1>2. u = [t EXCEPT !.view = view, !.busy["modal"] = None]
  BY DEF Tabs
<1> HIDE DEF b
<1>3. u \in Tabs /\ u.ready = t.ready /\ u.user = t.user /\ u.status = t.status
  BY <1>1 DEF Tabs
<1> HIDE DEF u
<1> QED BY <1>2, <1>3 DEF Kept

LEMMA ReleasedIs ==
  ASSUME NEW t \in Tabs, NEW c \in Call, NEW a, a.place \in {"none", "page", "modal"}
  PROVE  Kept(t, Released(t, c, a)) /\ Released(t, c, a).status = t.status
<1>1. CASE Released(t, c, a) = t
  BY <1>1 DEF Kept
<1>2. CASE a.place \in {"page", "modal"} /\ Released(t, c, a) = [t EXCEPT !.busy[a.place] = None]
  BY <1>2, BusyIs
<1> QED BY <1>1, <1>2 DEF Released

LEMMA LetteredIs ==
  ASSUME NEW t \in Tabs, NEW a
  PROVE  Kept(t, Lettered(t, a)) /\ Lettered(t, a).status = t.status
<1>1. ASSUME NEW b \in BOOLEAN
      PROVE  Kept(t, [t EXCEPT !.inbox = b]) /\ [t EXCEPT !.inbox = b].status = t.status
  BY DEF Kept, Tabs
<1>2. \/ Lettered(t, a) = t
      \/ Lettered(t, a) = [t EXCEPT !.inbox = TRUE]
      \/ Lettered(t, a) = [t EXCEPT !.inbox = FALSE]
  BY DEF Lettered
<1>3. CASE Lettered(t, a) = t
  BY <1>3 DEF Kept
<1>4. CASE Lettered(t, a) = [t EXCEPT !.inbox = TRUE]
  BY <1>1, <1>4
<1>5. CASE Lettered(t, a) = [t EXCEPT !.inbox = FALSE]
  BY <1>1, <1>5
<1> QED BY <1>2, <1>3, <1>4, <1>5

LEMMA CheckedIs ==
  ASSUME NEW t \in Tabs, NEW c, NEW a, NEW ok
  PROVE  /\ Kept(t, Checked(t, c, a, ok))
         /\ Checked(t, c, a, ok).status = "confirmed" =>
              t.status = "confirmed" \/ (a.kind = "verify" /\ ok)
<1> DEFINE st == IF ok THEN "confirmed" ELSE "error"
           u == [t EXCEPT !.link = None, !.status = st]
<1>1. st \in {"confirmed", "error"} /\ (st = "confirmed" => ok)
  OBVIOUS
<1>2. Checked(t, c, a, ok) = t \/ (a.kind = "verify" /\ Checked(t, c, a, ok) = u)
  BY DEF Checked
<1> HIDE DEF st
<1>3. u \in Tabs /\ u.ready = t.ready /\ u.user = t.user /\ u.status = st
  BY <1>1 DEF Tabs
<1> HIDE DEF u
<1>4. CASE Checked(t, c, a, ok) = t
  BY <1>4 DEF Kept
<1>5. CASE a.kind = "verify" /\ Checked(t, c, a, ok) = u
  BY <1>1, <1>3, <1>5 DEF Kept
<1> QED BY <1>2, <1>4, <1>5

LEMMA OffersIs ==
  ASSUME NEW t \in Tabs
  PROVE  /\ Kept(t, [t EXCEPT !.offers = @ + 1])
         /\ [t EXCEPT !.offers = @ + 1].status = t.status
         /\ t.offers > 0 => /\ Kept(t, [t EXCEPT !.offers = @ - 1])
                            /\ [t EXCEPT !.offers = @ - 1].status = t.status
<1>1. t.offers \in Nat
  BY DEF Tabs
<1>2. ASSUME NEW n \in Nat
      PROVE  Kept(t, [t EXCEPT !.offers = n]) /\ [t EXCEPT !.offers = n].status = t.status
  BY DEF Kept, Tabs
<1>3. t.offers + 1 \in Nat /\ (t.offers > 0 => t.offers - 1 \in Nat)
  BY <1>1
<1> QED BY <1>2, <1>3

LEMMA DirectedIs ==
  ASSUME NEW t \in Tabs, NEW c, NEW a
  PROVE  /\ Kept(t, Directed(t, c, a))
         /\ Directed(t, c, a).status = "confirmed" =>
              t.status = "confirmed" \/ (a.kind = "verify" /\ a.ok)
<1> DEFINE u == Directed(t, c, a)
<1>1. AfterLogin(a.user) \in Pages /\ "verify" \in Pages /\ "profile" \in Pages
  BY DEF AfterLogin, Pages, GuestPages, MemberPages, OpenPages
<1>2. \/ u = Checked(t, c, a, a.ok)
      \/ u = [t EXCEPT !.view = "none", !.busy["modal"] = None]
      \/ u = [t EXCEPT !.offers = @ + 1]
      \/ \E page \in Pages : u = Open(t, page)
  BY <1>1 DEF Directed
<1> HIDE DEF u
<1>3. Kept(t, u) /\ (u.status = "confirmed" => t.status = "confirmed" \/ (a.kind = "verify" /\ a.ok))
  <2>1. CASE u = Checked(t, c, a, a.ok)
    BY <2>1, CheckedIs
  <2>2. CASE u = [t EXCEPT !.view = "none", !.busy["modal"] = None]
    BY <2>2, ViewIs
  <2>3. CASE \E page \in Pages : u = Open(t, page)
    BY <2>3, OpenIs
  <2>4. CASE u = [t EXCEPT !.offers = @ + 1]
    BY <2>4, OffersIs
  <2> QED BY <1>2, <2>1, <2>2, <2>3, <2>4
<1> QED BY <1>3 DEF u

(* What a tab learns of an answer.                                         *)
LEMMA LearnedIs ==
  ASSUME NEW t \in Tabs, NEW a, a.user \in Visitor
  PROVE  /\ Learned(t, a) \in Tabs /\ Learned(t, a).status = t.status
         /\ Learned(t, a).ready => t.ready \/ a.kind = "me"
         /\ Learned(t, a).user = IF a.ok /\ a.kind \in Brings THEN a.user
                                 ELSE IF a.ok /\ a.kind = "reset" THEN Guest ELSE t.user
<1> DEFINE v == IF a.ok /\ a.kind \in Brings THEN a.user
                ELSE IF a.ok /\ a.kind = "reset" THEN Guest ELSE t.user
           w == Taken(t, a)
           r == w.ready \/ a.kind = "me"
           u == [w EXCEPT !.ready = r]
<1>1. v \in Visitor
  BY DEF Visitor, Tabs
<1>2. w = [t EXCEPT !.user = v] \/ (w = t /\ v = t.user)
  BY DEF Taken, Brings
<1> HIDE DEF v, w
<1>3. w \in Tabs /\ w.user = v /\ w.status = t.status /\ w.ready = t.ready
  BY <1>1, <1>2 DEF Tabs
<1>4. r \in BOOLEAN
  OBVIOUS
<1>5. r => t.ready \/ a.kind = "me"
  BY <1>3
<1> HIDE DEF r
<1>6. u \in Tabs /\ u.user = w.user /\ u.status = w.status /\ u.ready = r
  BY <1>3, <1>4 DEF Tabs
<1>7. Learned(t, a) = u
  BY DEF Learned, w, r
<1> HIDE DEF u
<1>8. Learned(t, a) \in Tabs /\ Learned(t, a).status = t.status /\ Learned(t, a).user = v
  BY <1>3, <1>6, <1>7
<1>9. Learned(t, a).ready => t.ready \/ a.kind = "me"
  BY <1>5, <1>6, <1>7
<1> QED BY <1>8, <1>9 DEF v

LEMMA Alone1 ==
  ASSUME NEW calls, NEW t, NEW srv, NEW s, Alone(calls, t, srv, s),
         NEW c \in Call, calls[c] # Idle
  PROVE  \A d \in Call \ {c} : calls[d] = Idle
BY DEF Alone

(* One call is under way, and it is as it should be.                       *)
LEMMA AloneOne ==
  ASSUME NEW calls \in [Call -> Asking], NEW t, NEW srv, NEW s, NEW c \in Call,
         \A d \in Call \ {c} : calls[d] = Idle, NEW a, a # Idle, a.gone = FALSE,
         a.phase = "sent" => Sent(a, t, srv, s), a.phase = "served" => Answered(a, t, srv, s)
  PROVE  Alone([calls EXCEPT ![c] = a], t, srv, s)
<1> DEFINE next == [calls EXCEPT ![c] = a]
<1>1. next[c] = a /\ \A d \in Call \ {c} : next[d] = Idle
  OBVIOUS
<1> HIDE DEF next
<1>2. Alone(next, t, srv, s)
  <2>1. \A d, e \in Call : next[d] # Idle /\ next[e] # Idle => d = e
    BY <1>1
  <2>2. ~\A d \in Call : next[d] = Idle
    BY <1>1
  <2>3. \A d \in Call : next[d] # Idle => next[d] = a
    BY <1>1
  <2> QED BY <2>1, <2>2, <2>3 DEF Alone
<1> QED BY <1>2 DEF next

LEMMA AloneNone ==
  ASSUME NEW calls \in [Call -> Asking], NEW t, NEW srv, NEW s, NEW c \in Call,
         \A d \in Call \ {c} : calls[d] = Idle, Agree(t, srv, s)
  PROVE  Alone([calls EXCEPT ![c] = Idle], t, srv, s)
<1>1. \A d \in Call : [calls EXCEPT ![c] = Idle][d] = Idle
  OBVIOUS
<1> QED BY <1>1 DEF Alone

(* The page does something by itself.                                      *)
LEMMA AloneKept ==
  ASSUME NEW calls, NEW t, NEW u, NEW srv, NEW s, Alone(calls, t, srv, s), Kept(t, u)
  PROVE  Alone(calls, u, srv, s)
<1>1. u.user = t.user /\ (u.ready <=> t.ready)
  BY DEF Kept
<1>2. Agree(t, srv, s) => Agree(u, srv, s)
  BY <1>1 DEF Agree
<1>3. \A c \in Call : /\ Sent(calls[c], t, srv, s) => Sent(calls[c], u, srv, s)
                      /\ Answered(calls[c], t, srv, s) => Answered(calls[c], u, srv, s)
  BY <1>1, <1>2 DEF Sent, Answered, Brought
<1> QED BY <1>2, <1>3 DEF Alone

LEMMA IdleIs ==
  /\ Idle \in Asking /\ CallOK(Idle) /\ Idle.phase = "idle" /\ Idle.gone = FALSE
  /\ Guest \in Visitor
<1>1. Guest \in Visitor
  BY DEF Visitor
<1> DEFINE g == Guest
<1>2. Idle = [kind |-> "none", phase |-> "idle", session |-> None, who |-> None,
              place |-> "none", gone |-> FALSE, ok |-> FALSE, user |-> g, jar |-> "keep"]
  BY DEF Idle
<1>3. g \in Visitor
  BY <1>1
<1> HIDE DEF g
<1>4. Idle \in Asking
  BY <1>2, <1>3 DEF Asking, Kinds
<1> QED BY <1>1, <1>2, <1>4 DEF CallOK

(* A call is sent with the cookie the browser holds.                       *)
LEMMA RequestIs ==
  ASSUME cookie \in SessionId \cup {None}, NEW kind \in Kinds \ {"none"},
         NEW who \in User \cup {None, "yandex", "change"}, NEW place \in {"none", "page", "modal"},
         kind \in {"register", "yandex"} => who \in User
  PROVE  /\ CallOK(Request(kind, who, place)) /\ Request(kind, who, place) # Idle
         /\ Request(kind, who, place).gone = FALSE /\ Request(kind, who, place).phase = "sent"
         /\ Request(kind, who, place).session = cookie /\ Request(kind, who, place).kind = kind
<1> DEFINE a == Request(kind, who, place)
           n == Idle
<1>1. a = [n EXCEPT !.kind = kind, !.phase = "sent", !.session = cookie, !.who = who, !.place = place]
  BY DEF Request
<1>2. n \in Asking /\ n.phase = "idle" /\ n.gone = FALSE
  BY IdleIs
<1> HIDE DEF n, a
<1>3. /\ a \in Asking /\ a.gone = FALSE /\ a.phase = "sent" /\ a.session = cookie
      /\ a.kind = kind /\ a.place = place /\ a.who = who
  BY <1>1, <1>2 DEF Asking
<1>4. a # Idle
  BY <1>2, <1>3 DEF n
<1>5. CallOK(a)
  BY <1>3 DEF CallOK
<1> QED BY <1>3, <1>4, <1>5 DEF a

LEMMA FreeIs ==
  ASSUME NEW c, Free(c)
  PROVE  c \in Call /\ call[c] = Idle
BY DEF Free

LEMMA MoreAsked ==
  ASSUME Rest, Asked
  PROVE  asks' \in 0 .. Asks
<1>1. asks \in 0 .. Asks /\ asks < Asks /\ asks' = asks + 1 /\ Asks \in Nat
  BY SessionConstants DEF Rest, Asked
<1> QED BY <1>1

(* What is asked for by a visitor, and what the tab shows meanwhile.       *)
LEMMA StepSend ==
  ASSUME SessionInv, NEW c \in Call, NEW kind \in Kinds \ {"none"},
         NEW who \in User \cup {None}, NEW place \in {"none", "page", "modal"},
         kind \in {"register", "yandex"} => who \in User,
         Send(c, kind, who, place), tab' \in Tabs, tab'.ready = tab.ready,
         tab'.user = tab.user \/ (kind = "logout" /\ tab'.user = Guest),
         kind = "logout" => tab'.user = Guest
  PROVE  SessionInv'
<1> USE DEF SessionInv, Typed
<1> DEFINE a == Request(kind, who, place)
<1>1. /\ Free(c) /\ Asked /\ call' = [call EXCEPT ![c] = a] /\ clean' = (clean /\ Quiet)
      /\ UNCHANGED <<server, cookie, torn>>
  BY DEF Send, Unserved
<1>2. /\ CallOK(a) /\ a # Idle /\ a.gone = FALSE /\ a.phase = "sent" /\ a.session = cookie
      /\ a.kind = kind
  <2>1. cookie \in SessionId \cup {None} /\ who \in User \cup {None, "yandex", "change"}
    OBVIOUS
  <2> QED BY <2>1, RequestIs
<1> HIDE DEF a
<1>3. Typed'
  <2>1. call' \in [Call -> Asking] /\ \A d \in Call : CallOK(call'[d])
    BY <1>1, <1>2 DEF CallOK
  <2> QED BY <1>1, <2>1
<1>4. Rest'
  <2>1. clean' \in BOOLEAN
    BY <1>1
  <2>2. asks' \in 0 .. Asks
    BY <1>1, MoreAsked
  <2> QED BY <1>1, <2>1, <2>2 DEF Rest
<1>5. ASSUME clean' PROVE Alone(call', tab', server', cookie')
  <2>1. Quiet /\ Alone(call, tab, server, cookie)
    BY <1>1, <1>5
  <2>2. Agree(tab, server, cookie) /\ \A d \in Call \ {c} : call[d] = Idle
    BY <2>1 DEF Quiet, Alone
  <2>3. Sent(a, tab', server, cookie)
    <3>1. kind # "logout" => Agree(tab', server, cookie)
      BY <2>2 DEF Agree
    <3> QED BY <1>2, <3>1 DEF Sent
  <2>4. Alone([call EXCEPT ![c] = a], tab', server, cookie)
    BY <1>2, <2>2, <2>3, AloneOne
  <2> QED BY <1>1, <2>4
<1> QED BY <1>3, <1>4, <1>5

LEMMA TabTyped == SessionInv => tab \in Tabs /\ (tab.user # Guest => tab.user.id \in User)
<1> SUFFICES ASSUME SessionInv PROVE tab \in Tabs /\ (tab.user # Guest => tab.user.id \in User)
  OBVIOUS
<1>1. tab \in Tabs
  BY DEF SessionInv, Typed
<1>2. tab.user \in Visitor
  BY <1>1 DEF Tabs
<1> QED BY <1>1, <1>2 DEF Visitor

(* A form is sent.                                                         *)
LEMMA StepSubmit ==
  ASSUME SessionInv, NEW c \in Call, NEW kind \in Kinds \ {"none", "logout"},
         NEW who \in User \cup {None}, NEW place \in {"page", "modal"},
         kind \in {"register", "yandex"} => who \in User, Submit(c, kind, who, place)
  PROVE  SessionInv' /\ tab'.status = tab.status
<1>1. Send(c, kind, who, place) /\ tab' = [tab EXCEPT !.busy[place] = c]
  BY DEF Submit
<1>2. tab \in Tabs
  BY TabTyped
<1>3. Kept(tab, tab') /\ tab'.status = tab.status
  <2>1. c \in Call \cup {None}
    OBVIOUS
  <2> QED BY <1>1, <1>2, <2>1, BusyIs
<1>4. tab' \in Tabs /\ tab'.ready = tab.ready /\ tab'.user = tab.user
  BY <1>3 DEF Kept
<1>5. kind \in Kinds \ {"none"} /\ place \in {"none", "page", "modal"} /\ kind # "logout"
  OBVIOUS
<1>6. SessionInv'
  BY <1>1, <1>4, <1>5, StepSend
<1> QED BY <1>3, <1>6

LEMMA StepVisit ==
  ASSUME SessionInv, NEW c \in Call, Visit(c)
  PROVE  SessionInv' /\ (tab'.status = "confirmed" => tab.status = "confirmed" \/ tab'.user.verified)
<1> DEFINE Good == SessionInv' /\ (tab'.status = "confirmed" => tab.status = "confirmed" \/ tab'.user.verified)
<1>1. ASSUME NEW kind \in Kinds \ {"none", "logout"}, NEW who \in User \cup {None},
             NEW place \in {"page", "modal"}, kind \in {"register", "yandex"} => who \in User,
             Submit(c, kind, who, place)
      PROVE  Good
  BY <1>1, StepSubmit
<1>2. /\ {"login", "register", "yandex", "forgot", "reset", "profile", "resend", "change",
          "avatar", "verify"} \subseteq Kinds \ {"none", "logout"}
      /\ "logout" \in Kinds
  BY DEF Kinds
<1>3. ASSUME NEW u \in User, \/ LoginSubmit(c, u) \/ RegisterSubmit(c, u)
                             \/ YandexSubmit(c, u) \/ ResetSubmit(c, u)
      PROVE  Good
  <2>1. PICK kind \in {"login", "register", "yandex", "reset"}, place \in {"page", "modal"} :
          Submit(c, kind, u, place)
    BY <1>3 DEF LoginSubmit, RegisterSubmit, YandexSubmit, ResetSubmit
  <2> HIDE DEF Good
  <2> QED BY <1>1, <1>2, <2>1
<1>4. CASE ForgotSubmit(c) \/ ProfileSubmit(c) \/ Resend(c) \/ ChangeEmail(c)
  <2>1. PICK kind \in {"forgot", "profile", "resend", "change"} : Submit(c, kind, None, "page")
    BY <1>4 DEF ForgotSubmit, ProfileSubmit, Resend, ChangeEmail
  <2> HIDE DEF Good
  <2>2. Good
    BY <1>1, <1>2, <2>1
  <2> QED BY <2>2 DEF Good
<1>5. CASE Avatar(c)
  <2>1. Send(c, "avatar", None, "none") /\ tab' = tab
    BY <1>5 DEF Avatar
  <2>2. tab' \in Tabs
    BY <2>1, TabTyped
  <2>3. SessionInv'
    BY <1>2, <2>1, <2>2, StepSend
  <2> QED BY <2>1, <2>3
<1>6. CASE Logout(c)
  <2> DEFINE away == [tab EXCEPT !.user = Guest, !.inbox = FALSE]
  <2>1. Send(c, "logout", None, "none") /\ tab' = Settled(Open(away, "home"))
    BY <1>6 DEF Logout
  <2>2. away \in Tabs /\ away.ready = tab.ready /\ away.user = Guest /\ away.status = tab.status
    <3>1. Guest \in Visitor /\ tab \in Tabs
      BY IdleIs, TabTyped
    <3> QED BY <3>1 DEF Tabs
  <2> HIDE DEF away
  <2>3. "home" \in Pages
    BY DEF Pages, OpenPages
  <2>4. Kept(away, Open(away, "home")) /\ Open(away, "home").status \in {"pending", away.status}
    BY <2>2, <2>3, OpenIs
  <2> DEFINE home == Open(away, "home")
  <2>5. home \in Tabs /\ home.ready = tab.ready /\ home.user = Guest /\ home.status \in {"pending", tab.status}
    BY <2>2, <2>4 DEF Kept
  <2> HIDE DEF home
  <2>6. Kept(home, tab') /\ (tab'.status = "confirmed" => home.status = "confirmed" \/ home.user.verified)
    BY <2>1, <2>5, SettledIs DEF home
  <2>7. tab' \in Tabs /\ tab'.ready = tab.ready /\ tab'.user = Guest
    BY <2>5, <2>6 DEF Kept
  <2>8. SessionInv'
    BY <1>2, <2>1, <2>7, StepSend
  <2>9. tab'.status = "confirmed" => tab.status = "confirmed" \/ tab'.user.verified
    BY <2>5, <2>6, <2>7
  <2> QED BY <2>8, <2>9
<1>7. CASE FollowLink(c)
  <2>1. /\ Send(c, "verify", tab.user.id, "none") /\ tab' = [tab EXCEPT !.link = c]
        /\ tab.user # Guest
    BY <1>7 DEF FollowLink, PanelOpen
  <2>2. tab \in Tabs /\ tab.user.id \in User
    BY <2>1, TabTyped
  <2>3. tab' \in Tabs /\ tab'.ready = tab.ready /\ tab'.user = tab.user /\ tab'.status = tab.status
    BY <2>1, <2>2 DEF Tabs
  <2>4. SessionInv'
    BY <1>2, <2>1, <2>2, <2>3, StepSend
  <2> QED BY <2>3, <2>4
<1> QED BY <1>3, <1>4, <1>5, <1>6, <1>7 DEF Visit

(* What the page does by itself.                                           *)
LEMMA StepPage ==
  ASSUME SessionInv, Kept(tab, tab'), UNCHANGED <<call, clean>>, Asked, Unserved
  PROVE  SessionInv'
<1> USE DEF SessionInv, Typed, Unserved
<1>1. asks' \in 0 .. Asks
  BY MoreAsked
<1>2. Typed'
  BY DEF Kept
<1>3. Rest'
  BY <1>1 DEF Rest
<1>4. clean => Alone(call, tab', server, cookie)
  BY AloneKept
<1> QED BY <1>2, <1>3, <1>4

LEMMA StepModal ==
  ASSUME SessionInv, CloseModal \/ \E view \in {"login", "register"} : OpenModal(view)
  PROVE  SessionInv' /\ tab'.status = tab.status
<1>1. PICK view \in {"none", "login", "register"} :
        /\ tab' = [tab EXCEPT !.view = view, !.busy["modal"] = None]
        /\ UNCHANGED <<call, clean>> /\ Asked /\ Unserved
  BY DEF CloseModal, OpenModal
<1>2. tab \in Tabs
  BY TabTyped
<1>3. Kept(tab, tab') /\ tab'.status = tab.status
  BY <1>1, <1>2, ViewIs
<1> QED BY <1>1, <1>3, StepPage

LEMMA StepNavigate ==
  ASSUME SessionInv, NEW page \in Pages, Navigate(page)
  PROVE  SessionInv' /\ (tab'.status = "confirmed" => tab.status = "confirmed" \/ tab'.user.verified)
<1> DEFINE o == Open(tab, page)
<1>1. tab' = Settled(o) /\ UNCHANGED <<call, clean>> /\ Asked /\ Unserved
  BY DEF Navigate
<1>2. Kept(tab, o) /\ o.status \in {"pending", tab.status}
  BY TabTyped, OpenIs
<1> HIDE DEF o
<1>3. o \in Tabs /\ o.ready = tab.ready /\ o.user = tab.user
  BY <1>2 DEF Kept
<1>4. Kept(o, tab') /\ (tab'.status = "confirmed" => o.status = "confirmed" \/ o.user.verified)
  BY <1>1, <1>3, SettledIs
<1>5. Kept(tab, tab')
  BY <1>3, <1>4 DEF Kept
<1>6. tab'.status = "confirmed" => tab.status = "confirmed" \/ tab'.user.verified
  BY <1>2, <1>3, <1>4 DEF Kept
<1> QED BY <1>1, <1>5, <1>6, StepPage

(* The form of a new member goes on to the page of the letter.             *)
LEMMA StepStored ==
  ASSUME SessionInv, Stored
  PROVE  SessionInv' /\ (tab'.status = "confirmed" => tab.status = "confirmed" \/ tab'.user.verified)
<1> DEFINE s == [tab EXCEPT !.offers = @ - 1]
           o == Open(s, "verify")
<1>1. /\ tab.offers > 0 /\ tab' = Settled(o)
      /\ UNCHANGED <<server, cookie, call, clean, torn, asks>>
  BY DEF Stored
<1>2. Kept(tab, s) /\ s.status = tab.status
  BY <1>1, TabTyped, OffersIs
<1> HIDE DEF s
<1>3. s \in Tabs /\ s.ready = tab.ready /\ s.user = tab.user /\ "verify" \in Pages
  BY <1>2 DEF Kept, Pages, OpenPages
<1>4. Kept(s, o) /\ o.status \in {"pending", s.status}
  BY <1>3, OpenIs
<1> HIDE DEF o
<1>5. o \in Tabs /\ o.ready = tab.ready /\ o.user = tab.user
  BY <1>3, <1>4 DEF Kept
<1>6. Kept(o, tab') /\ (tab'.status = "confirmed" => o.status = "confirmed" \/ o.user.verified)
  BY <1>1, <1>5, SettledIs
<1>7. Kept(tab, tab')
  BY <1>5, <1>6 DEF Kept
<1>8. tab'.status = "confirmed" => tab.status = "confirmed" \/ tab'.user.verified
  BY <1>2, <1>4, <1>5, <1>6 DEF Kept
<1>9. SessionInv'
  <2> USE DEF SessionInv, Typed
  <2>1. Typed'
    BY <1>1, <1>7 DEF Kept
  <2>2. Rest'
    BY <1>1 DEF Rest
  <2>3. clean => Alone(call, tab', server, cookie)
    BY <1>7, AloneKept
  <2> QED BY <1>1, <2>1, <2>2, <2>3
<1> QED BY <1>8, <1>9

LEMMA LoadedIs ==
  ASSUME NEW page \in Pages
  PROVE  Loaded(page) \in Tabs /\ Loaded(page).status = "pending"
<1> DEFINE none == [place \in {"page", "modal"} |-> None]
           g == Guest
<1>1. none \in [{"page", "modal"} -> Call \cup {None}] /\ g \in Visitor
  BY IdleIs
<1>2. Loaded(page) = [ready |-> FALSE, user |-> g, view |-> "none", page |-> page, inbox |-> FALSE,
                      offers |-> 0, status |-> "pending", link |-> None, busy |-> none]
  BY DEF Loaded
<1> HIDE DEF none, g
<1> QED BY <1>1, <1>2 DEF Tabs

LEMMA AbandonedIs ==
  ASSUME SessionInv
  PROVE  /\ Abandoned \in [Call -> Asking] /\ \A d \in Call : CallOK(Abandoned[d])
         /\ Quiet => \A d \in Call : Abandoned[d] = Idle
<1>1. ASSUME NEW d \in Call
      PROVE  CallOK(Abandoned[d]) /\ (call[d] = Idle => Abandoned[d] = Idle)
  <2> DEFINE r == call[d]
             s == [r EXCEPT !.gone = TRUE, !.place = "none"]
  <2>1. CallOK(r) /\ Abandoned[d] = IF r = Idle THEN Idle ELSE s
    BY DEF SessionInv, Typed, Abandoned
  <2> HIDE DEF r
  <2>2. r \in Asking
    BY <2>1 DEF CallOK
  <2>3. /\ s \in Asking /\ s.phase = r.phase /\ s.kind = r.kind /\ s.who = r.who
        /\ s.ok = r.ok /\ s.user = r.user
    BY <2>2 DEF Asking
  <2> HIDE DEF s
  <2>4. r # Idle => CallOK(s)
    BY <2>1, <2>3 DEF CallOK
  <2> QED BY <2>1, <2>4, IdleIs DEF r
<1>2. Abandoned \in [Call -> Asking]
  BY <1>1 DEF Abandoned, CallOK
<1> QED BY <1>1, <1>2 DEF Quiet

LEMMA StepLoad ==
  ASSUME SessionInv, NEW page \in Pages, Load(page)
  PROVE  SessionInv' /\ tab'.status = "pending"
<1> USE DEF SessionInv, Typed
<1> DEFINE a == Request("me", None, "none")
<1>1. PICK c \in Call : call' = [Abandoned EXCEPT ![c] = a]
  BY FreeIs DEF Load
<1>2. Asked /\ tab' = Loaded(page) /\ clean' = Quiet /\ UNCHANGED <<server, cookie, torn>>
  BY DEF Load
<1>3. /\ CallOK(a) /\ a # Idle /\ a.gone = FALSE /\ a.phase = "sent" /\ a.session = cookie
      /\ a.kind = "me"
  <2>1. "me" \in Kinds \ {"none"} /\ "me" \notin {"register", "yandex"}
    BY DEF Kinds
  <2>2. cookie \in SessionId \cup {None} /\ None \in User \cup {None, "yandex", "change"}
    OBVIOUS
  <2> QED BY <2>1, <2>2, RequestIs
<1> HIDE DEF a
<1>4. tab' \in Tabs /\ tab'.status = "pending"
  BY <1>2, LoadedIs
<1> DEFINE b == Abandoned
<1>5. b \in [Call -> Asking] /\ (\A d \in Call : CallOK(b[d])) /\ (Quiet => \A d \in Call : b[d] = Idle)
  BY AbandonedIs
<1>6. call' = [b EXCEPT ![c] = a]
  BY <1>1
<1> HIDE DEF b
<1>7. Typed'
  <2>1. call' \in [Call -> Asking] /\ \A d \in Call : CallOK(call'[d])
    BY <1>3, <1>5, <1>6 DEF CallOK
  <2> QED BY <1>2, <1>4, <2>1
<1>8. Rest'
  <2>1. clean' \in BOOLEAN
    BY <1>2 DEF Quiet
  <2>2. asks' \in 0 .. Asks
    BY <1>2, MoreAsked
  <2> QED BY <1>2, <2>1, <2>2 DEF Rest
<1>9. ASSUME clean' PROVE Alone(call', tab', server', cookie')
  <2>1. \A d \in Call \ {c} : b[d] = Idle
    BY <1>2, <1>5, <1>9
  <2>2. Sent(a, tab', server, cookie)
    BY <1>3 DEF Sent
  <2>3. Alone([b EXCEPT ![c] = a], tab', server, cookie)
    BY <1>3, <1>5, <2>1, <2>2, AloneOne
  <2> QED BY <1>2, <1>6, <2>3
<1> QED BY <1>4, <1>7, <1>8, <1>9

LEMMA StepLoadLink ==
  ASSUME SessionInv, NEW u \in User, LoadLink(u)
  PROVE  SessionInv' /\ tab'.status = "confirming"
<1> USE DEF SessionInv, Typed
<1> DEFINE a == Request("verify", u, "none")
           e == Request("me", None, "none")
           l == Loaded("verify")
<1>1. PICK c \in Call, d \in Call :
        /\ tab' = [l EXCEPT !.status = "confirming", !.link = c]
        /\ call' = [Abandoned EXCEPT ![c] = a, ![d] = e]
  BY DEF LoadLink
<1>2. Asked /\ clean' = FALSE /\ UNCHANGED <<server, cookie, torn>>
  BY DEF LoadLink
<1>3. CallOK(a) /\ CallOK(e)
  <2>1. {"me", "verify"} \subseteq Kinds \ {"none"}
    BY DEF Kinds
  <2>2. cookie \in SessionId \cup {None} /\ {None, u} \subseteq User \cup {None, "yandex", "change"}
    OBVIOUS
  <2> QED BY <2>1, <2>2, RequestIs
<1> HIDE DEF a, e
<1>4. tab' \in Tabs /\ tab'.status = "confirming"
  <2>1. l \in Tabs
    BY LoadedIs DEF Pages, OpenPages
  <2> HIDE DEF l
  <2> QED BY <1>1, <2>1 DEF Tabs
<1> DEFINE b == Abandoned
<1>5. b \in [Call -> Asking] /\ \A x \in Call : CallOK(b[x])
  BY AbandonedIs
<1>6. call' = [b EXCEPT ![c] = a, ![d] = e]
  BY <1>1
<1> HIDE DEF b
<1>7. call' \in [Call -> Asking] /\ \A x \in Call : CallOK(call'[x])
  BY <1>3, <1>5, <1>6 DEF CallOK
<1>8. Typed'
  BY <1>2, <1>4, <1>7
<1>9. Rest'
  <2>1. asks' \in 0 .. Asks
    BY <1>2, MoreAsked
  <2> QED BY <1>2, <2>1 DEF Rest
<1> QED BY <1>2, <1>4, <1>8, <1>9

(* The backend serves a call.                                              *)
LEMMA StepServes ==
  ASSUME SessionInv, NEW c \in Call, call[c].phase = "sent",
         NEW srv \in Servers, NEW ok \in BOOLEAN, NEW user \in Visitor,
         NEW jar \in SessionId \cup {"keep", "drop"}, Serves(c, srv, ok, user, jar),
         ok /\ call[c].kind = "verify" => user.verified,
         Sent(call[c], tab, server, cookie) => Brought(call[c].kind, ok, user, jar, tab, srv, cookie)
  PROVE  SessionInv'
<1> USE DEF SessionInv, Typed
<1> DEFINE r == call[c]
           a == [r EXCEPT !.phase = "served", !.session = None, !.ok = ok, !.user = user, !.jar = jar]
<1>1. /\ server' = srv /\ call' = [call EXCEPT ![c] = a]
      /\ UNCHANGED <<cookie, tab, clean, torn, asks>>
  BY DEF Serves
<1>2. CallOK(r) /\ r.phase = "sent" /\ r # Idle
  BY IdleIs
<1>3. /\ ok /\ r.kind = "verify" => user.verified
      /\ Sent(r, tab, server, cookie) => Brought(r.kind, ok, user, jar, tab, srv, cookie)
      /\ r = call[c]
  OBVIOUS
<1> HIDE DEF r
<1>4. /\ a \in Asking /\ a.phase = "served" /\ a.kind = r.kind /\ a.who = r.who /\ a.gone = r.gone
      /\ a.ok = ok /\ a.user = user /\ a.jar = jar
  BY <1>2 DEF CallOK, Asking
<1> HIDE DEF a
<1>5. CallOK(a) /\ a # Idle
  BY <1>2, <1>3, <1>4, IdleIs DEF CallOK
<1>6. call' \in [Call -> Asking] /\ \A d \in Call : CallOK(call'[d])
  BY <1>1, <1>4, <1>5
<1>7. ASSUME clean PROVE Alone(call', tab, srv, cookie)
  <2>1. Alone(call, tab, server, cookie)
    BY <1>7
  <2>2. \A d \in Call \ {c} : call[d] = Idle
    BY <1>2, <1>3, <2>1, Alone1
  <2>3. r.gone = FALSE /\ Sent(r, tab, server, cookie)
    BY <1>2, <1>3, <2>1 DEF Alone
  <2>4. Answered(a, tab, srv, cookie)
    BY <1>3, <1>4, <2>3 DEF Answered
  <2>5. Alone([call EXCEPT ![c] = a], tab, srv, cookie)
    BY <1>4, <1>5, <2>2, <2>3, <2>4, AloneOne
  <2> QED BY <1>1, <2>5
<1> QED BY <1>1, <1>6, <1>7 DEF Rest

LEMMA PublicIs ==
  ASSUME NEW srv \in Servers, NEW u \in User \cup {None}
  PROVE  /\ Public(srv, u) \in Visitor
         /\ u \in User => (Public(srv, u).verified <=> u \in srv.verified)
<1>1. CASE u = None
  BY <1>1, SessionConstants DEF Public, Visitor
<1>2. CASE u \in User
  <2> DEFINE b == u \in srv.verified
  <2>1. b \in BOOLEAN
    OBVIOUS
  <2>2. Public(srv, u) = [id |-> u, verified |-> b]
    BY <1>2, SessionConstants DEF Public
  <2>3. b <=> u \in srv.verified
    OBVIOUS
  <2> HIDE DEF b
  <2>4. Public(srv, u) \in Visitor /\ Public(srv, u).verified = b
    BY <1>2, <2>1, <2>2 DEF Visitor
  <2> QED BY <2>3, <2>4
<1> QED BY <1>1, <1>2

LEMMA OwnerIs ==
  ASSUME SessionInv, NEW s
  PROVE  OwnerOf(s) \in User \cup {None} /\ Stands(server, s) = Public(server, OwnerOf(s))
BY DEF SessionInv, Typed, Servers, OwnerOf, Stands

LEMMA StepOpens ==
  ASSUME SessionInv, NEW c \in Call, call[c].phase = "sent", NEW u \in User, NEW srv \in Servers,
         NEW old, Opens(c, u, srv, old), call[c].kind \in {"login", "register", "yandex", "verify"},
         call[c].kind = "verify" => u \in srv.verified
  PROVE  SessionInv'
<1>1. PICK s \in NewSession :
        LET next == [srv EXCEPT !.owner = [x \in SessionId |->
                      IF x = s THEN u ELSE IF x = old THEN None ELSE @[x]]] IN
        Serves(c, next, TRUE, Public(next, u), s)
  BY DEF Opens
<1> DEFINE o == [x \in SessionId |-> IF x = s THEN u ELSE IF x = old THEN None ELSE srv.owner[x]]
           next == [srv EXCEPT !.owner = o]
           user == Public(next, u)
<1>2. Serves(c, next, TRUE, user, s)
  BY <1>1
<1>3. s \in SessionId /\ s # "keep" /\ s # "drop"
  BY SessionConstants DEF NewSession
<1>4. o \in [SessionId -> User \cup {None}] /\ o[s] = u
  BY <1>3 DEF Servers
<1> HIDE DEF o
<1>5. next \in Servers /\ next.owner[s] = u /\ next.verified = srv.verified
  BY <1>4 DEF Servers
<1> HIDE DEF next
<1>6. user \in Visitor /\ (user.verified <=> u \in srv.verified)
  BY <1>5, PublicIs
<1>7. user = Stands(next, s)
  BY <1>3, <1>5 DEF Stands
<1> HIDE DEF user
<1>8. Brought(call[c].kind, TRUE, user, s, tab, next, cookie)
  BY <1>3, <1>7 DEF Brought, JarOf
<1>9. s \in SessionId \cup {"keep", "drop"} /\ TRUE \in BOOLEAN
  BY <1>3
<1> QED BY <1>2, <1>5, <1>6, <1>8, <1>9, StepServes

LEMMA StepServe ==
  ASSUME SessionInv, NEW c \in Call, Serve(c)
  PROVE  SessionInv'
<1> DEFINE r == call[c]
           k == r.kind
<1>1. server \in Servers /\ CallOK(r) /\ r \in Asking /\ cookie \in SessionId \cup {None}
  BY DEF SessionInv, Typed, CallOK
<1>2. Guest \in Visitor
  BY IdleIs
<1>3. TRUE \in BOOLEAN /\ FALSE \in BOOLEAN /\ {"keep", "drop"} \subseteq SessionId \cup {"keep", "drop"}
  OBVIOUS
<1>4. CASE Refuse(c)
  <2>1. r.phase = "sent" /\ Serves(c, server, FALSE, Guest, "keep")
    BY <1>4 DEF Refuse
  <2>2. Sent(r, tab, server, cookie) => Brought(k, FALSE, Guest, "keep", tab, server, cookie)
    BY DEF Sent, Brought
  <2> QED BY <1>1, <1>2, <1>3, <2>1, <2>2, StepServes
<1>5. CASE ServeMe(c)
  <2> DEFINE user == Public(server, OwnerOf(r.session))
  <2>1. r.phase = "sent" /\ k \in {"me", "refresh"} /\ Serves(c, server, TRUE, user, "keep")
    BY <1>5 DEF ServeMe
  <2>2. user \in Visitor /\ user = Stands(server, r.session)
    BY <1>1, OwnerIs, PublicIs
  <2> HIDE DEF user
  <2>3. Sent(r, tab, server, cookie) => Brought(k, TRUE, user, "keep", tab, server, cookie)
    BY <2>1, <2>2 DEF Sent, Brought, JarOf
  <2> QED BY <1>1, <1>3, <2>1, <2>2, <2>3, StepServes
<1>6. CASE ServeEntry(c)
  <2> DEFINE u == r.who
  <2>1. r.phase = "sent"
    BY <1>6 DEF ServeEntry
  <2>2. CASE k = "login" /\ u \in server.members /\ Opens(c, u, server, None)
    <3>1. u \in User
      BY <1>1, <2>2 DEF Servers
    <3> QED BY <1>1, <2>1, <2>2, <3>1, StepOpens
  <2>3. CASE k = "register" /\ Opens(c, u, [server EXCEPT !.members = @ \cup {u}], None)
    <3>1. u \in User
      BY <1>1, <2>3 DEF CallOK
    <3>2. [server EXCEPT !.members = @ \cup {u}] \in Servers
      BY <1>1, <3>1 DEF Servers
    <3> QED BY <2>1, <2>3, <3>1, <3>2, StepOpens
  <2>4. CASE k = "yandex" /\ Opens(c, u, [server EXCEPT !.members = @ \cup {u}, !.verified = @ \cup {u}], None)
    <3>1. u \in User
      BY <1>1, <2>4 DEF CallOK
    <3>2. [server EXCEPT !.members = @ \cup {u}, !.verified = @ \cup {u}] \in Servers
      BY <1>1, <3>1 DEF Servers
    <3> QED BY <2>1, <2>4, <3>1, <3>2, StepOpens
  <2> QED BY <1>6, <2>2, <2>3, <2>4 DEF ServeEntry
<1>7. CASE ServeVerify(c)
  <2> DEFINE u == r.who
             srv == [server EXCEPT !.verified = @ \cup {u}]
             user == Public(srv, u)
  <2>1. /\ r.phase = "sent" /\ k = "verify" /\ u \in server.members
        /\ IF OwnerOf(r.session) = u THEN Serves(c, srv, TRUE, user, "keep")
           ELSE Opens(c, u, srv, r.session)
    BY <1>7 DEF ServeVerify
  <2>2. u \in User
    BY <1>1, <2>1 DEF Servers
  <2>3. srv \in Servers /\ u \in srv.verified /\ srv.owner = server.owner
    BY <1>1, <2>2 DEF Servers
  <2> HIDE DEF srv
  <2>4. user \in Visitor /\ user.verified
    BY <2>2, <2>3, PublicIs
  <2>5. CASE OwnerOf(r.session) = u
    <3>1. Serves(c, srv, TRUE, user, "keep")
      BY <2>1, <2>5
    <3>2. user = Stands(srv, r.session)
      BY <2>3, <2>5 DEF Stands, OwnerOf
    <3> HIDE DEF user
    <3>3. Sent(r, tab, server, cookie) => Brought(k, TRUE, user, "keep", tab, srv, cookie)
      BY <2>1, <3>2 DEF Sent, Brought, JarOf
    <3> QED BY <1>3, <2>1, <2>3, <2>4, <3>1, <3>3, StepServes
  <2>6. CASE OwnerOf(r.session) # u
    <3>1. Opens(c, u, srv, r.session)
      BY <2>1, <2>6
    <3> QED BY <2>1, <2>2, <2>3, <3>1, StepOpens
  <2> QED BY <2>5, <2>6
<1>8. CASE ServeMember(c)
  <2> DEFINE u == OwnerOf(r.session)
             srv == IF k = "change" THEN [server EXCEPT !.verified = @ \ {u}] ELSE server
             user == Public(srv, u)
  <2>1. /\ r.phase = "sent" /\ k \in {"profile", "resend", "change", "avatar"} /\ u # None
        /\ Serves(c, srv, TRUE, user, "keep")
    BY <1>8 DEF ServeMember
  <2>2. u \in User \cup {None} /\ Stands(server, r.session) = Public(server, u)
    BY OwnerIs
  <2>3. srv \in Servers /\ (k # "change" => srv = server)
    BY <1>1 DEF Servers
  <2>4. k # "change" => user = Stands(server, r.session)
    BY <2>2, <2>3
  <2> HIDE DEF srv, u
  <2>5. user \in Visitor
    BY <2>2, <2>3, PublicIs
  <2> HIDE DEF user
  <2>6. Sent(r, tab, server, cookie) => Brought(k, TRUE, user, "keep", tab, srv, cookie)
    <3> SUFFICES ASSUME Sent(r, tab, server, cookie) PROVE Brought(k, TRUE, user, "keep", tab, srv, cookie)
      OBVIOUS
    <3>1. r.session = cookie /\ Agree(tab, server, cookie)
      BY <2>1 DEF Sent
    <3>2. k = "profile" => user = Stands(srv, JarOf("keep", cookie))
      BY <2>3, <2>4, <3>1 DEF JarOf
    <3>3. k = "resend" => Agree(tab, srv, cookie)
      BY <2>3, <3>1
    <3>4. k \in Brings => k = "profile"
      BY <2>1 DEF Brings
    <3> QED BY <2>1, <3>2, <3>3, <3>4 DEF Brought
  <2>7. k # "verify"
    BY <2>1
  <2> QED BY <1>3, <2>1, <2>3, <2>5, <2>6, <2>7, StepServes
<1>9. CASE ServeEnd(c)
  <2> DEFINE ends(s) == IF k = "logout" THEN s = r.session ELSE server.owner[s] = r.who
             o == [s \in SessionId |-> IF ends(s) THEN None ELSE server.owner[s]]
             srv == [server EXCEPT !.owner = o]
  <2>1. r.phase = "sent" /\ k \in {"logout", "reset"} /\ Serves(c, srv, TRUE, Guest, "drop")
    BY <1>9 DEF ServeEnd
  <2>2. o \in [SessionId -> User \cup {None}]
    BY <1>1 DEF Servers
  <2> HIDE DEF o
  <2>3. srv \in Servers
    BY <1>1, <2>2 DEF Servers
  <2> HIDE DEF srv
  <2>4. Sent(r, tab, server, cookie) => Brought(k, TRUE, Guest, "drop", tab, srv, cookie)
    BY <2>1 DEF Sent, Brought, Brings
  <2>5. k # "verify"
    BY <2>1
  <2> QED BY <1>2, <1>3, <2>1, <2>3, <2>4, <2>5, StepServes
<1>10. CASE ServeForgot(c)
  <2>1. r.phase = "sent" /\ k = "forgot" /\ Serves(c, server, TRUE, Guest, "keep")
    BY <1>10 DEF ServeForgot
  <2>2. Sent(r, tab, server, cookie) => Brought(k, TRUE, Guest, "keep", tab, server, cookie)
    BY <2>1 DEF Sent, Brought, Brings
  <2>3. k # "verify"
    BY <2>1
  <2> QED BY <1>1, <1>2, <1>3, <2>1, <2>2, <2>3, StepServes
<1> QED BY <1>4, <1>5, <1>6, <1>7, <1>8, <1>9, <1>10 DEF Serve
(* What the tab makes of an answer agrees with the cookie that came.       *)
LEMMA AnswerAgrees ==
  ASSUME NEW a \in Asking, a.kind # "none", NEW t \in Tabs, NEW srv, NEW s,
         Answered(a, t, srv, s), a.ok \/ a.kind \notin {"me", "refresh", "logout"},
         ~GoesOn(a), NEW u, Kept(Learned(t, a), u)
  PROVE  Agree(u, srv, JarOf(a.jar, s))
<1> DEFINE l == Learned(t, a)
           j == JarOf(a.jar, s)
<1>1. /\ l.ready => t.ready \/ a.kind = "me"
      /\ l.user = IF a.ok /\ a.kind \in Brings THEN a.user
                  ELSE IF a.ok /\ a.kind = "reset" THEN Guest ELSE t.user
  <2>1. a.user \in Visitor
    BY DEF Asking
  <2> QED BY <2>1, LearnedIs
<1>2. u.user = l.user /\ u.ready = l.ready
  BY DEF Kept
<1> HIDE DEF l
<1>3. Brought(a.kind, a.ok, a.user, a.jar, t, srv, s)
  BY DEF Answered
<1>4. a.jar = "keep" => j = s
  BY DEF JarOf
<1>5. a.jar = "drop" => Stands(srv, j) = Guest
  BY SessionConstants DEF JarOf, Stands, Public
<1>6. Agree(u, srv, j)
  <2>1. CASE ~a.ok
    BY <1>1, <1>2, <1>3, <1>4, <2>1 DEF Brought, Agree
  <2>2. CASE a.ok /\ a.kind \in Brings
    <3>1. a.user = Stands(srv, j)
      BY <1>3, <2>2 DEF Brought
    <3> QED BY <1>1, <1>2, <2>2, <3>1 DEF Agree
  <2>3. CASE a.ok /\ a.kind \in {"reset", "logout"}
    <3>1. l.user = Guest
      BY <1>1, <1>3, <2>3 DEF Brought, Brings
    <3>2. Stands(srv, j) = Guest
      BY <1>3, <1>5, <2>3 DEF Brought
    <3> QED BY <1>2, <3>1, <3>2 DEF Agree
  <2>4. CASE a.ok /\ a.kind \in {"resend", "forgot"}
    <3>1. j = s /\ Agree(t, srv, s)
      BY <1>3, <1>4, <2>4 DEF Brought
    <3>2. l.user = t.user /\ (l.ready => t.ready)
      BY <1>1, <2>4 DEF Brings
    <3> QED BY <1>2, <3>1, <3>2 DEF Agree
  <2>5. a.kind \in Brings \cup {"reset", "logout", "resend", "forgot"} \/ ~a.ok
    BY DEF GoesOn, Asking, Kinds, Brings
  <2> QED BY <2>1, <2>2, <2>3, <2>4, <2>5
<1> QED BY <1>6 DEF j

(* An answer leaves the tab what it has learnt of it, wherever the tab     *)
(* goes then.                                                              *)
LEMMA GuidedIs ==
  ASSUME NEW t \in Tabs, NEW l \in Tabs, NEW c \in Call, NEW a \in Asking,
         Kept(l, t), t.status = l.status
  PROVE  /\ Kept(l, Settled(Directed(t, c, a)))
         /\ Settled(Directed(t, c, a)).status = "confirmed" =>
              l.status = "confirmed" \/ (a.kind = "verify" /\ a.ok) \/ l.user.verified
<1> DEFINE d == Directed(t, c, a)
<1>1. Kept(t, d) /\ (d.status = "confirmed" => t.status = "confirmed" \/ (a.kind = "verify" /\ a.ok))
  BY DirectedIs
<1> HIDE DEF d
<1>2. d \in Tabs /\ d.ready = l.ready /\ d.user = l.user
  BY <1>1 DEF Kept
<1>3. Kept(d, Settled(d)) /\ (Settled(d).status = "confirmed" => d.status = "confirmed" \/ d.user.verified)
  BY <1>2, SettledIs
<1>4. Kept(l, Settled(d))
  BY <1>2, <1>3 DEF Kept
<1>5. Settled(d).status = "confirmed" => l.status = "confirmed" \/ (a.kind = "verify" /\ a.ok) \/ l.user.verified
  BY <1>1, <1>2, <1>3
<1> QED BY <1>4, <1>5 DEF d

LEMMA StepAnswer ==
  ASSUME SessionInv, NEW c \in Call, Answer(c)
  PROVE  SessionInv' /\ (tab'.status = "confirmed" => tab.status = "confirmed" \/ tab'.user.verified)
<1> USE DEF SessionInv, Typed
<1> DEFINE a == call[c]
           l == Learned(tab, a)
           f == IF a.kind = "change" /\ a.ok THEN l ELSE Released(l, c, a)
           w == IF a.kind \in {"yandex", "change"} THEN a.kind ELSE None
           n == [Idle EXCEPT !.kind = "refresh", !.phase = "sent", !.session = Jar(a),
                             !.place = a.place, !.who = w]
           r == IF GoesOn(a) /\ ~a.gone THEN n ELSE Idle
<1>1. /\ a.phase = "served" /\ cookie' = Jar(a)
      /\ tab' = IF a.gone THEN tab ELSE Settled(Directed(Lettered(f, a), c, a))
      /\ call' = [call EXCEPT ![c] = r]
      /\ clean' = (clean /\ (a.ok \/ a.kind \notin {"me", "refresh", "logout"}))
      /\ UNCHANGED <<server, torn, asks>>
  BY DEF Answer
<1>2. /\ CallOK(a) /\ a \in Asking /\ a # Idle /\ a.kind # "none" /\ a.user \in Visitor
      /\ a.gone \in BOOLEAN
  <2>1. CallOK(a) /\ a.phase = "served"
    BY <1>1
  <2> HIDE DEF a
  <2>2. a \in Asking /\ a # Idle /\ a.kind # "none"
    BY <2>1, IdleIs DEF CallOK
  <2> QED BY <2>1, <2>2 DEF Asking
<1>3. /\ Jar(a) = JarOf(a.jar, cookie)
      /\ Jar(a) \in SessionId \cup {None}
  <2>1. a.jar \in SessionId \cup {"keep", "drop"}
    BY <1>2 DEF Asking
  <2> QED BY <2>1 DEF Jar, JarOf
<1>4. /\ clean => Alone(call, tab, server, cookie)
      /\ call \in [Call -> Asking]
      /\ \A d \in Call : CallOK(call[d])
      /\ a = call[c]
  OBVIOUS
<1>5. l \in Tabs /\ l.status = tab.status /\ (a.ok /\ a.kind = "verify" => l.user.verified)
  <2>1. tab \in Tabs /\ a.user \in Visitor
    BY <1>2
  <2>2. /\ l \in Tabs /\ l.status = tab.status
        /\ l.user = IF a.ok /\ a.kind \in Brings THEN a.user
                    ELSE IF a.ok /\ a.kind = "reset" THEN Guest ELSE tab.user
    BY <2>1, LearnedIs
  <2>3. a.ok /\ a.kind = "verify" => a.user.verified
    BY <1>1, <1>2 DEF CallOK
  <2> QED BY <2>2, <2>3 DEF Brings
<1>6. Kept(l, Lettered(f, a)) /\ Lettered(f, a).status = l.status
  <2>1. a.place \in {"none", "page", "modal"}
    BY <1>2 DEF Asking
  <2>2. Kept(l, Released(l, c, a)) /\ Released(l, c, a).status = l.status
    BY <1>5, <2>1, ReleasedIs
  <2>3. f \in Tabs /\ f.ready = l.ready /\ f.user = l.user /\ f.status = l.status
    BY <1>5, <2>2 DEF Kept
  <2> HIDE DEF f, l
  <2>4. Kept(f, Lettered(f, a)) /\ Lettered(f, a).status = f.status
    BY <2>3, LetteredIs
  <2> QED BY <2>3, <2>4 DEF Kept
<1> DEFINE p == Lettered(f, a)
<1>7. p \in Tabs /\ Kept(l, p) /\ p.status = l.status
  BY <1>6 DEF Kept
<1> DEFINE q == Settled(Directed(p, c, a))
<1>8. tab' = IF a.gone THEN tab ELSE q
  BY <1>1
<1> HIDE DEF f, p, l
<1>9. Kept(l, q) /\ (q.status = "confirmed" => l.status = "confirmed" \/ (a.kind = "verify" /\ a.ok) \/ l.user.verified)
  BY <1>2, <1>5, <1>7, GuidedIs
<1> HIDE DEF q
<1>10. tab' \in Tabs /\ (tab'.status = "confirmed" => tab.status = "confirmed" \/ tab'.user.verified)
  BY <1>5, <1>8, <1>9 DEF Kept
<1>11. /\ CallOK(n) /\ n # Idle /\ n.gone = FALSE /\ n.phase = "sent" /\ n.session = Jar(a)
       /\ n.kind = "refresh"
  <2> DEFINE i == Idle
  <2>1. i \in Asking /\ i.gone = FALSE /\ i.phase = "idle" /\ w \in User \cup {None, "yandex", "change"}
    BY IdleIs
  <2>2. n = [i EXCEPT !.kind = "refresh", !.phase = "sent", !.session = Jar(a), !.place = a.place, !.who = w]
    OBVIOUS
  <2>3. a.place \in {"none", "page", "modal"} /\ "refresh" \in Kinds
    BY <1>2 DEF Asking, Kinds
  <2> HIDE DEF i, n, w, a
  <2>4. /\ n \in Asking /\ n.gone = FALSE /\ n.phase = "sent" /\ n.session = Jar(a)
        /\ n.kind = "refresh" /\ n # i
    BY <1>3, <2>1, <2>2, <2>3 DEF Asking
  <2>5. CallOK(n)
    BY <2>4 DEF CallOK
  <2> QED BY <2>4, <2>5 DEF i
<1> HIDE DEF n
<1>12. CallOK(r) /\ r \in Asking
  BY <1>11, IdleIs DEF CallOK
<1>13. Typed'
  <2> HIDE DEF r, a
  <2>1. call' \in [Call -> Asking] /\ \A d \in Call : CallOK(call'[d])
    BY <1>1, <1>4, <1>12
  <2> QED BY <1>1, <1>3, <1>10, <2>1
<1>14. Rest'
  <2>1. clean' \in BOOLEAN
    BY <1>1 DEF Rest
  <2> QED BY <1>1, <2>1 DEF Rest
<1>15. ASSUME clean' PROVE Alone(call', tab', server', cookie')
  <2>1. clean /\ Alone(call, tab, server, cookie) /\ (a.ok \/ a.kind \notin {"me", "refresh", "logout"})
    BY <1>1, <1>15
  <2>2. a.gone = FALSE /\ Answered(a, tab, server, cookie)
    BY <1>1, <1>2, <2>1 DEF Alone
  <2>3. \A d \in Call \ {c} : call[d] = Idle
    BY <1>2, <2>1, Alone1
  <2>4. tab' = q /\ Kept(l, tab')
    BY <1>8, <1>9, <2>2
  <2>5. CASE GoesOn(a)
    <3>1. call' = [call EXCEPT ![c] = n]
      BY <1>1, <2>2, <2>5
    <3>2. Sent(n, tab', server, Jar(a))
      BY <1>11 DEF Sent
    <3>3. Alone([call EXCEPT ![c] = n], tab', server, Jar(a))
      <4> HIDE DEF a
      <4> QED BY <1>4, <1>11, <2>3, <3>2, AloneOne
    <3> QED BY <1>1, <3>1, <3>3
  <2>6. CASE ~GoesOn(a)
    <3>1. call' = [call EXCEPT ![c] = Idle]
      BY <1>1, <2>6
    <3>2. tab \in Tabs /\ Kept(Learned(tab, a), tab')
      BY <2>4 DEF l
    <3>3. Agree(tab', server, JarOf(a.jar, cookie))
      <4> HIDE DEF a
      <4> QED BY <1>2, <2>1, <2>2, <2>6, <3>2, AnswerAgrees
    <3>4. Alone([call EXCEPT ![c] = Idle], tab', server, Jar(a))
      <4> HIDE DEF a
      <4> QED BY <1>3, <1>4, <2>3, <3>3, AloneNone
    <3> QED BY <1>1, <3>1, <3>4
  <2> QED BY <2>5, <2>6
<1> QED BY <1>10, <1>13, <1>14, <1>15
(* An answer that is lost.                                                 *)
LEMMA StepLose ==
  ASSUME SessionInv, NEW c \in Call, Lose(c)
  PROVE  SessionInv' /\ (tab'.status = "confirmed" => tab.status = "confirmed" \/ tab'.user.verified)
<1> USE DEF SessionInv, Typed
<1> DEFINE a == call[c]
           b == [a EXCEPT !.ok = FALSE]
           l == Learned(tab, b)
           p == Released(Lettered(l, b), c, b)
           q == Settled(Directed(p, c, b))
<1>1. /\ a.phase = "served" /\ tab' = IF a.gone THEN tab ELSE q
      /\ call' = [call EXCEPT ![c] = Idle] /\ clean' = FALSE
      /\ UNCHANGED <<server, cookie, torn, asks>>
  BY DEF Lose
<1>2. /\ b \in Asking /\ b.ok = FALSE /\ b.user \in Visitor
      /\ b.place \in {"none", "page", "modal"}
  <2>1. a \in Asking
    OBVIOUS
  <2> HIDE DEF a
  <2> QED BY <2>1 DEF Asking
<1> HIDE DEF b
<1>3. l \in Tabs /\ l.status = tab.status
  BY <1>2, LearnedIs
<1> HIDE DEF l
<1> DEFINE m == Lettered(l, b)
<1>4. Kept(l, m) /\ m.status = l.status
  BY <1>3, LetteredIs
<1>5. p = Released(m, c, b)
  OBVIOUS
<1> HIDE DEF m, p
<1>6. m \in Tabs /\ m.ready = l.ready /\ m.user = l.user
  BY <1>4 DEF Kept
<1>7. Kept(m, p) /\ p.status = m.status
  BY <1>2, <1>5, <1>6, ReleasedIs
<1>8. p \in Tabs /\ Kept(l, p) /\ p.status = l.status
  BY <1>4, <1>6, <1>7 DEF Kept
<1>9. Kept(l, q) /\ (q.status = "confirmed" => l.status = "confirmed" \/ l.user.verified)
  BY <1>2, <1>3, <1>8, GuidedIs
<1> HIDE DEF q
<1>10. tab' \in Tabs /\ (tab'.status = "confirmed" => tab.status = "confirmed" \/ tab'.user.verified)
  BY <1>1, <1>3, <1>9 DEF Kept
<1>11. call' \in [Call -> Asking] /\ \A d \in Call : CallOK(call'[d])
  BY <1>1, IdleIs
<1>12. Rest'
  BY <1>1 DEF Rest
<1> QED BY <1>1, <1>10, <1>11, <1>12

(* An answer that breaks off.                                              *)
LEMMA StepTear ==
  ASSUME SessionInv, NEW c \in Call, Tear(c)
  PROVE  SessionInv' /\ tab' = tab
<1> USE DEF SessionInv, Typed
<1> DEFINE a == call[c]
<1>1. /\ cookie' = Jar(a) /\ call' = [call EXCEPT ![c] = Idle]
      /\ clean' = FALSE /\ torn' = TRUE /\ UNCHANGED <<server, tab, asks>>
  BY DEF Tear
<1>2. a \in Asking
  OBVIOUS
<1>3. cookie' \in SessionId \cup {None}
  <2> HIDE DEF a
  <2>1. a.jar \in SessionId \cup {"keep", "drop"}
    BY <1>2 DEF Asking
  <2> QED BY <1>1, <2>1 DEF Jar
<1>4. call' \in [Call -> Asking] /\ \A d \in Call : CallOK(call'[d])
  BY <1>1, IdleIs
<1>5. Rest'
  BY <1>1 DEF Rest
<1> QED BY <1>1, <1>3, <1>4, <1>5

LEMMA SessionInit == Init => SessionInv
<1> SUFFICES ASSUME Init PROVE SessionInv
  OBVIOUS
<1> DEFINE s == CHOOSE x \in SessionId : TRUE
           c == CHOOSE d \in Call : TRUE
           a == [Idle EXCEPT !.kind = "me", !.phase = "sent", !.session = cookie]
<1>1. PICK members \in SUBSET User, verified \in SUBSET User, holder \in User \cup {None}, page \in Pages :
        /\ server = [owner |-> [x \in SessionId |-> IF x = s THEN holder ELSE None],
                     members |-> members, verified |-> verified]
        /\ cookie = (IF holder = None THEN None ELSE s)
        /\ tab = Loaded(page)
        /\ call = [d \in Call |-> IF d = c THEN a ELSE Idle]
        /\ clean = TRUE /\ torn = FALSE /\ asks = 0
  BY DEF Init
<1>2. s \in SessionId
  BY SessionConstants
<1> HIDE DEF s, c
<1>3. server \in Servers
  <2> DEFINE o == [x \in SessionId |-> IF x = s THEN holder ELSE None]
  <2>1. o \in [SessionId -> User \cup {None}]
    OBVIOUS
  <2>2. server = [owner |-> o, members |-> members, verified |-> verified]
    BY <1>1
  <2> HIDE DEF o
  <2> QED BY <2>1, <2>2 DEF Servers
<1>4. cookie \in SessionId \cup {None}
  BY <1>1, <1>2
<1>5. tab \in Tabs /\ tab.ready = FALSE
  BY <1>1, LoadedIs DEF Loaded
<1>6. CallOK(a) /\ a.gone = FALSE /\ a.phase = "sent" /\ a.session = cookie /\ a.kind = "me" /\ a # Idle
  <2> DEFINE i == Idle
  <2>1. i \in Asking /\ i.gone = FALSE /\ i.phase = "idle" /\ "me" \in Kinds
    BY IdleIs DEF Kinds
  <2>2. a = [i EXCEPT !.kind = "me", !.phase = "sent", !.session = cookie]
    OBVIOUS
  <2> HIDE DEF i, a
  <2>3. /\ a \in Asking /\ a.gone = FALSE /\ a.phase = "sent" /\ a.session = cookie
        /\ a.kind = "me" /\ a # i
    BY <1>4, <2>1, <2>2 DEF Asking
  <2>4. CallOK(a)
    BY <2>3 DEF CallOK
  <2> QED BY <2>3, <2>4 DEF i
<1> HIDE DEF a
<1>7. call \in [Call -> Asking] /\ \A d \in Call : CallOK(call[d])
  BY <1>1, <1>6, IdleIs DEF CallOK
<1>8. Rest
  <2>1. clean = TRUE /\ torn = FALSE
    BY <1>1
  <2>2. asks = 0 /\ Asks \in Nat
    BY <1>1, SessionConstants
  <2>3. clean \in BOOLEAN /\ torn \in BOOLEAN
    BY <2>1, Zenon
  <2>4. asks \in 0 .. Asks
    BY <2>2
  <2> QED BY <2>3, <2>4 DEF Rest
<1>9. Alone(call, tab, server, cookie)
  <2>1. Sent(a, tab, server, cookie)
    BY <1>6 DEF Sent
  <2>2. \A d \in Call : call[d] # Idle => d = c /\ call[d] = a
    BY <1>1
  <2>3. Agree(tab, server, cookie)
    BY <1>5 DEF Agree
  <2> QED BY <1>6, <2>1, <2>2, <2>3 DEF Alone
<1> QED BY <1>3, <1>4, <1>5, <1>7, <1>8, <1>9 DEF SessionInv, Typed

LEMMA SessionStep ==
  ASSUME SessionInv, [Next]_vars
  PROVE  /\ SessionInv'
         /\ tab.status # "confirmed" /\ tab'.status = "confirmed" => tab'.user.verified
<1>1. ASSUME NEW c \in Call, Visit(c) \/ Serve(c) \/ Answer(c) \/ Lose(c) \/ Tear(c)
      PROVE  SessionInv' /\ (tab'.status = "confirmed" => tab.status = "confirmed" \/ tab'.user.verified)
  <2>1. CASE Visit(c)
    BY <2>1, StepVisit
  <2>2. CASE Serve(c)
    <3>1. tab' = tab
      BY <2>2 DEF Serve, Refuse, ServeMe, ServeEntry, ServeVerify, ServeMember, ServeEnd,
                  ServeForgot, Opens, Serves
    <3> QED BY <2>2, <3>1, StepServe
  <2>3. CASE Answer(c)
    BY <2>3, StepAnswer
  <2>4. CASE Lose(c)
    BY <2>4, StepLose
  <2>5. CASE Tear(c)
    BY <2>5, StepTear
  <2> QED BY <1>1, <2>1, <2>2, <2>3, <2>4, <2>5
<1>2. ASSUME CloseModal \/ \E view \in {"login", "register"} : OpenModal(view)
      PROVE  SessionInv' /\ (tab'.status = "confirmed" => tab.status = "confirmed")
  BY <1>2, StepModal
<1>3. ASSUME NEW page \in Pages, Navigate(page) \/ Load(page)
      PROVE  SessionInv' /\ (tab'.status = "confirmed" => tab.status = "confirmed" \/ tab'.user.verified)
  <2>1. CASE Navigate(page)
    BY <2>1, StepNavigate
  <2>2. CASE Load(page)
    BY <2>2, StepLoad
  <2> QED BY <1>3, <2>1, <2>2
<1>4. ASSUME NEW u \in User, LoadLink(u)
      PROVE  SessionInv' /\ tab'.status # "confirmed"
  BY <1>4, StepLoadLink
<1>5. CASE UNCHANGED vars
  <2>1. UNCHANGED <<server, cookie, tab, call, clean, torn, asks>>
    BY <1>5 DEF vars
  <2> QED BY <2>1 DEF SessionInv, Typed, Rest
<1>6. ASSUME Stored
      PROVE  SessionInv' /\ (tab'.status = "confirmed" => tab.status = "confirmed" \/ tab'.user.verified)
  BY <1>6, StepStored
<1>7. CASE Next
  BY <1>1, <1>2, <1>3, <1>4, <1>6, <1>7 DEF Next
<1> QED BY <1>5, <1>7

(* The strengthening holds: calls are what they should be, and as long as  *)
(* they come one at a time and succeed, tab, cookie and backend agree, or  *)
(* will once the call under way is answered.                               *)
THEOREM SessionHolds == Spec => []SessionInv
<1>1. SessionInv /\ [Next]_vars => SessionInv'
  BY SessionStep
<1> QED BY <1>1, SessionInit, PTL DEF Spec

(* As long as calls come one at a time and succeed, a tab that is ready    *)
(* shows whom the browser's session belongs to: user in auth-context.tsx   *)
(* is the owner the backend would resolve the cookie to.                   *)
THEOREM ShownIsOwner == Spec => []ShownIsSession
<1>1. SessionInv => ShownIsSession
  <2> SUFFICES ASSUME SessionInv, clean, Quiet, tab.ready
               PROVE  tab.user = Public(server, OwnerOf(cookie))
    BY DEF ShownIsSession
  <2>1. Agree(tab, server, cookie)
    BY DEF SessionInv, Alone, Quiet
  <2> QED BY <2>1, OwnerIs DEF Agree
<1> QED BY <1>1, SessionHolds, PTL

(* Whatever overlaps, fails or breaks off, verify-email-panel.tsx turns to *)
(* "confirmed" only when the tab shows a visitor whose address is.         *)
THEOREM ConfirmsOnSight == Spec => ConfirmedOnSight
<1>1. SessionInv /\ [Next]_vars =>
        [tab.status # "confirmed" /\ tab'.status = "confirmed" => tab'.user.verified]_vars
  BY SessionStep
<1> QED BY <1>1, SessionHolds, PTL DEF Spec, ConfirmedOnSight

(* Tab, calls, cookie and backend keep their types.                        *)
THEOREM SessionTyped == Spec => []TypeOK
<1>1. SessionInv => TypeOK
  BY DEF SessionInv, Typed, Rest, TypeOK, Servers, Tabs, Asking
<1> QED BY <1>1, SessionHolds, PTL
=============================================================================
