---- MODULE PagesProofs ----
(***************************************************************************)
(* The pages, for any comments, entries, requests and others who write.    *)
(*                                                                         *)
(* Each page keeps a copy of what the service has, and changes it after    *)
(* most answers by itself.  The invariants say what the copy and the       *)
(* requests under way come to together: what the page will show once they  *)
(* are answered is what the service has.                                   *)
(***************************************************************************)
EXTENDS MCPages, Sequences, FiniteSetTheorems, SequenceTheorems, WellFoundedInduction, TLAPS
-----------------------------------------------------------------------------
(***************************************************************************)
(* The heart.                                                              *)
(***************************************************************************)
Tapped == [phase : {"sent", "found", "done", "refused"}, found : BOOLEAN, number : Nat]

Underway(ts) == ts \in Seq(Tapped) /\ Len(ts) <= Flights

Unwritten(ts) == {i \in 1 .. Len(ts) : ts[i].phase \in {"sent", "found"}}

(* Every tap that is still to be written was made, and no answer is of a   *)
(* write that was not.                                                     *)
Numbered(ts, w, n) ==
  /\ \A i \in 1 .. Len(ts) : ts[i].number <= w
  /\ w + Cardinality(Unwritten(ts)) <= n

(* The latest write is shown, or its answer is on the way, or nothing has  *)
(* been written since the taps began: then whatever was found still is so. *)
Follows(ts, w, l, shown, is) ==
  \/ l = w /\ shown = is
  \/ \E i \in 1 .. Len(ts) : ts[i].phase = "done" /\ ts[i].number = w /\ is = ~ts[i].found
  \/ /\ Len(ts) # 0
     /\ \A i \in 1 .. Len(ts) :
          ts[i].phase = "sent" \/ (ts[i].phase = "found" /\ ts[i].found = is)

LikesInv ==
  /\ liked \in BOOLEAN /\ loaded \in BOOLEAN /\ heart \in BOOLEAN /\ settled \in BOOLEAN
  /\ Underway(taps)
  /\ writes \in Nat /\ last \in Nat /\ last <= writes /\ turns \in Nat /\ turns <= Turns
  /\ Numbered(taps, writes, turns)
  /\ settled => Follows(taps, writes, last, heart, liked)

LEMMA LikesConstants == Flights \in Nat /\ Turns \in Nat
BY PagesAssumption DEF L!LikesAssumption

LEMMA ImageIs ==
  ASSUME NEW xs, IsFiniteSet(xs), NEW ys, NEW g \in [xs -> ys], \A t \in ys : \E x \in xs : g[x] = t
  PROVE  IsFiniteSet(ys) /\ Cardinality(ys) <= Cardinality(xs)
<1>1. g \in Surjection(xs, ys)
  BY DEF Surjection
<1> QED BY <1>1, FS_Surjection

LEMMA RemovedIs ==
  ASSUME NEW Q, NEW s \in Seq(Q), NEW i \in 1 .. Len(s)
  PROVE  /\ L!RemoveAt(s, i) \in Seq(Q) /\ Len(L!RemoveAt(s, i)) = Len(s) - 1
         /\ \A j \in 1 .. Len(s) - 1 : L!RemoveAt(s, i)[j] = s[IF j < i THEN j ELSE j + 1]
<1>1. Len(s) \in Nat /\ i \in Nat /\ 1 <= i /\ i <= Len(s)
  OBVIOUS
<1> DEFINE a == SubSeq(s, 1, i - 1)
           b == SubSeq(s, i + 1, Len(s))
<1>2. a \in Seq(Q) /\ Len(a) = i - 1 /\ \A j \in 1 .. i - 1 : a[j] = s[j]
  BY <1>1
<1>3. b \in Seq(Q) /\ Len(b) = Len(s) - i /\ \A j \in 1 .. Len(s) - i : b[j] = s[j + i]
  BY <1>1
<1>4. L!RemoveAt(s, i) = a \o b
  BY DEF L!RemoveAt
<1> HIDE DEF a, b
<1>5. a \o b \in Seq(Q) /\ Len(a \o b) = Len(s) - 1
  <2>1. a \o b \in Seq(Q) /\ Len(a \o b) = Len(a) + Len(b)
    <3>1. a \in Seq(Q) /\ b \in Seq(Q)
      BY <1>2, <1>3
    <3>2. a \o b \in Seq(Q)
      BY <3>1
    <3>3. Len(a \o b) = Len(a) + Len(b)
      BY <3>1
    <3> QED BY <3>2, <3>3
  <2>2. Len(a) + Len(b) = Len(s) - 1
    BY <1>1, <1>2, <1>3
  <2> QED BY <2>1, <2>2
<1>6. \A j \in 1 .. Len(s) - 1 : (a \o b)[j] = IF j < i THEN a[j] ELSE b[j - i + 1]
  BY <1>1, <1>2, <1>3
<1>7. ASSUME NEW j \in 1 .. Len(s) - 1
      PROVE  (a \o b)[j] = s[IF j < i THEN j ELSE j + 1]
  <2>1. CASE j < i
    BY <1>1, <1>2, <1>6, <2>1
  <2>2. CASE ~(j < i)
    <3>1. j - i + 1 \in 1 .. Len(s) - i /\ (j - i + 1) + i = j + 1
      BY <1>1, <2>2
    <3> QED BY <1>3, <1>6, <2>2, <3>1
  <2> QED BY <2>1, <2>2
<1> QED BY <1>4, <1>5, <1>7

(* There are finitely many taps to be written.                             *)
LEMMA UnwrittenFinite ==
  ASSUME NEW ts \in Seq(Tapped)
  PROVE  IsFiniteSet(Unwritten(ts)) /\ Cardinality(Unwritten(ts)) \in Nat
<1>1. IsFiniteSet(1 .. Len(ts))
  BY FS_Interval
<1>2. Unwritten(ts) \in SUBSET (1 .. Len(ts))
  BY DEF Unwritten
<1>3. IsFiniteSet(Unwritten(ts))
  BY <1>1, <1>2, FS_Subset
<1> QED BY <1>3, FS_CardinalityType

(* With a tap gone there are no more to be written than before, and one    *)
(* less when it was one of them.                                           *)
LEMMA UnwrittenLess ==
  ASSUME NEW ts \in Seq(Tapped), NEW n \in 1 .. Len(ts)
  PROVE  Cardinality(Unwritten(L!RemoveAt(ts, n))) <= Cardinality(Unwritten(ts))
<1> DEFINE us == L!RemoveAt(ts, n)
           xs == Unwritten(ts) \ {n}
           ys == Unwritten(us)
           g == [i \in xs |-> IF i < n THEN i ELSE i - 1]
<1>1. /\ us \in Seq(Tapped) /\ Len(us) = Len(ts) - 1 /\ Len(ts) \in Nat
      /\ \A j \in 1 .. Len(ts) - 1 : us[j] = ts[IF j < n THEN j ELSE j + 1]
  <2>1. Len(ts) \in Nat
    OBVIOUS
  <2> QED BY <2>1, RemovedIs
<1> HIDE DEF us
<1>2. IsFiniteSet(xs) /\ Cardinality(xs) <= Cardinality(Unwritten(ts))
      /\ Cardinality(xs) \in Nat /\ Cardinality(Unwritten(ts)) \in Nat
  <2>1. IsFiniteSet(Unwritten(ts)) /\ xs \in SUBSET Unwritten(ts)
    BY UnwrittenFinite
  <2> HIDE DEF xs
  <2> QED BY <2>1, FS_Subset, FS_CardinalityType
<1>3. g \in [xs -> ys]
  <2> SUFFICES ASSUME NEW i \in xs PROVE (IF i < n THEN i ELSE i - 1) \in ys
    OBVIOUS
  <2>1. i \in 1 .. Len(ts) /\ i # n /\ ts[i].phase \in {"sent", "found"} /\ n \in Nat
    BY DEF Unwritten
  <2>2. CASE i < n
    <3>1. i \in 1 .. Len(ts) - 1
      BY <1>1, <2>1, <2>2
    <3>2. us[i] = ts[i]
      BY <1>1, <2>2, <3>1
    <3> QED BY <1>1, <2>1, <2>2, <3>1, <3>2 DEF Unwritten
  <2>3. CASE ~(i < n)
    <3>1. i - 1 \in 1 .. Len(ts) - 1 /\ ~(i - 1 < n) /\ (i - 1) + 1 = i
      BY <1>1, <2>1, <2>3
    <3>2. us[i - 1] = ts[i]
      BY <1>1, <3>1
    <3> QED BY <1>1, <2>1, <2>3, <3>1, <3>2 DEF Unwritten
  <2> QED BY <2>2, <2>3
<1>4. \A j \in ys : \E i \in xs : g[i] = j
  <2> SUFFICES ASSUME NEW j \in ys PROVE \E i \in xs : (IF i < n THEN i ELSE i - 1) = j
    OBVIOUS
  <2>1. j \in 1 .. Len(ts) - 1 /\ us[j].phase \in {"sent", "found"} /\ n \in Nat
    BY <1>1 DEF Unwritten
  <2>2. CASE j < n
    <3>1. us[j] = ts[j] /\ j \in 1 .. Len(ts) /\ j # n
      BY <1>1, <2>1, <2>2
    <3>2. j \in xs
      BY <2>1, <3>1 DEF Unwritten
    <3> QED BY <2>2, <3>2
  <2>3. CASE ~(j < n)
    <3>1. us[j] = ts[j + 1] /\ j + 1 \in 1 .. Len(ts) /\ j + 1 # n /\ ~(j + 1 < n) /\ (j + 1) - 1 = j
      BY <1>1, <2>1, <2>3
    <3>2. j + 1 \in xs
      BY <2>1, <3>1 DEF Unwritten
    <3> QED BY <3>1, <3>2
  <2> QED BY <2>2, <2>3
<1>5. Cardinality(ys) <= Cardinality(xs) /\ Cardinality(ys) \in Nat
  <2>1. Cardinality(ys) <= Cardinality(xs)
    <3> HIDE DEF g, xs, ys
    <3> QED BY <1>2, <1>3, <1>4, ImageIs
  <2> QED BY <1>1, <2>1, UnwrittenFinite
<1> QED BY <1>2, <1>5 DEF us

(* One of the taps becomes another.                                        *)
LEMMA ChangedIs ==
  ASSUME NEW ts \in Seq(Tapped), NEW n \in 1 .. Len(ts), NEW r \in Tapped
  PROVE  LET us == [ts EXCEPT ![n] = r] IN
         /\ us \in Seq(Tapped) /\ Len(us) = Len(ts)
         /\ \A j \in 1 .. Len(ts) : us[j] = IF j = n THEN r ELSE ts[j]
BY ExceptSeq

LEMMA LikesMeans == LikesInv => L!TypeOK /\ L!HeartTrue
<1> SUFFICES ASSUME LikesInv PROVE L!TypeOK /\ L!HeartTrue
  OBVIOUS
<1>1. L!TypeOK
  <2>1. {liked, loaded, heart, settled} \subseteq BOOLEAN
    BY DEF LikesInv
  <2>2. Len(taps) <= Flights /\ last \in 0 .. writes /\ turns \in 0 .. Turns
    BY LikesConstants DEF LikesInv, Underway
  <2>3. writes \in 0 .. Turns
    <3>1. Cardinality(Unwritten(taps)) \in Nat
      BY UnwrittenFinite DEF LikesInv, Underway
    <3>2. writes + Cardinality(Unwritten(taps)) <= turns
      BY DEF LikesInv, Numbered
    <3> QED BY <3>1, <3>2, LikesConstants DEF LikesInv
  <2> QED BY <2>1, <2>2, <2>3 DEF L!TypeOK
<1>2. L!HeartTrue
  <2> SUFFICES ASSUME settled, taps = <<>> PROVE heart = liked
    BY DEF L!HeartTrue
  <2>1. Follows(taps, writes, last, heart, liked) /\ Len(taps) = 0
    BY DEF LikesInv
  <2> QED BY <2>1 DEF Follows
<1> QED BY <1>1, <1>2

LEMMA LikesBegin == L!Init => LikesInv
<1> SUFFICES ASSUME L!Init PROVE LikesInv
  OBVIOUS
<1>1. liked \in BOOLEAN /\ loaded \in BOOLEAN /\ heart \in BOOLEAN /\ settled \in BOOLEAN
  BY Zenon DEF L!Init
<1>2. taps = <<>> /\ taps \in Seq(Tapped) /\ Len(taps) = 0 /\ writes = 0 /\ last = 0 /\ turns = 0
      /\ heart = liked
  BY DEF L!Init
<1>3. Unwritten(taps) = {} /\ Cardinality(Unwritten(taps)) = 0
  BY <1>2, FS_EmptySet DEF Unwritten
<1> QED BY <1>1, <1>2, <1>3, LikesConstants DEF LikesInv, Underway, Numbered, Follows

(* A tap.                                                                  *)
LEMMA TapFine == LikesInv /\ L!Tap => LikesInv'
<1> SUFFICES ASSUME LikesInv, L!Tap PROVE LikesInv'
  OBVIOUS
<1> DEFINE n == Len(taps)
           us == Append(taps, L!Fresh)
<1>1. /\ turns < Turns /\ turns' = turns + 1 /\ n < Flights /\ taps' = us
      /\ liked' = liked /\ loaded' = loaded /\ heart' = heart /\ writes' = writes /\ last' = last
      /\ settled' = (settled \/ taps = <<>>)
  BY DEF L!Tap, L!Turn
<1>2. taps \in Seq(Tapped) /\ n \in Nat /\ \A i \in 1 .. n : taps[i].number <= writes
  BY DEF LikesInv, Underway, Numbered
<1>3. L!Fresh \in Tapped /\ L!Fresh.number = 0 /\ L!Fresh.phase = "sent"
  BY DEF L!Fresh, Tapped
<1> HIDE DEF L!Fresh
<1>4. /\ us \in Seq(Tapped) /\ Len(us) = n + 1
      /\ \A i \in 1 .. n + 1 : us[i] = IF i <= n THEN taps[i] ELSE L!Fresh
  BY <1>2, <1>3
<1> HIDE DEF us, n
<1>5. writes \in Nat /\ turns \in Nat /\ last \in Nat /\ last <= writes
      /\ Flights \in Nat /\ Turns \in Nat
  BY LikesConstants DEF LikesInv
<1>6. Unwritten(us) = Unwritten(taps) \cup {n + 1}
  BY <1>2, <1>3, <1>4 DEF Unwritten, n
<1>7. Cardinality(Unwritten(us)) <= Cardinality(Unwritten(taps)) + 1
      /\ Cardinality(Unwritten(us)) \in Nat /\ Cardinality(Unwritten(taps)) \in Nat
  <2>1. IsFiniteSet(Unwritten(taps)) /\ Cardinality(Unwritten(taps)) \in Nat
        /\ Cardinality(Unwritten(us)) \in Nat
    BY <1>2, <1>4, UnwrittenFinite
  <2>2. Cardinality(Unwritten(us)) = IF n + 1 \in Unwritten(taps) THEN Cardinality(Unwritten(taps))
                                     ELSE Cardinality(Unwritten(taps)) + 1
    BY <1>6, <2>1, FS_AddElement
  <2> QED BY <2>1, <2>2
<1>8. Numbered(us, writes, turns + 1)
  <2>1. \A i \in 1 .. Len(us) : us[i].number <= writes
    BY <1>2, <1>3, <1>4, <1>5
  <2>2. writes + Cardinality(Unwritten(taps)) <= turns
    BY DEF LikesInv, Numbered
  <2> QED BY <1>5, <1>7, <2>1, <2>2 DEF Numbered
<1>9. settled' => Follows(us, writes, last, heart, liked)
  <2>1. CASE settled
    <3>1. Follows(taps, writes, last, heart, liked)
      BY <2>1 DEF LikesInv
    <3>2. \A i \in 1 .. n : i \in 1 .. n + 1 /\ us[i] = taps[i]
      BY <1>2, <1>4
    <3> QED BY <1>2, <1>3, <1>4, <3>1, <3>2 DEF Follows, n
  <2>2. CASE taps = <<>>
    <3>1. n = 0
      BY <2>2 DEF n
    <3>2. Len(us) # 0 /\ \A i \in 1 .. Len(us) : us[i].phase = "sent"
      BY <1>3, <1>4, <3>1
    <3> QED BY <3>2 DEF Follows
  <2> QED BY <1>1, <2>1, <2>2
<1>10. Underway(us)
  BY <1>1, <1>2, <1>4, <1>5 DEF Underway
<1>11. liked' \in BOOLEAN /\ loaded' \in BOOLEAN /\ heart' \in BOOLEAN /\ settled' \in BOOLEAN
  BY <1>1 DEF LikesInv
<1>12. turns' \in Nat /\ turns' <= Turns /\ writes' \in Nat /\ last' \in Nat /\ last' <= writes'
  BY <1>1, <1>5
<1> QED BY <1>1, <1>8, <1>9, <1>10, <1>11, <1>12 DEF LikesInv

(* The service looks for the like.                                         *)
LEMMA FindFine == ASSUME LikesInv, NEW n \in DOMAIN taps, L!Find(n) PROVE LikesInv'
<1> DEFINE r == [taps[n] EXCEPT !.phase = "found", !.found = liked]
           us == [taps EXCEPT ![n] = r]
<1>1. taps \in Seq(Tapped) /\ Len(taps) <= Flights /\ n \in 1 .. Len(taps)
      /\ taps[n] \in Tapped /\ taps[n].phase = "sent"
  BY DEF LikesInv, Underway, L!Find
<1>2. r \in Tapped /\ r.phase = "found" /\ r.number = taps[n].number /\ r.found = liked
  BY <1>1 DEF LikesInv, Tapped
<1>3. taps' = us
  BY <1>1 DEF L!Find, Tapped
<1> HIDE DEF r
<1>4. /\ us \in Seq(Tapped) /\ Len(us) = Len(taps)
      /\ \A j \in 1 .. Len(taps) : us[j] = IF j = n THEN r ELSE taps[j]
  BY <1>1, <1>2, ChangedIs
<1> HIDE DEF us
<1>5. /\ liked' = liked /\ loaded' = loaded /\ heart' = heart /\ writes' = writes /\ last' = last
      /\ settled' = settled /\ turns' = turns
  BY DEF L!Find
<1>6. Unwritten(us) = Unwritten(taps)
  BY <1>1, <1>2, <1>4 DEF Unwritten
<1>7. Numbered(us, writes, turns)
  <2>1. Numbered(taps, writes, turns)
    BY DEF LikesInv
  <2> QED BY <1>1, <1>2, <1>4, <1>6, <2>1 DEF Numbered
<1>8. settled => Follows(us, writes, last, heart, liked)
  <2> SUFFICES ASSUME settled PROVE Follows(us, writes, last, heart, liked)
    OBVIOUS
  <2>1. Follows(taps, writes, last, heart, liked)
    BY DEF LikesInv
  <2> QED BY <1>1, <1>2, <1>4, <2>1 DEF Follows
<1> QED BY <1>1, <1>3, <1>4, <1>5, <1>7, <1>8 DEF LikesInv, Underway

(* The service writes: the tap found what is there, unless another one was *)
(* written since, and then the latter's answer says what is.               *)
LEMMA WriteFine == ASSUME LikesInv, NEW n \in DOMAIN taps, L!Write(n) PROVE LikesInv'
<1>1. taps \in Seq(Tapped) /\ Len(taps) <= Flights /\ n \in 1 .. Len(taps)
      /\ taps[n] \in Tapped /\ taps[n].phase = "found" /\ taps[n].found \in BOOLEAN
  <2>1. taps \in Seq(Tapped) /\ Len(taps) <= Flights /\ taps[n].phase = "found"
    BY DEF LikesInv, Underway, L!Write
  <2>2. n \in 1 .. Len(taps) /\ taps[n] \in Tapped
    BY <2>1
  <2>3. taps[n].found \in BOOLEAN
    BY <2>2 DEF Tapped
  <2> QED BY <2>1, <2>2, <2>3
<1>2. /\ loaded' = loaded /\ heart' = heart /\ last' = last /\ settled' = settled /\ turns' = turns
  BY DEF L!Write
<1>3. liked \in BOOLEAN /\ writes \in Nat /\ last \in Nat /\ last <= writes /\ turns \in Nat
      /\ Numbered(taps, writes, turns)
  BY DEF LikesInv
<1>4. /\ IsFiniteSet(Unwritten(taps)) /\ Cardinality(Unwritten(taps)) \in Nat
      /\ Cardinality(Unwritten(taps) \ {n}) = Cardinality(Unwritten(taps)) - 1
  <2>1. IsFiniteSet(Unwritten(taps)) /\ Cardinality(Unwritten(taps)) \in Nat
    BY <1>1, UnwrittenFinite
  <2>2. n \in Unwritten(taps)
    BY <1>1 DEF Unwritten
  <2> QED BY <2>1, <2>2, FS_RemoveElement
<1>5. CASE ~taps[n].found /\ liked
  <2> DEFINE r == [taps[n] EXCEPT !.phase = "refused"]
             us == [taps EXCEPT ![n] = r]
  <2>1. taps' = us /\ liked' = liked /\ writes' = writes
    BY <1>1, <1>5 DEF L!Write, Tapped
  <2>2. r \in Tapped /\ r.phase = "refused" /\ r.number = taps[n].number
    BY <1>1 DEF Tapped
  <2> HIDE DEF r
  <2>3. /\ us \in Seq(Tapped) /\ Len(us) = Len(taps)
        /\ \A j \in 1 .. Len(taps) : us[j] = IF j = n THEN r ELSE taps[j]
    BY <1>1, <2>2, ChangedIs
  <2> HIDE DEF us
  <2>4. Unwritten(us) = Unwritten(taps) \ {n}
    BY <1>1, <2>2, <2>3 DEF Unwritten
  <2>5. Numbered(us, writes, turns)
    <3>1. \A i \in 1 .. Len(us) : us[i].number <= writes
      BY <1>1, <1>3, <2>2, <2>3 DEF Numbered
    <3>2. writes + Cardinality(Unwritten(us)) <= turns
      BY <1>3, <1>4, <2>4 DEF Numbered
    <3> QED BY <3>1, <3>2 DEF Numbered
  <2>6. settled => Follows(us, writes, last, heart, liked)
    <3> SUFFICES ASSUME settled PROVE Follows(us, writes, last, heart, liked)
      OBVIOUS
    <3>1. Follows(taps, writes, last, heart, liked)
      BY DEF LikesInv
    <3>2. taps[n].found # liked
      BY <1>1, <1>3, <1>5
    <3>3. \A i \in 1 .. Len(taps) : taps[i].phase = "done" => us[i] = taps[i]
      BY <1>1, <2>3
    <3> QED BY <1>1, <2>3, <3>1, <3>2, <3>3 DEF Follows
  <2> QED BY <1>1, <1>2, <2>1, <2>3, <2>5, <2>6 DEF LikesInv, Underway
<1>6. CASE ~(~taps[n].found /\ liked)
  <2> DEFINE r == [taps[n] EXCEPT !.phase = "done", !.number = writes + 1]
             us == [taps EXCEPT ![n] = r]
  <2>1. taps' = us /\ liked' = ~taps[n].found /\ writes' = writes + 1
    BY <1>1, <1>6 DEF L!Write, Tapped
  <2>2. r \in Tapped /\ r.phase = "done" /\ r.number = writes + 1 /\ r.found = taps[n].found
    <3>1. writes + 1 \in Nat
      BY <1>3
    <3> DEFINE w == writes + 1
    <3> HIDE DEF w
    <3>2. w \in Nat
      BY <3>1 DEF w
    <3>3. /\ [taps[n] EXCEPT !.phase = "done", !.number = w] \in Tapped
          /\ [taps[n] EXCEPT !.phase = "done", !.number = w].phase = "done"
          /\ [taps[n] EXCEPT !.phase = "done", !.number = w].number = w
          /\ [taps[n] EXCEPT !.phase = "done", !.number = w].found = taps[n].found
      BY <1>1, <3>2 DEF Tapped
    <3> QED BY <3>3 DEF w
  <2> HIDE DEF r
  <2>3. /\ us \in Seq(Tapped) /\ Len(us) = Len(taps)
        /\ \A j \in 1 .. Len(taps) : us[j] = IF j = n THEN r ELSE taps[j]
    BY <1>1, <2>2, ChangedIs
  <2> HIDE DEF us
  <2>4. Unwritten(us) = Unwritten(taps) \ {n}
    BY <1>1, <2>2, <2>3 DEF Unwritten
  <2>5. Numbered(us, writes + 1, turns)
    <3>1. \A i \in 1 .. Len(us) : us[i].number <= writes + 1
      <4> SUFFICES ASSUME NEW i \in 1 .. Len(us) PROVE us[i].number <= writes + 1
        OBVIOUS
      <4>1. CASE i = n
        BY <1>3, <2>2, <2>3, <4>1
      <4>2. CASE i # n
        <5>1. us[i] = taps[i] /\ taps[i] \in Tapped /\ taps[i].number <= writes
          BY <1>1, <1>3, <2>3, <4>2 DEF Numbered
        <5> QED BY <1>3, <5>1 DEF Tapped
      <4> QED BY <4>1, <4>2
    <3>2. writes + Cardinality(Unwritten(taps)) <= turns
      BY <1>3 DEF Numbered
    <3>3. Cardinality(Unwritten(us)) = Cardinality(Unwritten(taps)) - 1
      BY <1>4, <2>4
    <3>4. writes + 1 + Cardinality(Unwritten(us)) <= turns
      BY <1>3, <1>4, <3>2, <3>3
    <3> QED BY <3>1, <3>4 DEF Numbered
  <2>6. Follows(us, writes + 1, last, heart, liked')
    BY <1>1, <2>1, <2>2, <2>3 DEF Follows
  <2>7. writes' \in Nat /\ last' \in Nat /\ last' <= writes' /\ liked' \in BOOLEAN
    BY <1>1, <1>2, <1>3, <2>1
  <2>8. Underway(us)
    BY <1>1, <2>3 DEF Underway
  <2> QED BY <1>1, <1>2, <2>1, <2>5, <2>6, <2>7, <2>8 DEF LikesInv
<1> QED BY <1>5, <1>6

(* A tap comes to its end: of the others nothing changes.                  *)
LEMMA TapGone ==
  ASSUME LikesInv, NEW n \in DOMAIN taps
  PROVE  /\ Underway(L!RemoveAt(taps, n)) /\ Numbered(L!RemoveAt(taps, n), writes, turns)
         /\ taps \in Seq(Tapped) /\ n \in 1 .. Len(taps) /\ taps[n] \in Tapped
         /\ Follows(taps, writes, last, heart, liked) /\ taps[n].phase = "refused"
              => Follows(L!RemoveAt(taps, n), writes, last, heart, liked)
         /\ \A l, h : Follows(taps, writes, last, heart, liked)
                      /\ taps[n].phase = "done" /\ taps[n].number # writes /\ last # writes
              => Follows(L!RemoveAt(taps, n), writes, l, h, liked)
<1> DEFINE us == L!RemoveAt(taps, n)
<1>1. taps \in Seq(Tapped) /\ Len(taps) <= Flights /\ Len(taps) \in Nat /\ n \in 1 .. Len(taps)
  BY DEF LikesInv, Underway
<1>2. taps[n] \in Tapped /\ n \in Nat
  BY <1>1
<1>3. /\ us \in Seq(Tapped) /\ Len(us) = Len(taps) - 1
      /\ \A j \in 1 .. Len(taps) - 1 : us[j] = taps[IF j < n THEN j ELSE j + 1]
  BY <1>1, RemovedIs
<1>4. Cardinality(Unwritten(us)) <= Cardinality(Unwritten(taps))
      /\ Cardinality(Unwritten(us)) \in Nat /\ Cardinality(Unwritten(taps)) \in Nat
  <2>1. Cardinality(Unwritten(us)) <= Cardinality(Unwritten(taps))
    BY <1>1, UnwrittenLess
  <2>2. Cardinality(Unwritten(us)) \in Nat /\ Cardinality(Unwritten(taps)) \in Nat
    BY <1>1, <1>3, UnwrittenFinite
  <2> QED BY <2>1, <2>2
<1> HIDE DEF us
<1>5. Underway(us)
  BY <1>1, <1>3, LikesConstants DEF Underway
<1>6. \A j \in 1 .. Len(us) : \E i \in 1 .. Len(taps) : us[j] = taps[i]
  <2> SUFFICES ASSUME NEW j \in 1 .. Len(us) PROVE \E i \in 1 .. Len(taps) : us[j] = taps[i]
    OBVIOUS
  <2>1. (IF j < n THEN j ELSE j + 1) \in 1 .. Len(taps)
    BY <1>1, <1>3
  <2> QED BY <1>1, <1>3, <2>1
<1>7. \A i \in 1 .. Len(taps) : i # n => \E j \in 1 .. Len(us) : us[j] = taps[i]
  <2> SUFFICES ASSUME NEW i \in 1 .. Len(taps), i # n PROVE \E j \in 1 .. Len(us) : us[j] = taps[i]
    OBVIOUS
  <2>1. CASE i < n
    <3>1. i \in 1 .. Len(us)
      BY <1>1, <1>2, <1>3, <2>1
    <3>2. us[i] = taps[i]
      BY <1>1, <1>3, <2>1, <3>1
    <3> QED BY <3>1, <3>2
  <2>2. CASE ~(i < n)
    <3>1. i - 1 \in 1 .. Len(us) /\ ~(i - 1 < n) /\ (i - 1) + 1 = i
      BY <1>1, <1>2, <1>3, <2>2
    <3>2. us[i - 1] = taps[i]
      BY <1>1, <1>3, <3>1
    <3> QED BY <3>1, <3>2
  <2> QED BY <2>1, <2>2
<1>8. Numbered(us, writes, turns)
  <2>1. Numbered(taps, writes, turns) /\ writes \in Nat /\ turns \in Nat
    BY DEF LikesInv
  <2>2. \A j \in 1 .. Len(us) : us[j].number <= writes
    BY <1>6, <2>1 DEF Numbered
  <2>3. writes + Cardinality(Unwritten(us)) <= turns
    BY <1>4, <2>1 DEF Numbered
  <2> QED BY <2>2, <2>3 DEF Numbered
<1>9. ASSUME NEW l, NEW h, Follows(taps, writes, last, heart, liked),
             \E i \in 1 .. Len(taps) : i # n /\ taps[i].phase = "done" /\ taps[i].number = writes
                                       /\ liked = ~taps[i].found
      PROVE  Follows(us, writes, l, h, liked)
  BY <1>7, <1>9 DEF Follows
<1>10. ASSUME Follows(taps, writes, last, heart, liked), taps[n].phase = "refused"
       PROVE  Follows(us, writes, last, heart, liked)
  <2>1. CASE last = writes /\ heart = liked
    BY <2>1 DEF Follows
  <2>2. CASE \E i \in 1 .. Len(taps) : taps[i].phase = "done" /\ taps[i].number = writes
                                       /\ liked = ~taps[i].found
    BY <1>9, <1>10, <2>2
  <2> QED BY <1>1, <1>10, <2>1, <2>2 DEF Follows
<1>11. ASSUME NEW l, NEW h, Follows(taps, writes, last, heart, liked),
              taps[n].phase = "done", taps[n].number # writes, last # writes
       PROVE  Follows(us, writes, l, h, liked)
  <2>1. \E i \in 1 .. Len(taps) : i # n /\ taps[i].phase = "done" /\ taps[i].number = writes
                                  /\ liked = ~taps[i].found
    BY <1>1, <1>11 DEF Follows
  <2> QED BY <1>9, <1>11, <2>1
<1> QED BY <1>1, <1>2, <1>5, <1>8, <1>10, <1>11 DEF us

(* An answer is shown: it is of the latest write, or there is one to come. *)
LEMMA AnswerFine == ASSUME LikesInv, NEW n \in DOMAIN taps, L!Answer(n) PROVE LikesInv'
<1> DEFINE us == L!RemoveAt(taps, n)
<1>1. /\ taps[n].phase = "done" /\ taps' = us /\ heart' = ~taps[n].found /\ last' = taps[n].number
      /\ settled' = (settled /\ taps[n].number > last)
      /\ liked' = liked /\ loaded' = loaded /\ writes' = writes /\ turns' = turns
  BY DEF L!Answer, L!Answered
<1>2. /\ Underway(us) /\ Numbered(us, writes, turns)
      /\ taps \in Seq(Tapped) /\ n \in 1 .. Len(taps) /\ taps[n] \in Tapped
      /\ \A l, h : Follows(taps, writes, last, heart, liked)
                   /\ taps[n].phase = "done" /\ taps[n].number # writes /\ last # writes
              => Follows(us, writes, l, h, liked)
  BY TapGone
<1> HIDE DEF us
<1>3. taps[n].number \in Nat /\ taps[n].number <= writes /\ writes \in Nat /\ last \in Nat
      /\ last <= writes /\ turns \in Nat /\ turns <= Turns
  BY <1>2 DEF LikesInv, Numbered, Tapped
<1>4. liked \in BOOLEAN /\ loaded \in BOOLEAN /\ heart' \in BOOLEAN /\ settled' \in BOOLEAN
  BY <1>1 DEF LikesInv
<1>5. settled' => Follows(us, writes, taps[n].number, heart', liked)
  <2> SUFFICES ASSUME settled, taps[n].number > last
               PROVE  Follows(us, writes, taps[n].number, heart', liked)
    BY <1>1
  <2>1. Follows(taps, writes, last, heart, liked) /\ last # writes
    BY <1>3 DEF LikesInv
  <2>2. CASE taps[n].number # writes
    BY <1>1, <1>2, <2>1, <2>2
  <2>3. CASE taps[n].number = writes
    <3>1. PICK i \in 1 .. Len(taps) : taps[i].phase = "done" /\ taps[i].number = writes
                                      /\ liked = ~taps[i].found
      BY <1>1, <1>2, <2>1 DEF Follows
    <3>2. CASE i = n
      BY <1>1, <2>3, <3>1, <3>2 DEF Follows
    <3>3. CASE i # n
      <4>1. \E j \in 1 .. Len(us) : us[j] = taps[i]
        <5>1. /\ Len(taps) \in Nat /\ Len(us) = Len(taps) - 1
              /\ \A j \in 1 .. Len(taps) - 1 : us[j] = taps[IF j < n THEN j ELSE j + 1]
          <6>1. taps \in Seq(Tapped) /\ n \in 1 .. Len(taps)
            BY <1>2
          <6>2. Len(taps) \in Nat
            BY <6>1
          <6>3. /\ Len(L!RemoveAt(taps, n)) = Len(taps) - 1
                /\ \A j \in 1 .. Len(taps) - 1 :
                     L!RemoveAt(taps, n)[j] = taps[IF j < n THEN j ELSE j + 1]
            BY <6>1, RemovedIs
          <6> QED BY <6>2, <6>3 DEF us
        <5>2. CASE i < n
          <6>1. i \in 1 .. Len(us)
            BY <1>2, <5>1, <5>2
          <6> QED BY <5>1, <5>2, <6>1
        <5>3. CASE ~(i < n)
          <6>1. i - 1 \in 1 .. Len(us) /\ ~(i - 1 < n) /\ (i - 1) + 1 = i
            BY <1>2, <3>3, <5>1, <5>3
          <6>2. us[i - 1] = taps[i]
            BY <5>1, <6>1
          <6> QED BY <6>1, <6>2
        <5> QED BY <5>2, <5>3
      <4> QED BY <3>1, <4>1 DEF Follows
    <3> QED BY <3>2, <3>3
  <2> QED BY <2>2, <2>3
<1> QED BY <1>1, <1>2, <1>3, <1>4, <1>5 DEF LikesInv

(* A tap is refused, or lost.                                              *)
LEMMA FailFine == ASSUME LikesInv, NEW n \in DOMAIN taps, L!Fail(n) PROVE LikesInv'
<1> DEFINE us == L!RemoveAt(taps, n)
<1>1. /\ taps' = us /\ settled' = (settled /\ taps[n].phase = "refused")
      /\ liked' = liked /\ loaded' = loaded /\ heart' = heart /\ writes' = writes /\ last' = last
      /\ turns' = turns
  BY DEF L!Fail
<1>2. /\ Underway(us) /\ Numbered(us, writes, turns)
      /\ Follows(taps, writes, last, heart, liked) /\ taps[n].phase = "refused"
           => Follows(us, writes, last, heart, liked)
  BY TapGone
<1> HIDE DEF us
<1>3. settled' => Follows(us, writes, last, heart, liked)
  BY <1>1, <1>2 DEF LikesInv
<1>4. settled' \in BOOLEAN
  BY <1>1 DEF LikesInv
<1> QED BY <1>1, <1>2, <1>3, <1>4 DEF LikesInv

(* Every step keeps what is said of the heart.                             *)
LEMMA LikesStep == LikesInv /\ [L!Next]_likes => LikesInv'
<1> SUFFICES ASSUME LikesInv, [L!Next]_likes PROVE LikesInv'
  OBVIOUS
<1>1. CASE L!Tap
  BY <1>1, TapFine
<1>2. CASE L!Elsewhere
  <2>1. /\ turns < Turns /\ turns' = turns + 1 /\ liked' = ~liked /\ settled' = FALSE
        /\ loaded' = loaded /\ heart' = heart /\ taps' = taps /\ writes' = writes /\ last' = last
    BY <1>2 DEF L!Elsewhere, L!Turn
  <2>2. turns' \in Nat /\ turns' <= Turns /\ Numbered(taps, writes, turns')
    <3>1. Cardinality(Unwritten(taps)) \in Nat
      BY UnwrittenFinite DEF LikesInv, Underway
    <3>2. turns \in Nat /\ Turns \in Nat /\ writes \in Nat
      BY LikesConstants DEF LikesInv
    <3> QED BY <2>1, <3>1, <3>2 DEF LikesInv, Numbered
  <2>3. liked' \in BOOLEAN /\ settled' \in BOOLEAN /\ ~settled'
    BY <2>1
  <2> QED BY <2>1, <2>2, <2>3 DEF LikesInv
<1>3. CASE L!DrawnAnew
  <2>1. /\ turns < Turns /\ turns' = turns + 1 /\ heart' = loaded /\ taps' = <<>> /\ settled' = FALSE
        /\ liked' = liked /\ loaded' = loaded /\ writes' = writes /\ last' = last
    BY <1>3 DEF L!DrawnAnew, L!Turn
  <2>2. Underway(<<>>) /\ Unwritten(<<>>) = {} /\ Len(<<>>) = 0
    BY LikesConstants DEF Underway, Unwritten
  <2>3. Cardinality(Unwritten(<<>>)) = 0
    BY <2>2, FS_EmptySet
  <2>4. turns' \in Nat /\ turns' <= Turns /\ Numbered(<<>>, writes, turns')
    <3>1. Cardinality(Unwritten(taps)) \in Nat
      BY UnwrittenFinite DEF LikesInv, Underway
    <3>2. turns \in Nat /\ Turns \in Nat /\ writes \in Nat /\ writes + Cardinality(Unwritten(taps)) <= turns
      BY LikesConstants DEF LikesInv, Numbered
    <3> QED BY <2>1, <2>2, <2>3, <3>1, <3>2 DEF Numbered
  <2>5. settled' \in BOOLEAN /\ ~settled' /\ heart' \in BOOLEAN
    BY <2>1 DEF LikesInv
  <2> QED BY <2>1, <2>2, <2>4, <2>5 DEF LikesInv
<1>4. ASSUME NEW n \in DOMAIN taps, L!Find(n) \/ L!Write(n) \/ L!Answer(n) \/ L!Fail(n)
      PROVE  LikesInv'
  BY <1>4, FindFine, WriteFine, AnswerFine, FailFine
<1>5. CASE UNCHANGED likes
  BY <1>5 DEF likes, LikesInv
<1> QED BY <1>1, <1>2, <1>3, <1>4, <1>5 DEF L!Next
-----------------------------------------------------------------------------
(***************************************************************************)
(* The desk of the news.                                                   *)
(***************************************************************************)
NewsRow == [slug : N!Slug, title : Title, status : N!Status, dated : BOOLEAN, deleted : BOOLEAN]

Dated(row) == row.dated <=> row.status = "published"

Table(t) ==
  /\ t \in [Bulletin -> NewsRow \cup {None}]
  /\ \A e \in Bulletin : t[e] # None => t[e] \in NewsRow /\ Dated(t[e])

(* Every entry is among those that have had its address.                   *)
Borne(t, b) ==
  /\ b \in [N!Slug -> SUBSET Bulletin]
  /\ \A e \in Bulletin : t[e] # None => e \in b[t[e].slug]

Asking == {"create", "update", "publish", "hide", "restore"}
Naming == (N!Slug \X Bulletin) \cup {None}

(* A request that names an address is about an entry that had it.          *)
AskFine(c) ==
  /\ c \in [op : Asking \cup {None}, slug : N!Slug \cup {None}, form : N!Form, about : Naming,
            phase : {"idle", "sent", "done", "refused", "late"}]
  /\ c.phase # "idle" =>
       /\ c.op \in Asking
       /\ c.op # "create" => c.about \in N!Slug \X Bulletin /\ c.about[1] = c.slug

DraftFine(f, ed, ab) ==
  /\ f \in N!Form /\ ed \in N!Slug \cup {None} /\ ab \in Naming
  /\ ed # None => ab \in N!Slug \X Bulletin /\ ab[1] = ed

NewsLoad == [items : (SUBSET N!Rows) \cup {None}, deleted : (SUBSET N!Rows) \cup {None}]

Loading(lds) == lds \in Seq(NewsLoad) /\ Len(lds) <= Loads

(* What a load has read is what the service has.                           *)
Fresh(ld, alive, hidden) ==
  (ld.items # None => ld.items = alive) /\ (ld.deleted # None => ld.deleted = hidden)

(* A change is yet to be told of, or the last load has read nothing stale, *)
(* or there is none, and the lists are those of the service.               *)
Served(cs, lds, shown, gone, alive, hidden) ==
  \/ \E x \in Slot : cs[x].phase = "done"
  \/ Len(lds) # 0 /\ Fresh(lds[Len(lds)], alive, hidden)
  \/ Len(lds) = 0 /\ shown = alive /\ gone = hidden

NewsInv ==
  /\ Table(news) /\ Borne(news, borne)
  /\ listed \subseteq N!Rows /\ deleted \subseteq N!Rows
  /\ DraftFine(draft, edited, about)
  /\ calls = [x \in Slot |-> calls[x]] /\ \A x \in Slot : AskFine(calls[x])
  /\ Loading(loads) /\ calmNews \in BOOLEAN /\ acts \in Nat /\ acts <= Acts
  /\ calmNews => Served(calls, loads, listed, deleted, N!Listed, N!ListedDeleted)

LEMMA NewsConstants ==
  /\ IsFiniteSet(Bulletin) /\ None \notin Bulletin /\ None \notin Title /\ None \notin Slot
  /\ Loads \in Nat /\ 1 <= Loads /\ Acts \in Nat
  /\ Cardinality(Bulletin) \in Nat /\ N!Number = 1 .. Cardinality(Bulletin)
<1>1. N!NewsAssumption
  BY PagesAssumption
<1>2. IsFiniteSet(Bulletin)
  BY <1>1 DEF N!NewsAssumption, N!IsFiniteSet, IsFiniteSet
<1>3. Cardinality(Bulletin) \in Nat
  BY <1>2, FS_CardinalityType
<1>4. N!Cardinality(Bulletin) = Cardinality(Bulletin)
  BY DEF N!Cardinality, Cardinality
<1> QED BY <1>1, <1>2, <1>3, <1>4 DEF N!NewsAssumption, N!Number

(* Among the numbers of a title there is one that no other entry has.      *)
LEMMA SomeNumberFree ==
  ASSUME NEW t \in Title, NEW e \in Bulletin
  PROVE  \E n \in N!Number : ~N!Taken(<<t, n>>, e)
<1> DEFINE C == Cardinality(Bulletin)
           Rest == Bulletin \ {e}
           Numbers == 1 .. C
           Taker(n) == CHOOSE d \in Rest : news[d].slug = <<t, n>>
           f == [n \in Numbers |-> Taker(n)]
<1> SUFFICES ASSUME \A n \in N!Number : N!Taken(<<t, n>>, e) PROVE FALSE
  OBVIOUS
<1>1. IsFiniteSet(Bulletin) /\ C \in Nat /\ N!Number = Numbers
  BY NewsConstants
<1>2. IsFiniteSet(Rest) /\ Cardinality(Rest) = C - 1
  BY <1>1, FS_RemoveElement
<1>3. IsFiniteSet(Numbers) /\ Cardinality(Numbers) = C
  <2>1. C \in Int /\ 1 \in Int
    BY <1>1
  <2>2. IsFiniteSet(1 .. C) /\ Cardinality(1 .. C) = IF 1 > C THEN 0 ELSE C - 1 + 1
    BY <2>1, FS_Interval, Zenon
  <2> QED BY <1>1, <2>2
<1>4. ASSUME NEW n \in Numbers PROVE Taker(n) \in Rest /\ news[Taker(n)].slug = <<t, n>>
  <2>1. N!Taken(<<t, n>>, e)
    BY <1>1, <1>4
  <2>2. \E d \in Rest : news[d].slug = <<t, n>>
    BY <2>1 DEF N!Taken, N!Alive
  <2> QED BY <2>2
<1>5. f \in [Numbers -> Rest]
  BY <1>4
<1>6. PICK m \in Numbers, n \in Numbers : m # n /\ f[m] = f[n]
  <2>1. Cardinality(Rest) < Cardinality(Numbers)
    BY <1>1, <1>2, <1>3
  <2> HIDE DEF f, Rest, Numbers
  <2> QED BY <1>2, <1>3, <1>5, <2>1, FS_PigeonHole
<1>7. news[f[m]].slug = <<t, m>> /\ news[f[n]].slug = <<t, n>>
  BY <1>4
<1>8. <<t, m>> = <<t, n>>
  <2> HIDE DEF f
  <2> QED BY <1>6, <1>7
<1> QED BY <1>6, <1>8

(* Of numbers there is a least.                                            *)
LEMMA LeastIs ==
  ASSUME NEW ns, ns \subseteq Nat, ns # {}
  PROVE  \E n \in ns : \A m \in ns : n <= m
<1> DEFINE Below == OpToRel(<, Nat)
<1>1. Below = {ss \in Nat \X Nat : ss[1] < ss[2]} /\ IsWellFoundedOn(Below, Nat)
  BY NatLessThanWellFounded, Zenon DEF OpToRel
<1> HIDE DEF Below
<1>2. PICK n \in ns : \A m \in ns : ~(<<m, n>> \in Below)
  BY <1>1, WFMin
<1>3. ASSUME NEW m \in ns, m < n PROVE FALSE
  <2>1. <<m, n>> \in Nat \X Nat
    OBVIOUS
  <2>2. <<m, n>> \in Below
    BY <1>1, <1>3, <2>1
  <2> QED BY <1>2, <2>2
<1>4. \A m \in ns : n <= m
  BY <1>3
<1> QED BY <1>4

(* The address the service gives is one.                                   *)
LEMMA UniqueSlugIs ==
  ASSUME NEW w \in N!Slug, NEW e \in Bulletin
  PROVE  N!UniqueSlug(w, e) \in N!Slug
<1>1. w = <<w[1], w[2]>> /\ w[1] \in Title
  BY DEF N!Slug
<1>2. CASE ~N!Taken(w, e)
  BY <1>2 DEF N!UniqueSlug
<1>3. CASE N!Taken(w, e)
  <2> DEFINE ns == {n \in N!Number : ~N!Taken(<<w[1], n>>, e)}
             least == CHOOSE n \in N!Number : /\ ~N!Taken(<<w[1], n>>, e)
                                              /\ \A m \in N!Number : ~N!Taken(<<w[1], m>>, e) => n <= m
  <2>1. ns # {} /\ ns \subseteq Nat
    <3>1. \E n \in N!Number : ~N!Taken(<<w[1], n>>, e)
      BY <1>1, SomeNumberFree
    <3>2. N!Number \subseteq Nat
      BY NewsConstants
    <3> QED BY <3>1, <3>2
  <2>2. \E n \in ns : \A m \in ns : n <= m
    <3> HIDE DEF ns
    <3> QED BY <2>1, LeastIs
  <2>3. \E n \in N!Number : /\ ~N!Taken(<<w[1], n>>, e)
                            /\ \A m \in N!Number : ~N!Taken(<<w[1], m>>, e) => n <= m
    BY <2>2
  <2>4. least \in N!Number
    BY <2>3
  <2>5. N!UniqueSlug(w, e) = <<w[1], least>>
    BY <1>3 DEF N!UniqueSlug
  <2> HIDE DEF least
  <2> QED BY <1>1, <2>4, <2>5 DEF N!Slug
<1> QED BY <1>2, <1>3

(* What a request makes of an entry is an entry, with a date just while it *)
(* is published; and what names an address finds an entry that has it.     *)
LEMMA EffectFine ==
  ASSUME Table(news), NEW r, AskFine(r), r.phase # "idle", NEW e \in N!Accepting(r)
  PROVE  /\ N!Effect(r, e) \in NewsRow /\ Dated(N!Effect(r, e))
         /\ r.op # "create" => news[e] # None /\ news[e].slug = r.slug
<1>1. e \in Bulletin /\ N!Effect(r, e) # None
  BY DEF N!Accepting
<1>2. news[e] # None => news[e] \in NewsRow /\ Dated(news[e])
  BY <1>1 DEF Table
<1>3. r.op \in Asking /\ r.form \in N!Form
  BY DEF AskFine
<1>4. r.form.title \in Title \cup {None} /\ r.form.wish \in N!Slug \cup {None} /\ r.form.status \in N!Status
  BY <1>3 DEF N!Form
<1>5. CASE r.op = "create"
  <2>1. r.form.title # None /\ N!Effect(r, e) = N!Created(r.form, e)
    BY <1>1, <1>5 DEF N!Effect
  <2>2. 1 \in N!Number
    <3>1. Cardinality(Bulletin) # 0
      BY <1>1, NewsConstants, FS_EmptySet
    <3> QED BY <3>1, NewsConstants
  <2> DEFINE w == IF r.form.wish = None THEN <<r.form.title, 1>> ELSE r.form.wish
             s == N!UniqueSlug(w, e)
  <2>3. w \in N!Slug
    BY <1>4, <2>1, <2>2 DEF N!Slug
  <2>4. s \in N!Slug
    <3> HIDE DEF w
    <3> QED BY <1>1, <2>3, UniqueSlugIs
  <2>5. N!Effect(r, e) = [slug |-> s, title |-> r.form.title, status |-> r.form.status,
                          dated |-> r.form.status = "published", deleted |-> FALSE]
    BY <2>1 DEF N!Created
  <2> DEFINE pub == r.form.status = "published"
  <2>6. pub \in BOOLEAN /\ r.form.title \in Title /\ r.form.status \in N!Status
    BY <1>4, <2>1
  <2>7. N!Effect(r, e) = [slug |-> s, title |-> r.form.title, status |-> r.form.status,
                          dated |-> pub, deleted |-> FALSE]
    BY <2>5
  <2> HIDE DEF s, pub
  <2>8. N!Effect(r, e) \in NewsRow
    BY <2>4, <2>6, <2>7 DEF NewsRow
  <2>9. N!Effect(r, e).dated = pub /\ N!Effect(r, e).status = r.form.status
    BY <2>7
  <2> QED BY <1>5, <2>8, <2>9 DEF Dated, pub
<1>6. ASSUME NEW row \in NewsRow, NEW st \in N!Status
      PROVE  N!ApplyStatus(row, st) \in NewsRow /\ Dated(N!ApplyStatus(row, st))
  BY DEF N!ApplyStatus, NewsRow, Dated
<1>7. CASE r.op = "update"
  <2>1. /\ r.form.title # None /\ N!Effect(r, e) = N!Updated(r.form, e)
        /\ news[e] # None /\ news[e].slug = r.slug
    BY <1>1, <1>7 DEF N!Effect, N!Exists
  <2>2. 1 \in N!Number
    <3>1. Cardinality(Bulletin) # 0
      BY <1>1, NewsConstants, FS_EmptySet
    <3> QED BY <3>1, NewsConstants
  <2> DEFINE s == IF r.form.wish # None THEN N!UniqueSlug(r.form.wish, e)
                  ELSE IF news[e].status = "published" THEN news[e].slug
                  ELSE N!UniqueSlug(<<r.form.title, 1>>, e)
             row == [news[e] EXCEPT !.slug = s, !.title = r.form.title]
  <2>3. s \in N!Slug
    <3>1. <<r.form.title, 1>> \in N!Slug
      BY <1>4, <2>1, <2>2 DEF N!Slug
    <3>2. news[e].slug \in N!Slug
      BY <1>2, <2>1 DEF NewsRow
    <3>3. r.form.wish # None => N!UniqueSlug(r.form.wish, e) \in N!Slug
      BY <1>1, <1>4, UniqueSlugIs
    <3>4. N!UniqueSlug(<<r.form.title, 1>>, e) \in N!Slug
      BY <1>1, <3>1, UniqueSlugIs
    <3> QED BY <3>2, <3>3, <3>4
  <2>4. N!Effect(r, e) = N!ApplyStatus(row, r.form.status)
    BY <2>1 DEF N!Updated
  <2> HIDE DEF s
  <2>5. row \in NewsRow
    BY <1>2, <1>4, <2>1, <2>3 DEF NewsRow
  <2> HIDE DEF row
  <2> QED BY <1>4, <1>6, <2>1, <2>4, <2>5
<1>8. CASE r.op = "publish"
  <2>1. /\ N!Effect(r, e) = N!ApplyStatus(news[e], "published")
        /\ news[e] # None /\ news[e].slug = r.slug
    BY <1>1, <1>8 DEF N!Effect, N!Exists
  <2>2. "published" \in N!Status
    BY DEF N!Status
  <2> QED BY <1>2, <1>6, <2>1, <2>2
<1>9. ASSUME NEW b \in BOOLEAN, news[e] # None, N!Effect(r, e) = [news[e] EXCEPT !.deleted = b]
      PROVE  N!Effect(r, e) \in NewsRow /\ Dated(N!Effect(r, e))
  BY <1>2, <1>9 DEF NewsRow, Dated
<1>10. CASE r.op = "hide"
  <2>1. /\ N!Effect(r, e) = [news[e] EXCEPT !.deleted = TRUE]
        /\ news[e] # None /\ news[e].slug = r.slug
    BY <1>1, <1>10 DEF N!Effect, N!Exists
  <2> QED BY <1>9, <2>1
<1>11. CASE r.op = "restore"
  <2>1. /\ N!Effect(r, e) = [news[e] EXCEPT !.deleted = FALSE]
        /\ news[e] # None /\ news[e].slug = r.slug
    BY <1>1, <1>11 DEF N!Effect, N!Exists
  <2> QED BY <1>9, <2>1
<1> QED BY <1>3, <1>5, <1>7, <1>8, <1>10, <1>11 DEF Asking

(* What an entry is changed to is among those that had the address.        *)
LEMMA CarryFine ==
  ASSUME Table(news), Borne(news, borne), NEW r, AskFine(r), r.phase # "idle",
         NEW e \in N!Accepting(r), N!Carry(r, e)
  PROVE  Table(news') /\ Borne(news', borne')
<1> DEFINE row == N!Effect(r, e)
<1>1. row \in NewsRow /\ Dated(row) /\ e \in Bulletin
  BY EffectFine DEF N!Accepting
<1>2. news' = [news EXCEPT ![e] = row] /\ borne' = [borne EXCEPT ![news'[e].slug] = @ \cup {e}]
  BY DEF N!Carry
<1> HIDE DEF row
<1>3. news'[e] = row /\ news \in [Bulletin -> NewsRow \cup {None}]
  BY <1>1, <1>2 DEF Table
<1>4. Table(news')
  BY <1>1, <1>2, <1>3 DEF Table
<1>5. row.slug \in N!Slug
  BY <1>1 DEF NewsRow
<1>6. borne' \in [N!Slug -> SUBSET Bulletin] /\ e \in borne'[row.slug]
      /\ \A s \in N!Slug : borne[s] \subseteq borne'[s]
  BY <1>1, <1>2, <1>3, <1>5 DEF Borne
<1>7. ASSUME NEW d \in Bulletin, news'[d] # None PROVE d \in borne'[news'[d].slug]
  <2>1. CASE d = e
    BY <1>3, <1>6, <2>1
  <2>2. CASE d # e
    <3>1. news'[d] = news[d] /\ news[d] \in NewsRow
      BY <1>2, <1>3, <1>7, <2>2 DEF Table
    <3>2. news[d].slug \in N!Slug /\ d \in borne[news[d].slug]
      BY <1>7, <3>1 DEF NewsRow, Borne
    <3> QED BY <1>6, <3>1, <3>2
  <2> QED BY <2>1, <2>2
<1> QED BY <1>4, <1>6, <1>7 DEF Borne

LEMMA ListsOfNews ==
  ASSUME Table(news)
  PROVE  N!Listed \subseteq N!Rows /\ N!ListedDeleted \subseteq N!Rows
<1>1. ASSUME NEW e \in Bulletin, news[e] # None PROVE N!Shown(e) \in N!Rows
  <2>1. news[e] \in NewsRow
    BY <1>1 DEF Table
  <2> QED BY <2>1 DEF N!Shown, N!Rows, NewsRow
<1> QED BY <1>1 DEF N!Listed, N!ListedDeleted, N!Alive, N!Hidden, N!Exists

LEMMA ListsKept ==
  ASSUME news' = news
  PROVE  N!Listed' = N!Listed /\ N!ListedDeleted' = N!ListedDeleted
BY DEF N!Listed, N!ListedDeleted, N!Alive, N!Hidden, N!Exists, N!Shown

(* One request becomes another that was not done.                          *)
LEMMA CallChanged ==
  ASSUME calls = [x \in Slot |-> calls[x]], \A x \in Slot : AskFine(calls[x]),
         NEW x \in Slot, NEW c, AskFine(c), calls' = [calls EXCEPT ![x] = c]
  PROVE  /\ calls' = [y \in Slot |-> calls'[y]] /\ \A y \in Slot : AskFine(calls'[y])
         /\ calls'[x] = c
         /\ calls[x].phase # "done" =>
              \A lds, shown, gone, alive, hidden :
                Served(calls, lds, shown, gone, alive, hidden)
                => Served(calls', lds, shown, gone, alive, hidden)
<1>1. \A y \in Slot : calls'[y] = IF y = x THEN c ELSE calls[y]
  OBVIOUS
<1>2. calls' = [y \in Slot |-> calls'[y]]
  OBVIOUS
<1>3. ASSUME calls[x].phase # "done",
             NEW lds, NEW shown, NEW gone, NEW alive, NEW hidden,
             Served(calls, lds, shown, gone, alive, hidden)
      PROVE  Served(calls', lds, shown, gone, alive, hidden)
  <2>1. (\E y \in Slot : calls[y].phase = "done") => \E y \in Slot : calls'[y].phase = "done"
    BY <1>1, <1>3
  <2> QED BY <1>3, <2>1 DEF Served
<1> QED BY <1>1, <1>2, <1>3

LEMMA NothingAsked ==
  /\ N!NoCall.phase = "idle" /\ AskFine(N!NoCall) /\ DraftFine(N!EmptyForm, None, None)
BY DEF N!NoCall, N!EmptyForm, AskFine, DraftFine, N!Form, Naming, N!Status

LEMMA NewsMeans == NewsInv => N!TypeOK /\ N!ListsServed /\ N!DatedWhilePublished
<1> SUFFICES ASSUME NewsInv PROVE N!TypeOK /\ N!ListsServed /\ N!DatedWhilePublished
  OBVIOUS
<1>1. N!TypeOK
  <2>1. \A e \in Bulletin : N!Exists(e) => news[e] \in NewsRow
    BY DEF NewsInv, Table, N!Exists
  <2>2. listed \subseteq N!Rows /\ deleted \subseteq N!Rows
        /\ draft \in N!Form /\ edited \in N!Slug \cup {None}
        /\ about \in (N!Slug \X Bulletin) \cup {None} /\ Len(loads) <= Loads /\ calmNews \in BOOLEAN
    BY DEF NewsInv, DraftFine, Naming, Loading
  <2>3. acts \in 0 .. Acts
    BY NewsConstants DEF NewsInv
  <2>4. \A x \in Slot : calls[x].phase \in {"idle", "sent", "done", "refused", "late"}
    BY DEF NewsInv, AskFine
  <2> QED BY <2>1, <2>2, <2>3, <2>4 DEF N!TypeOK, NewsRow
<1>2. N!ListsServed
  <2> SUFFICES ASSUME calmNews, loads = <<>>, \A x \in Slot : calls[x] = N!NoCall
               PROVE  listed = N!Listed /\ deleted = N!ListedDeleted
    BY DEF N!ListsServed
  <2>1. Served(calls, loads, listed, deleted, N!Listed, N!ListedDeleted) /\ Len(loads) = 0
    BY DEF NewsInv
  <2>2. \A x \in Slot : calls[x].phase # "done"
    BY NothingAsked
  <2> QED BY <2>1, <2>2 DEF Served
<1>3. N!DatedWhilePublished
  BY DEF NewsInv, Table, Dated, N!DatedWhilePublished, N!Exists
<1> QED BY <1>1, <1>2, <1>3

LEMMA NewsBegin == N!Init => NewsInv
<1> SUFFICES ASSUME N!Init PROVE NewsInv
  OBVIOUS
<1>1. PICK f \in N!Titling, st \in N!Status : news = N!Written(f, st)
  BY DEF N!Init
<1>2. Table(news)
  <2> DEFINE row(e) == [slug |-> <<f[e], 1>>, title |-> f[e], status |-> st,
                        dated |-> st = "published", deleted |-> FALSE]
  <2>1. ASSUME NEW e \in Bulletin, f[e] # None PROVE row(e) \in NewsRow /\ Dated(row(e))
    <3>1. f[e] \in Title
      BY <2>1 DEF N!Titling
    <3>2. 1 \in N!Number
      <4>1. Cardinality(Bulletin) # 0
        BY NewsConstants, FS_EmptySet
      <4> QED BY <4>1, NewsConstants
    <3>3. <<f[e], 1>> \in N!Slug
      BY <3>1, <3>2 DEF N!Slug
    <3> DEFINE pub == st = "published"
    <3>4. pub \in BOOLEAN
      OBVIOUS
    <3>5. row(e) = [slug |-> <<f[e], 1>>, title |-> f[e], status |-> st, dated |-> pub, deleted |-> FALSE]
      OBVIOUS
    <3> HIDE DEF pub, row
    <3>6. row(e) \in NewsRow
      BY <3>1, <3>3, <3>4, <3>5 DEF NewsRow
    <3>7. row(e).dated = pub /\ row(e).status = st
      BY <3>5
    <3> QED BY <3>6, <3>7 DEF Dated, pub
  <2>2. news = [e \in Bulletin |-> IF f[e] = None THEN None ELSE row(e)]
    BY <1>1 DEF N!Written
  <2> HIDE DEF row
  <2> QED BY <2>1, <2>2 DEF Table
<1>3. Borne(news, borne)
  <2>1. borne = [s \in N!Slug |-> {e \in Bulletin : news[e] # None /\ news[e].slug = s}]
    BY DEF N!Init, N!Exists
  <2>2. \A e \in Bulletin : news[e] # None => news[e].slug \in N!Slug
    BY <1>2 DEF Table, NewsRow
  <2> QED BY <2>1, <2>2 DEF Borne
<1>4. DraftFine(draft, edited, about) /\ listed = {} /\ deleted = {} /\ acts = 0 /\ calmNews = TRUE
  BY NothingAsked DEF N!Init
<1>5. calls = [x \in Slot |-> calls[x]] /\ \A x \in Slot : AskFine(calls[x])
  BY NothingAsked DEF N!Init
<1>6. N!Unread \in NewsLoad /\ N!Unread.items = None /\ N!Unread.deleted = None
  BY DEF N!Unread, NewsLoad
<1>7. loads = <<N!Unread>>
  BY DEF N!Init
<1> HIDE DEF N!Unread
<1>8. loads \in Seq(NewsLoad) /\ Len(loads) = 1 /\ loads[1] = N!Unread
  BY <1>6, <1>7
<1>9. Loading(loads) /\ Served(calls, loads, listed, deleted, N!Listed, N!ListedDeleted)
  BY <1>6, <1>8, NewsConstants DEF Loading, Served, Fresh
<1>10. acts \in Nat /\ acts <= Acts /\ calmNews \in BOOLEAN
  BY <1>4, NewsConstants
<1> QED BY <1>2, <1>3, <1>4, <1>5, <1>9, <1>10 DEF NewsInv

(* What the user does in the form.                                         *)
LEMMA FormFine ==
  ASSUME NewsInv, (\E i \in listed : N!Edit(i)) \/ (\E f \in N!Form : N!Type(f)) \/ N!Reset
  PROVE  NewsInv'
<1>1. /\ acts < Acts /\ acts' = acts + 1
      /\ news' = news /\ listed' = listed /\ deleted' = deleted /\ calls' = calls /\ loads' = loads
      /\ borne' = borne /\ calmNews' = calmNews
  BY DEF N!Edit, N!Type, N!Reset, N!Move, N!lists
<1>2. acts' \in Nat /\ acts' <= Acts
  BY <1>1, NewsConstants DEF NewsInv
<1>3. DraftFine(draft', edited', about')
  <2>1. CASE \E i \in listed : N!Edit(i)
    <3>1. PICK i \in listed : N!Edit(i)
      BY <2>1
    <3>2. i \in N!Rows
      BY DEF NewsInv
    <3>3. /\ edited' = i.slug /\ about' = <<i.slug, i.entry>>
          /\ draft' = [title |-> i.title, wish |-> i.slug, status |-> i.status]
      BY <3>1 DEF N!Edit
    <3>4. i.slug \in N!Slug /\ i.entry \in Bulletin /\ i.title \in Title /\ i.status \in N!Status
      BY <3>2 DEF N!Rows
    <3> QED BY <3>3, <3>4 DEF DraftFine, N!Form, Naming
  <2>2. CASE \E f \in N!Form : N!Type(f)
    BY <2>2 DEF N!Type, NewsInv, DraftFine
  <2>3. CASE N!Reset
    BY <2>3, NothingAsked DEF N!Reset
  <2> QED BY <2>1, <2>2, <2>3
<1>4. N!Listed' = N!Listed /\ N!ListedDeleted' = N!ListedDeleted
  BY <1>1, ListsKept
<1> QED BY <1>1, <1>2, <1>3, <1>4 DEF NewsInv

(* A request is sent.                                                      *)
LEMMA SendFine ==
  ASSUME NewsInv, NEW x \in Slot, NEW r, AskFine(r), r.phase = "sent", N!Send(x, r)
  PROVE  NewsInv'
<1>1. /\ calls[x] = N!NoCall /\ acts < Acts /\ acts' = acts + 1
      /\ calls' = [calls EXCEPT ![x] = r]
      /\ news' = news /\ listed' = listed /\ deleted' = deleted /\ loads' = loads
      /\ draft' = draft /\ edited' = edited /\ about' = about
      /\ borne' = borne /\ calmNews' = calmNews
  BY DEF N!Send, N!Move, N!lists, N!desk
<1>2. acts' \in Nat /\ acts' <= Acts
  BY <1>1, NewsConstants DEF NewsInv
<1>3. N!Listed' = N!Listed /\ N!ListedDeleted' = N!ListedDeleted
  BY <1>1, ListsKept
<1>4. calls[x].phase # "done"
  BY <1>1, NothingAsked
<1>5. /\ calls' = [y \in Slot |-> calls'[y]] /\ \A y \in Slot : AskFine(calls'[y])
      /\ \A lds, shown, gone, alive, hidden :
           Served(calls, lds, shown, gone, alive, hidden)
           => Served(calls', lds, shown, gone, alive, hidden)
  BY <1>1, <1>4, CallChanged DEF NewsInv
<1> QED BY <1>1, <1>2, <1>3, <1>5 DEF NewsInv

LEMMA SaveFine == ASSUME NewsInv, NEW x \in Slot, N!Save(x) PROVE NewsInv'
<1> DEFINE op == IF edited = None THEN "create" ELSE "update"
           r == [op |-> op, slug |-> edited, form |-> draft, about |-> about, phase |-> "sent"]
<1>1. N!Send(x, r)
  BY DEF N!Save, N!Target
<1>2. op \in Asking /\ (op # "create" => edited # None)
  BY DEF Asking
<1>3. DraftFine(draft, edited, about)
  BY DEF NewsInv
<1> HIDE DEF op
<1>4. AskFine(r) /\ r.phase = "sent"
  BY <1>2, <1>3 DEF AskFine, DraftFine
<1> HIDE DEF r
<1> QED BY <1>1, <1>4, SendFine

LEMMA PressFine ==
  ASSUME NewsInv, NEW x \in Slot, NEW op \in {"publish", "hide", "restore"}, NEW i, N!Press(x, op, i)
  PROVE  NewsInv'
<1> DEFINE r == [N!NoCall EXCEPT !.op = op, !.slug = i.slug, !.about = <<i.slug, i.entry>>, !.phase = "sent"]
<1>1. N!Send(x, r) /\ i \in listed \cup deleted
  BY DEF N!Press
<1>2. i \in N!Rows
  BY <1>1 DEF NewsInv
<1>3. i.slug \in N!Slug /\ i.entry \in Bulletin
  BY <1>2 DEF N!Rows
<1>4. AskFine(N!NoCall) /\ op \in Asking
  BY NothingAsked DEF Asking
<1>7. AskFine(r) /\ r.phase = "sent"
  <2> DEFINE s == i.slug
             q == <<i.slug, i.entry>>
             c == [N!NoCall EXCEPT !.op = op, !.slug = s, !.about = q, !.phase = "sent"]
  <2>1. s \in N!Slug /\ q \in N!Slug \X Bulletin /\ q[1] = s
    BY <1>3
  <2> HIDE DEF s, q
  <2>2. AskFine(c) /\ c.phase = "sent"
    BY <1>4, <2>1 DEF AskFine, Naming
  <2> QED BY <2>2 DEF s, q
<1> HIDE DEF r
<1> QED BY <1>1, <1>7, SendFine

(* A request is carried out, in time or late: lists that were read before  *)
(* need not be those of the service any more.                              *)
LEMMA ServeFine ==
  ASSUME NewsInv, NEW x \in Slot, NEW e \in Bulletin, N!Serve(x, e) \/ N!ServeLate(x, e)
  PROVE  NewsInv'
<1> DEFINE c == IF calls[x].phase = "sent" THEN [calls[x] EXCEPT !.phase = "done"] ELSE N!NoCall
<1>1. /\ calls[x].phase \in {"sent", "late"} /\ e \in N!Accepting(calls[x]) /\ N!Carry(calls[x], e)
      /\ listed' = listed /\ deleted' = deleted /\ loads' = loads
      /\ draft' = draft /\ edited' = edited /\ about' = about /\ acts' = acts
      /\ \/ calls[x].phase = "sent" /\ calmNews' = calmNews
         \/ calls[x].phase = "late" /\ calmNews' = FALSE
  BY DEF N!Serve, N!ServeLate, N!lists, N!desk
<1>2. AskFine(calls[x])
  BY DEF NewsInv
<1>3. calls' = [calls EXCEPT ![x] = c]
  BY <1>1 DEF N!Serve, N!ServeLate, NewsInv
<1>4. AskFine(c) /\ (calls[x].phase = "sent" => c.phase = "done")
  <2>1. CASE calls[x].phase = "sent"
    BY <1>2, <2>1 DEF AskFine
  <2>2. CASE calls[x].phase # "sent"
    BY <2>2, NothingAsked
  <2> QED BY <2>1, <2>2
<1> HIDE DEF c
<1>5. Table(news') /\ Borne(news', borne')
  <2>1. calls[x].phase # "idle"
    BY <1>1
  <2> QED BY <1>1, <1>2, <2>1, CarryFine DEF NewsInv
<1>6. /\ calls' = [y \in Slot |-> calls'[y]] /\ \A y \in Slot : AskFine(calls'[y]) /\ calls'[x] = c
  BY <1>3, <1>4, CallChanged DEF NewsInv
<1>7. calmNews' \in BOOLEAN
  BY <1>1 DEF NewsInv
<1>8. calmNews' => Served(calls', loads', listed', deleted', N!Listed', N!ListedDeleted')
  BY <1>1, <1>4, <1>6 DEF Served
<1> QED BY <1>1, <1>5, <1>6, <1>7, <1>8 DEF NewsInv

(* A request is refused, fails, or is lost.                                *)
LEMMA EndFine ==
  ASSUME NewsInv, NEW x \in Slot, N!Refuse(x) \/ N!Fail(x) \/ N!Lose(x)
  PROVE  NewsInv'
<1>1. AskFine(calls[x]) /\ calls = [y \in Slot |-> calls[y]]
  BY DEF NewsInv
<1>2. /\ news' = news /\ listed' = listed /\ deleted' = deleted /\ loads' = loads
      /\ draft' = draft /\ edited' = edited /\ about' = about /\ acts' = acts /\ borne' = borne
      /\ calmNews' = (calmNews /\ calls[x].phase # "done")
      /\ calls[x].phase # "idle"
  <2>1. CASE N!Refuse(x)
    BY <2>1 DEF N!Refuse, N!lists, N!desk, NewsInv
  <2>2. CASE N!Fail(x)
    BY <2>2 DEF N!Fail, N!lists, N!desk
  <2>3. CASE N!Lose(x)
    BY <2>3 DEF N!Lose, N!lists, N!desk, NewsInv
  <2> QED BY <2>1, <2>2, <2>3
<1>3. \E c : AskFine(c) /\ calls' = [calls EXCEPT ![x] = c]
  <2>1. AskFine([calls[x] EXCEPT !.phase = "refused"]) /\ AskFine([calls[x] EXCEPT !.phase = "late"])
    <3>1. ASSUME NEW p \in {"refused", "late"} PROVE AskFine([calls[x] EXCEPT !.phase = p])
      BY <1>1, <1>2 DEF AskFine
    <3> QED BY <3>1
  <2>2. AskFine(N!NoCall)
    BY NothingAsked
  <2>3. CASE N!Refuse(x)
    <3>1. calls' = [calls EXCEPT ![x] = [calls[x] EXCEPT !.phase = "refused"]]
      BY <1>1, <2>3 DEF N!Refuse
    <3> QED BY <2>1, <3>1
  <2>4. CASE N!Fail(x)
    <3>1. calls' = [calls EXCEPT ![x] = IF calls[x].phase = "sent" THEN [calls[x] EXCEPT !.phase = "late"]
                                        ELSE N!NoCall]
      BY <1>1, <2>4 DEF N!Fail
    <3> QED BY <2>1, <2>2, <3>1
  <2>5. CASE N!Lose(x)
    BY <2>2, <2>5 DEF N!Lose
  <2> QED BY <2>3, <2>4, <2>5
<1>4. PICK c : AskFine(c) /\ calls' = [calls EXCEPT ![x] = c]
  BY <1>3
<1>5. /\ calls' = [y \in Slot |-> calls'[y]] /\ \A y \in Slot : AskFine(calls'[y])
      /\ calls[x].phase # "done" =>
           \A lds, shown, gone, alive, hidden :
             Served(calls, lds, shown, gone, alive, hidden)
             => Served(calls', lds, shown, gone, alive, hidden)
  BY <1>4, CallChanged DEF NewsInv
<1>6. N!Listed' = N!Listed /\ N!ListedDeleted' = N!ListedDeleted
  BY <1>2, ListsKept
<1>7. calmNews' => Served(calls', loads, listed, deleted, N!Listed, N!ListedDeleted)
  BY <1>2, <1>5 DEF NewsInv
<1>8. calmNews' \in BOOLEAN
  BY <1>2
<1> QED BY <1>2, <1>5, <1>6, <1>7, <1>8 DEF NewsInv

(* A success is shown, and the lists are loaded anew.                      *)
LEMMA SucceedFine == ASSUME NewsInv, NEW x \in Slot, N!Succeed(x) PROVE NewsInv'
<1> DEFINE lds == loads \o <<N!Unread>>
<1>1. /\ Len(loads) < Loads /\ calls' = [calls EXCEPT ![x] = N!NoCall] /\ loads' = lds
      /\ calmNews' = (calmNews \/ loads = <<>>)
      /\ news' = news /\ listed' = listed /\ deleted' = deleted /\ borne' = borne /\ acts' = acts
      /\ \/ draft' = N!EmptyForm /\ edited' = None /\ about' = None
         \/ draft' = draft /\ edited' = edited /\ about' = about
  BY DEF N!Succeed, N!Following, N!lists, N!desk
<1>2. DraftFine(draft', edited', about')
  <2>1. CASE draft' = N!EmptyForm /\ edited' = None /\ about' = None
    BY <2>1, NothingAsked
  <2>2. CASE draft' = draft /\ edited' = edited /\ about' = about
    BY <2>2 DEF NewsInv
  <2> QED BY <1>1, <2>1, <2>2
<1>3. /\ calls' = [y \in Slot |-> calls'[y]] /\ \A y \in Slot : AskFine(calls'[y])
  BY <1>1, NothingAsked, CallChanged DEF NewsInv
<1>4. N!Unread \in NewsLoad /\ N!Unread.items = None /\ N!Unread.deleted = None
  BY DEF N!Unread, NewsLoad
<1>5. loads \in Seq(NewsLoad) /\ Len(loads) \in Nat
  BY DEF NewsInv, Loading
<1> HIDE DEF N!Unread
<1>6. lds \in Seq(NewsLoad) /\ Len(lds) = Len(loads) + 1 /\ lds[Len(loads) + 1] = N!Unread
  BY <1>4, <1>5
<1> HIDE DEF lds
<1>7. Loading(lds)
  BY <1>1, <1>5, <1>6, NewsConstants DEF Loading
<1>8. Len(lds) # 0 /\ lds[Len(lds)] = N!Unread
  BY <1>5, <1>6
<1>9. Served(calls', lds, listed, deleted, N!Listed, N!ListedDeleted)
  BY <1>4, <1>8 DEF Served, Fresh
<1>10. N!Listed' = N!Listed /\ N!ListedDeleted' = N!ListedDeleted
  BY <1>1, ListsKept
<1>11. calmNews' \in BOOLEAN
  BY <1>1 DEF NewsInv
<1> QED BY <1>1, <1>2, <1>3, <1>7, <1>9, <1>10, <1>11 DEF NewsInv

(* A load reads one of its lists.                                          *)
LEMMA ReadFine == ASSUME NewsInv, NEW n \in DOMAIN loads, N!Read(n) PROVE NewsInv'
<1>1. loads \in Seq(NewsLoad) /\ Len(loads) \in Nat /\ n \in 1 .. Len(loads) /\ loads[n] \in NewsLoad
  BY DEF NewsInv, Loading
<1>2. N!Listed \subseteq N!Rows /\ N!ListedDeleted \subseteq N!Rows
  BY ListsOfNews DEF NewsInv
<1>3. PICK ld \in NewsLoad :
        /\ loads' = [loads EXCEPT ![n] = ld]
        /\ Fresh(loads[n], N!Listed, N!ListedDeleted) => Fresh(ld, N!Listed, N!ListedDeleted)
  <2>1. CASE loads' = [loads EXCEPT ![n].items = N!Listed]
    <3> DEFINE ls == N!Listed
               ld == [loads[n] EXCEPT !.items = ls]
    <3>1. ls \subseteq N!Rows
      BY <1>2
    <3>2. loads' = [loads EXCEPT ![n] = [loads[n] EXCEPT !.items = N!Listed]]
      BY <1>1, <2>1
    <3> HIDE DEF ls
    <3>3. ld \in NewsLoad /\ ld.items = ls /\ ld.deleted = loads[n].deleted
      BY <1>1, <3>1 DEF NewsLoad
    <3> QED BY <3>2, <3>3 DEF Fresh, ls
  <2>2. CASE loads' = [loads EXCEPT ![n].deleted = N!ListedDeleted]
    <3> DEFINE ls == N!ListedDeleted
               ld == [loads[n] EXCEPT !.deleted = ls]
    <3>1. ls \subseteq N!Rows
      BY <1>2
    <3>2. loads' = [loads EXCEPT ![n] = [loads[n] EXCEPT !.deleted = N!ListedDeleted]]
      BY <1>1, <2>2
    <3> HIDE DEF ls
    <3>3. ld \in NewsLoad /\ ld.deleted = ls /\ ld.items = loads[n].items
      BY <1>1, <3>1 DEF NewsLoad
    <3> QED BY <3>2, <3>3 DEF Fresh, ls
  <2> QED BY <2>1, <2>2 DEF N!Read
<1> DEFINE lds == [loads EXCEPT ![n] = ld]
<1>4. /\ lds \in Seq(NewsLoad) /\ Len(lds) = Len(loads)
      /\ \A j \in 1 .. Len(loads) : lds[j] = IF j = n THEN ld ELSE loads[j]
  BY <1>1, <1>3, ExceptSeq
<1>5. /\ loads' = lds
      /\ news' = news /\ listed' = listed /\ deleted' = deleted /\ borne' = borne /\ acts' = acts
      /\ draft' = draft /\ edited' = edited /\ about' = about /\ calls' = calls /\ calmNews' = calmNews
  BY <1>3 DEF N!Read, N!lists, N!desk
<1> HIDE DEF lds
<1>6. Loading(lds)
  BY <1>4 DEF Loading, NewsInv
<1>7. N!Listed' = N!Listed /\ N!ListedDeleted' = N!ListedDeleted
  BY <1>5, ListsKept
<1>8. calmNews => Served(calls, lds, listed, deleted, N!Listed, N!ListedDeleted)
  <2> SUFFICES ASSUME Served(calls, loads, listed, deleted, N!Listed, N!ListedDeleted)
               PROVE  Served(calls, lds, listed, deleted, N!Listed, N!ListedDeleted)
    BY DEF NewsInv
  <2> DEFINE a == N!Listed
             h == N!ListedDeleted
  <2>1. Fresh(loads[n], a, h) => Fresh(ld, a, h)
    BY <1>3
  <2>2. Served(calls, loads, listed, deleted, a, h)
    OBVIOUS
  <2> HIDE DEF a, h
  <2>3. Served(calls, lds, listed, deleted, a, h)
    BY <1>1, <1>4, <2>1, <2>2 DEF Served
  <2> QED BY <2>3 DEF a, h
<1> QED BY <1>5, <1>6, <1>7, <1>8 DEF NewsInv

(* A load comes to its end: the lists are shown, or it failed.             *)
LEMMA LandFine ==
  ASSUME NewsInv, NEW n \in DOMAIN loads, N!Land(n) \/ N!FailLoad(n)
  PROVE  NewsInv'
<1> DEFINE lds == N!RemoveAt(loads, n)
<1>1. loads \in Seq(NewsLoad) /\ Len(loads) \in Nat /\ n \in 1 .. Len(loads) /\ loads[n] \in NewsLoad
      /\ Len(loads) <= Loads
  BY DEF NewsInv, Loading
<1>2. /\ lds \in Seq(NewsLoad) /\ Len(lds) = Len(loads) - 1
      /\ \A j \in 1 .. Len(loads) - 1 : lds[j] = loads[IF j < n THEN j ELSE j + 1]
  <2>1. N!RemoveAt(loads, n) = L!RemoveAt(loads, n)
    BY DEF N!RemoveAt, L!RemoveAt
  <2> QED BY <1>1, <2>1, RemovedIs
<1>3. /\ loads' = lds
      /\ news' = news /\ borne' = borne /\ acts' = acts
      /\ draft' = draft /\ edited' = edited /\ about' = about /\ calls' = calls
      /\ \/ /\ loads[n].items # None /\ loads[n].deleted # None
            /\ listed' = loads[n].items /\ deleted' = loads[n].deleted
            /\ calmNews' = (calmNews /\ n = 1)
         \/ listed' = listed /\ deleted' = deleted /\ calmNews' = FALSE
  BY DEF N!Land, N!FailLoad, N!lists, N!desk
<1> HIDE DEF lds
<1>4. Loading(lds)
  BY <1>1, <1>2, NewsConstants DEF Loading
<1>5. N!Listed' = N!Listed /\ N!ListedDeleted' = N!ListedDeleted
  BY <1>3, ListsKept
<1>6. listed' \subseteq N!Rows /\ deleted' \subseteq N!Rows
  <2>1. CASE loads[n].items # None /\ listed' = loads[n].items
             /\ loads[n].deleted # None /\ deleted' = loads[n].deleted
    BY <1>1, <2>1 DEF NewsLoad
  <2> QED BY <1>3, <2>1 DEF NewsInv
<1>7. calmNews' \in BOOLEAN
  BY <1>3 DEF NewsInv
<1>8. calmNews' => Served(calls, lds, listed', deleted', N!Listed, N!ListedDeleted)
  <2> SUFFICES ASSUME calmNews, n = 1,
                      loads[n].items # None, loads[n].deleted # None,
                      listed' = loads[n].items, deleted' = loads[n].deleted
               PROVE  Served(calls, lds, listed', deleted', N!Listed, N!ListedDeleted)
    BY <1>3
  <2> DEFINE a == N!Listed
             h == N!ListedDeleted
  <2>1. Served(calls, loads, listed, deleted, a, h)
    BY DEF NewsInv
  <2> HIDE DEF a, h
  <2>2. CASE Len(loads) = 1
    <3>1. Len(lds) = 0
      BY <1>2, <2>2
    <3> QED BY <2>1, <2>2, <3>1 DEF Served, Fresh, a, h
  <2>3. CASE Len(loads) # 1
    <3>1. Len(lds) # 0 /\ Len(lds) \in 1 .. Len(loads) - 1 /\ ~(Len(lds) < 1)
          /\ Len(lds) + 1 = Len(loads) /\ Len(loads) # 0
      BY <1>1, <1>2, <2>3
    <3>2. lds[Len(lds)] = loads[Len(loads)]
      BY <1>2, <3>1
    <3> QED BY <2>1, <3>1, <3>2 DEF Served, a, h
  <2> QED BY <2>2, <2>3
<1> QED BY <1>3, <1>4, <1>5, <1>6, <1>7, <1>8 DEF NewsInv

LEMMA NewsStep == NewsInv /\ [N!Next]_newsdesk => NewsInv'
<1> SUFFICES ASSUME NewsInv, [N!Next]_newsdesk PROVE NewsInv'
  OBVIOUS
<1>1. CASE (\E i \in listed : N!Edit(i)) \/ (\E f \in N!Form : N!Type(f)) \/ N!Reset
  BY <1>1, FormFine
<1>2. ASSUME NEW x \in Slot, N!Save(x) PROVE NewsInv'
  BY <1>2, SaveFine
<1>3. ASSUME NEW x \in Slot, NEW op \in {"publish", "hide", "restore"}, NEW i, N!Press(x, op, i)
      PROVE  NewsInv'
  BY <1>3, PressFine
<1>4. ASSUME NEW x \in Slot, NEW e \in Bulletin, N!Serve(x, e) \/ N!ServeLate(x, e) PROVE NewsInv'
  BY <1>4, ServeFine
<1>5. ASSUME NEW x \in Slot, N!Refuse(x) \/ N!Fail(x) \/ N!Lose(x) PROVE NewsInv'
  BY <1>5, EndFine
<1>6. ASSUME NEW x \in Slot, N!Succeed(x) PROVE NewsInv'
  BY <1>6, SucceedFine
<1>7. ASSUME NEW n \in DOMAIN loads, N!Read(n) \/ N!Land(n) \/ N!FailLoad(n) PROVE NewsInv'
  BY <1>7, ReadFine, LandFine
<1>8. CASE UNCHANGED newsdesk
  <2>1. /\ news' = news /\ listed' = listed /\ deleted' = deleted /\ draft' = draft /\ edited' = edited
        /\ about' = about /\ calls' = calls /\ loads' = loads /\ borne' = borne
        /\ calmNews' = calmNews /\ acts' = acts
    BY <1>8 DEF newsdesk
  <2>2. N!Listed' = N!Listed /\ N!ListedDeleted' = N!ListedDeleted
    BY <2>1, ListsKept
  <2> QED BY <2>1, <2>2 DEF NewsInv
<1> QED BY <1>1, <1>2, <1>3, <1>4, <1>5, <1>6, <1>7, <1>8 DEF N!Next

(* What is changed by a request that names an address is the entry that    *)
(* was meant, unless the address has been another's too.                   *)
LEMMA ActsOn ==
  ASSUME NewsInv, [N!Next]_newsdesk,
         NEW e \in Bulletin, NEW x \in Slot, news'[e] # news[e], calls'[x] # calls[x],
         calls[x].op # "create", borne[calls[x].about[1]] = {calls[x].about[2]}
  PROVE  e = calls[x].about[2]
<1>1. PICK y \in Slot, d \in Bulletin : N!Serve(y, d) \/ N!ServeLate(y, d)
  <2>1. news' # news
    OBVIOUS
  <2>2. \/ \E y \in Slot, d \in Bulletin : N!Serve(y, d) \/ N!ServeLate(y, d)
        \/ news' = news
    BY DEF N!Next, newsdesk, N!Edit, N!Type, N!Reset, N!Save, N!Press, N!Send, N!Refuse, N!Succeed, N!Fail,
           N!Lose, N!Read, N!Land, N!FailLoad
  <2> QED BY <2>1, <2>2
<1>2. /\ calls[y].phase \in {"sent", "late"} /\ d \in N!Accepting(calls[y])
      /\ news' = [news EXCEPT ![d] = N!Effect(calls[y], d)]
  BY <1>1 DEF N!Serve, N!ServeLate, N!Carry
<1>3. y = x
  BY <1>1 DEF N!Serve, N!ServeLate, NewsInv
<1>4. d = e
  BY <1>2 DEF NewsInv, Table
<1>5. AskFine(calls[x]) /\ calls[x].phase # "idle"
  BY <1>2, <1>3 DEF NewsInv
<1>6. news[e] # None /\ news[e].slug = calls[x].slug /\ calls[x].about[1] = calls[x].slug
  BY <1>2, <1>3, <1>4, <1>5, EffectFine DEF NewsInv, AskFine
<1>7. e \in borne[news[e].slug]
  BY <1>6 DEF NewsInv, Borne
<1> QED BY <1>6, <1>7
-----------------------------------------------------------------------------
(***************************************************************************)
(* The topic.                                                              *)
(***************************************************************************)
LEMMA TopicConstants ==
  Comments \in Nat /\ Clicks \in Nat /\ Others \in Nat /\ P!Comment = 1 .. Comments
  /\ 0 \notin P!Comment
BY PagesAssumption DEF P!TopicAssumption, P!Comment

(* What holds for no least number holds for none.                          *)
LEMMA NoLeast ==
  ASSUME NEW ns, ns \subseteq Nat, \A n \in ns : \E m \in ns : m < n
  PROVE  ns = {}
<1> SUFFICES ASSUME ns # {} PROVE FALSE
  OBVIOUS
<1>1. PICK n \in ns : \A m \in ns : n <= m
  BY LeastIs
<1>2. PICK m \in ns : m < n
  OBVIOUS
<1>3. m \in Nat /\ n \in Nat /\ n <= m
  BY <1>1
<1> QED BY <1>2, <1>3

(* Every comment answers an earlier one, or the topic.                     *)
Earlier(row) == \A c \in P!Comment : row[c].parent \in 0 .. c - 1

IsAbove(row, f) ==
  f = [c \in 0 .. Comments |-> IF c = 0 THEN {} ELSE {row[c].parent} \cup f[row[c].parent]]

(* Up to some comment those above each.                                    *)
AboveTo(row, n, f) ==
  f = [c \in 0 .. n |-> IF c = 0 THEN {} ELSE {row[c].parent} \cup f[row[c].parent]]

LEMMA AboveExists ==
  ASSUME NEW row, Earlier(row)
  PROVE  \E f : IsAbove(row, f)
<1> DEFINE ns == {n \in 0 .. Comments : ~ \E f : AboveTo(row, n, f)}
<1>1. ASSUME NEW n \in ns PROVE \E m \in ns : m < n
  <2>1. n \in 0 .. Comments /\ n \in Nat /\ Comments \in Nat /\ ~ \E f : AboveTo(row, n, f)
    BY TopicConstants
  <2>2. n # 0
    <3>1. AboveTo(row, 0, [c \in {0} |-> {}])
      BY DEF AboveTo
    <3> QED BY <2>1, <3>1
  <2>3. n - 1 \in 0 .. Comments /\ n - 1 < n
    BY <2>1, <2>2
  <2>4. n - 1 \in ns
    <3> SUFFICES ASSUME NEW f, AboveTo(row, n - 1, f) PROVE FALSE
      BY <2>3
    <3> DEFINE g == [c \in 0 .. n |-> IF c = n THEN {row[n].parent} \cup f[row[n].parent] ELSE f[c]]
    <3>1. \A c \in 0 .. n - 1 : f[c] = IF c = 0 THEN {} ELSE {row[c].parent} \cup f[row[c].parent]
      BY DEF AboveTo
    <3>2. \A c \in 1 .. n : row[c].parent \in 0 .. c - 1
      BY <2>1, TopicConstants DEF Earlier
    <3>3. \A c \in 0 .. n - 1 : c \in 0 .. n /\ c # n /\ g[c] = f[c]
      BY <2>1
    <3>4. \A c \in 1 .. n : row[c].parent \in 0 .. n - 1 /\ g[row[c].parent] = f[row[c].parent]
      <4> SUFFICES ASSUME NEW c \in 1 .. n
                   PROVE  row[c].parent \in 0 .. n - 1 /\ g[row[c].parent] = f[row[c].parent]
        OBVIOUS
      <4>1. row[c].parent \in 0 .. n - 1
        BY <2>1, <3>2
      <4> QED BY <3>3, <4>1
    <3>5. \A c \in 0 .. n : g[c] = IF c = 0 THEN {} ELSE {row[c].parent} \cup g[row[c].parent]
      <4> SUFFICES ASSUME NEW c \in 0 .. n
                   PROVE  g[c] = IF c = 0 THEN {} ELSE {row[c].parent} \cup g[row[c].parent]
        OBVIOUS
      <4>1. CASE c = n
        <5>1. c \in 1 .. n /\ c # 0
          BY <2>1, <2>2, <4>1
        <5>2. g[c] = {row[n].parent} \cup f[row[n].parent]
          BY <4>1
        <5> QED BY <3>4, <4>1, <5>1, <5>2
      <4>2. CASE c # n
        <5>1. c \in 0 .. n - 1 /\ g[c] = f[c]
          BY <2>1, <4>2
        <5>2. CASE c = 0
          BY <3>1, <5>1, <5>2
        <5>3. CASE c # 0
          <6>1. c \in 1 .. n
            BY <2>1, <5>3
          <6>2. f[c] = {row[c].parent} \cup f[row[c].parent]
            BY <3>1, <5>1, <5>3
          <6> QED BY <3>4, <5>1, <5>3, <6>1, <6>2
        <5> QED BY <5>2, <5>3
      <4> QED BY <4>1, <4>2
    <3>6. g = [c \in 0 .. n |-> g[c]]
      OBVIOUS
    <3> HIDE DEF g
    <3>7. AboveTo(row, n, g)
      BY <3>5, <3>6 DEF AboveTo
    <3> QED BY <2>1, <3>7
  <2> QED BY <2>3, <2>4
<1>2. ns = {}
  <2>1. ns \subseteq Nat
    BY TopicConstants
  <2> HIDE DEF ns
  <2> QED BY <1>1, <2>1, NoLeast
<1>3. Comments \in 0 .. Comments
  BY TopicConstants
<1>4. PICK f : AboveTo(row, Comments, f)
  BY <1>2, <1>3
<1> QED BY <1>4 DEF IsAbove, AboveTo

(* Those above a comment: its parent, and those above that.                *)
LEMMA AncestorsAre ==
  ASSUME NEW row, Earlier(row)
  PROVE  /\ P!Ancestors(row)[0] = {}
         /\ \A c \in P!Comment :
              P!Ancestors(row)[c] = {row[c].parent} \cup P!Ancestors(row)[row[c].parent]
<1> DEFINE a == P!Ancestors(row)
<1>1. a = CHOOSE f : IsAbove(row, f)
  BY DEF P!Ancestors, IsAbove
<1>2. IsAbove(row, a)
  BY <1>1, AboveExists
<1> HIDE DEF a
<1>3. \A c \in 0 .. Comments : a[c] = IF c = 0 THEN {} ELSE {row[c].parent} \cup a[row[c].parent]
  BY <1>2 DEF IsAbove
<1>4. 0 \in 0 .. Comments /\ \A c \in P!Comment : c \in 0 .. Comments /\ c # 0
  BY TopicConstants
<1> QED BY <1>3, <1>4 DEF a

(* Those above a comment depend on what it and they answer only.           *)
LEMMA AncestorsSame ==
  ASSUME NEW row, NEW other, Earlier(row), Earlier(other), NEW ds \in SUBSET P!Comment,
         \A d \in ds : other[d].parent = row[d].parent /\ row[d].parent \in ds \cup {0}
  PROVE  \A d \in ds \cup {0} : P!Ancestors(other)[d] = P!Ancestors(row)[d]
<1> DEFINE a == P!Ancestors(row)
           b == P!Ancestors(other)
           ns == {d \in ds : b[d] # a[d]}
<1>1. /\ a[0] = {} /\ \A c \in P!Comment : a[c] = {row[c].parent} \cup a[row[c].parent]
      /\ b[0] = {} /\ \A c \in P!Comment : b[c] = {other[c].parent} \cup b[other[c].parent]
  BY AncestorsAre
<1> HIDE DEF a, b
<1>2. ASSUME NEW n \in ns PROVE \E m \in ns : m < n
  <2>1. n \in ds /\ n \in P!Comment /\ b[n] # a[n]
    OBVIOUS
  <2>2. row[n].parent # 0 /\ b[row[n].parent] # a[row[n].parent]
    <3>1. a[n] = {row[n].parent} \cup a[row[n].parent] /\ b[n] = {row[n].parent} \cup b[row[n].parent]
      BY <1>1, <2>1
    <3>2. b[row[n].parent] # a[row[n].parent]
      BY <2>1, <3>1
    <3> QED BY <1>1, <3>2
  <2>3. row[n].parent \in ns
    BY <2>1, <2>2
  <2>4. row[n].parent < n
    BY <2>1, TopicConstants DEF Earlier
  <2> QED BY <2>3, <2>4
<1>3. ns = {}
  <2>1. \A c \in P!Comment : c \in Nat
    BY TopicConstants
  <2>2. ns \subseteq Nat
    BY <2>1
  <2> HIDE DEF ns
  <2> QED BY <1>2, <2>2, NoLeast
<1> QED BY <1>1, <1>3 DEF a, b

ItemsFine(tree) ==
  /\ tree = [c \in DOMAIN tree |-> tree[c]] /\ DOMAIN tree \subseteq P!Comment
  /\ \A c \in DOMAIN tree : tree[c] \in P!Entries /\ tree[c].parent < c

ViewFine(v) ==
  /\ v = [deleted |-> v.deleted, mine |-> v.mine, edited |-> v.edited, liked |-> v.liked,
          count |-> v.count, items |-> v.items]
  /\ v.deleted \in BOOLEAN /\ v.mine \in BOOLEAN /\ v.edited \in BOOLEAN /\ v.liked \in BOOLEAN
  /\ v.count \in Nat /\ ItemsFine(v.items)

(* The topic in the database: comments are written one after the other,    *)
(* each in answer to an earlier one that was written, or to the topic.     *)
TopicFine(s) ==
  /\ s \in [post : {"alive", "hidden", "gone"}, mine : BOOLEAN, edited : BOOLEAN, liked : BOOLEAN,
            row : [P!Comment -> P!Rows]]
  /\ Earlier(s.row)
  /\ \A c \in P!Comment :
       s.row[c].parent # 0 => s.row[c].parent \in P!Comment /\ s.row[s.row[c].parent].state # "none"
  /\ \A c, d \in P!Comment : d < c /\ s.row[c].state # "none" => s.row[d].state # "none"

PageFine(p) ==
  /\ p = [at |-> p.at, view |-> p.view, extra |-> p.extra]
  /\ p.at \in {"loading", "none", "failed", "shown", "left"}
  /\ ViewFine(p.view) /\ p.extra \in Nat

Asked == P!PostRequests \cup P!CommentRequests
AboutOne == {"add", "edit", "like"}
Turning == {"hide", "destroy", "hidePost", "destroyPost"}

ToldFine(kind, c, told) == ViewFine(told) /\ (kind \in AboutOne => c \in DOMAIN told.items)

CallFine(k) ==
  \/ k = P!NoCall
  \/ /\ k = [kind |-> k.kind, at |-> k.at, phase |-> k.phase, answer |-> k.answer]
     /\ k.kind \in Asked /\ k.at \in 0 .. Comments /\ k.phase \in {"sent", "served", "refused"}
     /\ k.phase = "served" => ToldFine(k.kind, k.at, k.answer)

(* A page that shows the topic shows it as the service would.              *)
Agrees(p, s, staff) ==
  p.at = "shown" =>
    p = [at |-> "shown", view |-> P!View(s, staff), extra |-> 0] /\ s.post # "gone"

(* While a request is under way the page agrees with the service as it was *)
(* before; it will with its answer.                                        *)
Awaits(p, k, s, staff) ==
  /\ k.kind # "load" /\ k.phase \in {"sent", "refused"} => Agrees(p, s, staff)
  /\ k.kind \notin Turning /\ k.phase = "served" => Agrees(P!Answered(p, k.kind, k.at, k.answer), s, staff)

Calm(p, ks, s, staff) ==
  /\ \A x, y \in Slot : ks[x] # P!NoCall /\ ks[y] # P!NoCall => x = y
  /\ (\A x \in Slot : ks[x] = P!NoCall) => Agrees(p, s, staff)
  /\ \A x \in Slot : ks[x] # P!NoCall => Awaits(p, ks[x], s, staff)

TopicInv ==
  /\ role \in P!Role /\ TopicFine(server) /\ PageFine(page)
  /\ call = [x \in Slot |-> call[x]] /\ \A x \in Slot : CallFine(call[x])
  /\ calm \in BOOLEAN /\ clicks \in Nat /\ clicks <= Clicks /\ others \in Nat /\ others <= Others
  /\ calm => Calm(page, call, server, P!Staff)

LEMMA AliveFinite ==
  ASSUME NEW s
  PROVE  /\ IsFiniteSet({c \in P!Comment : P!Alive(s, c)})
         /\ P!Cardinality({c \in P!Comment : P!Alive(s, c)}) \in Nat
         /\ P!Cardinality({c \in P!Comment : P!Alive(s, c)}) = Cardinality({c \in P!Comment : P!Alive(s, c)})
<1> DEFINE xs == {c \in P!Comment : P!Alive(s, c)}
<1>1. IsFiniteSet(1 .. Comments)
  BY TopicConstants, FS_Interval
<1>2. xs \in SUBSET (1 .. Comments)
  BY TopicConstants
<1> HIDE DEF xs
<1>3. IsFiniteSet(xs) /\ Cardinality(xs) \in Nat
  BY <1>1, <1>2, FS_Subset, FS_CardinalityType
<1>4. P!Cardinality(xs) = Cardinality(xs)
  BY DEF P!Cardinality, Cardinality
<1> QED BY <1>3, <1>4 DEF xs

(* What the service tells of a comment.                                    *)
LEMMA ItemFine ==
  ASSUME NEW r \in P!Rows, NEW staff \in BOOLEAN
  PROVE  P!Item(r, staff) \in P!Entries /\ P!Item(r, staff).parent = r.parent
         /\ (P!Item(r, staff).deleted <=> r.state = "hidden") /\ (P!Item(r, staff).mine = r.mine)
<1> DEFINE told == r.state = "alive" \/ staff
           hidden == r.state = "hidden"
           text == IF ~told THEN "" ELSE IF r.edited THEN "new" ELSE "old"
           heeded == told /\ r.liked
<1>1. P!Item(r, staff) = [mine |-> r.mine, parent |-> r.parent, deleted |-> hidden, text |-> text,
                          liked |-> heeded]
  BY DEF P!Item
<1>2. r.mine \in BOOLEAN /\ r.parent \in 0 .. Comments /\ hidden \in BOOLEAN /\ text \in {"", "old", "new"}
  BY DEF P!Rows
<1>3. heeded \in BOOLEAN
  BY DEF P!Rows
<1> HIDE DEF hidden, text, heeded, told
<1>4. P!Item(r, staff) \in P!Entries
  <2> DEFINE texts == {"", "old", "new"}
             it == [mine |-> r.mine, parent |-> r.parent, deleted |-> hidden, text |-> text,
                    liked |-> heeded]
  <2>1. text \in texts
    BY <1>2
  <2> HIDE DEF texts
  <2>2. it \in [mine : BOOLEAN, parent : 0 .. Comments, deleted : BOOLEAN, text : texts, liked : BOOLEAN]
    BY <1>2, <1>3, <2>1
  <2> HIDE DEF it
  <2>3. it \in P!Entries
    BY <2>2 DEF texts, P!Entries
  <2> QED BY <1>1, <2>3 DEF it
<1>5. P!Item(r, staff).deleted = hidden /\ P!Item(r, staff).parent = r.parent
      /\ P!Item(r, staff).mine = r.mine
  BY <1>1
<1> QED BY <1>4, <1>5 DEF hidden

(* What the service tells of the topic.                                    *)
LEMMA ViewIs ==
  ASSUME NEW s, TopicFine(s), NEW staff \in BOOLEAN
  PROVE  /\ ViewFine(P!View(s, staff))
         /\ (P!View(s, staff).deleted <=> s.post = "hidden") /\ P!View(s, staff).mine = s.mine
         /\ P!View(s, staff).edited = s.edited /\ P!View(s, staff).liked = s.liked
         /\ P!View(s, staff).count = P!Cardinality({c \in P!Comment : P!Alive(s, c)})
         /\ P!View(s, staff).items = [c \in P!Visible(s, staff) |-> P!Item(s.row[c], staff)]
         /\ P!Visible(s, staff) \subseteq P!Comment
         /\ \A c \in P!Comment : P!Alive(s, c) => c \in P!Visible(s, staff)
<1> DEFINE v == P!View(s, staff)
           del == s.post = "hidden"
           n == P!Cardinality({c \in P!Comment : P!Alive(s, c)})
           vis == P!Visible(s, staff)
           its == [c \in vis |-> P!Item(s.row[c], staff)]
<1>1. v = [deleted |-> del, mine |-> s.mine, edited |-> s.edited, liked |-> s.liked, count |-> n, items |-> its]
  BY DEF P!View
<1>2. vis \subseteq P!Comment /\ \A c \in P!Comment : P!Alive(s, c) => c \in vis
  BY DEF P!Visible, P!Alive
<1>3. n \in Nat
  BY AliveFinite
<1>4. del \in BOOLEAN /\ s.mine \in BOOLEAN /\ s.edited \in BOOLEAN /\ s.liked \in BOOLEAN
  BY DEF TopicFine
<1> HIDE DEF n, vis, del
<1>5. ItemsFine(its)
  <2>1. its = [c \in DOMAIN its |-> its[c]] /\ DOMAIN its = vis
    OBVIOUS
  <2>2. ASSUME NEW c \in vis PROVE its[c] \in P!Entries /\ its[c].parent < c
    <3>1. s.row[c] \in P!Rows /\ s.row[c].parent < c
      BY <1>2, TopicConstants DEF TopicFine, Earlier
    <3> QED BY <3>1, ItemFine
  <2> QED BY <1>2, <2>1, <2>2 DEF ItemsFine
<1> HIDE DEF its, v
<1>6. v.deleted = del /\ v.mine = s.mine /\ v.edited = s.edited /\ v.liked = s.liked /\ v.count = n
      /\ v.items = its
  BY <1>1
<1>7. ViewFine(v)
  BY <1>1, <1>3, <1>4, <1>5, <1>6 DEF ViewFine
<1> QED BY <1>2, <1>6, <1>7 DEF v, n, vis, del, its

(* The next comment to come, if there is room for one: all before it are   *)
(* written.                                                                *)
LEMMA NewCommentIs ==
  ASSUME NEW s, TopicFine(s), P!Unwritten(s) # {}
  PROVE  /\ P!NewComment(s) \in P!Comment /\ s.row[P!NewComment(s)].state = "none"
         /\ \A d \in P!Comment : s.row[d].state # "none" => d < P!NewComment(s)
         /\ \A d \in P!Comment : d < P!NewComment(s) => s.row[d].state # "none"
<1> DEFINE us == P!Unwritten(s)
           n == CHOOSE c \in us : \A d \in us : c <= d
<1>1. us = {c \in P!Comment : s.row[c].state = "none"} /\ us # {}
  BY DEF P!Unwritten
<1>2. \A c \in P!Comment : c \in Nat
  BY TopicConstants
<1> HIDE DEF us
<1>3. \E c \in us : \A d \in us : c <= d
  <2>1. us \subseteq Nat
    BY <1>1, <1>2
  <2> QED BY <1>1, <2>1, LeastIs
<1>4. n \in us /\ \A d \in us : n <= d
  BY <1>3
<1>5. P!NewComment(s) = n
  BY DEF P!NewComment, us
<1> HIDE DEF n
<1>6. n \in P!Comment /\ s.row[n].state = "none" /\ n \in Nat
  BY <1>1, <1>2, <1>4
<1>7. \A d \in P!Comment : s.row[d].state # "none" => d < n
  <2> SUFFICES ASSUME NEW d \in P!Comment, s.row[d].state # "none", ~(d < n) PROVE FALSE
    OBVIOUS
  <2>1. n < d
    BY <1>2, <1>6
  <2> QED BY <1>6, <2>1 DEF TopicFine
<1>8. \A d \in P!Comment : d < n => s.row[d].state # "none"
  <2> SUFFICES ASSUME NEW d \in P!Comment, d < n, s.row[d].state = "none" PROVE FALSE
    OBVIOUS
  <2>1. d \in us
    BY <1>1
  <2> QED BY <1>2, <1>4, <1>6, <2>1
<1> QED BY <1>5, <1>6, <1>7, <1>8

(* A comment changes, and answers what it answered.                        *)
LEMMA RowChanged ==
  ASSUME NEW s, TopicFine(s), NEW c \in P!Comment, NEW r \in P!Rows, r.parent = s.row[c].parent,
         s.row[c].state # "none", r.state # "none", NEW t, t = [s EXCEPT !.row = [s.row EXCEPT ![c] = r]]
  PROVE  /\ TopicFine(t)
         /\ t.post = s.post /\ t.mine = s.mine /\ t.edited = s.edited /\ t.liked = s.liked
         /\ \A d \in P!Comment : t.row[d] = IF d = c THEN r ELSE s.row[d]
<1> DEFINE rw == [s.row EXCEPT ![c] = r]
<1>1. s \in [post : {"alive", "hidden", "gone"}, mine : BOOLEAN, edited : BOOLEAN, liked : BOOLEAN,
             row : [P!Comment -> P!Rows]]
  BY DEF TopicFine
<1>2. rw \in [P!Comment -> P!Rows] /\ \A d \in P!Comment : rw[d] = IF d = c THEN r ELSE s.row[d]
  BY <1>1
<1>3. t = [s EXCEPT !.row = rw]
  OBVIOUS
<1> HIDE DEF rw
<1>4. /\ t \in [post : {"alive", "hidden", "gone"}, mine : BOOLEAN, edited : BOOLEAN, liked : BOOLEAN,
                row : [P!Comment -> P!Rows]]
      /\ t.row = rw /\ t.post = s.post /\ t.mine = s.mine /\ t.edited = s.edited /\ t.liked = s.liked
  BY <1>1, <1>2, <1>3
<1>5. \A d \in P!Comment : rw[d].parent = s.row[d].parent
                           /\ (rw[d].state = "none" <=> s.row[d].state = "none")
  BY <1>2
<1>6. Earlier(rw)
  BY <1>5 DEF Earlier, TopicFine
<1>7. \A d \in P!Comment : rw[d].parent # 0 => rw[d].parent \in P!Comment /\ rw[rw[d].parent].state # "none"
  BY <1>5 DEF TopicFine
<1>8. \A d, e \in P!Comment : e < d /\ rw[d].state # "none" => rw[e].state # "none"
  BY <1>5 DEF TopicFine
<1> QED BY <1>2, <1>4, <1>6, <1>7, <1>8 DEF TopicFine

(* A comment is added.                                                     *)
LEMMA RowAdded ==
  ASSUME NEW s, TopicFine(s), P!Unwritten(s) # {}, NEW c, c = 0 \/ P!Alive(s, c), NEW mine \in BOOLEAN
  PROVE  LET n == P!NewComment(s)
             t == P!Effect(s, mine, "add", c) IN
         /\ TopicFine(t)
         /\ t.post = s.post /\ t.mine = s.mine /\ t.edited = s.edited /\ t.liked = s.liked
         /\ t.row[n].state = "alive" /\ t.row[n].parent = c
         /\ \A d \in P!Comment : d # n => t.row[d] = s.row[d]
<1> DEFINE n == P!NewComment(s)
           r == [P!NoRow EXCEPT !.state = "alive", !.mine = mine, !.parent = c]
           rw == [s.row EXCEPT ![n] = r]
           t == [s EXCEPT !.row = rw]
<1>1. /\ n \in P!Comment /\ s.row[n].state = "none"
      /\ \A d \in P!Comment : s.row[d].state # "none" => d < n
      /\ \A d \in P!Comment : d < n => s.row[d].state # "none"
  BY NewCommentIs
<1>2. c \in 0 .. n - 1 /\ (c # 0 => c \in P!Comment /\ s.row[c].state = "alive")
  <2>1. CASE c = 0
    BY <1>1, <2>1, TopicConstants
  <2>2. CASE P!Alive(s, c)
    <3>1. c \in P!Comment /\ s.row[c].state = "alive"
      BY <2>2 DEF P!Alive
    <3>2. c < n
      BY <1>1, <3>1
    <3> QED BY <1>1, <3>1, <3>2, TopicConstants
  <2> QED BY <2>1, <2>2
<1>3. r \in P!Rows /\ r.state = "alive" /\ r.parent = c
  <2>1. c \in 0 .. Comments
    BY <1>2, TopicConstants
  <2> QED BY <2>1 DEF P!NoRow, P!Rows
<1>4. s \in [post : {"alive", "hidden", "gone"}, mine : BOOLEAN, edited : BOOLEAN, liked : BOOLEAN,
             row : [P!Comment -> P!Rows]]
  BY DEF TopicFine
<1>5. P!Effect(s, mine, "add", c) = t
  BY <1>4 DEF P!Effect
<1> HIDE DEF n, r
<1>6. rw \in [P!Comment -> P!Rows] /\ \A d \in P!Comment : rw[d] = IF d = n THEN r ELSE s.row[d]
  BY <1>1, <1>3, <1>4
<1> HIDE DEF rw
<1>7. /\ t \in [post : {"alive", "hidden", "gone"}, mine : BOOLEAN, edited : BOOLEAN, liked : BOOLEAN,
                row : [P!Comment -> P!Rows]]
      /\ t.row = rw /\ t.post = s.post /\ t.mine = s.mine /\ t.edited = s.edited /\ t.liked = s.liked
  BY <1>4, <1>6
<1> HIDE DEF t
<1>8. Earlier(rw)
  BY <1>2, <1>3, <1>6 DEF Earlier, TopicFine
<1>9. \A d \in P!Comment : s.row[d].state # "none" => d # n /\ rw[d].state # "none"
  BY <1>1, <1>6
<1>10. \A d \in P!Comment : rw[d].parent # 0 => rw[d].parent \in P!Comment /\ rw[rw[d].parent].state # "none"
  BY <1>2, <1>3, <1>6, <1>9 DEF TopicFine
<1>11. ASSUME NEW d \in P!Comment, NEW e \in P!Comment, e < d, rw[d].state # "none"
       PROVE  rw[e].state # "none"
  <2>1. CASE d = n
    BY <1>1, <1>9, <1>11, <2>1
  <2>2. CASE d # n
    <3>1. s.row[d].state # "none"
      BY <1>6, <1>11, <2>2
    <3>2. s.row[e].state # "none"
      BY <1>11, <3>1 DEF TopicFine
    <3> QED BY <1>9, <3>2
  <2> QED BY <2>1, <2>2
<1>12. TopicFine(t)
  BY <1>7, <1>8, <1>10, <1>11 DEF TopicFine
<1> QED BY <1>1, <1>3, <1>5, <1>6, <1>7, <1>12 DEF n

(* A comment is gone: what answered it answers what it answered.           *)
LEMMA RowDestroyed ==
  ASSUME NEW s, TopicFine(s), NEW c \in P!Comment, s.row[c].state # "none", NEW mine \in BOOLEAN
  PROVE  TopicFine(P!Effect(s, mine, "destroy", c))
<1> DEFINE gone == [P!NoRow EXCEPT !.state = "gone"]
           moved(d) == [s.row[d] EXCEPT !.parent = s.row[c].parent]
           rw == [d \in P!Comment |-> IF d = c THEN gone
                                      ELSE IF s.row[d].parent = c THEN moved(d) ELSE s.row[d]]
           t == [s EXCEPT !.row = rw]
<1>1. s \in [post : {"alive", "hidden", "gone"}, mine : BOOLEAN, edited : BOOLEAN, liked : BOOLEAN,
             row : [P!Comment -> P!Rows]]
  BY DEF TopicFine
<1>2. P!Effect(s, mine, "destroy", c) = t
  <2>1. P!Effect(s, mine, "destroy", c) =
          [s EXCEPT !.row = [d \in P!Comment |->
             IF d = c THEN [P!NoRow EXCEPT !.state = "gone"]
             ELSE IF s.row[d].parent = c THEN [s.row[d] EXCEPT !.parent = s.row[c].parent] ELSE s.row[d]]]
    BY <1>1 DEF P!Effect
  <2> QED BY <2>1
<1>3. gone \in P!Rows /\ gone.state = "gone" /\ gone.parent = 0
  <2>1. 0 \in 0 .. Comments
    BY TopicConstants
  <2> QED BY <2>1 DEF P!NoRow, P!Rows
<1>4. \A d \in P!Comment : s.row[d] \in P!Rows /\ s.row[d].parent \in 0 .. d - 1 /\ d \in Nat
  BY <1>1, TopicConstants DEF TopicFine, Earlier
<1>5. s.row[c].parent \in 0 .. Comments /\ s.row[c].parent # c
  <2>1. s.row[c] \in P!Rows /\ s.row[c].parent \in 0 .. c - 1 /\ c \in Nat
    BY <1>4
  <2> QED BY <2>1 DEF P!Rows
<1>6. ASSUME NEW d \in P!Comment
      PROVE  moved(d) \in P!Rows /\ moved(d).parent = s.row[c].parent /\ moved(d).state = s.row[d].state
  <2>1. s.row[d] \in P!Rows
    BY <1>4
  <2> QED BY <1>5, <2>1 DEF P!Rows
<1> HIDE DEF gone, moved
<1>7. rw \in [P!Comment -> P!Rows]
      /\ \A d \in P!Comment : rw[d] = IF d = c THEN gone
                                      ELSE IF s.row[d].parent = c THEN moved(d) ELSE s.row[d]
  BY <1>3, <1>4, <1>6
<1> HIDE DEF rw
<1>8. /\ t \in [post : {"alive", "hidden", "gone"}, mine : BOOLEAN, edited : BOOLEAN, liked : BOOLEAN,
                row : [P!Comment -> P!Rows]]
      /\ t.row = rw
  BY <1>1, <1>7
<1> HIDE DEF t
<1>9. \A d \in P!Comment : rw[d].parent = IF d = c THEN 0
                                          ELSE IF s.row[d].parent = c THEN s.row[c].parent ELSE s.row[d].parent
  BY <1>3, <1>6, <1>7
<1>10. \A d \in P!Comment : rw[d].state = "none" <=> s.row[d].state = "none"
  BY <1>3, <1>6, <1>7
<1>11. Earlier(rw)
  <2> SUFFICES ASSUME NEW d \in P!Comment PROVE rw[d].parent \in 0 .. d - 1
    BY DEF Earlier
  <2>1. s.row[d].parent \in 0 .. d - 1 /\ d \in Nat /\ c \in Nat /\ s.row[c].parent \in 0 .. c - 1
    BY <1>4
  <2>2. CASE d = c
    <3>1. d # 0
      BY TopicConstants
    <3> QED BY <1>9, <2>1, <2>2, <3>1
  <2>3. CASE d # c /\ s.row[d].parent = c
    BY <1>9, <2>1, <2>3
  <2>4. CASE d # c /\ s.row[d].parent # c
    BY <1>9, <2>1, <2>4
  <2> QED BY <2>2, <2>3, <2>4
<1>12. \A d \in P!Comment : rw[d].parent # 0 => rw[d].parent \in P!Comment /\ rw[rw[d].parent].state # "none"
  <2> SUFFICES ASSUME NEW d \in P!Comment, rw[d].parent # 0
               PROVE  rw[d].parent \in P!Comment /\ rw[rw[d].parent].state # "none"
    OBVIOUS
  <2>1. PICK e \in P!Comment : rw[d].parent = s.row[e].parent
    BY <1>9
  <2>2. s.row[e].parent \in P!Comment /\ s.row[s.row[e].parent].state # "none"
    BY <2>1 DEF TopicFine
  <2> QED BY <1>10, <2>1, <2>2
<1>13. \A d, e \in P!Comment : e < d /\ rw[d].state # "none" => rw[e].state # "none"
  BY <1>10 DEF TopicFine
<1> QED BY <1>2, <1>8, <1>11, <1>12, <1>13 DEF TopicFine

(* Whatever is granted leaves a topic.                                     *)
LEMMA EffectTopic ==
  ASSUME NEW s, TopicFine(s), NEW staff \in BOOLEAN, NEW mine \in BOOLEAN, NEW kind \in Asked,
         NEW c \in 0 .. Comments, P!Accepts(s, staff, mine, kind, c),
         kind = "add" => P!Unwritten(s) # {}
  PROVE  TopicFine(P!Effect(s, mine, kind, c))
<1>1. s \in [post : {"alive", "hidden", "gone"}, mine : BOOLEAN, edited : BOOLEAN, liked : BOOLEAN,
             row : [P!Comment -> P!Rows]]
  BY DEF TopicFine
<1>2. CASE kind = "load"
  BY <1>2 DEF P!Effect
<1>3. ASSUME NEW t \in [post : {"alive", "hidden", "gone"}, mine : BOOLEAN, edited : BOOLEAN, liked : BOOLEAN,
                        row : [P!Comment -> P!Rows]], t.row = s.row
      PROVE  TopicFine(t)
  BY <1>3 DEF TopicFine
<1>4. CASE kind \in {"editPost", "likePost", "hidePost", "restorePost"}
  <2> DEFINE t == P!Effect(s, mine, kind, c)
  <2>1. CASE kind = "editPost"
    <3>1. t = [s EXCEPT !.edited = TRUE]
      BY <2>1 DEF P!Effect
    <3> QED BY <1>1, <1>3, <3>1
  <2>2. CASE kind = "likePost"
    <3> DEFINE l == IF mine THEN ~s.liked ELSE s.liked
    <3>1. t = [s EXCEPT !.liked = l] /\ l \in BOOLEAN
      BY <1>1, <2>2 DEF P!Effect
    <3> HIDE DEF l
    <3> QED BY <1>1, <1>3, <3>1
  <2>3. CASE kind = "hidePost"
    <3>1. t = [s EXCEPT !.post = "hidden"]
      BY <2>3 DEF P!Effect
    <3> QED BY <1>1, <1>3, <3>1
  <2>4. CASE kind = "restorePost"
    <3>1. t = [s EXCEPT !.post = "alive"]
      BY <2>4 DEF P!Effect
    <3> QED BY <1>1, <1>3, <3>1
  <2> QED BY <1>4, <2>1, <2>2, <2>3, <2>4
<1>5. CASE kind = "destroyPost"
  <2> DEFINE rw == [d \in P!Comment |-> P!NoRow]
             t == [s EXCEPT !.post = "gone", !.row = rw]
  <2>1. P!Effect(s, mine, kind, c) = t
    BY <1>5 DEF P!Effect
  <2>2. P!NoRow \in P!Rows /\ P!NoRow.parent = 0 /\ P!NoRow.state = "none"
    <3>1. 0 \in 0 .. Comments
      BY TopicConstants
    <3> QED BY <3>1 DEF P!NoRow, P!Rows
  <2>3. rw \in [P!Comment -> P!Rows] /\ \A d \in P!Comment : rw[d] = P!NoRow
    BY <2>2
  <2> HIDE DEF rw
  <2>4. /\ t \in [post : {"alive", "hidden", "gone"}, mine : BOOLEAN, edited : BOOLEAN, liked : BOOLEAN,
                  row : [P!Comment -> P!Rows]]
        /\ t.row = rw
    BY <1>1, <2>3
  <2> HIDE DEF t
  <2>5. \A d \in P!Comment : 0 \in 0 .. d - 1
    BY TopicConstants
  <2> QED BY <2>1, <2>2, <2>3, <2>4, <2>5 DEF TopicFine, Earlier
<1>6. CASE kind = "add"
  <2>1. c = 0 \/ P!Alive(s, c)
    BY <1>6 DEF P!Accepts
  <2> QED BY <1>6, <2>1, RowAdded
<1>7. CASE kind \in {"edit", "like", "hide", "restore"}
  <2> DEFINE l == IF mine THEN ~s.row[c].liked ELSE s.row[c].liked
             r == CASE kind = "edit" -> [s.row[c] EXCEPT !.edited = TRUE]
                    [] kind = "like" -> [s.row[c] EXCEPT !.liked = l]
                    [] kind = "hide" -> [s.row[c] EXCEPT !.state = "hidden"]
                    [] kind = "restore" -> [s.row[c] EXCEPT !.state = "alive"]
  <2>1. c \in P!Comment /\ s.row[c].state \in {"alive", "hidden"}
    BY <1>7 DEF P!Accepts, P!Alive, P!Hidden
  <2>2. s.row[c] \in P!Rows
    BY <1>1, <2>1
  <2>3. l \in BOOLEAN
    BY <2>2 DEF P!Rows
  <2> HIDE DEF l
  <2>4. r \in P!Rows /\ r.parent = s.row[c].parent /\ r.state \in {"alive", "hidden"}
    BY <1>7, <2>1, <2>2, <2>3 DEF P!Rows
  <2>5. P!Effect(s, mine, kind, c) = [s EXCEPT !.row = [s.row EXCEPT ![c] = r]]
    <3>1. CASE kind = "edit"
      BY <1>1, <2>1, <3>1 DEF P!Effect
    <3>2. CASE kind = "like"
      BY <1>1, <2>1, <3>2 DEF P!Effect, l
    <3>3. CASE kind = "hide"
      BY <1>1, <2>1, <3>3 DEF P!Effect
    <3>4. CASE kind = "restore"
      BY <1>1, <2>1, <3>4 DEF P!Effect
    <3> QED BY <1>7, <3>1, <3>2, <3>3, <3>4
  <2> HIDE DEF r
  <2>6. r.state # "none" /\ s.row[c].state # "none"
    BY <2>1, <2>4
  <2> QED BY <2>1, <2>4, <2>5, <2>6, RowChanged
<1>8. CASE kind = "destroy"
  <2>1. c \in P!Comment /\ s.row[c].state # "none"
    BY <1>8 DEF P!Accepts, P!Hidden
  <2> QED BY <1>8, <2>1, RowDestroyed
<1> QED BY <1>2, <1>4, <1>5, <1>6, <1>7, <1>8 DEF Asked, P!PostRequests, P!CommentRequests

(* Comments that are there and hang together as before are seen as before. *)
LEMMA VisibleSame ==
  ASSUME NEW s, TopicFine(s), NEW t, TopicFine(t), NEW staff \in BOOLEAN,
         \A d \in P!Comment : t.row[d].state = s.row[d].state /\ t.row[d].parent = s.row[d].parent
  PROVE  /\ P!Visible(t, staff) = P!Visible(s, staff)
         /\ {d \in P!Comment : P!Alive(t, d)} = {d \in P!Comment : P!Alive(s, d)}
<1>1. Earlier(s.row) /\ Earlier(t.row)
  BY DEF TopicFine
<1>2. \A d \in P!Comment : s.row[d].parent \in P!Comment \cup {0}
  BY DEF TopicFine
<1>3. \A d \in P!Comment : P!Ancestors(t.row)[d] = P!Ancestors(s.row)[d]
  <2>1. P!Comment \in SUBSET P!Comment
    OBVIOUS
  <2> QED BY <1>1, <1>2, <2>1, AncestorsSame
<1>4. \A c \in P!Comment : P!LivingBelow(t.row, c) <=> P!LivingBelow(s.row, c)
  BY <1>3 DEF P!LivingBelow
<1> QED BY <1>4 DEF P!Visible, P!Alive

(* A comment that is added is seen, and nothing else for its sake.         *)
LEMMA AddedIsSeen ==
  ASSUME NEW s, TopicFine(s), P!Unwritten(s) # {}, NEW c, c = 0 \/ P!Alive(s, c), NEW mine \in BOOLEAN,
         NEW staff \in BOOLEAN
  PROVE  LET n == P!NewComment(s)
             t == P!Effect(s, mine, "add", c) IN
         /\ P!Visible(t, staff) = P!Visible(s, staff) \cup {n} /\ n \notin P!Visible(s, staff)
         /\ P!View(t, staff).count = P!View(s, staff).count + 1
<1> DEFINE n == P!NewComment(s)
           t == P!Effect(s, mine, "add", c)
<1>1. /\ n \in P!Comment /\ s.row[n].state = "none"
      /\ \A d \in P!Comment : s.row[d].state # "none" => d < n
  BY NewCommentIs
<1>2. /\ TopicFine(t) /\ t.row[n].state = "alive" /\ t.row[n].parent = c
      /\ \A d \in P!Comment : d # n => t.row[d] = s.row[d]
  BY RowAdded
<1> HIDE DEF n, t
<1>3. Earlier(s.row) /\ Earlier(t.row)
  BY <1>2 DEF TopicFine
<1>4. c # 0 => c \in P!Comment /\ s.row[c].state = "alive"
  BY DEF P!Alive
<1>5. \A d \in (P!Comment \ {n}) \cup {0} : P!Ancestors(t.row)[d] = P!Ancestors(s.row)[d]
  <2> DEFINE ds == P!Comment \ {n}
  <2>1. ds \in SUBSET P!Comment
    OBVIOUS
  <2>2. \A d \in ds : t.row[d].parent = s.row[d].parent
    BY <1>2
  <2>3. \A d \in ds : s.row[d].parent \in ds \cup {0}
    BY <1>1 DEF TopicFine
  <2> HIDE DEF ds
  <2>4. \A d \in ds \cup {0} : P!Ancestors(t.row)[d] = P!Ancestors(s.row)[d]
    BY <1>3, <2>1, <2>2, <2>3, AncestorsSame
  <2> QED BY <2>4 DEF ds
<1>6. P!Ancestors(t.row)[n] = {c} \cup P!Ancestors(s.row)[c]
  <2>1. P!Ancestors(t.row)[n] = {c} \cup P!Ancestors(t.row)[c]
    BY <1>1, <1>2, <1>3, AncestorsAre
  <2>2. c \in (P!Comment \ {n}) \cup {0}
    BY <1>1, <1>4
  <2> QED BY <1>5, <2>1, <2>2
<1>7. P!Ancestors(s.row)[0] = {}
  BY <1>3, AncestorsAre
<1>8. ASSUME NEW h \in P!Comment, s.row[h].state = "hidden"
      PROVE  P!LivingBelow(t.row, h) <=> P!LivingBelow(s.row, h)
  <2>1. ASSUME P!LivingBelow(s.row, h) PROVE P!LivingBelow(t.row, h)
    <3>1. PICK d \in P!Comment : s.row[d].state = "alive" /\ h \in P!Ancestors(s.row)[d]
      BY <2>1 DEF P!LivingBelow
    <3>2. d # n /\ t.row[d] = s.row[d]
      BY <1>1, <1>2, <3>1
    <3> QED BY <1>5, <3>1, <3>2 DEF P!LivingBelow
  <2>2. ASSUME P!LivingBelow(t.row, h) PROVE P!LivingBelow(s.row, h)
    <3>1. PICK d \in P!Comment : t.row[d].state = "alive" /\ h \in P!Ancestors(t.row)[d]
      BY <2>2 DEF P!LivingBelow
    <3>2. CASE d # n
      BY <1>2, <1>5, <3>1, <3>2 DEF P!LivingBelow
    <3>3. CASE d = n
      <4>1. h # c
        BY <1>4, <1>8, TopicConstants
      <4>2. h \in P!Ancestors(s.row)[c]
        BY <1>6, <3>1, <3>3, <4>1
      <4>3. c # 0
        BY <1>7, <4>2
      <4> QED BY <1>4, <4>2, <4>3 DEF P!LivingBelow
    <3> QED BY <3>2, <3>3
  <2> QED BY <2>1, <2>2
<1>9. \A d \in P!Comment : d \in P!Visible(t, staff) <=> d \in P!Visible(s, staff) \/ d = n
  <2> SUFFICES ASSUME NEW d \in P!Comment
               PROVE  d \in P!Visible(t, staff) <=> d \in P!Visible(s, staff) \/ d = n
    OBVIOUS
  <2>1. CASE d = n
    BY <1>2, <2>1 DEF P!Visible
  <2>2. CASE d # n
    BY <1>2, <1>8, <2>2 DEF P!Visible
  <2> QED BY <2>1, <2>2
<1>10. P!Visible(t, staff) = P!Visible(s, staff) \cup {n}
  BY <1>1, <1>9 DEF P!Visible
<1>11. n \notin P!Visible(s, staff)
  BY <1>1 DEF P!Visible
<1>12. P!Cardinality({d \in P!Comment : P!Alive(t, d)})
         = P!Cardinality({d \in P!Comment : P!Alive(s, d)}) + 1
  <2> DEFINE before == {d \in P!Comment : P!Alive(s, d)}
             after == {d \in P!Comment : P!Alive(t, d)}
  <2>1. after = before \cup {n} /\ n \notin before
    BY <1>1, <1>2 DEF P!Alive
  <2>2. IsFiniteSet(before) /\ P!Cardinality(before) = Cardinality(before)
        /\ P!Cardinality(after) = Cardinality(after)
    BY AliveFinite
  <2> HIDE DEF before, after
  <2>3. Cardinality(after) = Cardinality(before) + 1
    BY <2>1, <2>2, FS_AddElement
  <2> QED BY <2>2, <2>3 DEF before, after
<1>13. P!View(t, staff).count = P!View(s, staff).count + 1
  <2>1. P!View(s, staff).count = P!Cardinality({d \in P!Comment : P!Alive(s, d)})
    BY ViewIs
  <2>2. P!View(t, staff).count = P!Cardinality({d \in P!Comment : P!Alive(t, d)})
    BY <1>2, ViewIs
  <2> QED BY <1>12, <2>1, <2>2
<1> QED BY <1>10, <1>11, <1>13 DEF n, t

LEMMA NoViewFine ==
  /\ ViewFine(P!NoView)
  /\ P!NoView.deleted = FALSE /\ P!NoView.mine = FALSE /\ P!NoView.edited = FALSE /\ P!NoView.liked = FALSE
  /\ P!NoView.count = 0 /\ DOMAIN P!NoView.items = {}
<1> DEFINE e == [c \in {} |-> None]
<1>1. P!NoView = [deleted |-> FALSE, mine |-> FALSE, edited |-> FALSE, liked |-> FALSE, count |-> 0,
                  items |-> e]
  BY DEF P!NoView
<1>2. ItemsFine(e) /\ DOMAIN e = {}
  BY DEF ItemsFine
<1> HIDE DEF e
<1> QED BY <1>1, <1>2 DEF ViewFine

(* Part of a view is replaced.                                             *)
LEMMA ViewChanged ==
  ASSUME NEW v, ViewFine(v)
  PROVE  /\ \A l : [v EXCEPT !.liked = l]
                   = [deleted |-> v.deleted, mine |-> v.mine, edited |-> v.edited, liked |-> l,
                      count |-> v.count, items |-> v.items]
         /\ \A i : [v EXCEPT !.items = i]
                   = [deleted |-> v.deleted, mine |-> v.mine, edited |-> v.edited, liked |-> v.liked,
                      count |-> v.count, items |-> i]
         /\ \A n, i : [[v EXCEPT !.items = i] EXCEPT !.count = n]
                   = [deleted |-> v.deleted, mine |-> v.mine, edited |-> v.edited, liked |-> v.liked,
                      count |-> n, items |-> i]
<1>1. v = [deleted |-> v.deleted, mine |-> v.mine, edited |-> v.edited, liked |-> v.liked,
           count |-> v.count, items |-> v.items]
  BY DEF ViewFine
<1> DEFINE a == v.deleted
           b == v.mine
           c == v.edited
           d == v.liked
           e == v.count
           f == v.items
<1>2. v = [deleted |-> a, mine |-> b, edited |-> c, liked |-> d, count |-> e, items |-> f]
  BY <1>1
<1> HIDE DEF a, b, c, d, e, f
<1>3. \A l : [v EXCEPT !.liked = l]
             = [deleted |-> a, mine |-> b, edited |-> c, liked |-> l, count |-> e, items |-> f]
  BY <1>2
<1>4. \A i : [v EXCEPT !.items = i]
             = [deleted |-> a, mine |-> b, edited |-> c, liked |-> d, count |-> e, items |-> i]
  BY <1>2
<1>5. \A n, i : [[v EXCEPT !.items = i] EXCEPT !.count = n]
             = [deleted |-> a, mine |-> b, edited |-> c, liked |-> d, count |-> n, items |-> i]
  <2> SUFFICES ASSUME NEW n, NEW i
               PROVE  [[v EXCEPT !.items = i] EXCEPT !.count = n]
                      = [deleted |-> a, mine |-> b, edited |-> c, liked |-> d, count |-> n, items |-> i]
    OBVIOUS
  <2> DEFINE u == [v EXCEPT !.items = i]
  <2>1. u = [deleted |-> a, mine |-> b, edited |-> c, liked |-> d, count |-> e, items |-> i]
    BY <1>4
  <2> HIDE DEF u
  <2>2. [u EXCEPT !.count = n] = [deleted |-> a, mine |-> b, edited |-> c, liked |-> d, count |-> n, items |-> i]
    BY <2>1
  <2> QED BY <2>2 DEF u
<1> QED BY <1>3, <1>4, <1>5 DEF a, b, c, d, e, f

(* What is told with an answer.                                            *)
LEMMA ToldIs ==
  ASSUME NEW s, TopicFine(s), NEW staff \in BOOLEAN, NEW kind \in Asked, NEW c,
         kind \in AboutOne => P!Alive(s, c)
  PROVE  /\ ToldFine(kind, c, P!Told(s, staff, kind, c))
         /\ kind \in P!Whole => P!Told(s, staff, kind, c) = P!View(s, staff)
         /\ kind = "likePost" => P!Told(s, staff, kind, c).liked = s.liked
         /\ kind \in AboutOne => P!Told(s, staff, kind, c).items[c] = P!Item(s.row[c], staff)
<1> DEFINE v == P!View(s, staff)
           told == P!Told(s, staff, kind, c)
           one == [d \in {c} |-> v.items[d]]
<1>1. /\ ViewFine(v) /\ v.liked = s.liked /\ v.items = [d \in P!Visible(s, staff) |-> P!Item(s.row[d], staff)]
      /\ \A d \in P!Comment : P!Alive(s, d) => d \in P!Visible(s, staff)
  BY ViewIs
<1>2. told = CASE kind \in P!Whole -> v
               [] kind = "likePost" -> [P!NoView EXCEPT !.liked = v.liked]
               [] kind \in AboutOne -> [P!NoView EXCEPT !.items = one]
               [] OTHER -> P!NoView
  BY DEF P!Told, AboutOne
<1>3. P!Whole = {"load", "editPost", "restorePost", "restore"}
  BY DEF P!Whole
<1> HIDE DEF v, told, one
<1>4. CASE kind \in P!Whole
  <2>1. told = v /\ kind \notin AboutOne /\ kind # "likePost"
    BY <1>2, <1>3, <1>4 DEF AboutOne
  <2> QED BY <1>1, <2>1 DEF ToldFine, told, v
<1>5. CASE kind = "likePost"
  <2>1. told = [P!NoView EXCEPT !.liked = v.liked] /\ kind \notin AboutOne /\ kind \notin P!Whole
    BY <1>2, <1>3, <1>5 DEF AboutOne
  <2> DEFINE l == v.liked
             n == P!NoView
  <2>2. told = [deleted |-> n.deleted, mine |-> n.mine, edited |-> n.edited, liked |-> l,
                count |-> n.count, items |-> n.items]
    BY <2>1, NoViewFine, ViewChanged
  <2>3. l \in BOOLEAN /\ ViewFine(n)
    BY <1>1, NoViewFine DEF ViewFine
  <2> HIDE DEF l, n
  <2>4. ViewFine(told) /\ told.liked = l
    BY <2>2, <2>3 DEF ViewFine
  <2> QED BY <1>1, <2>1, <2>4 DEF ToldFine, told, l
<1>6. CASE kind \in AboutOne
  <2>1. told = [P!NoView EXCEPT !.items = one] /\ kind \notin P!Whole /\ kind # "likePost"
    BY <1>2, <1>3, <1>6 DEF AboutOne
  <2>2. c \in P!Comment /\ c \in P!Visible(s, staff) /\ s.row[c] \in P!Rows /\ s.row[c].parent < c
    BY <1>1, <1>6, TopicConstants DEF P!Alive, TopicFine, Earlier
  <2>3. one = [d \in DOMAIN one |-> one[d]] /\ DOMAIN one = {c} /\ one[c] = P!Item(s.row[c], staff)
    BY <1>1, <2>2 DEF one
  <2>4. P!Item(s.row[c], staff) \in P!Entries /\ P!Item(s.row[c], staff).parent < c
    BY <2>2, ItemFine
  <2>5. ItemsFine(one)
    BY <2>2, <2>3, <2>4 DEF ItemsFine
  <2> DEFINE n == P!NoView
  <2>6. told = [deleted |-> n.deleted, mine |-> n.mine, edited |-> n.edited, liked |-> n.liked,
                count |-> n.count, items |-> one]
    BY <2>1, NoViewFine, ViewChanged
  <2>7. ViewFine(n)
    BY NoViewFine
  <2> HIDE DEF n
  <2>8. ViewFine(told) /\ told.items = one
    BY <2>5, <2>6, <2>7 DEF ViewFine
  <2> QED BY <2>1, <2>3, <2>8 DEF ToldFine, told
<1>7. CASE kind \notin P!Whole /\ kind # "likePost" /\ kind \notin AboutOne
  <2>1. told = P!NoView
    BY <1>2, <1>7
  <2> QED BY <1>7, <2>1, NoViewFine DEF ToldFine, told
<1> QED BY <1>4, <1>5, <1>6, <1>7

(* The likes of the topic.                                                 *)
LEMMA LikeAgrees ==
  ASSUME NEW s, TopicFine(s), NEW staff \in BOOLEAN, NEW l \in BOOLEAN, NEW t, TopicFine(t),
         t = [s EXCEPT !.liked = l]
  PROVE  [P!View(s, staff) EXCEPT !.liked = l] = P!View(t, staff)
<1>1. s \in [post : {"alive", "hidden", "gone"}, mine : BOOLEAN, edited : BOOLEAN, liked : BOOLEAN,
             row : [P!Comment -> P!Rows]]
  BY DEF TopicFine
<1>2. t.row = s.row /\ t.post = s.post /\ t.mine = s.mine /\ t.edited = s.edited /\ t.liked = l
  BY <1>1
<1>3. /\ P!Visible(t, staff) = P!Visible(s, staff)
      /\ {d \in P!Comment : P!Alive(t, d)} = {d \in P!Comment : P!Alive(s, d)}
  BY <1>2, VisibleSame
<1> DEFINE del == s.post = "hidden"
           n == P!Cardinality({d \in P!Comment : P!Alive(s, d)})
           its == [c \in P!Visible(s, staff) |-> P!Item(s.row[c], staff)]
<1>4. P!View(s, staff) = [deleted |-> del, mine |-> s.mine, edited |-> s.edited, liked |-> s.liked,
                          count |-> n, items |-> its]
  BY DEF P!View
<1>5. P!View(t, staff) = [deleted |-> del, mine |-> s.mine, edited |-> s.edited, liked |-> l,
                          count |-> n, items |-> its]
  <2>1. P!View(t, staff) =
          [deleted |-> t.post = "hidden", mine |-> t.mine, edited |-> t.edited, liked |-> t.liked,
           count |-> P!Cardinality({d \in P!Comment : P!Alive(t, d)}),
           items |-> [c \in P!Visible(t, staff) |-> P!Item(t.row[c], staff)]]
    BY DEF P!View
  <2>2. (t.post = "hidden") = del /\ P!Cardinality({d \in P!Comment : P!Alive(t, d)}) = n
    BY <1>2, <1>3
  <2>3. [c \in P!Visible(t, staff) |-> P!Item(t.row[c], staff)] = its
    BY <1>2, <1>3
  <2> HIDE DEF del, n, its
  <2> QED BY <1>2, <2>1, <2>2, <2>3
<1> HIDE DEF del, n, its
<1> QED BY <1>4, <1>5

(* What is told of a comment that was changed.                             *)
LEMMA ChangeAgrees ==
  ASSUME NEW s, TopicFine(s), NEW staff \in BOOLEAN, NEW c \in P!Comment, P!Alive(s, c),
         NEW r \in P!Rows, r.parent = s.row[c].parent, r.state = "alive",
         NEW t, TopicFine(t), t.post = s.post, t.mine = s.mine, t.edited = s.edited, t.liked = s.liked,
         \A d \in P!Comment : t.row[d] = IF d = c THEN r ELSE s.row[d]
  PROVE  /\ c \in DOMAIN P!View(s, staff).items
         /\ P!View(s, staff).items[c] = P!Item(s.row[c], staff)
         /\ [P!View(s, staff) EXCEPT !.items = [P!View(s, staff).items EXCEPT ![c] = P!Item(r, staff)]]
              = P!View(t, staff)
<1>1. s.row[c].state = "alive"
  BY DEF P!Alive
<1>2. /\ TopicFine(t) /\ t.post = s.post /\ t.mine = s.mine /\ t.edited = s.edited /\ t.liked = s.liked
      /\ \A d \in P!Comment : t.row[d] = IF d = c THEN r ELSE s.row[d]
  OBVIOUS
<1>3. \A d \in P!Comment : t.row[d].state = s.row[d].state /\ t.row[d].parent = s.row[d].parent
  BY <1>1, <1>2
<1>4. /\ P!Visible(t, staff) = P!Visible(s, staff)
      /\ {d \in P!Comment : P!Alive(t, d)} = {d \in P!Comment : P!Alive(s, d)}
  BY <1>3, VisibleSame
<1> DEFINE del == s.post = "hidden"
           n == P!Cardinality({d \in P!Comment : P!Alive(s, d)})
           vis == P!Visible(s, staff)
           its == [d \in vis |-> P!Item(s.row[d], staff)]
           new == [d \in vis |-> P!Item(t.row[d], staff)]
<1>5. P!View(s, staff) = [deleted |-> del, mine |-> s.mine, edited |-> s.edited, liked |-> s.liked,
                          count |-> n, items |-> its]
  BY DEF P!View
<1>6. P!View(t, staff) = [deleted |-> del, mine |-> s.mine, edited |-> s.edited, liked |-> s.liked,
                          count |-> n, items |-> new]
  <2>1. P!View(t, staff) =
          [deleted |-> t.post = "hidden", mine |-> t.mine, edited |-> t.edited, liked |-> t.liked,
           count |-> P!Cardinality({d \in P!Comment : P!Alive(t, d)}),
           items |-> [d \in P!Visible(t, staff) |-> P!Item(t.row[d], staff)]]
    BY DEF P!View
  <2>2. (t.post = "hidden") = del /\ P!Cardinality({d \in P!Comment : P!Alive(t, d)}) = n
    BY <1>2, <1>4
  <2>3. [d \in P!Visible(t, staff) |-> P!Item(t.row[d], staff)] = new
    BY <1>4
  <2> HIDE DEF del, n, new
  <2> QED BY <1>2, <2>1, <2>2, <2>3
<1>7. vis \subseteq P!Comment /\ c \in vis
  BY ViewIs
<1>8. new = [its EXCEPT ![c] = P!Item(r, staff)]
  <2> DEFINE item == P!Item(r, staff)
  <2>1. \A d \in vis : new[d] = IF d = c THEN item ELSE its[d]
    BY <1>2, <1>7
  <2>2. new = [d \in vis |-> new[d]] /\ its = [d \in vis |-> its[d]]
    OBVIOUS
  <2> HIDE DEF new, its, vis, item
  <2>3. new = [its EXCEPT ![c] = item]
    BY <1>7, <2>1, <2>2
  <2> QED BY <2>3 DEF item
<1>9. DOMAIN its = vis /\ its[c] = P!Item(s.row[c], staff)
  BY <1>7
<1> HIDE DEF del, n, its, new, vis
<1>10. P!View(s, staff).items = its
  BY <1>5
<1>11. [P!View(s, staff) EXCEPT !.items = new] = P!View(t, staff)
  BY <1>5, <1>6
<1> QED BY <1>7, <1>8, <1>9, <1>10, <1>11

(***************************************************************************)
(* What answers make of the page.                                          *)
(***************************************************************************)
LEMMA PageChanged ==
  ASSUME NEW p, PageFine(p)
  PROVE  /\ \A l : [p EXCEPT !.view.liked = l]
                   = [at |-> p.at, view |-> [p.view EXCEPT !.liked = l], extra |-> p.extra]
         /\ \A i : [p EXCEPT !.view.items = i]
                   = [at |-> p.at, view |-> [p.view EXCEPT !.items = i], extra |-> p.extra]
         /\ \A i, n, e : [p EXCEPT !.view.items = i, !.view.count = n, !.extra = e]
                   = [at |-> p.at, view |-> [[p.view EXCEPT !.items = i] EXCEPT !.count = n], extra |-> e]
<1>1. p = [at |-> p.at, view |-> p.view, extra |-> p.extra]
  BY DEF PageFine
<1> DEFINE a == p.at
           v == p.view
           x == p.extra
<1>2. p = [at |-> a, view |-> v, extra |-> x]
  BY <1>1
<1> HIDE DEF a, v, x
<1>3. \A l : [p EXCEPT !.view.liked = l] = [at |-> a, view |-> [v EXCEPT !.liked = l], extra |-> x]
  BY <1>2
<1>4. \A i : [p EXCEPT !.view.items = i] = [at |-> a, view |-> [v EXCEPT !.items = i], extra |-> x]
  BY <1>2
<1>5. \A i, n, e : [p EXCEPT !.view.items = i, !.view.count = n, !.extra = e]
             = [at |-> a, view |-> [[v EXCEPT !.items = i] EXCEPT !.count = n], extra |-> e]
  <2> SUFFICES ASSUME NEW i, NEW n, NEW e
               PROVE  [p EXCEPT !.view.items = i, !.view.count = n, !.extra = e]
                      = [at |-> a, view |-> [[v EXCEPT !.items = i] EXCEPT !.count = n], extra |-> e]
    OBVIOUS
  <2> DEFINE p1 == [p EXCEPT !.view.items = i]
             p2 == [p1 EXCEPT !.view.count = n]
             v1 == [v EXCEPT !.items = i]
             v2 == [v1 EXCEPT !.count = n]
  <2>1. [p EXCEPT !.view.items = i, !.view.count = n, !.extra = e] = [p2 EXCEPT !.extra = e]
    OBVIOUS
  <2>2. p1 = [at |-> a, view |-> v1, extra |-> x]
    BY <1>4
  <2> HIDE DEF p1, v1
  <2>3. p2 = [at |-> a, view |-> v2, extra |-> x]
    BY <2>2
  <2> HIDE DEF p2, v2
  <2>4. [p2 EXCEPT !.extra = e] = [at |-> a, view |-> v2, extra |-> e]
    BY <2>3
  <2> QED BY <2>1, <2>4 DEF p1, p2, v1, v2
<1> QED BY <1>3, <1>4, <1>5 DEF a, v, x

(* The items with one more, and a view with those.                         *)
WithItem(tree, c, item) == [d \in DOMAIN tree \cup {c} |-> IF d = c THEN item ELSE tree[d]]
WithAll(v, tree, n) == [[v EXCEPT !.items = tree] EXCEPT !.count = n]
Twice(p, c) == IF c \in DOMAIN p.view.items THEN p.extra + 1 ELSE p.extra

(* A comment is appended, and counted.                                     *)
LEMMA AppendedIs ==
  ASSUME NEW p, PageFine(p), NEW c, NEW item
  PROVE  P!Appended(p, c, item)
         = [at |-> p.at, view |-> WithAll(p.view, WithItem(p.view.items, c, item), p.view.count + 1),
            extra |-> Twice(p, c)]
<1> DEFINE i == WithItem(p.view.items, c, item)
           n == p.view.count + 1
           e == Twice(p, c)
<1>1. ViewFine(p.view) /\ p = [at |-> p.at, view |-> p.view, extra |-> p.extra]
  BY DEF PageFine
<1>2. P!Appended(p, c, item) = [p EXCEPT !.view.items = i, !.view.count = n, !.extra = e]
  BY <1>1 DEF P!Appended, ViewFine, WithItem, Twice
<1> HIDE DEF i, n, e
<1>3. P!Appended(p, c, item) = [at |-> p.at, view |-> WithAll(p.view, i, n), extra |-> e]
  <2>1. \A j, m, f : [p EXCEPT !.view.items = j, !.view.count = m, !.extra = f]
          = [at |-> p.at, view |-> [[p.view EXCEPT !.items = j] EXCEPT !.count = m], extra |-> f]
    BY PageChanged
  <2> QED BY <1>2, <2>1 DEF WithAll
<1> QED BY <1>3 DEF i, n, e

(* Part of a page is replaced, and it is a page still.                     *)
LEMMA ItemsChanged ==
  ASSUME NEW v, ViewFine(v), NEW i, ItemsFine(i), NEW n \in Nat
  PROVE  /\ ViewFine([v EXCEPT !.items = i]) /\ [v EXCEPT !.items = i].items = i
         /\ ViewFine([[v EXCEPT !.items = i] EXCEPT !.count = n])
<1>1. v.deleted \in BOOLEAN /\ v.mine \in BOOLEAN /\ v.edited \in BOOLEAN /\ v.liked \in BOOLEAN
      /\ v.count \in Nat
  BY DEF ViewFine
<1> DEFINE a == v.deleted
           b == v.mine
           c == v.edited
           d == v.liked
           e == v.count
           u == [v EXCEPT !.items = i]
           w == [u EXCEPT !.count = n]
<1>2. u = [deleted |-> a, mine |-> b, edited |-> c, liked |-> d, count |-> e, items |-> i]
      /\ w = [deleted |-> a, mine |-> b, edited |-> c, liked |-> d, count |-> n, items |-> i]
  <2>1. u = [deleted |-> a, mine |-> b, edited |-> c, liked |-> d, count |-> e, items |-> i]
    BY ViewChanged
  <2>2. \A m, j : [[v EXCEPT !.items = j] EXCEPT !.count = m]
               = [deleted |-> a, mine |-> b, edited |-> c, liked |-> d, count |-> m, items |-> j]
    BY ViewChanged
  <2> QED BY <2>1, <2>2
<1> HIDE DEF a, b, c, d, e, u, w
<1>3. u.deleted = a /\ u.mine = b /\ u.edited = c /\ u.liked = d /\ u.count = e /\ u.items = i
      /\ w.deleted = a /\ w.mine = b /\ w.edited = c /\ w.liked = d /\ w.count = n /\ w.items = i
  BY <1>2
<1>4. ViewFine(u)
  BY <1>1, <1>2, <1>3 DEF ViewFine, a, b, c, d, e
<1>5. ViewFine(w)
  BY <1>1, <1>2, <1>3 DEF ViewFine, a, b, c, d
<1> QED BY <1>3, <1>4, <1>5 DEF u, w

LEMMA LikedChanged ==
  ASSUME NEW v, ViewFine(v), NEW l \in BOOLEAN
  PROVE  ViewFine([v EXCEPT !.liked = l])
<1>1. v.deleted \in BOOLEAN /\ v.mine \in BOOLEAN /\ v.edited \in BOOLEAN
      /\ v.count \in Nat /\ ItemsFine(v.items)
  BY DEF ViewFine
<1> DEFINE a == v.deleted
           b == v.mine
           c == v.edited
           e == v.count
           i == v.items
           u == [v EXCEPT !.liked = l]
<1>2. u = [deleted |-> a, mine |-> b, edited |-> c, liked |-> l, count |-> e, items |-> i]
  BY ViewChanged
<1> HIDE DEF a, b, c, e, i, u
<1>3. u.deleted = a /\ u.mine = b /\ u.edited = c /\ u.liked = l /\ u.count = e /\ u.items = i
  BY <1>2
<1>4. ViewFine(u)
  BY <1>1, <1>2, <1>3 DEF ViewFine, a, b, c, e, i
<1> QED BY <1>4 DEF u

(* A page is put together.                                                 *)
LEMMA PagePut ==
  ASSUME NEW a \in {"loading", "none", "failed", "shown", "left"}, NEW v, ViewFine(v), NEW x \in Nat
  PROVE  PageFine([at |-> a, view |-> v, extra |-> x])
BY DEF PageFine

(* A page stays a page with what it is told.                               *)
LEMMA AnsweredFine ==
  ASSUME NEW p, PageFine(p), NEW kind \in Asked, NEW c \in 0 .. Comments, NEW told, ToldFine(kind, c, told)
  PROVE  PageFine(P!Answered(p, kind, c, told))
<1> DEFINE q == P!Answered(p, kind, c, told)
<1>1. /\ p.at \in {"loading", "none", "failed", "shown", "left"} /\ ViewFine(p.view) /\ p.extra \in Nat
      /\ ViewFine(told) /\ told.liked \in BOOLEAN /\ ItemsFine(p.view.items) /\ p.view.count \in Nat
  BY DEF PageFine, ToldFine, ViewFine
<1>2. CASE p.at # "failed" /\ kind \in P!Whole
  <2>1. q = [at |-> "shown", view |-> told, extra |-> 0]
    BY <1>2 DEF P!Answered, P!Whole
  <2> HIDE DEF q
  <2> QED BY <1>1, <2>1, PagePut DEF q
<1>3. CASE p.at = "shown" /\ kind = "likePost"
  <2> DEFINE v == [p.view EXCEPT !.liked = told.liked]
  <2>1. q = [p EXCEPT !.view.liked = told.liked]
    BY <1>3 DEF P!Answered, P!Whole
  <2>2. q = [at |-> p.at, view |-> v, extra |-> p.extra]
    BY <2>1, PageChanged
  <2>3. ViewFine(v)
    BY <1>1, LikedChanged
  <2> HIDE DEF q, v
  <2> QED BY <1>1, <2>2, <2>3, PagePut DEF q
<1>4. CASE p.at = "shown" /\ kind \in AboutOne /\ (kind = "add" \/ c \in DOMAIN p.view.items)
  <2>1. c \in DOMAIN told.items /\ ItemsFine(told.items)
    BY <1>4 DEF ToldFine, ViewFine
  <2>2. c \in P!Comment /\ told.items[c] \in P!Entries /\ told.items[c].parent < c
    BY <2>1 DEF ItemsFine
  <2> DEFINE its == p.view.items
             item == told.items[c]
  <2>3. CASE kind = "add"
    <3> DEFINE i == WithItem(its, c, item)
               e == Twice(p, c)
               n == p.view.count + 1
    <3>1. q = P!Appended(p, c, item)
      BY <1>4, <2>3 DEF P!Answered, P!Whole
    <3>2. ItemsFine(i)
      <4>1. i = [d \in DOMAIN i |-> i[d]] /\ DOMAIN i = DOMAIN its \cup {c}
        BY DEF WithItem
      <4>2. \A d \in DOMAIN its \cup {c} : i[d] = IF d = c THEN item ELSE its[d]
        BY DEF WithItem
      <4> HIDE DEF i
      <4> QED BY <1>1, <2>2, <4>1, <4>2 DEF ItemsFine
    <3>3. e \in Nat /\ n \in Nat
      BY <1>1 DEF Twice
    <3> HIDE DEF q, item
    <3>4. q = [at |-> p.at, view |-> WithAll(p.view, i, n), extra |-> e]
      BY <3>1, AppendedIs
    <3> HIDE DEF i, e, n
    <3>5. ViewFine(WithAll(p.view, i, n))
      BY <1>1, <3>2, <3>3, ItemsChanged DEF WithAll
    <3> QED BY <1>1, <3>3, <3>4, <3>5, PagePut DEF q
  <2>4. CASE kind \in {"edit", "like"}
    <3> DEFINE r == IF kind = "edit" THEN item ELSE [its[c] EXCEPT !.liked = item.liked]
               i == [its EXCEPT ![c] = r]
    <3>1. c \in DOMAIN its
      BY <1>4, <2>4
    <3>2. q = [p EXCEPT !.view.items = i]
      <4>1. CASE kind = "edit"
        <5>1. q = [p EXCEPT !.view.items[c] = item]
          BY <1>4, <4>1, <3>1 DEF P!Answered, P!Whole
        <5> QED BY <4>1, <5>1
      <4>2. CASE kind = "like"
        <5>1. q = [p EXCEPT !.view.items[c].liked = item.liked]
          BY <1>4, <4>2, <3>1 DEF P!Answered, P!Whole
        <5> QED BY <4>2, <5>1
      <4> QED BY <2>4, <4>1, <4>2
    <3>3. r \in P!Entries /\ r.parent < c
      <4>1. its[c] \in P!Entries /\ its[c].parent < c /\ item.liked \in BOOLEAN
        BY <1>1, <2>2, <3>1 DEF ItemsFine, P!Entries
      <4>2. CASE kind = "edit"
        BY <2>2, <4>2
      <4>3. CASE kind # "edit"
        <5> DEFINE l == item.liked
                   texts == {"", "old", "new"}
        <5>1. l \in BOOLEAN /\ its[c] \in [mine : BOOLEAN, parent : 0 .. Comments, deleted : BOOLEAN,
                                           text : texts, liked : BOOLEAN]
          BY <4>1 DEF P!Entries
        <5> HIDE DEF l, texts
        <5>2. [its[c] EXCEPT !.liked = l] \in [mine : BOOLEAN, parent : 0 .. Comments, deleted : BOOLEAN,
                                               text : texts, liked : BOOLEAN]
              /\ [its[c] EXCEPT !.liked = l].parent = its[c].parent
          BY <5>1
        <5>3. r = [its[c] EXCEPT !.liked = l]
          BY <4>3 DEF l
        <5> QED BY <4>1, <5>2, <5>3 DEF P!Entries, texts
      <4> QED BY <4>2, <4>3
    <3> HIDE DEF r
    <3>4. ItemsFine(i)
      <4>1. its = [d \in DOMAIN its |-> its[d]]
        BY <1>1 DEF ItemsFine
      <4>2. i = [d \in DOMAIN i |-> i[d]] /\ DOMAIN i = DOMAIN its
            /\ \A d \in DOMAIN its : i[d] = IF d = c THEN r ELSE its[d]
        BY <3>1, <4>1
      <4> HIDE DEF i
      <4> QED BY <1>1, <3>3, <4>2 DEF ItemsFine
    <3> HIDE DEF i
    <3>5. q = [at |-> p.at, view |-> [p.view EXCEPT !.items = i], extra |-> p.extra]
      BY <3>2, PageChanged
    <3>6. ViewFine([p.view EXCEPT !.items = i])
      BY <1>1, <3>4, ItemsChanged
    <3> HIDE DEF q
    <3> QED BY <1>1, <3>5, <3>6, PagePut DEF q
  <2> QED BY <1>4, <2>3, <2>4 DEF AboutOne
<1>5. CASE /\ ~(p.at # "failed" /\ kind \in P!Whole) /\ ~(p.at = "shown" /\ kind = "likePost")
           /\ ~(p.at = "shown" /\ kind \in AboutOne /\ (kind = "add" \/ c \in DOMAIN p.view.items))
  <2>1. q = p
    BY <1>5 DEF P!Answered, AboutOne
  <2> QED BY <2>1
<1> QED BY <1>2, <1>3, <1>4, <1>5

(* A comment that is added is told of as it will be.                       *)
LEMMA AddAgrees ==
  ASSUME NEW s, TopicFine(s), NEW staff \in BOOLEAN, NEW t, TopicFine(t), NEW n,
         t.post = s.post, t.mine = s.mine, t.edited = s.edited, t.liked = s.liked,
         \A d \in P!Comment : d # n => t.row[d] = s.row[d],
         P!Visible(t, staff) = P!Visible(s, staff) \cup {n}, n \notin P!Visible(s, staff),
         P!View(t, staff).count = P!View(s, staff).count + 1
  PROVE  /\ n \notin DOMAIN P!View(s, staff).items
         /\ WithAll(P!View(s, staff), WithItem(P!View(s, staff).items, n, P!Item(t.row[n], staff)),
                    P!View(s, staff).count + 1)
              = P!View(t, staff)
<1>1. /\ t.post = s.post /\ t.mine = s.mine /\ t.edited = s.edited /\ t.liked = s.liked
      /\ \A d \in P!Comment : d # n => t.row[d] = s.row[d]
  OBVIOUS
<1>2. /\ P!Visible(t, staff) = P!Visible(s, staff) \cup {n} /\ n \notin P!Visible(s, staff)
      /\ P!Cardinality({d \in P!Comment : P!Alive(t, d)})
           = P!Cardinality({d \in P!Comment : P!Alive(s, d)}) + 1
  <2>1. P!View(s, staff).count = P!Cardinality({d \in P!Comment : P!Alive(s, d)})
    BY ViewIs
  <2>2. P!View(t, staff).count = P!Cardinality({d \in P!Comment : P!Alive(t, d)})
    BY ViewIs
  <2> QED BY <2>1, <2>2
<1> DEFINE del == s.post = "hidden"
           k == P!Cardinality({d \in P!Comment : P!Alive(s, d)})
           vis == P!Visible(s, staff)
           its == [d \in vis |-> P!Item(s.row[d], staff)]
           new == [d \in vis \cup {n} |-> P!Item(t.row[d], staff)]
           item == P!Item(t.row[n], staff)
           v == P!View(s, staff)
<1>3. v = [deleted |-> del, mine |-> s.mine, edited |-> s.edited, liked |-> s.liked, count |-> k, items |-> its]
      /\ ViewFine(v)
  BY ViewIs DEF P!View
<1>4. P!View(t, staff) = [deleted |-> del, mine |-> s.mine, edited |-> s.edited, liked |-> s.liked,
                          count |-> k + 1, items |-> new]
  <2>1. P!View(t, staff) =
          [deleted |-> t.post = "hidden", mine |-> t.mine, edited |-> t.edited, liked |-> t.liked,
           count |-> P!Cardinality({d \in P!Comment : P!Alive(t, d)}),
           items |-> [d \in P!Visible(t, staff) |-> P!Item(t.row[d], staff)]]
    BY DEF P!View
  <2>2. (t.post = "hidden") = del /\ P!Cardinality({d \in P!Comment : P!Alive(t, d)}) = k + 1
    BY <1>1, <1>2
  <2>3. [d \in P!Visible(t, staff) |-> P!Item(t.row[d], staff)] = new
    BY <1>2
  <2> HIDE DEF del, k, new
  <2> QED BY <1>1, <2>1, <2>2, <2>3
<1>5. vis \subseteq P!Comment
  BY ViewIs
<1>6. new = WithItem(its, n, item)
  <2> DEFINE with == WithItem(its, n, item)
  <2>1. with = [d \in vis \cup {n} |-> with[d]] /\ new = [d \in vis \cup {n} |-> new[d]]
    BY DEF WithItem
  <2>2. ASSUME NEW d \in vis \cup {n} PROVE with[d] = new[d]
    <3>1. CASE d = n
      BY <3>1 DEF WithItem
    <3>2. CASE d # n
      <4>1. d \in vis /\ t.row[d] = s.row[d]
        BY <1>1, <1>5, <3>2
      <4> QED BY <3>2, <4>1 DEF WithItem
    <3> QED BY <3>1, <3>2
  <2> HIDE DEF with, new, vis
  <2>3. with = new
    BY <2>1, <2>2
  <2> QED BY <2>3 DEF with
<1>7. DOMAIN its = vis
  OBVIOUS
<1> HIDE DEF del, k, its, new, vis, item, v
<1>8. v.items = its /\ v.count = k
  BY <1>3
<1>9. WithAll(v, new, k + 1) = [deleted |-> v.deleted, mine |-> v.mine, edited |-> v.edited, liked |-> v.liked,
                                count |-> k + 1, items |-> new]
  <2>1. \A m, j : [[v EXCEPT !.items = j] EXCEPT !.count = m]
               = [deleted |-> v.deleted, mine |-> v.mine, edited |-> v.edited, liked |-> v.liked,
                  count |-> m, items |-> j]
    <3>1. ViewFine(v)
      BY <1>3
    <3> QED BY <3>1, ViewChanged
  <2> QED BY <2>1 DEF WithAll
<1>10. v.deleted = del /\ v.mine = s.mine /\ v.edited = s.edited /\ v.liked = s.liked
  BY <1>3
<1>11. WithAll(v, new, k + 1) = P!View(t, staff)
  BY <1>4, <1>9, <1>10
<1> QED BY <1>2, <1>6, <1>7, <1>8, <1>11 DEF vis, v, item

(* A like changes nothing else of what is told of the comment.             *)
LEMMA ItemLiked ==
  ASSUME NEW r \in P!Rows, NEW l \in BOOLEAN, NEW q, q = [r EXCEPT !.liked = l], NEW staff \in BOOLEAN
  PROVE  [P!Item(r, staff) EXCEPT !.liked = P!Item(q, staff).liked] = P!Item(q, staff)
<1> DEFINE m == r.mine
           u == r.parent
           h == r.state = "hidden"
           told == r.state = "alive" \/ staff
           text == IF ~told THEN "" ELSE IF r.edited THEN "new" ELSE "old"
           old == told /\ r.liked
           new == told /\ l
<1>1. q.mine = m /\ q.parent = u /\ q.state = r.state /\ q.edited = r.edited /\ q.liked = l
  BY DEF P!Rows
<1>2. P!Item(r, staff) = [mine |-> m, parent |-> u, deleted |-> h, text |-> text, liked |-> old]
  BY DEF P!Item
<1>3. P!Item(q, staff) = [mine |-> m, parent |-> u, deleted |-> h, text |-> text, liked |-> new]
  <2>1. P!Item(q, staff) =
          [mine |-> q.mine, parent |-> q.parent, deleted |-> q.state = "hidden",
           text |-> IF ~(q.state = "alive" \/ staff) THEN "" ELSE IF q.edited THEN "new" ELSE "old",
           liked |-> (q.state = "alive" \/ staff) /\ q.liked]
    BY DEF P!Item
  <2>2. (q.state = "hidden") = h /\ (q.state = "alive" \/ staff) = told
    BY <1>1
  <2> QED BY <1>1, <2>1, <2>2
<1> HIDE DEF m, u, h, told, text, old, new
<1>4. P!Item(q, staff).liked = new
  BY <1>3
<1> QED BY <1>2, <1>3, <1>4

(* An answer that carries the whole topic.                                 *)
LEMMA WholeAgrees ==
  ASSUME NEW s, TopicFine(s), NEW staff \in BOOLEAN, NEW kind \in P!Whole, NEW c \in 0 .. Comments,
         P!Accepts(s, staff, TRUE, kind, c), NEW p, PageFine(p)
  PROVE  Agrees(P!Answered(p, kind, c, P!Told(P!Effect(s, TRUE, kind, c), staff, kind, c)),
                P!Effect(s, TRUE, kind, c), staff)
<1> DEFINE t == P!Effect(s, TRUE, kind, c)
           q == P!Answered(p, kind, c, P!Told(t, staff, kind, c))
<1>1. s \in [post : {"alive", "hidden", "gone"}, mine : BOOLEAN, edited : BOOLEAN, liked : BOOLEAN,
             row : [P!Comment -> P!Rows]]
  BY DEF TopicFine
<1>2. kind \in Asked /\ kind # "add" /\ kind \notin AboutOne /\ TRUE \in BOOLEAN
  BY DEF P!Whole, Asked, P!PostRequests, P!CommentRequests, AboutOne
<1>3. TopicFine(t)
  BY <1>2, EffectTopic
<1>4. t.post # "gone"
  <2>1. CASE kind = "load"
    BY <2>1 DEF P!Accepts, P!Effect
  <2>2. CASE kind = "editPost"
    BY <1>1, <2>2 DEF P!Accepts, P!Effect
  <2>3. CASE kind = "restorePost"
    BY <1>1, <2>3 DEF P!Effect
  <2>4. CASE kind = "restore"
    <3>1. s.post # "gone"
      BY <2>4 DEF P!Accepts
    <3>2. t = [s EXCEPT !.row[c].state = "alive"]
      BY <2>4 DEF P!Effect
    <3>3. t.post = s.post
      BY <1>1, <3>2
    <3> QED BY <3>1, <3>3
  <2> QED BY <2>1, <2>2, <2>3, <2>4 DEF P!Whole
<1> HIDE DEF t
<1>5. P!Told(t, staff, kind, c) = P!View(t, staff)
  BY <1>2, <1>3, ToldIs
<1>6. CASE p.at = "failed"
  <2>1. q = p
    BY <1>6 DEF P!Answered, P!Whole
  <2> QED BY <1>6, <2>1 DEF Agrees, t
<1>7. CASE p.at # "failed"
  <2>1. q = [at |-> "shown", view |-> P!View(t, staff), extra |-> 0]
    BY <1>5, <1>7 DEF P!Answered, P!Whole
  <2> QED BY <1>4, <2>1 DEF Agrees, t
<1> QED BY <1>6, <1>7

(* The likes of the topic.                                                 *)
LEMMA LikePostAgrees ==
  ASSUME NEW s, TopicFine(s), NEW staff \in BOOLEAN, NEW c \in 0 .. Comments,
         P!Accepts(s, staff, TRUE, "likePost", c), NEW p, PageFine(p), Agrees(p, s, staff)
  PROVE  Agrees(P!Answered(p, "likePost", c, P!Told(P!Effect(s, TRUE, "likePost", c), staff, "likePost", c)),
                P!Effect(s, TRUE, "likePost", c), staff)
<1> DEFINE t == P!Effect(s, TRUE, "likePost", c)
           l == ~s.liked
           q == P!Answered(p, "likePost", c, P!Told(t, staff, "likePost", c))
           kind == "likePost"
<1>1. s \in [post : {"alive", "hidden", "gone"}, mine : BOOLEAN, edited : BOOLEAN, liked : BOOLEAN,
             row : [P!Comment -> P!Rows]]
  BY DEF TopicFine
<1>2. kind \in Asked /\ kind \notin AboutOne /\ kind # "add" /\ TRUE \in BOOLEAN
  BY DEF Asked, P!PostRequests, P!CommentRequests, AboutOne
<1>3. TopicFine(t)
  BY <1>2, EffectTopic
<1>4. t = [s EXCEPT !.liked = l] /\ l \in BOOLEAN
  BY <1>1 DEF P!Effect
<1> HIDE DEF t, l
<1>5. t.liked = l /\ t.post = s.post
  BY <1>1, <1>4
<1>6. P!Told(t, staff, "likePost", c).liked = l
  <2>1. P!Told(t, staff, kind, c).liked = t.liked
    BY <1>2, <1>3, ToldIs
  <2> QED BY <1>5, <2>1
<1>7. CASE p.at # "shown"
  <2>1. q = p
    BY <1>7 DEF P!Answered, P!Whole
  <2> QED BY <1>7, <2>1 DEF Agrees, t
<1>8. CASE p.at = "shown"
  <2>1. p.view = P!View(s, staff) /\ p.extra = 0 /\ s.post # "gone"
    BY <1>8 DEF Agrees
  <2>2. q = [p EXCEPT !.view.liked = l]
    BY <1>6, <1>8 DEF P!Answered, P!Whole
  <2>3. q = [at |-> p.at, view |-> [p.view EXCEPT !.liked = l], extra |-> p.extra]
    BY <2>2, PageChanged
  <2>4. [P!View(s, staff) EXCEPT !.liked = l] = P!View(t, staff)
    BY <1>3, <1>4, LikeAgrees
  <2>5. q = [at |-> "shown", view |-> P!View(t, staff), extra |-> 0]
    BY <1>8, <2>1, <2>3, <2>4
  <2> HIDE DEF q
  <2> QED BY <1>5, <2>1, <2>5 DEF Agrees, q, t
<1> QED BY <1>7, <1>8

(* A comment changed: its words, or its likes.                             *)
LEMMA OneAgrees ==
  ASSUME NEW s, TopicFine(s), NEW staff \in BOOLEAN, NEW c \in 0 .. Comments, NEW kind \in {"edit", "like"},
         P!Accepts(s, staff, TRUE, kind, c), NEW p, PageFine(p), Agrees(p, s, staff)
  PROVE  Agrees(P!Answered(p, kind, c, P!Told(P!Effect(s, TRUE, kind, c), staff, kind, c)),
                P!Effect(s, TRUE, kind, c), staff)
<1> DEFINE t == P!Effect(s, TRUE, kind, c)
           l == ~s.row[c].liked
           r == IF kind = "edit" THEN [s.row[c] EXCEPT !.edited = TRUE] ELSE [s.row[c] EXCEPT !.liked = l]
           q == P!Answered(p, kind, c, P!Told(t, staff, kind, c))
           item == P!Item(r, staff)
<1>1. s \in [post : {"alive", "hidden", "gone"}, mine : BOOLEAN, edited : BOOLEAN, liked : BOOLEAN,
             row : [P!Comment -> P!Rows]]
  BY DEF TopicFine
<1>2. c \in P!Comment /\ P!Alive(s, c) /\ s.row[c].state = "alive" /\ s.row[c] \in P!Rows
  BY <1>1 DEF P!Accepts, P!Alive
<1>3. l \in BOOLEAN
  BY <1>2 DEF P!Rows
<1>4. t = [s EXCEPT !.row = [s.row EXCEPT ![c] = r]]
  <2>1. CASE kind = "edit"
    BY <1>1, <1>2, <2>1 DEF P!Effect
  <2>2. CASE kind = "like"
    BY <1>1, <1>2, <2>2 DEF P!Effect
  <2> QED BY <2>1, <2>2
<1> HIDE DEF l, t
<1>5. r \in P!Rows /\ r.parent = s.row[c].parent /\ r.state = "alive"
  BY <1>2, <1>3 DEF P!Rows
<1>6. s.row[c].state # "none" /\ r.state # "none"
  BY <1>2, <1>5
<1> HIDE DEF r
<1>7. /\ TopicFine(t)
      /\ t.post = s.post /\ t.mine = s.mine /\ t.edited = s.edited /\ t.liked = s.liked
      /\ \A d \in P!Comment : t.row[d] = IF d = c THEN r ELSE s.row[d]
  BY <1>2, <1>4, <1>5, <1>6, RowChanged
<1>8. t.row[c] = r /\ P!Alive(t, c)
  BY <1>2, <1>5, <1>7 DEF P!Alive
<1>9. P!Told(t, staff, kind, c).items[c] = item
  <2>1. kind \in Asked /\ kind \in AboutOne
    BY DEF Asked, P!CommentRequests, AboutOne
  <2> QED BY <1>7, <1>8, <2>1, ToldIs
<1>10. CASE p.at # "shown"
  <2>1. q = p
    BY <1>10 DEF P!Answered, P!Whole
  <2> QED BY <1>10, <2>1 DEF Agrees, t
<1>11. CASE p.at = "shown"
  <2> DEFINE v == P!View(s, staff)
             told == P!Told(t, staff, kind, c)
             i == [v.items EXCEPT ![c] = item]
  <2>1. p.view = v /\ p.extra = 0 /\ s.post # "gone"
    BY <1>11 DEF Agrees
  <2>2. /\ c \in DOMAIN v.items /\ v.items[c] = P!Item(s.row[c], staff)
        /\ [v EXCEPT !.items = i] = P!View(t, staff)
    BY <1>2, <1>5, <1>7, ChangeAgrees
  <2> HIDE DEF v, told
  <2>3. q = [p EXCEPT !.view.items = i]
    <3>1. CASE kind = "edit"
      <4>1. q = [p EXCEPT !.view.items[c] = told.items[c]]
        BY <1>11, <2>1, <2>2, <3>1 DEF P!Answered, P!Whole, told
      <4>2. told.items[c] = item
        BY <1>9 DEF told
      <4> HIDE DEF q
      <4> QED BY <2>1, <4>1, <4>2
    <3>2. CASE kind = "like"
      <4>1. q = [p EXCEPT !.view.items[c].liked = told.items[c].liked]
        BY <1>11, <2>1, <2>2, <3>2 DEF P!Answered, P!Whole, told
      <4>2. told.items[c] = item
        BY <1>9 DEF told
      <4>3. r = [s.row[c] EXCEPT !.liked = l]
        BY <3>2 DEF r
      <4>4. [P!Item(s.row[c], staff) EXCEPT !.liked = item.liked] = item
        BY <1>2, <1>3, <4>3, ItemLiked
      <4>5. [v.items[c] EXCEPT !.liked = told.items[c].liked] = item
        BY <2>2, <4>2, <4>4
      <4> HIDE DEF q
      <4> QED BY <2>1, <4>1, <4>5
    <3> QED BY <3>1, <3>2
  <2> HIDE DEF i
  <2>4. q = [at |-> p.at, view |-> [p.view EXCEPT !.items = i], extra |-> p.extra]
    BY <2>3, PageChanged
  <2> HIDE DEF q
  <2>5. q = [at |-> "shown", view |-> P!View(t, staff), extra |-> 0]
    BY <1>11, <2>1, <2>2, <2>4
  <2> QED BY <1>7, <2>1, <2>5 DEF Agrees, q, t
<1> QED BY <1>10, <1>11

(* A comment that is written.                                              *)
LEMMA NewAgrees ==
  ASSUME NEW s, TopicFine(s), NEW staff \in BOOLEAN, NEW c \in 0 .. Comments, P!Unwritten(s) # {},
         P!Accepts(s, staff, TRUE, "add", c), NEW p, PageFine(p), Agrees(p, s, staff)
  PROVE  /\ Agrees(P!Answered(p, "add", P!NewComment(s),
                              P!Told(P!Effect(s, TRUE, "add", c), staff, "add", P!NewComment(s))),
                   P!Effect(s, TRUE, "add", c), staff)
         /\ P!NewComment(s) \in P!Comment /\ P!Alive(P!Effect(s, TRUE, "add", c), P!NewComment(s))
<1> DEFINE yes == TRUE
           t == P!Effect(s, yes, "add", c)
           n == P!NewComment(s)
           told == P!Told(t, staff, "add", n)
           q == P!Answered(p, "add", n, told)
           kind == "add"
           item == P!Item(t.row[n], staff)
<1>1. yes \in BOOLEAN /\ (c = 0 \/ P!Alive(s, c)) /\ kind \in Asked /\ kind \in AboutOne
  BY DEF P!Accepts, Asked, P!CommentRequests, AboutOne
<1> HIDE DEF yes
<1>2. /\ TopicFine(t)
      /\ t.post = s.post /\ t.mine = s.mine /\ t.edited = s.edited /\ t.liked = s.liked
      /\ t.row[n].state = "alive" /\ \A d \in P!Comment : d # n => t.row[d] = s.row[d]
  BY <1>1, RowAdded
<1>3. /\ P!Visible(t, staff) = P!Visible(s, staff) \cup {n} /\ n \notin P!Visible(s, staff)
      /\ P!View(t, staff).count = P!View(s, staff).count + 1
  BY <1>1, AddedIsSeen
<1>4. n \in P!Comment
  BY NewCommentIs
<1>5. P!Alive(t, n)
  BY <1>2, <1>4 DEF P!Alive
<1> HIDE DEF t, n
<1>6. told.items[n] = item
  <2>1. P!Told(t, staff, kind, n).items[n] = item
    BY <1>1, <1>2, <1>5, ToldIs
  <2> QED BY <2>1
<1>7. CASE p.at # "shown"
  <2>1. q = p
    BY <1>7 DEF P!Answered, P!Whole
  <2>2. Agrees(q, t, staff)
    BY <1>7, <2>1 DEF Agrees
  <2> QED BY <1>4, <1>5, <2>2 DEF t, n, yes
<1>8. CASE p.at = "shown"
  <2> DEFINE v == P!View(s, staff)
  <2>1. p.view = v /\ p.extra = 0 /\ s.post # "gone"
    BY <1>8 DEF Agrees
  <2>2. /\ n \notin DOMAIN v.items
        /\ WithAll(v, WithItem(v.items, n, item), v.count + 1) = P!View(t, staff)
    BY <1>2, <1>3, AddAgrees
  <2> HIDE DEF v, item, told
  <2>3. q = P!Appended(p, n, item)
    BY <1>6, <1>8 DEF P!Answered, P!Whole
  <2> HIDE DEF q
  <2>4. q = [at |-> p.at, view |-> WithAll(p.view, WithItem(p.view.items, n, item), p.view.count + 1),
             extra |-> Twice(p, n)]
    BY <2>3, AppendedIs
  <2>5. Twice(p, n) = 0
    BY <2>1, <2>2 DEF Twice
  <2>6. q = [at |-> "shown", view |-> P!View(t, staff), extra |-> 0]
    BY <1>8, <2>1, <2>2, <2>4, <2>5
  <2>7. Agrees(q, t, staff)
    BY <1>2, <2>1, <2>6 DEF Agrees
  <2> QED BY <1>4, <1>5, <2>7 DEF q, t, n, told, yes
<1> QED BY <1>7, <1>8

(* The comment a granted request is about.                                 *)
Meant(s, kind, c) == IF kind = "add" THEN P!NewComment(s) ELSE c

(* A request granted to a page that agrees leaves it agreeing once it has  *)
(* the answer; what it turns to next aside.                                *)
LEMMA AnswerAgrees ==
  ASSUME NEW s, TopicFine(s), NEW staff \in BOOLEAN, NEW kind \in Asked, NEW c \in 0 .. Comments,
         P!Accepts(s, staff, TRUE, kind, c), kind = "add" => P!Unwritten(s) # {},
         NEW t, t = P!Effect(s, TRUE, kind, c), NEW e, e = Meant(s, kind, c)
  PROVE  /\ TopicFine(t) /\ e \in 0 .. Comments
         /\ ToldFine(kind, e, P!Told(t, staff, kind, e))
         /\ \A p : /\ PageFine(p) /\ kind \notin Turning
                   /\ kind # "load" => Agrees(p, s, staff)
                   => Agrees(P!Answered(p, kind, e, P!Told(t, staff, kind, e)), t, staff)
<1>1. TRUE \in BOOLEAN
  OBVIOUS
<1>2. TopicFine(P!Effect(s, TRUE, kind, c))
  BY <1>1, EffectTopic
<1>3. kind \in P!Whole \cup {"likePost", "add", "edit", "like"} \cup Turning
  BY DEF Asked, P!PostRequests, P!CommentRequests, P!Whole, Turning
<1>4. CASE kind = "add"
  <2>1. e = P!NewComment(s) /\ P!Unwritten(s) # {} /\ P!Accepts(s, staff, TRUE, "add", c)
    BY <1>4 DEF Meant
  <2>2. e \in P!Comment /\ P!Alive(t, e)
    <3>1. PageFine(P!Blank("none")) /\ Agrees(P!Blank("none"), s, staff)
      <4>1. P!Blank("none") = [at |-> "none", view |-> P!NoView, extra |-> 0]
        BY DEF P!Blank
      <4>2. PageFine([at |-> "none", view |-> P!NoView, extra |-> 0])
        BY NoViewFine, PagePut
      <4> QED BY <4>1, <4>2 DEF Agrees
    <3> QED BY <1>4, <2>1, <3>1, NewAgrees
  <2>3. e \in 0 .. Comments
    BY <2>2, TopicConstants
  <2>4. ToldFine(kind, e, P!Told(t, staff, kind, e))
    BY <1>2, <2>2, ToldIs
  <2>5. ASSUME NEW p, PageFine(p), Agrees(p, s, staff)
        PROVE  Agrees(P!Answered(p, kind, e, P!Told(t, staff, kind, e)), t, staff)
    <3>1. Agrees(P!Answered(p, "add", P!NewComment(s),
                            P!Told(P!Effect(s, TRUE, "add", c), staff, "add", P!NewComment(s))),
                 P!Effect(s, TRUE, "add", c), staff)
      BY <2>1, <2>5, NewAgrees
    <3> QED BY <1>4, <2>1, <3>1
  <2> QED BY <1>2, <1>4, <2>3, <2>4, <2>5
<1>5. CASE kind # "add"
  <2>1. e = c
    BY <1>5 DEF Meant
  <2>2. kind \in AboutOne => P!Alive(t, e)
    <3> SUFFICES ASSUME kind \in {"edit", "like"} PROVE P!Alive(P!Effect(s, TRUE, kind, c), c)
      BY <1>5, <2>1 DEF AboutOne
    <3>1. /\ s \in [post : {"alive", "hidden", "gone"}, mine : BOOLEAN, edited : BOOLEAN, liked : BOOLEAN,
                    row : [P!Comment -> P!Rows]]
          /\ c \in P!Comment /\ s.row[c].state = "alive"
      BY DEF TopicFine, P!Accepts, P!Alive
    <3>2. s.row[c] \in P!Rows
      BY <3>1
    <3>3. CASE kind = "edit"
      <4>1. P!Effect(s, TRUE, kind, c).row[c].state = s.row[c].state
        BY <3>1, <3>2, <3>3 DEF P!Effect, P!Rows
      <4> QED BY <3>1, <4>1 DEF P!Alive
    <3>4. CASE kind = "like"
      <4>1. P!Effect(s, TRUE, kind, c).row[c].state = s.row[c].state
        BY <3>1, <3>2, <3>4 DEF P!Effect, P!Rows
      <4> QED BY <3>1, <4>1 DEF P!Alive
    <3> QED BY <3>3, <3>4
  <2>3. ToldFine(kind, e, P!Told(t, staff, kind, e))
    BY <1>2, <2>2, ToldIs
  <2>4. ASSUME NEW p, PageFine(p), kind \notin Turning, kind # "load" => Agrees(p, s, staff)
        PROVE  Agrees(P!Answered(p, kind, e, P!Told(t, staff, kind, e)), t, staff)
    <3>1. CASE kind \in P!Whole
      BY <2>1, <2>4, <3>1, WholeAgrees
    <3>2. CASE kind = "likePost"
      BY <2>1, <2>4, <3>2, LikePostAgrees
    <3>3. CASE kind \in {"edit", "like"}
      BY <2>1, <2>4, <3>3, OneAgrees
    <3> QED BY <1>3, <1>5, <2>4, <3>1, <3>2, <3>3
  <2> QED BY <1>2, <2>1, <2>3, <2>4
<1> QED BY <1>4, <1>5

(***************************************************************************)
(* The steps of the topic.                                                 *)
(***************************************************************************)
LEMMA CalmOne ==
  ASSUME NEW ks, ks = [y \in Slot |-> ks[y]], NEW x \in Slot, \A y \in Slot \ {x} : ks[y] = P!NoCall,
         NEW k, NEW p, NEW s, NEW staff,
         k # P!NoCall => Awaits(p, k, s, staff), k = P!NoCall => Agrees(p, s, staff)
  PROVE  Calm(p, [ks EXCEPT ![x] = k], s, staff)
<1> DEFINE new == [ks EXCEPT ![x] = k]
<1>1. \A y \in Slot : new[y] = IF y = x THEN k ELSE ks[y]
  OBVIOUS
<1> HIDE DEF new
<1>2. \A y \in Slot : new[y] # P!NoCall => y = x
  BY <1>1
<1>3. new[x] = k
  BY <1>1
<1>4. \A y, z \in Slot : new[y] # P!NoCall /\ new[z] # P!NoCall => y = z
  BY <1>2
<1>5. (\A y \in Slot : new[y] = P!NoCall) => Agrees(p, s, staff)
  BY <1>3
<1>6. \A y \in Slot : new[y] # P!NoCall => Awaits(p, new[y], s, staff)
  BY <1>2, <1>3
<1> QED BY <1>4, <1>5, <1>6 DEF Calm, new

(* The requests when one has changed.                                      *)
LEMMA CallsKept ==
  ASSUME NEW ks, ks = [y \in Slot |-> ks[y]], \A y \in Slot : CallFine(ks[y]), NEW x \in Slot,
         NEW k, CallFine(k), NEW new, new = [ks EXCEPT ![x] = k]
  PROVE  new = [y \in Slot |-> new[y]] /\ \A y \in Slot : CallFine(new[y])
<1>1. new = [y \in Slot |-> IF y = x THEN k ELSE ks[y]]
  OBVIOUS
<1>2. \A y \in Slot : new[y] = IF y = x THEN k ELSE ks[y]
  BY <1>1
<1>3. new = [y \in Slot |-> new[y]]
  BY <1>1
<1> QED BY <1>2, <1>3

LEMMA NoCallIs ==
  /\ P!NoCall.phase = "idle" /\ CallFine(P!NoCall)
  /\ \A kind \in Asked, c \in 0 .. Comments :
       /\ P!Request(kind, c) = [kind |-> kind, at |-> c, phase |-> "sent", answer |-> None]
       /\ CallFine(P!Request(kind, c)) /\ P!Request(kind, c) # P!NoCall
       /\ P!Request(kind, c).kind = kind /\ P!Request(kind, c).phase = "sent"
<1>1. P!NoCall = [kind |-> None, at |-> 0, phase |-> "idle", answer |-> None]
  BY DEF P!NoCall
<1>2. ASSUME NEW kind \in Asked, NEW c \in 0 .. Comments
      PROVE  /\ P!Request(kind, c) = [kind |-> kind, at |-> c, phase |-> "sent", answer |-> None]
             /\ CallFine(P!Request(kind, c)) /\ P!Request(kind, c) # P!NoCall
             /\ P!Request(kind, c).kind = kind /\ P!Request(kind, c).phase = "sent"
  <2> DEFINE r == P!Request(kind, c)
  <2>1. r = [kind |-> kind, at |-> c, phase |-> "sent", answer |-> None]
    <3> DEFINE r1 == [P!NoCall EXCEPT !.kind = kind]
               r2 == [r1 EXCEPT !.at = c]
    <3>1. r = [r2 EXCEPT !.phase = "sent"]
      BY DEF P!Request
    <3>2. r1 = [kind |-> kind, at |-> 0, phase |-> "idle", answer |-> None]
      BY <1>1
    <3> HIDE DEF r1, r
    <3>3. r2 = [kind |-> kind, at |-> c, phase |-> "idle", answer |-> None]
      BY <3>2
    <3> HIDE DEF r2
    <3> QED BY <3>1, <3>3
  <2> HIDE DEF r
  <2>2. r.kind = kind /\ r.at = c /\ r.phase = "sent" /\ r.answer = None
    BY <2>1
  <2>3. r # P!NoCall
    BY <1>1, <2>2
  <2>4. CallFine(r)
    BY <2>1, <2>2 DEF CallFine
  <2> QED BY <2>1, <2>2, <2>3, <2>4 DEF r
<1> QED BY <1>1, <1>2 DEF CallFine

(* What a request under way is.                                            *)
LEMMA CallIs ==
  ASSUME NEW k, CallFine(k), k # P!NoCall
  PROVE  /\ k = [kind |-> k.kind, at |-> k.at, phase |-> k.phase, answer |-> k.answer]
         /\ k.kind \in Asked /\ k.at \in 0 .. Comments /\ k.phase \in {"sent", "served", "refused"}
         /\ k.phase = "served" => ToldFine(k.kind, k.at, k.answer)
BY DEF CallFine

LEMMA BlankIs ==
  ASSUME NEW at \in {"loading", "none", "failed", "left"}
  PROVE  PageFine(P!Blank(at)) /\ P!Blank(at).at = at /\ \A s, staff : Agrees(P!Blank(at), s, staff)
<1>1. P!Blank(at) = [at |-> at, view |-> P!NoView, extra |-> 0]
  BY DEF P!Blank
<1>2. P!Blank(at).at = at /\ at # "shown"
  BY <1>1
<1>3. PageFine(P!Blank(at))
  BY <1>1, NoViewFine, PagePut
<1> QED BY <1>2, <1>3 DEF Agrees

(* A load awaits nothing of the page it will show.                         *)
LEMMA LoadAwaits ==
  ASSUME NEW p, NEW s, NEW staff
  PROVE  Awaits(p, P!Request("load", 0), s, staff) /\ CallFine(P!Request("load", 0))
         /\ P!Request("load", 0) # P!NoCall
<1> DEFINE kind == "load"
<1>1. kind \in Asked /\ 0 \in 0 .. Comments
  BY TopicConstants DEF Asked, P!PostRequests
<1>2. /\ CallFine(P!Request(kind, 0)) /\ P!Request(kind, 0) # P!NoCall
      /\ P!Request(kind, 0).kind = kind /\ P!Request(kind, 0).phase = "sent"
  BY <1>1, NoCallIs
<1> QED BY <1>2 DEF Awaits

(* A request that is granted has its answer.                               *)
LEMMA ServedIs ==
  ASSUME NEW ks, ks = [y \in Slot |-> ks[y]], NEW x \in Slot, CallFine(ks[x]), ks[x] # P!NoCall,
         NEW c, NEW told
  PROVE  [ks EXCEPT ![x].phase = "served", ![x].at = c, ![x].answer = told]
         = [ks EXCEPT ![x] = [kind |-> ks[x].kind, at |-> c, phase |-> "served", answer |-> told]]
<1> DEFINE k == ks[x]
           a == k.kind
           b == k.at
           o == k.answer
           h == k.phase
           f1 == [ks EXCEPT ![x].phase = "served"]
           f2 == [f1 EXCEPT ![x].at = c]
           f3 == [f2 EXCEPT ![x].answer = told]
           k1 == [kind |-> a, at |-> b, phase |-> "served", answer |-> o]
           k2 == [kind |-> a, at |-> c, phase |-> "served", answer |-> o]
           k3 == [kind |-> a, at |-> c, phase |-> "served", answer |-> told]
<1>1. [ks EXCEPT ![x].phase = "served", ![x].at = c, ![x].answer = told] = f3
  OBVIOUS
<1>2. k = [kind |-> a, at |-> b, phase |-> h, answer |-> o]
  BY CallIs
<1> HIDE DEF a, b, o, h
<1>3. [k EXCEPT !.phase = "served"] = k1
  BY <1>2
<1>4. f1 = [ks EXCEPT ![x] = k1]
  BY <1>3
<1>5. [k1 EXCEPT !.at = c] = k2 /\ [k2 EXCEPT !.answer = told] = k3
  <2>1. [k1 EXCEPT !.at = c] = k2
    OBVIOUS
  <2>2. [k2 EXCEPT !.answer = told] = k3
    OBVIOUS
  <2> QED BY <2>1, <2>2
<1> HIDE DEF f1, k, k1, k2, k3
<1>6. f2 = [ks EXCEPT ![x] = k2]
  <2>1. f1[x] = k1 /\ \A y \in Slot : y # x => f1[y] = ks[y]
    BY <1>4
  <2>2. f1 = [y \in Slot |-> IF y = x THEN k1 ELSE ks[y]]
    BY <1>4
  <2>3. f2 = [f1 EXCEPT ![x] = k2]
    BY <1>5, <2>1
  <2> HIDE DEF f2
  <2> QED BY <2>2, <2>3
<1> HIDE DEF f2
<1>7. f3 = [ks EXCEPT ![x] = k3]
  <2>1. f2[x] = k2 /\ \A y \in Slot : y # x => f2[y] = ks[y]
    BY <1>6
  <2>2. f2 = [y \in Slot |-> IF y = x THEN k2 ELSE ks[y]]
    BY <1>6
  <2>3. f3 = [f2 EXCEPT ![x] = k3]
    BY <1>5, <2>1
  <2> HIDE DEF f3
  <2> QED BY <2>2, <2>3
<1> HIDE DEF f3
<1> QED BY <1>1, <1>7 DEF f1, f2, f3, k3, a, k

(* Requests are granted, or not.                                           *)
LEMMA GrantFine ==
  ASSUME TopicInv, NEW x \in Slot, P!Serve(x)
  PROVE  TopicInv'
<1> DEFINE k == call[x]
           s == P!Staff
           kind == k.kind
           c == k.at
           e == Meant(server, kind, c)
           t == P!Effect(server, TRUE, kind, c)
           told == P!Told(t, s, kind, e)
<1>1. /\ role \in P!Role /\ TopicFine(server) /\ PageFine(page)
      /\ call = [y \in Slot |-> call[y]] /\ \A y \in Slot : CallFine(call[y])
      /\ calm \in BOOLEAN /\ clicks \in Nat /\ clicks <= Clicks /\ others \in Nat /\ others <= Others
      /\ calm => Calm(page, call, server, s)
  BY DEF TopicInv
<1>2. /\ role' = role /\ page' = page /\ calm' = calm /\ clicks' = clicks /\ others' = others
      /\ k.phase = "sent" /\ (kind = "add" => P!Unwritten(server) # {})
  BY DEF P!Serve
<1>3. s \in BOOLEAN /\ P!Staff' = s
  BY <1>2 DEF P!Staff
<1>4. CallFine(k) /\ k # P!NoCall
  BY <1>1, <1>2, NoCallIs
<1>5. /\ k = [kind |-> kind, at |-> c, phase |-> k.phase, answer |-> k.answer]
      /\ kind \in Asked /\ c \in 0 .. Comments
  BY <1>4, CallIs
<1>6. calm => /\ \A y \in Slot \ {x} : call[y] = P!NoCall
              /\ kind # "load" => Agrees(page, server, s)
  <2> SUFFICES ASSUME calm PROVE /\ \A y \in Slot \ {x} : call[y] = P!NoCall
                                 /\ kind # "load" => Agrees(page, server, s)
    OBVIOUS
  <2>1. Calm(page, call, server, s)
    BY <1>1
  <2>2. Awaits(page, k, server, s)
    BY <1>4, <2>1 DEF Calm
  <2>3. \A y \in Slot \ {x} : call[y] = P!NoCall
    BY <1>4, <2>1 DEF Calm
  <2> QED BY <1>2, <2>2, <2>3 DEF Awaits
<1>7. CASE P!LetIn(kind) /\ P!Accepts(server, s, TRUE, kind, c)
  <2> DEFINE new == [kind |-> kind, at |-> e, phase |-> "served", answer |-> told]
  <2>1. /\ server' = t
        /\ call' = [call EXCEPT ![x].phase = "served", ![x].at = e, ![x].answer = told]
    BY <1>7 DEF P!Serve, Meant
  <2>2. /\ TopicFine(t) /\ e \in 0 .. Comments /\ ToldFine(kind, e, told)
        /\ \A p : /\ PageFine(p) /\ kind \notin Turning
                  /\ kind # "load" => Agrees(p, server, s)
                  => Agrees(P!Answered(p, kind, e, told), t, s)
    BY <1>1, <1>2, <1>3, <1>5, <1>7, AnswerAgrees
  <2> HIDE DEF e, t, told, s
  <2>3. call' = [call EXCEPT ![x] = new]
    <3>1. CallFine(call[x]) /\ call[x] # P!NoCall /\ call = [y \in Slot |-> call[y]]
      BY <1>1, <1>4
    <3>2. \A a, b : [call EXCEPT ![x].phase = "served", ![x].at = a, ![x].answer = b]
                    = [call EXCEPT ![x] = [kind |-> call[x].kind, at |-> a, phase |-> "served", answer |-> b]]
      BY <3>1, ServedIs
    <3> QED BY <2>1, <3>2
  <2> HIDE DEF kind, c
  <2>4. new.kind = kind /\ new.at = e /\ new.phase = "served" /\ new.answer = told
    OBVIOUS
  <2>5. CallFine(new) /\ new # P!NoCall
    <3>1. new # P!NoCall
      BY <2>4, NoCallIs
    <3> QED BY <1>5, <2>2, <2>4, <3>1 DEF CallFine
  <2> HIDE DEF new
  <2>6. call' = [y \in Slot |-> call'[y]] /\ \A y \in Slot : CallFine(call'[y])
    BY <1>1, <2>3, <2>5, CallsKept
  <2>7. ASSUME calm PROVE Calm(page, call', t, s)
    <3>1. Awaits(page, new, t, s)
      BY <1>1, <1>6, <2>2, <2>4, <2>7 DEF Awaits
    <3>2. \A y \in Slot \ {x} : call[y] = P!NoCall
      BY <1>6, <2>7
    <3> QED BY <1>1, <2>3, <2>5, <3>1, <3>2, CalmOne
  <2> QED BY <1>1, <1>2, <1>3, <2>1, <2>2, <2>6, <2>7 DEF TopicInv
<1>8. CASE ~(P!LetIn(kind) /\ P!Accepts(server, s, TRUE, kind, c))
  <2> DEFINE new == [k EXCEPT !.phase = "refused"]
             a == k.answer
  <2>1. server' = server /\ call' = [call EXCEPT ![x] = new]
    <3>1. server' = server /\ call' = [call EXCEPT ![x].phase = "refused"]
      BY <1>8 DEF P!Serve
    <3> QED BY <3>1
  <2> HIDE DEF kind, c, a
  <2>2. new = [kind |-> kind, at |-> c, phase |-> "refused", answer |-> a]
    BY <1>5 DEF a
  <2> HIDE DEF new, s
  <2>3. new.kind = kind /\ new.at = c /\ new.phase = "refused" /\ new.answer = a
    BY <2>2
  <2>4. CallFine(new) /\ new # P!NoCall
    <3>1. new # P!NoCall
      BY <2>3, NoCallIs
    <3> QED BY <1>5, <2>2, <2>3, <3>1 DEF CallFine
  <2>5. call' = [y \in Slot |-> call'[y]] /\ \A y \in Slot : CallFine(call'[y])
    BY <1>1, <2>1, <2>4, CallsKept
  <2>6. ASSUME calm PROVE Calm(page, call', server, s)
    <3>1. Awaits(page, new, server, s)
      BY <1>6, <2>3, <2>6 DEF Awaits
    <3>2. \A y \in Slot \ {x} : call[y] = P!NoCall
      BY <1>6, <2>6
    <3> QED BY <1>1, <2>1, <2>4, <3>1, <3>2, CalmOne
  <2> QED BY <1>1, <1>2, <1>3, <2>1, <2>5, <2>6 DEF TopicInv
<1> QED BY <1>7, <1>8

(* An answer reaches the page.                                             *)
LEMMA AnswersFine ==
  ASSUME TopicInv, NEW x \in Slot, P!Answer(x)
  PROVE  TopicInv'
<1> DEFINE k == call[x]
           s == P!Staff
           kind == k.kind
           c == k.at
<1>1. /\ role \in P!Role /\ TopicFine(server) /\ PageFine(page)
      /\ call = [y \in Slot |-> call[y]] /\ \A y \in Slot : CallFine(call[y])
      /\ calm \in BOOLEAN /\ clicks \in Nat /\ clicks <= Clicks /\ others \in Nat /\ others <= Others
      /\ calm => Calm(page, call, server, s)
  BY DEF TopicInv
<1>2. /\ role' = role /\ server' = server /\ clicks' = clicks /\ others' = others
      /\ k.phase = "served"
  BY DEF P!Answer
<1>3. s \in BOOLEAN /\ P!Staff' = s
  BY <1>2 DEF P!Staff
<1>4. CallFine(k) /\ k # P!NoCall
  BY <1>1, <1>2, NoCallIs
<1>5. kind \in Asked /\ c \in 0 .. Comments /\ ToldFine(kind, c, k.answer)
  BY <1>2, <1>4, CallIs
<1>6. ASSUME calm
      PROVE  /\ \A y \in Slot \ {x} : call[y] = P!NoCall
             /\ kind \notin Turning => Agrees(P!Answered(page, kind, c, k.answer), server, s)
  <2>1. Calm(page, call, server, s)
    BY <1>1, <1>6
  <2>2. Awaits(page, k, server, s)
    BY <1>4, <2>1 DEF Calm
  <2>3. \A y \in Slot \ {x} : call[y] = P!NoCall
    BY <1>4, <2>1 DEF Calm
  <2> QED BY <1>2, <2>2, <2>3 DEF Awaits
<1>7. ASSUME PageFine(page'), call' = [call EXCEPT ![x] = P!NoCall], calm' = calm,
             calm => Agrees(page', server, s)
      PROVE  TopicInv'
  <2>1. call' = [y \in Slot |-> call'[y]] /\ \A y \in Slot : CallFine(call'[y])
    BY <1>1, <1>7, NoCallIs, CallsKept
  <2> HIDE DEF s
  <2>2. ASSUME calm PROVE Calm(page', call', server, s)
    <3>1. \A y \in Slot \ {x} : call[y] = P!NoCall
      BY <1>6, <2>2
    <3> QED BY <1>1, <1>7, <2>2, <3>1, CalmOne
  <2> QED BY <1>1, <1>2, <1>3, <1>7, <2>1, <2>2 DEF TopicInv
<1>8. CASE page.at = "left"
  <2>1. page' = page /\ call' = [call EXCEPT ![x] = P!NoCall] /\ calm' = calm
    BY <1>8 DEF P!Answer
  <2>2. Agrees(page, server, s)
    BY <1>8 DEF Agrees
  <2> QED BY <1>1, <1>7, <2>1, <2>2
<1>9. CASE page.at # "left" /\ P!Reloads(kind)
  <2> DEFINE new == P!Request("load", 0)
  <2>1. page' = P!Blank("loading") /\ call' = [call EXCEPT ![x] = new] /\ calm' = (P!Idle = Slot \ {x})
    BY <1>9 DEF P!Answer
  <2>2. PageFine(page')
    BY <2>1, BlankIs
  <2> HIDE DEF s
  <2>3. Awaits(page', new, server, s) /\ CallFine(new) /\ new # P!NoCall
    BY LoadAwaits
  <2> HIDE DEF new
  <2>4. call' = [y \in Slot |-> call'[y]] /\ \A y \in Slot : CallFine(call'[y])
    BY <1>1, <2>1, <2>3, CallsKept
  <2>5. ASSUME calm' PROVE Calm(page', call', server, s)
    <3>1. \A y \in Slot \ {x} : call[y] = P!NoCall
      BY <2>1, <2>5 DEF P!Idle
    <3> QED BY <1>1, <2>1, <2>3, <3>1, CalmOne
  <2>6. calm' \in BOOLEAN
    BY <2>1
  <2> QED BY <1>1, <1>2, <1>3, <2>2, <2>4, <2>5, <2>6 DEF TopicInv
<1>10. CASE page.at # "left" /\ ~P!Reloads(kind) /\ P!Leaves(kind)
  <2>1. page' = P!Blank("left") /\ call' = [call EXCEPT ![x] = P!NoCall] /\ calm' = calm
    BY <1>10 DEF P!Answer
  <2>2. PageFine(page') /\ Agrees(page', server, s)
    BY <2>1, BlankIs
  <2> QED BY <1>7, <2>1, <2>2
<1>11. CASE page.at # "left" /\ ~P!Reloads(kind) /\ ~P!Leaves(kind)
  <2>1. page' = P!Answered(page, kind, c, k.answer) /\ call' = [call EXCEPT ![x] = P!NoCall] /\ calm' = calm
    BY <1>11 DEF P!Answer
  <2>2. kind \notin Turning
    BY <1>11 DEF P!Reloads, P!Leaves, Turning
  <2>3. PageFine(page')
    BY <1>1, <1>5, <2>1, AnsweredFine
  <2> QED BY <1>6, <1>7, <2>1, <2>2, <2>3
<1> QED BY <1>8, <1>9, <1>10, <1>11

(* A request fails.                                                        *)
LEMMA FailedFine ==
  ASSUME TopicInv, NEW x \in Slot, P!Fail(x)
  PROVE  TopicInv'
<1> DEFINE k == call[x]
           s == P!Staff
           kind == k.kind
<1>1. /\ role \in P!Role /\ TopicFine(server) /\ PageFine(page)
      /\ call = [y \in Slot |-> call[y]] /\ \A y \in Slot : CallFine(call[y])
      /\ calm \in BOOLEAN /\ clicks \in Nat /\ clicks <= Clicks /\ others \in Nat /\ others <= Others
      /\ calm => Calm(page, call, server, s)
  BY DEF TopicInv
<1>2. /\ role' = role /\ server' = server /\ clicks' = clicks /\ others' = others
      /\ k # P!NoCall /\ call' = [call EXCEPT ![x] = P!NoCall]
      /\ calm' = (calm /\ k.phase # "served")
      /\ page' = IF kind # "load" THEN page
                 ELSE P!LoadEnded(page, IF k.phase = "refused" THEN "none" ELSE "failed")
  BY DEF P!Fail
<1>3. P!Staff' = s
  BY <1>2 DEF P!Staff
<1>4. k.phase \in {"sent", "served", "refused"}
  BY <1>1, <1>2, CallIs
<1>5. call' = [y \in Slot |-> call'[y]] /\ \A y \in Slot : CallFine(call'[y])
  BY <1>1, <1>2, NoCallIs, CallsKept
<1>6. ASSUME kind = "load"
      PROVE  PageFine(page') /\ Agrees(page', server, s)
  <2> DEFINE how == IF k.phase = "refused" THEN "none" ELSE "failed"
  <2>1. page' = P!LoadEnded(page, how) /\ how \in {"loading", "none", "failed", "left"}
    BY <1>2, <1>6
  <2> HIDE DEF how, s
  <2>2. CASE page.at \in {"left", "failed"}
    <3>1. page' = page
      BY <2>1, <2>2 DEF P!LoadEnded
    <3> QED BY <1>1, <2>2, <3>1 DEF Agrees
  <2>3. CASE page.at \notin {"left", "failed"}
    <3>1. page' = P!Blank(how)
      BY <2>1, <2>3 DEF P!LoadEnded
    <3> QED BY <2>1, <3>1, BlankIs
  <2> QED BY <2>2, <2>3
<1>7. PageFine(page')
  BY <1>1, <1>2, <1>6
<1>8. ASSUME calm' PROVE Calm(page', call', server, s)
  <2>1. calm /\ k.phase \in {"sent", "refused"} /\ Calm(page, call, server, s)
    BY <1>1, <1>2, <1>4, <1>8
  <2>2. \A y \in Slot \ {x} : call[y] = P!NoCall
    BY <1>2, <2>1 DEF Calm
  <2>3. Awaits(page, k, server, s)
    BY <1>2, <2>1 DEF Calm
  <2>4. Agrees(page', server, s)
    <3>1. CASE kind = "load"
      BY <1>6, <3>1
    <3>2. CASE kind # "load"
      BY <1>2, <2>1, <2>3, <3>2 DEF Awaits
    <3> QED BY <3>1, <3>2
  <2> HIDE DEF s
  <2> QED BY <1>1, <1>2, <2>2, <2>4, CalmOne
<1>9. calm' \in BOOLEAN
  BY <1>1, <1>2
<1> HIDE DEF s
<1> QED BY <1>1, <1>2, <1>3, <1>5, <1>7, <1>8, <1>9 DEF TopicInv

(* A request is made: of a button, or to load the topic again.             *)
LEMMA AskedFine ==
  ASSUME TopicInv, NEW kind \in Asked, NEW c \in 0 .. Comments, P!Idle # {}, clicks < Clicks,
         role' = role, server' = server, others' = others, clicks' = clicks + 1,
         call' = [call EXCEPT ![P!Free] = P!Request(kind, c)],
         calm' \in BOOLEAN, calm' => P!Idle = Slot, PageFine(page'),
         calm' => (kind # "load" => Agrees(page', server, P!Staff))
  PROVE  TopicInv'
<1> DEFINE s == P!Staff
           x == P!Free
           k == P!Request(kind, c)
<1>1. /\ role \in P!Role /\ TopicFine(server) /\ PageFine(page)
      /\ call = [y \in Slot |-> call[y]] /\ \A y \in Slot : CallFine(call[y])
      /\ clicks \in Nat /\ others \in Nat /\ others <= Others
  BY DEF TopicInv
<1>2. x \in Slot /\ \A y \in P!Idle : y \in Slot /\ call[y] = P!NoCall
  BY DEF P!Free, P!Idle
<1>3. P!Staff' = s
  BY DEF P!Staff
<1>4. CallFine(k) /\ k # P!NoCall /\ k.kind = kind /\ k.phase = "sent"
  BY NoCallIs
<1>5. clicks' \in Nat /\ clicks' <= Clicks
  BY <1>1, TopicConstants
<1> HIDE DEF s, x, k
<1>6. call' = [call EXCEPT ![x] = k]
  BY DEF x, k
<1>7. call' = [y \in Slot |-> call'[y]] /\ \A y \in Slot : CallFine(call'[y])
  BY <1>1, <1>2, <1>4, <1>6, CallsKept
<1>8. ASSUME calm' PROVE Calm(page', call', server, s)
  <2>1. Awaits(page', k, server, s)
    BY <1>4, <1>8 DEF Awaits, s
  <2>2. \A y \in Slot \ {x} : call[y] = P!NoCall
    BY <1>2, <1>8
  <2> QED BY <1>1, <1>2, <1>4, <1>6, <2>1, <2>2, CalmOne
<1> QED BY <1>1, <1>3, <1>5, <1>7, <1>8 DEF TopicInv

LEMMA ClickFine ==
  ASSUME TopicInv, NEW kind \in Asked, NEW c \in 0 .. Comments, P!Click(kind, c)
  PROVE  TopicInv'
<1>1. /\ P!Idle # {} /\ clicks < Clicks /\ role' = role /\ server' = server /\ others' = others
      /\ clicks' = clicks + 1 /\ page' = page /\ call' = [call EXCEPT ![P!Free] = P!Request(kind, c)]
      /\ calm' = (calm /\ P!Idle = Slot)
  BY DEF P!Click
<1>2. PageFine(page') /\ calm' \in BOOLEAN
  BY <1>1 DEF TopicInv
<1>3. ASSUME calm' PROVE Agrees(page', server, P!Staff)
  <2>1. Calm(page, call, server, P!Staff) /\ \A y \in Slot : call[y] = P!NoCall
    BY <1>1, <1>3 DEF TopicInv, P!Idle
  <2> QED BY <1>1, <2>1 DEF Calm
<1> QED BY <1>1, <1>2, <1>3, AskedFine

LEMMA RetryFine ==
  ASSUME TopicInv, P!Retry
  PROVE  TopicInv'
<1> DEFINE kind == "load"
<1>1. /\ P!Idle # {} /\ clicks < Clicks /\ role' = role /\ server' = server /\ others' = others
      /\ clicks' = clicks + 1 /\ page' = P!Blank("loading")
      /\ call' = [call EXCEPT ![P!Free] = P!Request(kind, 0)]
      /\ calm' = (P!Idle = Slot)
  BY DEF P!Retry
<1>2. PageFine(page') /\ calm' \in BOOLEAN
  BY <1>1, BlankIs
<1>3. kind \in Asked /\ 0 \in 0 .. Comments
  BY TopicConstants DEF Asked, P!PostRequests
<1> QED BY <1>1, <1>2, <1>3, AskedFine

(* Somebody else writes.                                                   *)
LEMMA OtherFine ==
  ASSUME TopicInv, NEW kind \in Asked, NEW c \in 0 .. Comments, P!Other(kind, c)
  PROVE  TopicInv'
<1> DEFINE t == P!Effect(server, FALSE, kind, c)
<1>1. /\ role' = role /\ page' = page /\ call' = call /\ clicks' = clicks /\ calm' = FALSE
      /\ others < Others /\ others' = others + 1 /\ server' = t
      /\ (kind = "add" => P!Unwritten(server) # {}) /\ P!Accepts(server, TRUE, FALSE, kind, c)
  BY DEF P!Other
<1>2. /\ role \in P!Role /\ TopicFine(server) /\ PageFine(page)
      /\ call = [y \in Slot |-> call[y]] /\ \A y \in Slot : CallFine(call[y])
      /\ clicks \in Nat /\ clicks <= Clicks /\ others \in Nat
  BY DEF TopicInv
<1>3. TopicFine(t)
  <2>1. TRUE \in BOOLEAN /\ FALSE \in BOOLEAN
    OBVIOUS
  <2> QED BY <1>1, <1>2, <2>1, EffectTopic
<1>4. others' \in Nat /\ others' <= Others
  BY <1>1, <1>2, TopicConstants
<1> HIDE DEF t
<1> QED BY <1>1, <1>2, <1>3, <1>4 DEF TopicInv

LEMMA TopicStep ==
  ASSUME TopicInv, [P!Next]_topic
  PROVE  TopicInv'
<1>1. CASE P!Next
  <2>1. \A kind \in P!PostRequests : kind \in Asked /\ 0 \in 0 .. Comments
    BY TopicConstants DEF Asked
  <2>2. \A kind \in P!CommentRequests : kind \in Asked
    BY DEF Asked
  <2>3. \/ \E x \in Slot : P!Serve(x) \/ P!Answer(x) \/ P!Fail(x)
        \/ P!Retry
        \/ \E kind \in Asked, c \in 0 .. Comments : P!Click(kind, c)
        \/ \E kind \in Asked, c \in 0 .. Comments : P!Other(kind, c)
    BY <1>1, <2>1, <2>2 DEF P!Next
  <2> QED BY <2>3, GrantFine, AnswersFine, FailedFine, RetryFine, ClickFine, OtherFine
<1>2. CASE UNCHANGED topic
  <2>1. /\ role' = role /\ server' = server /\ page' = page /\ call' = call /\ clicks' = clicks
        /\ others' = others
    BY <1>2 DEF topic
  <2>2. calm' = calm
    BY <1>2 DEF topic
  <2>3. P!Staff' = P!Staff
    BY <2>1 DEF P!Staff
  <2> QED BY <2>1, <2>2, <2>3 DEF TopicInv
<1> QED BY <1>1, <1>2

(* The topics a visitor may find.                                          *)
LEMMA FoundFine ==
  ASSUME NEW s \in P!Found
  PROVE  TopicFine(s)
<1>1. PICK m \in BOOLEAN, n \in 0 .. Comments, own \in [P!Comment -> BOOLEAN], chain \in BOOLEAN :
        s = [post |-> "alive", mine |-> m, edited |-> FALSE, liked |-> FALSE, row |-> P!Begun(n, own, chain)]
  BY DEF P!Found
<1> DEFINE up(c) == IF chain THEN c - 1 ELSE 0
           alive(c) == [P!NoRow EXCEPT !.state = "alive", !.mine = own[c], !.parent = up(c)]
           row == [c \in P!Comment |-> IF c > n THEN P!NoRow ELSE alive(c)]
<1>2. s = [post |-> "alive", mine |-> m, edited |-> FALSE, liked |-> FALSE, row |-> row]
  BY <1>1 DEF P!Begun
<1>3. P!NoRow = [state |-> "none", mine |-> FALSE, parent |-> 0, edited |-> FALSE, liked |-> FALSE]
      /\ 0 \in 0 .. Comments
  BY TopicConstants DEF P!NoRow
<1>4. P!NoRow \in P!Rows /\ P!NoRow.state = "none" /\ P!NoRow.parent = 0
  BY <1>3 DEF P!Rows
<1>5. ASSUME NEW c \in P!Comment
      PROVE  /\ c \in Nat /\ c >= 1 /\ c <= Comments /\ up(c) \in 0 .. c - 1 /\ up(c) \in 0 .. Comments
             /\ (up(c) # 0 => up(c) \in P!Comment /\ up(c) = c - 1)
  <2>1. c \in 1 .. Comments /\ Comments \in Nat /\ P!Comment = 1 .. Comments
    BY TopicConstants
  <2> QED BY <2>1
<1> HIDE DEF up
<1>6. ASSUME NEW c \in P!Comment
      PROVE  alive(c) \in P!Rows /\ alive(c).state = "alive" /\ alive(c).parent = up(c)
  <2> DEFINE u == up(c)
             o == own[c]
             r1 == [P!NoRow EXCEPT !.state = "alive"]
             r2 == [r1 EXCEPT !.mine = o]
             r3 == [r2 EXCEPT !.parent = u]
  <2>1. o \in BOOLEAN /\ u \in 0 .. Comments
    BY <1>5
  <2>2. alive(c) = r3
    OBVIOUS
  <2> HIDE DEF u, o
  <2>3. r1 \in P!Rows /\ r1.state = "alive"
    BY <1>4 DEF P!Rows
  <2> HIDE DEF r1
  <2>4. r2 \in P!Rows /\ r2.state = "alive"
    BY <2>1, <2>3 DEF P!Rows
  <2> HIDE DEF r2
  <2>6. r3 \in P!Rows /\ r3.state = "alive" /\ r3.parent = u
    BY <2>1, <2>4 DEF P!Rows
  <2> HIDE DEF r3
  <2> QED BY <2>2, <2>6 DEF u
<1> HIDE DEF alive
<1>7. row \in [P!Comment -> P!Rows]
      /\ \A c \in P!Comment : row[c] = IF c > n THEN P!NoRow ELSE alive(c)
  BY <1>4, <1>6
<1> HIDE DEF row
<1>8. /\ s \in [post : {"alive", "hidden", "gone"}, mine : BOOLEAN, edited : BOOLEAN, liked : BOOLEAN,
                row : [P!Comment -> P!Rows]]
      /\ s.row = row
  BY <1>2, <1>7
<1>9. \A c \in P!Comment : row[c].parent = IF c > n THEN 0 ELSE up(c)
  BY <1>4, <1>6, <1>7
<1>10. \A c \in P!Comment : row[c].state = "none" <=> c > n
  BY <1>4, <1>6, <1>7
<1>11. Earlier(row)
  BY <1>5, <1>9 DEF Earlier
<1>12. ASSUME NEW c \in P!Comment, row[c].parent # 0
       PROVE  row[c].parent \in P!Comment /\ row[row[c].parent].state # "none"
  <2>1. ~(c > n) /\ row[c].parent = up(c) /\ up(c) \in P!Comment /\ up(c) = c - 1
    BY <1>5, <1>9, <1>12
  <2>2. ~(c - 1 > n)
    BY <1>5, <2>1
  <2> QED BY <1>10, <2>1, <2>2
<1>13. ASSUME NEW c \in P!Comment, NEW d \in P!Comment, d < c, row[c].state # "none"
       PROVE  row[d].state # "none"
  <2>1. c \in Nat /\ d \in Nat /\ n \in Nat /\ ~(c > n)
    BY <1>5, <1>10, <1>13
  <2> QED BY <1>10, <1>13, <2>1
<1> QED BY <1>8, <1>11, <1>12, <1>13 DEF TopicFine

LEMMA TopicBegin ==
  ASSUME P!Init
  PROVE  TopicInv
<1> DEFINE first == CHOOSE y \in Slot : TRUE
           load == P!Request("load", 0)
           s == P!Staff
<1>1. /\ role \in P!Role /\ server \in P!Found /\ page = P!Blank("loading") /\ calm = TRUE
      /\ call = [x \in Slot |-> IF x = first THEN load ELSE P!NoCall] /\ clicks = 0 /\ others = 0
  BY DEF P!Init
<1>2. TopicFine(server)
  BY <1>1, FoundFine
<1>3. PageFine(page) /\ Agrees(page, server, s)
  BY <1>1, BlankIs
<1> HIDE DEF first, s
<1>4. CallFine(load) /\ Awaits(page, load, server, s)
  BY LoadAwaits
<1> HIDE DEF load
<1>5. call = [x \in Slot |-> call[x]] /\ \A x \in Slot : call[x] = IF x = first THEN load ELSE P!NoCall
  BY <1>1
<1>6. \A x \in Slot : CallFine(call[x])
  BY <1>4, <1>5, NoCallIs
<1>7. Calm(page, call, server, s)
  BY <1>3, <1>4, <1>5 DEF Calm
<1>8. clicks \in Nat /\ clicks <= Clicks /\ others \in Nat /\ others <= Others /\ calm \in BOOLEAN
  BY <1>1, TopicConstants
<1> QED BY <1>1, <1>2, <1>3, <1>5, <1>6, <1>7, <1>8 DEF TopicInv, s

LEMMA ViewTyped ==
  ASSUME NEW v, ViewFine(v)
  PROVE  P!IsView(v)
<1>1. v.deleted \in BOOLEAN /\ v.mine \in BOOLEAN /\ v.edited \in BOOLEAN /\ v.liked \in BOOLEAN
      /\ v.count \in Nat /\ DOMAIN v.items \subseteq P!Comment
      /\ \A c \in DOMAIN v.items : v.items[c] \in P!Entries
  BY DEF ViewFine, ItemsFine
<1>2. {v.deleted, v.mine, v.edited, v.liked} \subseteq BOOLEAN
  BY <1>1, Zenon
<1> QED BY <1>1, <1>2 DEF P!IsView

(* What the invariant means.                                               *)
LEMMA TopicMeans ==
  ASSUME TopicInv
  PROVE  P!TypeOK /\ P!ShownIsServed
<1>1. /\ role \in P!Role /\ TopicFine(server) /\ PageFine(page)
      /\ call = [x \in Slot |-> call[x]] /\ \A x \in Slot : CallFine(call[x])
      /\ calm \in BOOLEAN /\ clicks \in Nat /\ clicks <= Clicks /\ others \in Nat /\ others <= Others
      /\ calm => Calm(page, call, server, P!Staff)
  BY DEF TopicInv
<1>2. server.post \in {"alive", "hidden", "gone"} /\ server.row \in [P!Comment -> P!Rows]
  BY <1>1 DEF TopicFine
<1>3. page.at \in {"loading", "none", "failed", "shown", "left"} /\ P!IsView(page.view) /\ page.extra \in Nat
  BY <1>1, ViewTyped DEF PageFine
<1>4. ASSUME NEW x \in Slot
      PROVE  /\ call[x].phase \in {"idle", "sent", "served", "refused"}
             /\ call[x].phase = "served" => P!IsView(call[x].answer)
  <2>1. CallFine(call[x])
    BY <1>1
  <2>2. CASE call[x] = P!NoCall
    BY <2>2, NoCallIs
  <2>3. CASE call[x] # P!NoCall
    <3>1. /\ call[x].phase \in {"sent", "served", "refused"}
          /\ call[x].phase = "served" => ToldFine(call[x].kind, call[x].at, call[x].answer)
      BY <2>1, <2>3, CallIs
    <3> QED BY <3>1, ViewTyped DEF ToldFine
  <2> QED BY <2>2, <2>3
<1>5. clicks \in 0 .. Clicks /\ others \in 0 .. Others
  BY <1>1, TopicConstants
<1>6. P!TypeOK
  BY <1>1, <1>2, <1>3, <1>4, <1>5 DEF P!TypeOK
<1>7. ASSUME P!Settled PROVE page.view = P!View(server, P!Staff) /\ page.extra = 0
  <2>1. calm /\ page.at = "shown" /\ \A x \in Slot : call[x] = P!NoCall
    BY <1>7 DEF P!Settled, P!Shown, P!Idle
  <2>2. Agrees(page, server, P!Staff)
    BY <1>1, <2>1 DEF Calm
  <2> QED BY <2>1, <2>2 DEF Agrees
<1> QED BY <1>6, <1>7 DEF P!ShownIsServed

(***************************************************************************)
(* The buttons.                                                            *)
(***************************************************************************)
LEMMA NoneAlive ==
  ASSUME NEW s, P!Cardinality({c \in P!Comment : P!Alive(s, c)}) = 0
  PROVE  \A c \in P!Comment : ~P!Alive(s, c)
<1> DEFINE xs == {c \in P!Comment : P!Alive(s, c)}
<1>1. IsFiniteSet(xs) /\ Cardinality(xs) = 0
  BY AliveFinite
<1> HIDE DEF xs
<1>2. xs = {}
  BY <1>1, FS_EmptySet
<1> QED BY <1>2 DEF xs

(* What the page has a button for, the service behind the router grants.   *)
LEMMA ButtonsGranted ==
  ASSUME TopicInv
  PROVE  P!OfferedIsAccepted
<1> DEFINE s == server
           staff == P!Staff
           v == P!View(s, staff)
<1> SUFFICES ASSUME P!Settled, ~P!View0.deleted,
                    NEW kind \in P!PostRequests \cup P!CommentRequests, NEW c \in 0 .. Comments,
                    P!Offered(kind, c)
             PROVE  P!Accepts(server, staff, TRUE, kind, c)
  <2>1. ASSUME NEW kind \in P!PostRequests \cup P!CommentRequests, NEW c \in 0 .. Comments,
               ~P!View0.deleted, P!Offered(kind, c)
        PROVE  P!LetIn(kind) \/ kind \in P!Unasked
    <3>1. kind \notin {"restorePost", "destroyPost"}
      BY <2>1 DEF P!Offered, P!CommentRequests
    <3>2. \/ P!Verified \/ kind \in {"hidePost", "edit", "hide", "restore", "destroy"}
      BY <2>1, <3>1, Zenon DEF P!Offered, P!CanInteract
    <3> QED BY <3>2 DEF P!LetIn, P!Unasked
  <2> QED BY <2>1 DEF P!OfferedIsAccepted
<1>1. TopicFine(s) /\ staff \in BOOLEAN
  <2>1. TopicFine(s)
    BY DEF TopicInv
  <2>2. staff \in BOOLEAN
    BY DEF P!Staff
  <2> QED BY <2>1, <2>2
<1>2. page.view = v /\ s.post # "gone"
  <2>1. calm /\ page.at = "shown" /\ \A x \in Slot : call[x] = P!NoCall
    BY DEF P!Settled, P!Shown, P!Idle
  <2>2. Agrees(page, s, staff)
    BY <2>1 DEF TopicInv, Calm
  <2> QED BY <2>1, <2>2 DEF Agrees
<1>3. /\ (v.deleted <=> s.post = "hidden") /\ v.mine = s.mine
      /\ v.count = P!Cardinality({d \in P!Comment : P!Alive(s, d)})
      /\ v.items = [d \in P!Visible(s, staff) |-> P!Item(s.row[d], staff)]
      /\ P!Visible(s, staff) \subseteq P!Comment
      /\ \A d \in P!Comment : P!Alive(s, d) => d \in P!Visible(s, staff)
  BY <1>1, ViewIs
<1>4. s.post = "alive" /\ s.mine \in BOOLEAN /\ \A d \in P!Comment : s.row[d] \in P!Rows
  <2>1. s.post \in {"alive", "hidden", "gone"} /\ s.mine \in BOOLEAN /\ s.row \in [P!Comment -> P!Rows]
    BY <1>1 DEF TopicFine
  <2> QED BY <1>2, <1>3, <2>1 DEF P!View0
<1>5. ASSUME NEW d \in DOMAIN v.items
      PROVE  /\ d \in P!Comment /\ v.items[d] = P!Item(s.row[d], staff)
             /\ (v.items[d].deleted <=> s.row[d].state = "hidden")
             /\ v.items[d].mine = s.row[d].mine /\ v.items[d].parent = s.row[d].parent
             /\ (~v.items[d].deleted => P!Alive(s, d)) /\ (v.items[d].deleted => P!Hidden(s, d))
             /\ s.row[d].mine \in BOOLEAN
  <2>1. d \in P!Visible(s, staff) /\ d \in P!Comment /\ v.items[d] = P!Item(s.row[d], staff)
    BY <1>3
  <2>2. s.row[d] \in P!Rows /\ s.row[d].mine \in BOOLEAN
    BY <1>4, <2>1 DEF P!Rows
  <2>3. /\ P!Item(s.row[d], staff).parent = s.row[d].parent
        /\ (P!Item(s.row[d], staff).deleted <=> s.row[d].state = "hidden")
        /\ P!Item(s.row[d], staff).mine = s.row[d].mine
    BY <1>1, <2>2, ItemFine
  <2>4. s.row[d].state \in {"alive", "hidden"}
    BY <2>1 DEF P!Visible
  <2>5. s.row[d].state = "alive" => P!Alive(s, d)
    BY <2>1 DEF P!Alive
  <2>6. s.row[d].state = "hidden" => P!Hidden(s, d)
    BY <2>1 DEF P!Hidden
  <2> QED BY <2>1, <2>2, <2>3, <2>4, <2>5, <2>6
<1>6. ~v.deleted
  BY <1>2 DEF P!View0
<1>7. CASE kind = "editPost"
  <2>1. v.mine \/ staff
    BY <1>2, <1>6, <1>7 DEF P!Offered, P!CanInteract, P!View0, P!CommentRequests
  <2>2. s.mine = TRUE \/ staff
    BY <1>3, <1>4, <2>1
  <2> QED BY <1>4, <1>7, <2>2 DEF P!Accepts
<1>8. CASE kind = "likePost"
  BY <1>4, <1>8 DEF P!Accepts
<1>9. CASE kind = "hidePost"
  <2>1. staff \/ (v.mine /\ v.count = 0)
    BY <1>2, <1>9 DEF P!Offered, P!View0, P!MayHideTopic
  <2>2. staff \/ (s.mine = TRUE /\ \A d \in P!Comment : ~P!Alive(s, d))
    <3>1. CASE staff
      BY <3>1
    <3>2. CASE ~staff
      <4>1. v.mine /\ v.count = 0
        BY <2>1, <3>2
      <4>2. \A d \in P!Comment : ~P!Alive(s, d)
        BY <1>3, <4>1, NoneAlive
      <4> QED BY <1>3, <1>4, <4>1, <4>2
    <3> QED BY <3>1, <3>2
  <2> QED BY <1>4, <1>9, <2>2 DEF P!Accepts
<1>10. CASE kind \in {"restorePost", "destroyPost"}
  BY <1>2, <1>6, <1>10 DEF P!Offered, P!View0
<1>11. kind # "load"
  BY DEF P!Offered
<1>12. CASE kind \in P!CommentRequests
  <2>1. kind \notin {"editPost", "likePost", "hidePost", "restorePost", "destroyPost"}
    BY <1>12 DEF P!CommentRequests
  <2>2. \/ kind = "add" /\ c = 0
        \/ /\ c \in DOMAIN v.items
           /\ \/ kind = "add" /\ ~v.items[c].deleted
              \/ kind = "edit" /\ v.items[c].mine /\ ~v.items[c].deleted
              \/ kind = "like" /\ ~v.items[c].deleted
              \/ kind = "hide" /\ P!MayHideComment(c)
              \/ kind \in {"restore", "destroy"} /\ v.items[c].deleted /\ staff
    BY <1>2, <2>1 DEF P!Offered, P!View0, P!Items
  <2>3. CASE kind = "add" /\ c = 0
    BY <1>4, <2>3 DEF P!Accepts
  <2>4. CASE c \in DOMAIN v.items /\ kind \in {"add", "like"} /\ ~v.items[c].deleted
    <3>1. P!Alive(s, c)
      BY <1>5, <2>4
    <3> QED BY <1>4, <2>4, <3>1 DEF P!Accepts
  <2>5. CASE c \in DOMAIN v.items /\ kind = "edit" /\ v.items[c].mine /\ ~v.items[c].deleted
    <3>1. P!Alive(s, c) /\ s.row[c].mine = TRUE
      BY <1>5, <2>5
    <3> QED BY <1>4, <2>5, <3>1 DEF P!Accepts
  <2>6. CASE c \in DOMAIN v.items /\ kind = "hide" /\ P!MayHideComment(c)
    <3>1. ~v.items[c].deleted /\ (staff \/ (v.items[c].mine /\ P!Replies(v.items, c) = {}))
      BY <1>2, <2>6 DEF P!MayHideComment, P!View0
    <3>2. P!Alive(s, c)
      BY <1>5, <2>6, <3>1
    <3>3. staff \/ (s.row[c].mine = TRUE /\ \A d \in P!Comment : P!Alive(s, d) => s.row[d].parent # c)
      <4>1. CASE staff
        BY <4>1
      <4>2. CASE ~staff
        <5>1. s.row[c].mine = TRUE /\ P!Replies(v.items, c) = {}
          BY <1>5, <2>6, <3>1, <4>2
        <5>2. ASSUME NEW d \in P!Comment, P!Alive(s, d) PROVE s.row[d].parent # c
          <6>1. d \in DOMAIN v.items
            BY <1>3, <5>2
          <6>2. v.items[d].parent # c
            BY <5>1, <6>1 DEF P!Replies
          <6> QED BY <1>5, <6>1, <6>2
        <5> QED BY <5>1, <5>2
      <4> QED BY <4>1, <4>2
    <3> QED BY <1>4, <2>6, <3>2, <3>3 DEF P!Accepts
  <2>7. CASE c \in DOMAIN v.items /\ kind \in {"restore", "destroy"} /\ v.items[c].deleted /\ staff
    <3>1. P!Hidden(s, c)
      BY <1>5, <2>7
    <3> QED BY <1>2, <2>7, <3>1 DEF P!Accepts
  <2> QED BY <2>2, <2>3, <2>4, <2>5, <2>6, <2>7
<1> QED BY <1>7, <1>8, <1>9, <1>10, <1>11, <1>12 DEF P!PostRequests

(***************************************************************************)
(* The tree.  The comments of each level and of those before it, for as    *)
(* many levels as there are comments.                                      *)
(***************************************************************************)
Below(tree, above) == above \cup UNION {P!Replies(tree, c) : c \in above}

LevelTo(tree, n, f) ==
  f = [m \in 0 .. n |-> IF m = 0 THEN P!Roots(tree) ELSE Below(tree, f[m - 1])]

IsLevel(tree, f) ==
  f = [m \in Nat |-> IF m = 0 THEN P!Roots(tree) ELSE Below(tree, f[m - 1])]

LEMMA LevelUpTo ==
  ASSUME NEW tree, NEW n \in Nat
  PROVE  \E f : LevelTo(tree, n, f)
<1> DEFINE ns == {m \in Nat : ~ \E f : LevelTo(tree, m, f)}
<1>1. ASSUME NEW m \in ns PROVE \E k \in ns : k < m
  <2>1. m \in Nat /\ ~ \E f : LevelTo(tree, m, f)
    OBVIOUS
  <2>2. m # 0
    <3>1. LevelTo(tree, 0, [k \in {0} |-> P!Roots(tree)])
      BY DEF LevelTo
    <3> QED BY <2>1, <3>1
  <2>3. m - 1 \in Nat /\ m - 1 < m
    BY <2>1, <2>2
  <2>4. m - 1 \in ns
    <3> SUFFICES ASSUME NEW f, LevelTo(tree, m - 1, f) PROVE FALSE
      BY <2>3
    <3> DEFINE g == [k \in 0 .. m |-> IF k = m THEN Below(tree, f[m - 1]) ELSE f[k]]
    <3>1. \A k \in 0 .. m - 1 : f[k] = IF k = 0 THEN P!Roots(tree) ELSE Below(tree, f[k - 1])
      BY DEF LevelTo
    <3>2. \A k \in 0 .. m - 1 : k \in 0 .. m /\ k # m /\ g[k] = f[k]
      BY <2>1
    <3>3. \A k \in 0 .. m : g[k] = IF k = 0 THEN P!Roots(tree) ELSE Below(tree, g[k - 1])
      <4> SUFFICES ASSUME NEW k \in 0 .. m
                   PROVE  g[k] = IF k = 0 THEN P!Roots(tree) ELSE Below(tree, g[k - 1])
        OBVIOUS
      <4>1. CASE k = m
        <5>1. g[k] = Below(tree, f[m - 1]) /\ k # 0 /\ k - 1 = m - 1
          BY <2>2, <4>1
        <5>2. m - 1 \in 0 .. m - 1
          BY <2>3
        <5>3. g[m - 1] = f[m - 1]
          BY <3>2, <5>2
        <5> QED BY <5>1, <5>3
      <4>2. CASE k # m /\ k = 0
        <5>1. 0 \in 0 .. m - 1
          BY <2>3
        <5> QED BY <3>1, <3>2, <4>2, <5>1
      <4>3. CASE k # m /\ k # 0
        <5>1. k \in 0 .. m - 1 /\ k - 1 \in 0 .. m - 1
          BY <2>1, <4>3
        <5>2. g[k] = f[k] /\ g[k - 1] = f[k - 1]
          BY <3>2, <5>1
        <5>3. f[k] = Below(tree, f[k - 1])
          BY <3>1, <4>3, <5>1
        <5> QED BY <4>3, <5>2, <5>3
      <4> QED BY <4>1, <4>2, <4>3
    <3>4. g = [k \in 0 .. m |-> g[k]]
      OBVIOUS
    <3> HIDE DEF g
    <3>5. LevelTo(tree, m, g)
      BY <3>3, <3>4 DEF LevelTo
    <3> QED BY <2>1, <3>5
  <2> QED BY <2>3, <2>4
<1>2. ns = {}
  <2>1. ns \subseteq Nat
    OBVIOUS
  <2> HIDE DEF ns
  <2> QED BY <1>1, <2>1, NoLeast
<1> QED BY <1>2

(* Up to different levels they are the same as far as they go.             *)
LEMMA LevelsSame ==
  ASSUME NEW tree, NEW n \in Nat, NEW k \in Nat, NEW f, LevelTo(tree, n, f), NEW g, LevelTo(tree, k, g),
         NEW m \in Nat, m <= n, m <= k
  PROVE  f[m] = g[m]
<1> DEFINE ns == {j \in 0 .. m : f[j] # g[j]}
<1>1. /\ \A j \in 0 .. n : f[j] = IF j = 0 THEN P!Roots(tree) ELSE Below(tree, f[j - 1])
      /\ \A j \in 0 .. k : g[j] = IF j = 0 THEN P!Roots(tree) ELSE Below(tree, g[j - 1])
  BY DEF LevelTo
<1>2. \A j \in 0 .. m : j \in 0 .. n /\ j \in 0 .. k
  OBVIOUS
<1>3. ASSUME NEW j \in ns PROVE \E i \in ns : i < j
  <2>1. j \in 0 .. m /\ f[j] # g[j]
    OBVIOUS
  <2>2. j # 0 /\ f[j - 1] # g[j - 1]
    BY <1>1, <1>2, <2>1
  <2>3. j - 1 \in 0 .. m /\ j - 1 < j
    BY <2>1, <2>2
  <2> QED BY <2>2, <2>3
<1>4. ns = {}
  <2>1. ns \subseteq Nat
    OBVIOUS
  <2> HIDE DEF ns
  <2> QED BY <1>3, <2>1, NoLeast
<1>5. m \in 0 .. m
  OBVIOUS
<1> QED BY <1>4, <1>5

LEMMA LevelExists ==
  ASSUME NEW tree
  PROVE  \E f : IsLevel(tree, f)
<1> DEFINE to(n) == CHOOSE f : LevelTo(tree, n, f)
           level == [n \in Nat |-> to(n)[n]]
<1>1. \A n \in Nat : LevelTo(tree, n, to(n))
  BY LevelUpTo
<1> HIDE DEF to
<1>2. \A n \in Nat : level[n] = IF n = 0 THEN P!Roots(tree) ELSE Below(tree, level[n - 1])
  <2> SUFFICES ASSUME NEW n \in Nat
               PROVE  level[n] = IF n = 0 THEN P!Roots(tree) ELSE Below(tree, level[n - 1])
    OBVIOUS
  <2>1. level[n] = to(n)[n] /\ LevelTo(tree, n, to(n)) /\ n \in 0 .. n
    BY <1>1
  <2>2. to(n)[n] = IF n = 0 THEN P!Roots(tree) ELSE Below(tree, to(n)[n - 1])
    BY <2>1 DEF LevelTo
  <2>3. CASE n = 0
    BY <2>1, <2>2, <2>3
  <2>4. CASE n # 0
    <3>1. n - 1 \in Nat /\ n - 1 <= n /\ n - 1 <= n - 1
      BY <2>4
    <3>2. to(n)[n - 1] = to(n - 1)[n - 1]
      BY <1>1, <3>1, LevelsSame
    <3>3. level[n - 1] = to(n - 1)[n - 1]
      BY <3>1
    <3> QED BY <2>1, <2>2, <2>4, <3>2, <3>3
  <2> QED BY <2>3, <2>4
<1>3. level = [n \in Nat |-> level[n]]
  OBVIOUS
<1> HIDE DEF level
<1>4. IsLevel(tree, level)
  BY <1>2, <1>3 DEF IsLevel
<1> QED BY <1>4

LEMMA DrawnIs ==
  ASSUME NEW tree
  PROVE  \E level : /\ \A n \in Nat : level[n] = IF n = 0 THEN P!Roots(tree) ELSE Below(tree, level[n - 1])
                    /\ P!Drawn(tree) = level[P!Cardinality(DOMAIN tree)]
<1> DEFINE level == CHOOSE f : IsLevel(tree, f)
<1>1. IsLevel(tree, level)
  BY LevelExists
<1>2. P!Drawn(tree) = level[P!Cardinality(DOMAIN tree)]
  BY DEF P!Drawn, IsLevel, Below
<1> HIDE DEF level
<1>3. \A n \in Nat : level[n] = IF n = 0 THEN P!Roots(tree) ELSE Below(tree, level[n - 1])
  BY <1>1 DEF IsLevel
<1> QED BY <1>2, <1>3

(* Every comment that is there is drawn, whatever it answers.              *)
LEMMA AllDrawn ==
  ASSUME NEW tree, ItemsFine(tree)
  PROVE  P!Drawn(tree) = DOMAIN tree
<1> DEFINE there == DOMAIN tree
           before(c) == {d \in there : d < c}
           rank(c) == Cardinality(before(c))
           all == Cardinality(there)
<1>1. PICK level : /\ \A n \in Nat : level[n] = IF n = 0 THEN P!Roots(tree) ELSE Below(tree, level[n - 1])
                   /\ P!Drawn(tree) = level[P!Cardinality(there)]
  BY DrawnIs
<1>2. /\ there \subseteq P!Comment /\ \A c \in there : c \in Nat /\ tree[c].parent < c
      /\ IsFiniteSet(there) /\ all \in Nat /\ P!Cardinality(there) = all
  <2>1. there \subseteq P!Comment /\ there \in SUBSET (1 .. Comments) /\ \A c \in there : c \in Nat
    BY TopicConstants DEF ItemsFine
  <2>2. IsFiniteSet(1 .. Comments)
    BY TopicConstants, FS_Interval
  <2>3. \A c \in there : tree[c].parent < c
    BY DEF ItemsFine
  <2> HIDE DEF there
  <2>4. IsFiniteSet(there) /\ Cardinality(there) \in Nat
    BY <2>1, <2>2, FS_Subset, FS_CardinalityType
  <2>5. P!Cardinality(there) = Cardinality(there)
    BY DEF P!Cardinality, Cardinality
  <2> QED BY <2>1, <2>3, <2>4, <2>5
<1> HIDE DEF there
<1>3. /\ P!Roots(tree) = {c \in there : tree[c].parent \notin there}
      /\ \A c : P!Replies(tree, c) = {d \in there : tree[d].parent = c}
  BY DEF P!Roots, P!Replies, there
<1>4. level[0] = P!Roots(tree) /\ \A n \in Nat : n # 0 => level[n] = Below(tree, level[n - 1])
  BY <1>1
(* Each level is of those that are there, and has the roots.               *)
<1>5. \A n \in Nat : P!Roots(tree) \subseteq level[n] /\ level[n] \subseteq there
  <2> DEFINE ns == {n \in Nat : ~(P!Roots(tree) \subseteq level[n] /\ level[n] \subseteq there)}
  <2>1. ASSUME NEW n \in ns PROVE \E m \in ns : m < n
    <3>1. n \in Nat /\ ~(P!Roots(tree) \subseteq level[n] /\ level[n] \subseteq there)
      OBVIOUS
    <3>2. n # 0
      BY <1>3, <1>4, <3>1
    <3>3. level[n] = Below(tree, level[n - 1]) /\ n - 1 \in Nat /\ n - 1 < n
      BY <1>4, <3>1, <3>2
    <3>4. n - 1 \in ns
      <4> SUFFICES ASSUME P!Roots(tree) \subseteq level[n - 1], level[n - 1] \subseteq there PROVE FALSE
        BY <3>3
      <4>1. P!Roots(tree) \subseteq level[n] /\ level[n] \subseteq there
        BY <1>3, <3>3 DEF Below
      <4> QED BY <3>1, <4>1
    <3> QED BY <3>3, <3>4
  <2>2. ns = {}
    <3>1. ns \subseteq Nat
      OBVIOUS
    <3> HIDE DEF ns
    <3> QED BY <2>1, <3>1, NoLeast
  <2> QED BY <2>2
(* A comment is there by the level of the number of those before it.       *)
<1>6. ASSUME NEW c \in there, NEW p \in there, p < c
      PROVE  rank(c) \in Nat /\ rank(p) \in Nat /\ rank(p) < rank(c)
  <2>1. c \in Nat /\ p \in Nat
    BY <1>2
  <2>2. IsFiniteSet(before(c)) /\ IsFiniteSet(before(p)) /\ p \notin before(p)
        /\ before(p) \cup {p} \in SUBSET before(c)
    <3>1. before(c) \in SUBSET there /\ before(p) \in SUBSET there
      OBVIOUS
    <3>2. p \notin before(p)
      BY <2>1
    <3>3. before(p) \cup {p} \in SUBSET before(c)
      BY <1>2, <1>6
    <3> HIDE DEF before
    <3> QED BY <1>2, <3>1, <3>2, <3>3, FS_Subset
  <2> HIDE DEF before
  <2>3. Cardinality(before(p) \cup {p}) = Cardinality(before(p)) + 1
    BY <2>2, FS_AddElement
  <2>4. Cardinality(before(p) \cup {p}) <= Cardinality(before(c))
    BY <2>2, FS_Subset
  <2>5. Cardinality(before(p)) \in Nat /\ Cardinality(before(c)) \in Nat
    BY <2>2, FS_CardinalityType
  <2> QED BY <2>3, <2>4, <2>5
<1>7. ASSUME NEW c \in there PROVE rank(c) \in Nat /\ rank(c) <= all
  <2>1. before(c) \in SUBSET there
    OBVIOUS
  <2> HIDE DEF before
  <2>2. IsFiniteSet(before(c)) /\ Cardinality(before(c)) <= Cardinality(there)
    BY <1>2, <2>1, FS_Subset
  <2> QED BY <2>2, FS_CardinalityType
<1> HIDE DEF before, rank
<1>8. \A c \in there, n \in Nat : rank(c) <= n => c \in level[n]
  <2> DEFINE ns == {c \in there : \E n \in Nat : rank(c) <= n /\ c \notin level[n]}
  <2>1. ASSUME NEW c \in ns PROVE \E p \in ns : p < c
    <3>1. PICK n \in Nat : c \in there /\ rank(c) <= n /\ c \notin level[n]
      OBVIOUS
    <3> DEFINE p == tree[c].parent
    <3>2. p \in there
      BY <1>3, <1>5, <3>1
    <3>3. p < c
      BY <1>2, <3>1
    <3>4. rank(c) \in Nat /\ rank(p) \in Nat /\ rank(p) < rank(c)
      BY <1>6, <3>1, <3>2, <3>3
    <3>5. n # 0 /\ n - 1 \in Nat /\ rank(p) <= n - 1
      BY <3>1, <3>4
    <3>6. level[n] = Below(tree, level[n - 1])
      BY <1>4, <3>5
    <3>7. p \notin level[n - 1]
      BY <1>3, <3>1, <3>6 DEF Below
    <3> QED BY <3>2, <3>3, <3>5, <3>7
  <2>2. ns = {}
    <3>1. ns \subseteq Nat
      BY <1>2
    <3> HIDE DEF ns
    <3> QED BY <2>1, <3>1, NoLeast
  <2> QED BY <2>2
<1>9. there \subseteq level[all]
  BY <1>2, <1>7, <1>8
<1>10. level[all] = there
  BY <1>2, <1>5, <1>9
<1> QED BY <1>1, <1>2, <1>10 DEF there

LEMMA TreeDrawn ==
  ASSUME TopicInv
  PROVE  P!EveryCommentDrawn
BY AllDrawn DEF TopicInv, PageFine, ViewFine, P!EveryCommentDrawn, P!Items

-----------------------------------------------------------------------------
(***************************************************************************)
(* The scenes.  In each only its own part moves.                           *)
(***************************************************************************)
Scenes ==
  /\ scene = "topic" => TopicInv
  /\ scene = "news" => NewsInv
  /\ scene = "likes" => LikesInv

LEMMA ScenesBegin == SceneInit => Scenes
BY TopicBegin, NewsBegin, LikesBegin DEF SceneInit, Scenes

LEMMA ScenesMove ==
  ASSUME [SceneNext]_<<scene, topic, newsdesk, likes, vars>>
  PROVE  /\ scene' = scene
         /\ scene = "topic" => [P!Next]_topic
         /\ scene = "news" => [N!Next]_newsdesk
         /\ scene = "likes" => [L!Next]_likes
         /\ scene # "news" => newsdesk' = newsdesk
BY DEF SceneNext

LEMMA ScenesStep == Scenes /\ [SceneNext]_<<scene, topic, newsdesk, likes, vars>> => Scenes'
<1> SUFFICES ASSUME Scenes, [SceneNext]_<<scene, topic, newsdesk, likes, vars>> PROVE Scenes'
  OBVIOUS
<1>1. CASE scene = "topic"
  <2>1. TopicInv'
    BY <1>1, ScenesMove, TopicStep DEF Scenes
  <2> QED BY <1>1, <2>1, ScenesMove DEF Scenes
<1>2. CASE scene = "news"
  <2>1. NewsInv'
    BY <1>2, ScenesMove, NewsStep DEF Scenes
  <2> QED BY <1>2, <2>1, ScenesMove DEF Scenes
<1>3. CASE scene = "likes"
  <2>1. LikesInv'
    BY <1>3, ScenesMove, LikesStep DEF Scenes
  <2> QED BY <1>3, <2>1, ScenesMove DEF Scenes
<1>4. CASE scene \notin {"topic", "news", "likes"}
  BY <1>4, ScenesMove DEF Scenes
<1> QED BY <1>1, <1>2, <1>3, <1>4

(* The topic (app/community/[slug]/page.tsx), the desk of the news         *)
(* (app/admin/news/page.tsx) and the heart: while nobody else writes and   *)
(* each click waits for its answer, what the page has made of the answers  *)
(* by itself is what the service would tell it; news has a date of         *)
(* publication just while it is published; the heart shows the last tap.   *)
THEOREM PagesAreTrue == SceneSpec => []PagesTrue
<1>1. Scenes => PagesTrue
  BY TopicMeans, NewsMeans, LikesMeans DEF Scenes, PagesTrue
<1> QED BY <1>1, ScenesBegin, ScenesStep, PTL DEF SceneSpec

(* The topic: whatever the page has a button for, the service grants, and  *)
(* every comment the page has is drawn in the tree, though its parent be   *)
(* gone (commentTree of components/community/comment-thread.tsx).          *)
THEOREM ButtonsAndTree == SceneSpec => []OfferedIsAccepted
<1>1. Scenes => OfferedIsAccepted
  BY ButtonsGranted, TreeDrawn DEF Scenes, OfferedIsAccepted
<1> QED BY <1>1, ScenesBegin, ScenesStep, PTL DEF SceneSpec

(* The desk of the news: saving changes the entry taken into the form, and *)
(* a button the entry it stands beside, as long as the address the request *)
(* goes by has been no other's.                                            *)
THEOREM ActsOnEntries == SceneSpec => ActsOnItsEntry
<1>1. N!vars = newsdesk
  BY DEF N!vars, newsdesk
<1>2. Scenes /\ [SceneNext]_<<scene, topic, newsdesk, likes, vars>>
      => [\A e \in Bulletin, x \in Slot :
            news'[e] # news[e] /\ calls'[x] # calls[x] /\ calls[x].op # "create"
              /\ borne[calls[x].about[1]] = {calls[x].about[2]}
            => e = calls[x].about[2]]_(N!vars)
  <2> SUFFICES ASSUME Scenes, [SceneNext]_<<scene, topic, newsdesk, likes, vars>>,
                      N!vars' # N!vars,
                      NEW e \in Bulletin, NEW x \in Slot,
                      news'[e] # news[e], calls'[x] # calls[x], calls[x].op # "create",
                      borne[calls[x].about[1]] = {calls[x].about[2]}
               PROVE  e = calls[x].about[2]
    OBVIOUS
  <2>1. newsdesk' # newsdesk
    BY DEF N!vars, newsdesk
  <2>2. NewsInv /\ [N!Next]_newsdesk
    BY <2>1, ScenesMove DEF Scenes
  <2> QED BY <2>2, ActsOn
<1> QED BY <1>2, ScenesBegin, ScenesStep, PTL DEF SceneSpec, ActsOnItsEntry, N!ActsOnItsEntry

-----------------------------------------------------------------------------
(***************************************************************************)
(* The promotions.  Lines and sheets stay with the promotion they were     *)
(* read or chosen for.  What a promotion gets was in the form several      *)
(* steps before, and came into the form from a price list chosen earlier   *)
(* still: the invariant follows the lines through all the places they      *)
(* pass.                                                                   *)
(***************************************************************************)
(* A request makes a promotion, or changes one that is there.              *)
LEMMA CarryType ==
  ASSUME DeskAssumption, TypeOK, NEW s \in Saving, NEW p \in Promotion, Carry(s, p),
         s.step # "done"
  PROVE  /\ table' \in [Promotion -> {None} \cup Entry]
         /\ Made \cup {p} \subseteq Made'
         /\ maker' \in [Promotion -> Nat \cup {None}]
<1> USE DEF TypeOK, Made
<1>1. Blank \in Entry /\ None \notin Entry
  BY DEF Blank, Entry, DeskAssumption
<1>2. CASE s.step = "promotion" /\ s.promotion = None
  BY <1>1, <1>2 DEF Carry, Saving
<1>3. CASE s.step = "promotion" /\ s.promotion # None
  BY <1>3 DEF Carry, Alive
<1>4. ASSUME p \in Alive, NEW l \in Lines \cup {None}, table' = [table EXCEPT ![p].lines = l]
      PROVE  table' \in [Promotion -> {None} \cup Entry] /\ Made \cup {p} \subseteq Made'
  <2>1. [table[p] EXCEPT !.lines = l] \in Entry
    BY <1>4 DEF Alive, Entry
  <2> QED BY <1>1, <1>4, <2>1 DEF Alive
<1>5. ASSUME p \in Alive, NEW h \in Nat \cup {None}, table' = [table EXCEPT ![p].sheet = h]
      PROVE  table' \in [Promotion -> {None} \cup Entry] /\ Made \cup {p} \subseteq Made'
  <2>1. [table[p] EXCEPT !.sheet = h] \in Entry
    BY <1>5 DEF Alive, Entry
  <2> QED BY <1>1, <1>5, <2>1 DEF Alive
<1>6. CASE s.step = "lines"
  BY <1>4, <1>6 DEF Carry, Saving, SentLines
<1>7. CASE s.step = "sheet"
  <2>1. p \in Alive /\ table' = [table EXCEPT ![p].sheet = s.sheet] /\ maker' = maker
    BY <1>7 DEF Carry, SentSheet
  <2>2. s.sheet \in Nat \cup {None}
    BY DEF Saving
  <2> QED BY <1>5, <2>1, <2>2
<1> QED BY <1>2, <1>3, <1>6, <1>7 DEF Saving

(* A promotion that is removed or restored is still there.                 *)
LEMMA DeletedType ==
  ASSUME DeskAssumption, TypeOK, NEW p \in Made, NEW b \in BOOLEAN,
         table' = [table EXCEPT ![p].deleted = b]
  PROVE  table' \in [Promotion -> {None} \cup Entry] /\ Made \subseteq Made'
<1>1. table[p] \in Entry /\ [table[p] EXCEPT !.deleted = b] \in Entry
  BY DEF TypeOK, Made, Entry
<1> QED BY <1>1 DEF TypeOK, Made, DeskAssumption

(* The state keeps its type, for any promotions and bound.                 *)
THEOREM TypeCorrect ==
  ASSUME DeskAssumption
  PROVE  Spec => []TypeOK
<1>1. Init => TypeOK
  <2> SUFFICES ASSUME Init PROVE TypeOK
    OBVIOUS
  <2>1. table \in [Promotion -> {None} \cup Entry]
    <3>1. Blank \in Entry
      BY DEF Blank, Entry
    <3> QED BY <3>1 DEF Init
  <2> QED BY <2>1 DEF Init, TypeOK, DeskAssumption, Alive, Made
<1>2. TypeOK /\ [Next]_vars => TypeOK'
  <2> SUFFICES ASSUME TypeOK, [Next]_vars PROVE TypeOK'
    OBVIOUS
  <2> USE DEF TypeOK, Made
  <2>1. Moves \in Nat /\ None \notin Promotion /\ moves \in Nat
    BY DEF DeskAssumption
  <2>2. CASE ChooseFile
    BY <2>1, <2>2 DEF ChooseFile, Move, Lines, history
  <2>3. CASE Imported
    BY <2>3 DEF Imported, TakeImport, StatusOf, history
  <2>4. CASE ChooseSheet
    BY <2>1, <2>4 DEF ChooseSheet, Move, history
  <2>5. ASSUME NEW p \in Promotion, Edit(p) PROVE TypeOK'
    BY <2>1, <2>5 DEF Edit, Move, form, history
  <2>6. ASSUME NEW p \in gets, Opened(p) PROVE TypeOK'
    BY <2>6 DEF Opened, Fill, Alive, Entry, SheetOfEdit, TokenAnew, form
  <2>7. CASE Reset
    BY <2>1, <2>7 DEF Reset, Move, Fill, StatusOfReset
  <2>8. CASE Save
    <3>1. [id |-> moves, step |-> "promotion", promotion |-> editing, opening |-> opening,
           lines |-> lines, sheet |-> sheet] \in Saving
      BY <2>1 DEF Saving
    <3> QED BY <2>1, <2>8, <3>1 DEF Save, Move, form, history
  <2>9. ASSUME NEW s \in saves, Request(s) PROVE TypeOK'
    <3>1. s \in Saving
      OBVIOUS
    <3>2. CASE s \in saves /\ saves' = saves \ {s} /\ UNCHANGED <<table, maker>>
      BY <2>9, <3>2 DEF Request, form
    <3>3. ASSUME NEW p \in Promotion, Carry(s, p),
                 \/ saves' = (saves \ {s}) \cup {[s EXCEPT !.promotion = p, !.step = Following(s)]}
                 \/ saves' = saves \ {s}
          PROVE  TypeOK'
      <4>1. /\ table' \in [Promotion -> {None} \cup Entry] /\ Made \cup {p} \subseteq Made'
            /\ maker' \in [Promotion -> Nat \cup {None}]
        BY <2>9, <3>1, <3>3, CarryType DEF Request
      <4>2. [s EXCEPT !.promotion = p, !.step = Following(s)] \in Saving
        BY <3>1 DEF Saving, Following
      <4>3. saves' \subseteq Saving
        BY <3>3, <4>2
      <4>4. \A q \in saves : q.promotion \in Made \cup {None}
        OBVIOUS
      <4>5. \A q \in saves' : q \in saves \/ q.promotion = p
        <5>1. [s EXCEPT !.promotion = p, !.step = Following(s)].promotion = p
          BY <3>1 DEF Saving
        <5> QED BY <3>3, <5>1
      <4>6. \A q \in saves' : q.promotion \in Made' \cup {None}
        BY <4>1, <4>4, <4>5
      <4>7. UNCHANGED <<items, form, imports, gets, purpose, resets, moves>>
        BY <2>9 DEF Request
      <4> QED BY <4>1, <4>3, <4>6, <4>7 DEF form
    <3> QED BY <2>9, <3>1, <3>2, <3>3 DEF Request
  <2>10. ASSUME NEW s \in saves, Saved(s) PROVE TypeOK'
    BY <2>10 DEF Saved, Fill, Alive
  <2>11. ASSUME NEW p \in Promotion, Remove(p) PROVE TypeOK'
    <3>1. table' \in [Promotion -> {None} \cup Entry] /\ Made \subseteq Made'
      BY <2>11, DeletedType DEF Remove
    <3> QED BY <2>1, <2>11, <3>1 DEF Remove, Move, Alive, form, history
  <2>12. ASSUME NEW p \in Promotion, Restore(p) PROVE TypeOK'
    <3>1. table' \in [Promotion -> {None} \cup Entry] /\ Made \subseteq Made'
      BY <2>12, DeletedType DEF Restore
    <3> QED BY <2>1, <2>12, <3>1 DEF Restore, Move, Alive, form, history
  <2>13. CASE UNCHANGED vars
    BY <2>13 DEF vars, form, history
  <2> QED BY <2>2, <2>3, <2>4, <2>5, <2>6, <2>7, <2>8, <2>9, <2>10, <2>11, <2>12, <2>13 DEF Next
<1> QED BY <1>1, <1>2, PTL DEF Spec
-----------------------------------------------------------------------------
(* A form is known by its number; what it was opened for is on record.     *)
FormNumbered == <<opening, editing>> \in purpose

(* Only the price list chosen last, for the form as it is, is listened to. *)
Reading == \A i \in imports : i.token <= token /\ (i.token = token => i.opening = opening)

(* The lines on their way to a promotion were read for it; those on their  *)
(* way to a new one, in the form it is made from.                          *)
Sending ==
  \A s \in saves : s.lines # None =>
    \/ s.promotion # None /\ ReadFor(s.lines, s.promotion)
    \/ s.promotion = None /\ s.step = "promotion" /\ s.lines.opening = s.opening

(* Nothing but a new promotion is sent as a first request without one.     *)
Opening == \A s \in saves : s.promotion = None => s.step = "promotion"

LinesInv ==
  FormNumbered /\ Reading /\ Sending /\ Opening /\ LinesBelong /\ PromotionsKeepLines

(* The form is empty, and nothing was read.                                *)
LEMMA InitInv == Init => LinesInv
BY DEF Init, LinesInv, FormNumbered, Reading, Sending, Opening, LinesBelong, PromotionsKeepLines, Made,
       Blank

(* A form filled anew, with nothing or with the lines of its promotion.    *)
LEMMA FillInv ==
  ASSUME DeskAssumption, TypeOK, LinesInv, NEW p \in Made \cup {None}, Fill(p),
         lines' = (IF p = None THEN None ELSE table[p].lines), choices' = lines', token' = token + 1,
         saves' \subseteq saves, UNCHANGED <<table, imports, maker>>
  PROVE  LinesInv'
<1> USE DEF LinesInv
<1>1. \A l, q : ReadFor(l, q) => ReadFor(l, q)'
  BY DEF ReadFor, Fill
<1>2. FormNumbered'
  BY DEF FormNumbered, Fill
<1>3. Reading'
  BY DEF Reading, TypeOK, Lines
<1>4. Sending' /\ Opening'
  BY <1>1 DEF Sending, Opening
<1>5. LinesBelong'
  <2>1. lines' # None => p # None /\ p \in Made /\ lines' = table[p].lines /\ editing' = p
    BY DEF Fill
  <2>2. lines' # None => ReadFor(lines, editing)'
    BY <1>1, <2>1 DEF PromotionsKeepLines
  <2> QED BY <2>1, <2>2 DEF LinesBelong
<1>6. PromotionsKeepLines'
  BY <1>1 DEF PromotionsKeepLines, Made
<1> QED BY <1>2, <1>3, <1>4, <1>5, <1>6

(* What is saved is what the form shows, for the promotion it shows.       *)
LEMMA SaveInv ==
  ASSUME DeskAssumption, TypeOK, LinesInv, Save
  PROVE  LinesInv'
<1> USE DEF LinesInv
<1>1. UNCHANGED <<table, form, imports, history>>
  BY DEF Save
<1>2. UNCHANGED <<opening, editing, token, lines, choices, purpose, maker>>
  BY <1>1 DEF form, history
<1>3. lines # None =>
        \/ editing # None /\ ReadFor(lines, editing)
        \/ editing = None /\ lines.opening = opening
  BY DEF LinesBelong, FormNumbered, ReadFor
<1>4. \A s \in saves' : s \in saves \/
        s = [id |-> moves, step |-> "promotion", promotion |-> editing, opening |-> opening,
             lines |-> lines, sheet |-> sheet]
  BY DEF Save
<1>5. Sending' /\ Opening'
  BY <1>2, <1>3, <1>4 DEF Sending, Opening, ReadFor
<1>6. FormNumbered' /\ Reading' /\ LinesBelong' /\ PromotionsKeepLines'
  BY <1>1, <1>2 DEF FormNumbered, Reading, LinesBelong, PromotionsKeepLines, ReadFor, Made
<1> QED BY <1>5, <1>6

(* A request carries the lines it set out with.                            *)
LEMMA RequestInv ==
  ASSUME DeskAssumption, TypeOK, LinesInv, NEW s \in saves, Request(s)
  PROVE  LinesInv'
<1> USE DEF LinesInv
<1>1. UNCHANGED <<imports, opening, editing, token, lines, choices, purpose>>
  BY DEF Request, form
<1>2. s \in Saving /\ s.step # "done"
  BY DEF TypeOK, Request
<1>3. FormNumbered' /\ Reading'
  BY <1>1 DEF FormNumbered, Reading
<1>4. CASE saves' = saves \ {s} /\ UNCHANGED <<table, maker>>
  BY <1>1, <1>3, <1>4
     DEF Sending, Opening, LinesBelong, PromotionsKeepLines, ReadFor, Made
<1>5. ASSUME NEW p \in Promotion, Carry(s, p),
             \/ saves' = (saves \ {s}) \cup {[s EXCEPT !.promotion = p, !.step = Following(s)]}
             \/ saves' = saves \ {s}
      PROVE  LinesInv'
  <2> USE <1>5
  <2>1. \A l : \A q \in Made : ReadFor(l, q) => ReadFor(l, q)'
    <3>1. \A q \in Made : maker'[q] = maker[q]
      <4>1. CASE UNCHANGED maker
        BY <4>1
      <4>2. CASE p \notin Made /\ maker' = [maker EXCEPT ![p] = s.opening]
        BY <4>2 DEF TypeOK, Made
      <4> QED BY <1>2, <4>1, <4>2 DEF Carry, Saving
    <3> QED BY <1>1, <3>1 DEF ReadFor
  <2>2. p # None /\ (s.lines # None => ReadFor(s.lines, p)')
    <3>1. CASE s.promotion = None
      <4>1. s.step = "promotion" /\ maker' = [maker EXCEPT ![p] = s.opening]
        BY <3>1 DEF Opening, Carry
      <4>2. maker'[p] = s.opening
        BY <4>1 DEF TypeOK
      <4> QED BY <3>1, <4>2 DEF Sending, ReadFor, DeskAssumption
    <3>2. CASE s.promotion # None
      <4>1. p = s.promotion /\ p \in Made
        BY <1>2, <3>2 DEF Carry, Saving, Alive
      <4> QED BY <2>1, <3>2, <4>1 DEF Sending
    <3> QED BY <3>1, <3>2
  <2>3. LinesBelong'
    BY <1>1, <2>1 DEF LinesBelong, TypeOK
  <2>4. \A q \in saves' :
          \/ q \in saves
          \/ q.promotion = p /\ q.lines = s.lines
    <3>1. /\ [s EXCEPT !.promotion = p, !.step = Following(s)].promotion = p
          /\ [s EXCEPT !.promotion = p, !.step = Following(s)].lines = s.lines
      BY <1>2 DEF Saving
    <3> QED BY <3>1
  <2>5. Sending' /\ Opening'
    BY <2>1, <2>2, <2>4 DEF Sending, Opening, TypeOK
  <2>6. PromotionsKeepLines'
    <3>1. CASE s.step = "promotion" /\ s.promotion = None
      <4>1. \A q \in Promotion : table'[q] = (IF q = p THEN Blank ELSE table[q])
        BY <3>1 DEF Carry, TypeOK
      <4> QED BY <2>1, <4>1 DEF PromotionsKeepLines, Made, Blank
    <3>2. CASE UNCHANGED table
      BY <2>1, <3>2 DEF PromotionsKeepLines, Made
    <3>3. CASE s.step = "lines"
      <4>1. p \in Made /\ table[p] \in Entry /\ table' = [table EXCEPT ![p].lines = s.lines]
        BY <3>3 DEF Carry, Alive, Made, TypeOK, SentLines
      <4>2. \A q \in Promotion : table'[q] = (IF q = p THEN [table[p] EXCEPT !.lines = s.lines] ELSE table[q])
        BY <4>1 DEF TypeOK
      <4>3. [table[p] EXCEPT !.lines = s.lines].lines = s.lines
        BY <4>1 DEF Entry
      <4> QED BY <2>1, <2>2, <4>1, <4>2, <4>3 DEF PromotionsKeepLines, Made
    <3>4. CASE s.step = "sheet"
      <4>1. p \in Made /\ table[p] \in Entry /\ table' = [table EXCEPT ![p].sheet = s.sheet]
        BY <3>4 DEF Carry, Alive, Made, TypeOK, SentSheet
      <4>2. \A q \in Promotion : table'[q] = (IF q = p THEN [table[p] EXCEPT !.sheet = s.sheet] ELSE table[q])
        BY <4>1 DEF TypeOK
      <4>3. [table[p] EXCEPT !.sheet = s.sheet].lines = table[p].lines
        BY <4>1 DEF Entry
      <4> QED BY <2>1, <4>1, <4>2, <4>3 DEF PromotionsKeepLines, Made
    <3> QED BY <1>2, <3>1, <3>2, <3>3, <3>4 DEF Carry, Saving
  <2> QED BY <1>3, <2>3, <2>5, <2>6
<1> QED BY <1>4, <1>5 DEF Request

(* Every step keeps lines with their promotion.                            *)
LEMMA StepInv ==
  ASSUME DeskAssumption
  PROVE  TypeOK /\ LinesInv /\ [Next]_vars => LinesInv'
<1> SUFFICES ASSUME TypeOK, LinesInv, [Next]_vars PROVE LinesInv'
  OBVIOUS
<1>1. ASSUME UNCHANGED <<table, opening, editing, lines, choices, token, imports, saves, purpose, maker>>
      PROVE  LinesInv'
  BY <1>1 DEF LinesInv, FormNumbered, Reading, Sending, Opening, LinesBelong, PromotionsKeepLines, ReadFor,
              Made
<1>2. CASE ChooseFile
  <2>1. UNCHANGED <<table, opening, editing, lines, choices, saves, purpose, maker>>
    BY <1>2 DEF ChooseFile, history
  <2>2. Reading'
    BY <1>2, <2>1 DEF ChooseFile, LinesInv, Reading, TypeOK, Lines
  <2> QED BY <2>1, <2>2
     DEF LinesInv, FormNumbered, Sending, Opening, LinesBelong, PromotionsKeepLines, ReadFor, Made
<1>3. CASE Imported
  <2>1. UNCHANGED <<table, opening, editing, token, saves, purpose, maker>> /\ imports' \subseteq imports
    BY <1>3 DEF Imported, history
  <2>2. \/ lines' = None
        \/ UNCHANGED <<lines, choices>>
        \/ lines'.opening = opening /\ choices' = lines'
    BY <1>3 DEF Imported, TakeImport, LinesInv, Reading
  <2>3. LinesBelong'
    BY <2>1, <2>2 DEF LinesInv, LinesBelong, ReadFor
  <2> QED BY <2>1, <2>3
     DEF LinesInv, FormNumbered, Reading, Sending, Opening, PromotionsKeepLines, ReadFor, Made
<1>4. ASSUME NEW p \in gets, Opened(p) PROVE LinesInv'
  <2>1. CASE Fill(p)
    <3>1. p \in Made /\ p # None /\ (p \in Alive => TRUE)
      BY DEF TypeOK, Made, DeskAssumption
    <3>2. CASE p \in Alive /\ lines' = table[p].lines /\ choices' = table[p].lines /\ token' = token + 1
      BY <1>4, <2>1, <3>1, <3>2, FillInv DEF Opened
    <3>3. CASE UNCHANGED <<form, purpose>>
      BY <1>1, <1>4, <3>3 DEF Opened, form
    <3> QED BY <1>4, <3>2, <3>3 DEF Opened, TokenAnew
  <2>2. CASE UNCHANGED <<form, purpose>>
    BY <1>1, <1>4, <2>2 DEF Opened, form
  <2> QED BY <1>4, <2>1, <2>2 DEF Opened
<1>5. CASE Reset
  BY <1>5, FillInv DEF Reset
<1>6. CASE Save
  BY <1>6, SaveInv
<1>7. ASSUME NEW s \in saves, Request(s) PROVE LinesInv'
  BY <1>7, RequestInv
<1>8. ASSUME NEW s \in saves, Saved(s) PROVE LinesInv'
  BY <1>8, FillInv DEF Saved
<1>9. ASSUME NEW p \in Made, NEW b \in BOOLEAN, table' = [table EXCEPT ![p].deleted = b],
             UNCHANGED <<form, imports, saves, history>>
      PROVE  LinesInv'
  <2>1. table[p] \in Entry /\ [table[p] EXCEPT !.deleted = b].lines = table[p].lines
    BY DEF TypeOK, Made, Entry
  <2>2. \A q \in Promotion : table'[q] = (IF q = p THEN [table[p] EXCEPT !.deleted = b] ELSE table[q])
    BY <1>9 DEF TypeOK
  <2>3. PromotionsKeepLines'
    BY <1>9, <2>1, <2>2 DEF LinesInv, PromotionsKeepLines, Made, ReadFor, history
  <2> QED BY <1>9, <2>3
     DEF LinesInv, FormNumbered, Reading, Sending, Opening, LinesBelong, ReadFor, form, history
<1>10. ASSUME NEW p \in Promotion, Remove(p) \/ Restore(p) PROVE LinesInv'
  BY <1>9, <1>10 DEF Remove, Restore, Alive
<1> QED BY <1>1, <1>2, <1>3, <1>4, <1>5, <1>6, <1>7, <1>8, <1>10
        DEF Next, ChooseSheet, Edit, vars, form, history

(* It holds in every state of the page.                                    *)
LEMMA AlwaysInv ==
  ASSUME DeskAssumption
  PROVE  Spec => []LinesInv
<1>1. Spec => []TypeOK
  BY TypeCorrect
<1> QED BY <1>1, InitInv, StepInv, PTL DEF Spec

(* However late a price list is read or a promotion is fetched, the form   *)
(* shows the lines of its own promotion, with the stones chosen for them.  *)
THEOREM FormShowsItsLines ==
  ASSUME DeskAssumption
  PROVE  Spec => []LinesBelong
<1>1. LinesInv => LinesBelong
  BY DEF LinesInv
<1> QED BY <1>1, AlwaysInv, PTL

(* However many savings overlap, fail half way and are tried again, what a *)
(* promotion gets was read for it.                                         *)
THEOREM SavedLinesBelong ==
  ASSUME DeskAssumption
  PROVE  Spec => []PromotionsKeepLines
<1>1. LinesInv => PromotionsKeepLines
  BY DEF LinesInv
<1> QED BY <1>1, AlwaysInv, PTL

(* The same of the sheets: what a save under way will send.                *)
SheetsSent ==
  \A s \in saves : s.sheet # None =>
    IF s.promotion = None
    THEN s.sheet = s.opening \/ (s.sheet \in resets /\ s.opening = s.sheet + 1)
    ELSE ChosenFor(s.sheet, s.promotion)

SheetsInv == SheetsOfForm /\ SheetsSent /\ PromotionsKeepSheets

(* The form is emptied, or filled, or a sheet is chosen in it.             *)
LEMMA FormSheets ==
  ASSUME TypeOK, LinesInv, SheetsInv,
         purpose \subseteq purpose', resets \subseteq resets', maker' = maker, saves' \subseteq saves,
         UNCHANGED table,
         \/ sheet' = None
         \/ sheet' = opening'
         \/ sheet' = sheet /\ opening' = opening /\ editing' = editing
         \/ /\ sheet' = sheet /\ opening' = opening + 1 /\ editing' = None
            /\ editing # None /\ resets' = resets \cup {opening}
  PROVE  SheetsInv'
<1>1. \A n, p : ChosenFor(n, p) => ChosenFor(n, p)'
  BY DEF ChosenFor
<1>2. SheetsSent'
  BY <1>1 DEF SheetsInv, SheetsSent
<1>3. PromotionsKeepSheets'
  BY <1>1 DEF SheetsInv, PromotionsKeepSheets, Made
<1>4. SheetsOfForm'
  BY DEF SheetsInv, SheetsOfForm
<1> QED BY <1>2, <1>3, <1>4 DEF SheetsInv

(* A save takes the sheet of the form along.                               *)
LEMMA SaveSheets ==
  ASSUME TypeOK, LinesInv, SheetsInv, Save
  PROVE  SheetsInv'
<1>1. UNCHANGED <<table, sheet, opening, editing, purpose, maker, resets>>
  BY DEF Save, form, history
<1>2. sheet # None =>
        IF editing = None THEN sheet = opening \/ (sheet \in resets /\ opening = sheet + 1)
        ELSE ChosenFor(sheet, editing)
  BY DEF SheetsInv, SheetsOfForm, ChosenFor, LinesInv, FormNumbered
<1>3. \A s \in saves' : s \in saves \/
        s = [id |-> moves, step |-> "promotion", promotion |-> editing, opening |-> opening,
             lines |-> lines, sheet |-> sheet]
  BY DEF Save
<1>4. SheetsSent'
  BY <1>1, <1>2, <1>3 DEF SheetsInv, SheetsSent, ChosenFor
<1> QED BY <1>1, <1>4 DEF SheetsInv, SheetsOfForm, PromotionsKeepSheets, ChosenFor, Made

(* A request carries the sheet it set out with.                            *)
LEMMA RequestSheets ==
  ASSUME DeskAssumption, TypeOK, LinesInv, SheetsInv, NEW s \in saves, Request(s)
  PROVE  SheetsInv'
<1> USE DEF SheetsInv
<1>1. UNCHANGED <<opening, editing, sheet, purpose, resets>>
  BY DEF Request, form
<1>2. s \in Saving /\ s.step # "done"
  BY DEF TypeOK, Request
<1>3. SheetsOfForm'
  BY <1>1 DEF SheetsOfForm
<1>4. CASE saves' = saves \ {s} /\ UNCHANGED <<table, maker>>
  BY <1>1, <1>3, <1>4 DEF SheetsSent, PromotionsKeepSheets, ChosenFor, Made
<1>5. ASSUME NEW p \in Promotion, Carry(s, p),
             \/ saves' = (saves \ {s}) \cup {[s EXCEPT !.promotion = p, !.step = Following(s)]}
             \/ saves' = saves \ {s}
      PROVE  SheetsInv'
  <2> USE <1>5
  <2>1. \A n : \A q \in Made : ChosenFor(n, q) => ChosenFor(n, q)'
    <3>1. \A q \in Made : maker'[q] = maker[q]
      <4>1. CASE UNCHANGED maker
        BY <4>1
      <4>2. CASE p \notin Made /\ maker' = [maker EXCEPT ![p] = s.opening]
        BY <4>2 DEF TypeOK, Made
      <4> QED BY <1>2, <4>1, <4>2 DEF Carry, Saving
    <3> QED BY <1>1, <3>1 DEF ChosenFor
  <2>2. p # None /\ (s.sheet # None => ChosenFor(s.sheet, p)')
    <3>1. CASE s.promotion = None
      <4>1. s.step = "promotion" /\ maker' = [maker EXCEPT ![p] = s.opening]
        BY <3>1 DEF LinesInv, Opening, Carry
      <4>2. maker'[p] = s.opening
        BY <4>1 DEF TypeOK
      <4> QED BY <1>1, <3>1, <4>2 DEF SheetsSent, ChosenFor, DeskAssumption
    <3>2. CASE s.promotion # None
      <4>1. p = s.promotion /\ p \in Made
        BY <1>2, <3>2 DEF Carry, Saving, Alive
      <4> QED BY <2>1, <3>2, <4>1 DEF SheetsSent
    <3> QED BY <3>1, <3>2
  <2>3. \A q \in saves' :
          \/ q \in saves
          \/ q.promotion = p /\ q.sheet = s.sheet
    <3>1. /\ [s EXCEPT !.promotion = p, !.step = Following(s)].promotion = p
          /\ [s EXCEPT !.promotion = p, !.step = Following(s)].sheet = s.sheet
      BY <1>2 DEF Saving
    <3> QED BY <3>1
  <2>4. SheetsSent'
    BY <1>1, <2>1, <2>2, <2>3 DEF SheetsSent, TypeOK
  <2>5. PromotionsKeepSheets'
    <3>1. CASE s.step = "promotion" /\ s.promotion = None
      <4>1. \A q \in Promotion : table'[q] = (IF q = p THEN Blank ELSE table[q])
        BY <3>1 DEF Carry, TypeOK
      <4> QED BY <2>1, <4>1 DEF PromotionsKeepSheets, Made, Blank
    <3>2. CASE UNCHANGED table
      BY <2>1, <3>2 DEF PromotionsKeepSheets, Made
    <3>3. CASE s.step = "lines"
      <4>1. p \in Made /\ table[p] \in Entry /\ table' = [table EXCEPT ![p].lines = s.lines]
        BY <3>3 DEF Carry, Alive, Made, TypeOK, SentLines
      <4>2. \A q \in Promotion : table'[q] = (IF q = p THEN [table[p] EXCEPT !.lines = s.lines] ELSE table[q])
        BY <4>1 DEF TypeOK
      <4>3. [table[p] EXCEPT !.lines = s.lines].sheet = table[p].sheet
        BY <4>1 DEF Entry
      <4> QED BY <2>1, <4>1, <4>2, <4>3 DEF PromotionsKeepSheets, Made
    <3>4. CASE s.step = "sheet"
      <4>1. p \in Made /\ table[p] \in Entry /\ table' = [table EXCEPT ![p].sheet = s.sheet]
        BY <3>4 DEF Carry, Alive, Made, TypeOK, SentSheet
      <4>2. \A q \in Promotion : table'[q] = (IF q = p THEN [table[p] EXCEPT !.sheet = s.sheet] ELSE table[q])
        BY <4>1 DEF TypeOK
      <4>3. [table[p] EXCEPT !.sheet = s.sheet].sheet = s.sheet
        BY <4>1 DEF Entry
      <4> QED BY <2>1, <2>2, <4>1, <4>2, <4>3 DEF PromotionsKeepSheets, Made
    <3> QED BY <1>2, <3>1, <3>2, <3>3, <3>4 DEF Carry, Saving
  <2> QED BY <1>3, <2>4, <2>5
<1> QED BY <1>4, <1>5 DEF Request

(* Every step keeps sheets with their promotion, but for a reset.          *)
LEMMA StepSheets ==
  ASSUME DeskAssumption
  PROVE  TypeOK /\ LinesInv /\ SheetsInv /\ [Next]_vars => SheetsInv'
<1> SUFFICES ASSUME TypeOK, LinesInv, SheetsInv, [Next]_vars PROVE SheetsInv'
  OBVIOUS
<1>1. ASSUME UNCHANGED <<table, opening, editing, sheet, saves, purpose, maker, resets>>
      PROVE  SheetsInv'
  BY <1>1 DEF SheetsInv, SheetsOfForm, SheetsSent, PromotionsKeepSheets, ChosenFor, Made
<1>2. CASE ChooseFile \/ Imported
  <2>1. UNCHANGED <<table, opening, editing, sheet, saves, purpose, maker, resets>>
    BY <1>2 DEF ChooseFile, Imported, history
  <2> QED BY <1>1, <2>1
<1>3. CASE ChooseSheet
  BY <1>3, FormSheets DEF ChooseSheet, history
<1>4. ASSUME NEW p \in gets, Opened(p) PROVE SheetsInv'
  <2>1. CASE UNCHANGED <<form, purpose>>
    BY <1>1, <1>4, <2>1 DEF Opened, form
  <2>2. CASE Fill(p) /\ sheet' = None
    BY <1>4, <2>2, FormSheets DEF Opened, Fill
  <2> QED BY <1>4, <2>1, <2>2 DEF Opened, SheetOfEdit
<1>5. CASE Reset
  BY <1>5, FormSheets DEF Reset, Fill
<1>6. CASE Save
  BY <1>6, SaveSheets
<1>7. ASSUME NEW s \in saves, Request(s) PROVE SheetsInv'
  BY <1>7, RequestSheets
<1>8. ASSUME NEW s \in saves, Saved(s) PROVE SheetsInv'
  BY <1>8, FormSheets DEF Saved, Fill
<1>9. ASSUME NEW p \in Made, NEW b \in BOOLEAN, table' = [table EXCEPT ![p].deleted = b],
             UNCHANGED <<form, saves, history>>
      PROVE  SheetsInv'
  <2>1. table[p] \in Entry /\ [table[p] EXCEPT !.deleted = b].sheet = table[p].sheet
    BY DEF TypeOK, Made, Entry
  <2>2. \A q \in Promotion : table'[q] = (IF q = p THEN [table[p] EXCEPT !.deleted = b] ELSE table[q])
    BY <1>9 DEF TypeOK
  <2>3. PromotionsKeepSheets'
    BY <1>9, <2>1, <2>2 DEF SheetsInv, PromotionsKeepSheets, Made, ChosenFor, history
  <2> QED BY <1>9, <2>3 DEF SheetsInv, SheetsOfForm, SheetsSent, ChosenFor, form, history
<1>10. ASSUME NEW p \in Promotion, Remove(p) \/ Restore(p) PROVE SheetsInv'
  BY <1>9, <1>10 DEF Remove, Restore, Alive
<1>11. ASSUME NEW p \in Promotion, Edit(p) PROVE SheetsInv'
  BY <1>1, <1>11 DEF Edit, form, history
<1>12. CASE UNCHANGED vars
  BY <1>1, <1>12 DEF vars, form, history
<1> QED BY <1>2, <1>3, <1>4, <1>5, <1>6, <1>7, <1>8, <1>10, <1>11, <1>12 DEF Next

(* A sheet in the form was chosen in it, or in the one whose reset led to  *)
(* it; and a promotion has a sheet that was chosen for it, or, when it was *)
(* made after a reset, in the form that was reset.                         *)
THEOREM SheetsStay ==
  ASSUME DeskAssumption
  PROVE  Spec => [](SheetsOfForm /\ PromotionsKeepSheets)
<1>1. Init => SheetsInv
  BY DEF Init, SheetsInv, SheetsOfForm, SheetsSent, PromotionsKeepSheets, Made, Blank
<1>2. Spec => []TypeOK
  BY TypeCorrect
<1>3. SheetsInv => SheetsOfForm /\ PromotionsKeepSheets
  BY DEF SheetsInv
<1> QED BY <1>1, <1>2, <1>3, AlwaysInv, StepSheets, PTL DEF Spec

(* All of it together: lines go to the promotion they were read for, and   *)
(* so do sheets, but for those a reset leaves to the next new promotion.   *)
THEOREM LinesAndSheetsStay ==
  ASSUME DeskAssumption
  PROVE  Spec => []LinesAndSheets
<1>1. LinesBelong /\ PromotionsKeepLines /\ SheetsOfForm /\ PromotionsKeepSheets => LinesAndSheets
  BY DEF LinesAndSheets
<1> QED BY <1>1, FormShowsItsLines, SavedLinesBelong, SheetsStay, PTL
====
