--------------------------- MODULE ContactProofs ---------------------------
(***************************************************************************)
(* Proofs about the contact endpoint, its limiter and its provider.        *)
(***************************************************************************)
EXTENDS Contact, FiniteSetTheorems, TLAPS

\* The larger of two numbers.
LEMMA MaxOfTwo ==
  ASSUME NEW a \in Int, NEW b \in Int
  PROVE  Max({a, b}) \in Int /\ Max({a, b}) >= a /\ Max({a, b}) >= b
<1>1. \E x \in {a, b} : \A y \in {a, b} : x >= y
  BY DEF Max
<1>2. QED
  BY <1>1 DEF Max

\* A set of natural numbers that is not empty has a least element.
LEMMA MinOfNats ==
  ASSUME NEW S \in SUBSET Nat, S # {}
  PROVE  Min(S) \in S /\ \A y \in S : Min(S) <= y
<1> DEFINE Segments == {0 .. x : x \in S}
           Order == StrictSubsetOrdering(Nat)
<1>1. Segments \subseteq FiniteSubsetsOf(Nat) /\ Segments # {}
  <2>1. ASSUME NEW x \in S PROVE 0 .. x \in SUBSET Nat /\ IsFiniteSet(0 .. x)
    <3>1. x \in Int /\ 0 \in Int
      OBVIOUS
    <3>2. QED
      BY <3>1, FS_Interval
  <2>2. QED
    BY <2>1 DEF FiniteSubsetsOf
<1>2. PICK least \in Segments : \A other \in Segments : ~ (<<other, least>> \in Order)
  <2>1. IsWellFoundedOn(Order, FiniteSubsetsOf(Nat))
    BY FS_StrictSubsetOrderingWellFounded
  <2>2. QED
    BY <1>1, <2>1, WFMin
<1>3. PICK x \in S : least = 0 .. x
  OBVIOUS
<1>4. ASSUME NEW y \in S PROVE x <= y
  <2>1. CASE y < x
    <3>1. 0 .. y \in SUBSET Nat /\ 0 .. x \in SUBSET Nat
      OBVIOUS
    <3>2. 0 .. y \subseteq 0 .. x /\ 0 .. y # 0 .. x
      <4>1. x \in 0 .. x /\ x \notin 0 .. y
        BY <2>1
      <4>2. QED
        BY <2>1, <4>1
    <3>3. QED
      BY <1>2, <1>3, <3>1, <3>2 DEF StrictSubsetOrdering
  <2>2. QED
    BY <2>1
<1>5. QED
  BY <1>4 DEF Min

\* Rounded up, the quotient covers the dividend.
LEMMA CeilDivCovers ==
  ASSUME NEW n \in Int, NEW d \in Nat \ {0}
  PROVE  CeilDiv(n, d) \in Int /\ d * CeilDiv(n, d) >= n
BY DEF CeilDiv
-----------------------------------------------------------------------------
(***************************************************************************)
(* The limiter.  What it stores and what it allowed agree wherever it      *)
(* matters, inside the window; two hits of one instant have different      *)
(* numbers; and at the instant a denial names, and later, fewer than       *)
(* MaxHits of the stored hits are recent.                                  *)
(***************************************************************************)
HitsAreNumbered ==
  \A k \in Client : \A h \in hits[k] :
    h.at <= now /\ (h.at = now => h.nth < Cardinality(AtNow(hits[k])))

StoredIsGranted == \A k \in Client : Recent(hits[k]) = InWindow(granted[k])

After(S, instant) == {h \in S : h.at > instant}

RetryIsKept ==
  \A k \in Client : retryAt[k] # -1 =>
    \E oldest \in 0 .. Horizon :
      /\ retryAt[k] >= oldest + WindowMs
      /\ Cardinality(After(hits[k], oldest)) < MaxHits

LimiterInv ==
  /\ TypeOK
  /\ HitsAreNumbered
  /\ StoredIsGranted
  /\ AtMostMaxHitsPerWindow
  /\ RetryIsKept

\* The two ways to say "within the window" agree.
LEMMA WindowIsRecent ==
  ASSUME now \in Int, NEW S, \A h \in S : h.at \in Int
  PROVE  Recent(S) = InWindow(S)
BY LimiterAssumption DEF Recent, InWindow

\* Pruning keeps what is stored now, and pruning twice is pruning once.
LEMMA RecentFacts ==
  ASSUME now \in Int, NEW S, \A h \in S : h.at \in Int
  PROVE  /\ Recent(S) \subseteq S
         /\ Recent(Recent(S)) = Recent(S)
         /\ AtNow(Recent(S)) = AtNow(S)
BY LimiterAssumption DEF Recent, AtNow

\* A push adds one hit, and its number is new.
LEMMA PushAddsOne ==
  ASSUME now \in 0 .. Horizon, NEW S \in SUBSET Hit, IsFiniteSet(S),
         \A h \in S : h.at <= now /\ (h.at = now => h.nth < Cardinality(AtNow(S)))
  PROVE  /\ Push(S) \in SUBSET Hit /\ IsFiniteSet(Push(S)) /\ Push(S) # {}
         /\ Cardinality(Push(S)) = Cardinality(S) + 1
         /\ NewHit(S).at = now /\ NewHit(S) \notin S
         /\ \A h \in Push(S) :
              h.at <= now /\ (h.at = now => h.nth < Cardinality(AtNow(Push(S))))
         /\ Recent(Push(S)) = Push(Recent(S))
<1>1. IsFiniteSet(AtNow(S)) /\ Cardinality(AtNow(S)) \in Nat
  BY FS_Subset, FS_CardinalityType DEF AtNow
<1>2. NewHit(S) \in Hit /\ NewHit(S).at = now /\ NewHit(S).nth = Cardinality(AtNow(S))
  BY <1>1 DEF NewHit, Hit
<1>3. NewHit(S) \notin S
  BY <1>1, <1>2
<1>4. Push(S) \in SUBSET Hit /\ Push(S) # {}
  BY <1>2 DEF Push
<1>5. IsFiniteSet(Push(S)) /\ Cardinality(Push(S)) = Cardinality(S) + 1
  BY <1>3, FS_AddElement DEF Push
<1>6. Cardinality(AtNow(Push(S))) = Cardinality(AtNow(S)) + 1
  <2>1. AtNow(Push(S)) = AtNow(S) \cup {NewHit(S)}
    BY <1>2 DEF AtNow, Push
  <2>2. NewHit(S) \notin AtNow(S)
    BY <1>3 DEF AtNow
  <2>3. QED
    BY <1>1, <2>1, <2>2, FS_AddElement
<1>7. ASSUME NEW h \in Push(S)
      PROVE  h.at <= now /\ (h.at = now => h.nth < Cardinality(AtNow(Push(S))))
  <2>1. CASE h \in S
    <3>1. h.nth \in Nat
      BY <2>1 DEF Hit
    <3>2. QED
      BY <2>1, <3>1, <1>1, <1>6
  <2>2. CASE h = NewHit(S)
    BY <2>2, <1>1, <1>2, <1>6
  <2>3. QED
    BY <2>1, <2>2 DEF Push
<1>8. Recent(Push(S)) = Push(Recent(S))
  <2>1. NewHit(Recent(S)) = NewHit(S)
    <3>1. \A h \in S : h.at \in Int
      BY DEF Hit
    <3>2. AtNow(Recent(S)) = AtNow(S)
      BY <3>1, RecentFacts
    <3>3. QED
      BY <3>2 DEF NewHit
  <2>2. Recent(Push(S)) = Recent(S) \cup {NewHit(S)}
    BY <1>2, LimiterAssumption DEF Recent, Push
  <2>3. QED
    BY <2>1, <2>2 DEF Push
<1>9. QED
  BY <1>2, <1>3, <1>4, <1>5, <1>7, <1>8

\* Types of one key, unfolded.
LEMMA KeyTypes ==
  ASSUME TypeOK, NEW k \in Client
  PROVE  /\ now \in Int
         /\ hits[k] \in SUBSET Hit /\ IsFiniteSet(hits[k]) /\ \A h \in hits[k] : h.at \in Int
         /\ granted[k] \in SUBSET Hit /\ IsFiniteSet(granted[k])
         /\ \A h \in granted[k] : h.at \in Int
         /\ Recent(hits[k]) \in SUBSET Hit /\ IsFiniteSet(Recent(hits[k]))
         /\ Cardinality(Recent(hits[k])) \in Nat
<1>1. now \in Int /\ hits[k] \in SUBSET Hit /\ IsFiniteSet(hits[k])
      /\ granted[k] \in SUBSET Hit /\ IsFiniteSet(granted[k])
  BY DEF TypeOK
<1>2. (\A h \in hits[k] : h.at \in Int) /\ (\A h \in granted[k] : h.at \in Int)
  BY <1>1 DEF Hit
<1>3. Recent(hits[k]) \in SUBSET hits[k]
  BY DEF Recent
<1>4. IsFiniteSet(Recent(hits[k]))
  BY <1>1, <1>3, FS_Subset
<1>5. QED
  BY <1>1, <1>2, <1>3, <1>4, FS_CardinalityType

\* A list has one first key.
LEMMA ListHasFirst ==
  ASSUME NEW before, NEW keys \in SUBSET Client, IsFiniteSet(keys), keys # {},
         IsList(before, keys)
  PROVE  \E v \in keys : {u \in keys : before[u] = {}} = {v}
<1> DEFINE Prefixes == {before[u] : u \in keys}
           Order == StrictSubsetOrdering(Client)
<1>1. \A u \in keys : before[u] \in SUBSET keys
  BY DEF IsList
<1>2. Prefixes \subseteq FiniteSubsetsOf(Client) /\ Prefixes # {}
  <2>1. \A u \in keys : IsFiniteSet(before[u])
    BY <1>1, FS_Subset
  <2>2. QED
    BY <1>1, <2>1 DEF FiniteSubsetsOf
<1>3. PICK least \in Prefixes : \A other \in Prefixes : ~ (<<other, least>> \in Order)
  <2>1. IsWellFoundedOn(Order, FiniteSubsetsOf(Client))
    BY FS_StrictSubsetOrderingWellFounded
  <2>2. QED
    BY <1>2, <2>1, WFMin
<1>4. PICK v \in keys : least = before[v]
  OBVIOUS
<1>5. ASSUME NEW u \in before[v] PROVE FALSE
  <2>1. u \in keys
    BY <1>1
  <2>2. before[u] \subseteq before[v] /\ before[u] # before[v]
    BY <2>1 DEF IsList
  <2>3. before[u] \in SUBSET Client /\ before[v] \in SUBSET Client
    BY <1>1, <2>1
  <2>4. <<before[u], before[v]>> \in Order
    BY <2>2, <2>3 DEF StrictSubsetOrdering
  <2>5. QED
    BY <1>3, <1>4, <2>1, <2>4
<1>6. \A u \in keys : before[u] = {} => u = v
  BY <1>5 DEF IsList
<1>7. QED
  BY <1>5, <1>6

\* Pruning leaves a list of the keys kept.
LEMMA KeptIsList ==
  ASSUME TypeOK
  PROVE  /\ Kept \in SUBSET Tracked /\ IsFiniteSet(Kept)
         /\ Cardinality(Kept) \in Nat /\ Cardinality(Kept) <= MaxKeys
         /\ IsList(KeptEarlier, Kept)
<1>1. Kept \in SUBSET Tracked
  BY DEF Kept, Tracked, Recent
<1>2. IsFiniteSet(Kept) /\ Cardinality(Kept) <= Cardinality(Tracked)
  BY <1>1, FS_Subset DEF TypeOK
<1>3. Cardinality(Kept) \in Nat /\ Cardinality(Tracked) \in Nat /\ Cardinality(Kept) <= MaxKeys
  BY <1>2, FS_CardinalityType, LimiterAssumption DEF TypeOK
<1>4. IsList(KeptEarlier, Kept)
  <2>1. Kept \subseteq Client /\ IsList(earlier, Tracked)
    BY DEF Kept, TypeOK
  <2>2. \A k \in Client : KeptEarlier[k] = IF k \in Kept THEN earlier[k] \cap Kept ELSE {}
    BY DEF KeptEarlier
  <2>3. ASSUME NEW u \in Kept, NEW v \in Kept
        PROVE  /\ u \in Tracked /\ v \in Tracked
               /\ KeptEarlier[u] = earlier[u] \cap Kept
               /\ KeptEarlier[v] = earlier[v] \cap Kept
    BY <1>1, <2>1, <2>2
  <2>4. ASSUME NEW u \in Kept, NEW v \in Kept, u \in KeptEarlier[v]
        PROVE  KeptEarlier[u] \subseteq KeptEarlier[v] \ {u, v}
    <3>1. u \in earlier[v]
      BY <2>3, <2>4
    <3>2. earlier[u] \subseteq earlier[v] \ {u, v}
      BY <2>1, <2>3, <3>1 DEF IsList
    <3>3. QED
      BY <2>3, <3>2
  <2>5. ASSUME NEW u \in Kept, NEW v \in Kept
        PROVE  u = v \/ u \in KeptEarlier[v] \/ v \in KeptEarlier[u]
    <3>1. u = v \/ u \in earlier[v] \/ v \in earlier[u]
      BY <2>1, <2>3 DEF IsList
    <3>2. QED
      BY <2>3, <3>1
  <2>6. \A k \in Client : KeptEarlier[k] \subseteq Kept
    BY <2>2
  <2>7. \A k \in Client \ Kept : KeptEarlier[k] = {}
    BY <2>2
  <2>8. QED
    BY <2>4, <2>5, <2>6, <2>7 DEF IsList
<1>5. QED
  BY <1>1, <1>2, <1>3, <1>4

\* To make room, one key leaves, and it is not the one that asks.
LEMMA OneVictim ==
  ASSUME TypeOK, NEW k \in Client, MakesRoom(k)
  PROVE  \E v \in Kept : v # k /\ Victims(k) = {v} /\ KeptEarlier[v] = {}
<1>1. Kept # {}
  BY KeptIsList, FS_EmptySet, LimiterAssumption DEF MakesRoom
<1>2. Kept \in SUBSET Client
  BY DEF Kept
<1>3. PICK v \in Kept : {u \in Kept : KeptEarlier[u] = {}} = {v}
  BY <1>1, <1>2, KeptIsList, ListHasFirst
<1>4. QED
  BY <1>3 DEF Victims, MakesRoom

\* What stands between two calls: the invariant for one key.
LEMMA KeyInvariant ==
  ASSUME LimiterInv, NEW k \in Client
  PROVE  /\ Recent(hits[k]) = InWindow(granted[k])
         /\ Recent(Recent(hits[k])) = Recent(hits[k])
         /\ Cardinality(Recent(hits[k])) <= MaxHits
         /\ \A h \in Recent(hits[k]) :
              h.at <= now /\ (h.at = now => h.nth < Cardinality(AtNow(Recent(hits[k]))))
<1>1. TypeOK /\ HitsAreNumbered /\ StoredIsGranted /\ AtMostMaxHitsPerWindow
  BY DEF LimiterInv
<1>2. /\ Recent(hits[k]) \subseteq hits[k]
      /\ Recent(Recent(hits[k])) = Recent(hits[k])
      /\ AtNow(Recent(hits[k])) = AtNow(hits[k])
  BY <1>1, KeyTypes, RecentFacts
<1>3. \A h \in hits[k] : h.at <= now /\ (h.at = now => h.nth < Cardinality(AtNow(hits[k])))
  BY <1>1 DEF HitsAreNumbered
<1>4. \A h \in Recent(hits[k]) :
        h.at <= now /\ (h.at = now => h.nth < Cardinality(AtNow(Recent(hits[k]))))
  BY <1>2, <1>3
<1>5. QED
  BY <1>1, <1>2, <1>4 DEF StoredIsGranted, AtMostMaxHitsPerWindow

\* What a denial promised is still kept with fewer hits.
LEMMA FewerHitsKeepRetry ==
  ASSUME LimiterInv, NEW k \in Client, retryAt[k] # -1, NEW S \in SUBSET hits[k]
  PROVE  \E oldest \in 0 .. Horizon :
           retryAt[k] >= oldest + WindowMs /\ Cardinality(After(S, oldest)) < MaxHits
<1>1. PICK oldest \in 0 .. Horizon :
        retryAt[k] >= oldest + WindowMs /\ Cardinality(After(hits[k], oldest)) < MaxHits
  BY DEF LimiterInv, RetryIsKept
<1>2. IsFiniteSet(hits[k])
  BY KeyTypes DEF LimiterInv
<1>3. After(S, oldest) \in SUBSET After(hits[k], oldest)
      /\ After(hits[k], oldest) \in SUBSET hits[k]
  BY DEF After
<1>4. IsFiniteSet(After(hits[k], oldest))
  BY <1>2, <1>3, FS_Subset
<1>5. /\ Cardinality(After(S, oldest)) <= Cardinality(After(hits[k], oldest))
      /\ Cardinality(After(S, oldest)) \in Nat /\ Cardinality(After(hits[k], oldest)) \in Nat
  BY <1>3, <1>4, FS_Subset, FS_CardinalityType
<1>6. QED
  BY <1>1, <1>5, LimiterAssumption

\* A denial promises enough: at the instant it names, the oldest of the hits
\* that fill the window has left it.
LEMMA DenialPromises ==
  ASSUME LimiterInv, NEW k \in Client, Cardinality(Recent(hits[k])) >= MaxHits
  PROVE  /\ Oldest(k) \in 0 .. Horizon
         /\ now + Second * RetryAfterSec(Oldest(k)) \in Nat
         /\ now + Second * RetryAfterSec(Oldest(k)) > now
         /\ now + Second * RetryAfterSec(Oldest(k)) >= Oldest(k) + WindowMs
         /\ Cardinality(After(Recent(hits[k]), Oldest(k))) < MaxHits
<1> DEFINE S == Recent(hits[k])
           instants == {h.at : h \in S}
<1>1. S \in SUBSET Hit /\ IsFiniteSet(S) /\ Cardinality(S) \in Nat /\ now \in 0 .. Horizon
  BY KeyTypes DEF LimiterInv, TypeOK
<1>2. S # {}
  BY FS_EmptySet, LimiterAssumption
<1>3. instants \in SUBSET (0 .. Horizon) /\ instants \in SUBSET Nat /\ instants # {}
  BY <1>1, <1>2, LimiterAssumption DEF Hit
<1>4. Oldest(k) \in instants
  BY <1>3, MinOfNats DEF Oldest
<1>5. PICK first \in S : first.at = Oldest(k)
  BY <1>4
<1>6. Oldest(k) \in 0 .. Horizon
  BY <1>3, <1>4
<1>7. Cardinality(After(S, Oldest(k))) < MaxHits
  <2>1. After(S, Oldest(k)) \in SUBSET (S \ {first})
    BY <1>5, <1>6 DEF After
  <2>2. IsFiniteSet(S \ {first}) /\ Cardinality(S \ {first}) = Cardinality(S) - 1
    BY <1>1, FS_RemoveElement
  <2>3. Cardinality(After(S, Oldest(k))) <= Cardinality(S) - 1
        /\ Cardinality(After(S, Oldest(k))) \in Nat
    BY <2>1, <2>2, FS_Subset, FS_CardinalityType
  <2>4. Cardinality(S) <= MaxHits
    BY KeyInvariant
  <2>5. QED
    BY <1>1, <2>3, <2>4, LimiterAssumption
<1>8. /\ now + Second * RetryAfterSec(Oldest(k)) \in Nat
      /\ now + Second * RetryAfterSec(Oldest(k)) > now
      /\ now + Second * RetryAfterSec(Oldest(k)) >= Oldest(k) + WindowMs
  <2> DEFINE wait == Oldest(k) + WindowMs - now
             seconds == CeilDiv(wait, Second)
  <2>1. wait \in Int /\ Second \in Nat \ {0}
    BY <1>1, <1>6, LimiterAssumption
  <2>2. seconds \in Int /\ Second * seconds >= wait
    BY <2>1, CeilDivCovers
  <2>3. Max({1, seconds}) \in Int /\ Max({1, seconds}) >= 1 /\ Max({1, seconds}) >= seconds
    <3> HIDE DEF seconds
    <3>1. seconds \in Int /\ 1 \in Int
      BY <2>2
    <3>2. QED
      BY <3>1, MaxOfTwo
  <2>4. RetryAfterSec(Oldest(k)) = Max({1, seconds})
    BY DEF RetryAfterSec
  <2>5. \A m \in Nat : \A n \in Int : m >= n => Second * m >= Second * n
    BY <2>1
  <2>6. Second * Max({1, seconds}) \in Nat \ {0}
    BY <2>1, <2>3
  <2>7. Second * Max({1, seconds}) >= wait
    BY <2>1, <2>2, <2>3, <2>5, <2>6
  <2>8. QED
    BY <1>1, <1>6, <2>4, <2>6, <2>7, LimiterAssumption
<1>9. QED
  BY <1>6, <1>7, <1>8

\* Who can be dropped to make room.
LEMMA VictimFacts ==
  ASSUME TypeOK, NEW k \in Client
  PROVE  /\ Victims(k) \subseteq Kept /\ k \notin Victims(k)
         /\ \A v \in Victims(k) : KeptEarlier[v] = {}
BY OneVictim DEF Victims, MakesRoom

\* The Map after an allowed call.
LEMMA AllowedMap ==
  ASSUME TypeOK, NEW k \in Client
  PROVE  LET keys == (Kept \ Victims(k)) \cup {k}
             before == [u \in Client |->
               (IF u = k /\ k \notin Kept THEN Kept ELSE KeptEarlier[u]) \ Victims(k)]
         IN  /\ IsList(before, keys)
             /\ IsFiniteSet(keys) /\ Cardinality(keys) <= MaxKeys
<1> DEFINE keys == (Kept \ Victims(k)) \cup {k}
           before == [u \in Client |->
             (IF u = k /\ k \notin Kept THEN Kept ELSE KeptEarlier[u]) \ Victims(k)]
<1>1. /\ Kept \in SUBSET Client /\ IsFiniteSet(Kept)
      /\ Cardinality(Kept) \in Nat /\ Cardinality(Kept) <= MaxKeys
      /\ IsList(KeptEarlier, Kept)
  BY KeptIsList DEF Kept
<1>2. Victims(k) \subseteq Kept /\ k \notin Victims(k)
      /\ \A v \in Victims(k) : KeptEarlier[v] = {}
  BY VictimFacts
<1>3. \A u \in Client : before[u] =
        (IF u = k /\ k \notin Kept THEN Kept ELSE KeptEarlier[u]) \ Victims(k)
  OBVIOUS
<1>4. (\A u \in Client : KeptEarlier[u] \subseteq Kept)
      /\ (\A u \in Client \ Kept : KeptEarlier[u] = {})
  BY <1>1 DEF IsList
<1>5. IsList(before, keys)
  <2>1. \A u \in Client : before[u] \subseteq keys
    BY <1>2, <1>3, <1>4
  <2>2. \A u \in Client \ keys : before[u] = {}
    <3>1. ASSUME NEW u \in Client \ keys PROVE KeptEarlier[u] = {} /\ u # k
      BY <1>2, <1>4
    <3>2. QED
      BY <3>1, <1>3
  <2>3. ASSUME NEW u \in keys, NEW v \in keys, u \in before[v]
        PROVE  before[u] \subseteq before[v] \ {u, v}
    <3>1. CASE v = k /\ k \notin Kept
      <4>1. before[v] = Kept \ Victims(k)
        BY <1>3, <3>1
      <4>2. u \in Kept /\ u # k /\ u \in Client
        BY <2>3, <3>1, <4>1, <1>1
      <4>3. before[u] = KeptEarlier[u] \ Victims(k)
        BY <1>3, <4>2
      <4>4. u \notin KeptEarlier[u] /\ KeptEarlier[u] \subseteq Kept
        BY <1>1, <4>2 DEF IsList
      <4>5. QED
        BY <3>1, <4>1, <4>3, <4>4
    <3>2. CASE ~ (v = k /\ k \notin Kept)
      <4>1. v \in Kept /\ v \in Client
        BY <3>2, <1>1
      <4>2. before[v] = KeptEarlier[v] \ Victims(k)
        BY <1>3, <3>2, <4>1
      <4>3. u \in Kept /\ u \in KeptEarlier[v]
        BY <2>3, <4>1, <4>2, <1>4
      <4>4. before[u] = KeptEarlier[u] \ Victims(k)
        BY <1>1, <1>3, <4>3
      <4>5. KeptEarlier[u] \subseteq KeptEarlier[v] \ {u, v}
        BY <1>1, <4>1, <4>3 DEF IsList
      <4>6. QED
        BY <4>2, <4>4, <4>5
    <3>3. QED
      BY <3>1, <3>2
  <2>4. ASSUME NEW u \in keys, NEW v \in keys, u # v
        PROVE  u \in before[v] \/ v \in before[u]
    <3>1. u \in Client /\ v \in Client /\ u \notin Victims(k) /\ v \notin Victims(k)
      BY <1>1, <1>2
    <3>2. CASE u \in Kept /\ v \in Kept
      <4>1. before[u] = KeptEarlier[u] \ Victims(k) /\ before[v] = KeptEarlier[v] \ Victims(k)
        BY <1>3, <3>1, <3>2
      <4>2. u \in KeptEarlier[v] \/ v \in KeptEarlier[u]
        BY <1>1, <2>4, <3>2 DEF IsList
      <4>3. QED
        BY <3>1, <4>1, <4>2
    <3>3. CASE u \notin Kept
      <4>1. u = k /\ v \in Kept
        BY <2>4, <3>3
      <4>2. QED
        BY <1>3, <3>1, <3>3, <4>1
    <3>4. CASE v \notin Kept
      <4>1. v = k /\ u \in Kept
        BY <2>4, <3>4
      <4>2. QED
        BY <1>3, <3>1, <3>4, <4>1
    <3>5. QED
      BY <3>2, <3>3, <3>4
  <2>5. QED
    BY <2>1, <2>2, <2>3, <2>4 DEF IsList
<1>6. IsFiniteSet(keys) /\ Cardinality(keys) <= MaxKeys
  <2>1. CASE k \in Kept
    <3>1. keys \in SUBSET Kept
      BY <2>1
    <3>2. IsFiniteSet(keys) /\ Cardinality(keys) <= Cardinality(Kept) /\ Cardinality(keys) \in Nat
      BY <1>1, <3>1, FS_Subset, FS_CardinalityType
    <3>3. QED
      BY <1>1, <3>2, LimiterAssumption
  <2>2. CASE k \notin Kept /\ Cardinality(Kept) < MaxKeys
    <3>1. keys = Kept \cup {k}
      BY <2>2, LimiterAssumption, <1>1 DEF Victims, MakesRoom
    <3>2. IsFiniteSet(keys) /\ Cardinality(keys) = Cardinality(Kept) + 1
      BY <1>1, <2>2, <3>1, FS_AddElement
    <3>3. QED
      BY <1>1, <2>2, <3>2, LimiterAssumption
  <2>3. CASE MakesRoom(k)
    <3>1. PICK v \in Kept : Victims(k) = {v}
      BY <2>3, OneVictim
    <3>2. IsFiniteSet(Kept \ {v}) /\ Cardinality(Kept \ {v}) = Cardinality(Kept) - 1
      BY <1>1, FS_RemoveElement
    <3>3. k \notin Kept \ {v} /\ keys = (Kept \ {v}) \cup {k}
      BY <2>3, <3>1 DEF MakesRoom
    <3>4. IsFiniteSet(keys) /\ Cardinality(keys) = Cardinality(Kept) - 1 + 1
      BY <3>2, <3>3, FS_AddElement
    <3>5. QED
      BY <1>1, <3>4, LimiterAssumption
  <2>4. QED
    BY <2>1, <2>2, <2>3, <1>1, LimiterAssumption DEF MakesRoom
<1>7. QED
  BY <1>5, <1>6

\* An allowed call keeps the invariant.
LEMMA AllowKeeps ==
  ASSUME LimiterInv, NEW k \in Client, Allow(k)
  PROVE  LimiterInv'
<1> DEFINE S == Recent(hits[k])
<1>1. TypeOK /\ now' = now /\ now \in 0 .. Horizon /\ now \in Int
  BY KeyTypes DEF LimiterInv, Allow, TypeOK
<1>2. Victims(k) \subseteq Kept /\ k \notin Victims(k) /\ Kept \subseteq Client
  BY <1>1, VictimFacts DEF Kept
<1>3. Cardinality(S) < MaxHits /\ S = InWindow(granted[k])
  BY KeyInvariant DEF Allow
<1>4. /\ Push(S) \in SUBSET Hit /\ IsFiniteSet(Push(S)) /\ Push(S) # {}
      /\ Cardinality(Push(S)) = Cardinality(S) + 1
      /\ \A h \in Push(S) :
           h.at <= now /\ (h.at = now => h.nth < Cardinality(AtNow(Push(S))))
      /\ Recent(Push(S)) = Push(S)
  <2>1. S \in SUBSET Hit /\ IsFiniteSet(S)
    BY <1>1, KeyTypes
  <2>2. Recent(S) = S
        /\ \A h \in S : h.at <= now /\ (h.at = now => h.nth < Cardinality(AtNow(S)))
    BY KeyInvariant
  <2>3. QED
    BY <1>1, <2>1, <2>2, PushAddsOne
<1>5. hits' = granted'
  <2>1. \A u \in Client : Recent(hits[u]) = InWindow(granted[u])
    BY KeyInvariant
  <2>2. \A u \in Client : KeptHits[u] = InWindow(granted[u])
    BY <2>1 DEF KeptHits
  <2>3. QED
    BY <1>3, <2>2 DEF Allow
<1>6. hits'[k] = Push(S)
  BY DEF Allow
<1>7. \A u \in Client \ {k} : hits'[u] = IF u \in Victims(k) THEN {} ELSE Recent(hits[u])
  BY DEF Allow, KeptHits
<1>8. ASSUME NEW u \in Client
      PROVE  /\ hits'[u] \in SUBSET Hit /\ IsFiniteSet(hits'[u])
             /\ \A h \in hits'[u] :
                  h.at <= now /\ (h.at = now => h.nth < Cardinality(AtNow(hits'[u])))
             /\ Recent(hits'[u]) = hits'[u]
             /\ Cardinality(hits'[u]) <= MaxHits
  <2>1. CASE u = k
    <3>1. Cardinality(S) \in Nat
      BY <1>1, KeyTypes
    <3>2. QED
      BY <2>1, <3>1, <1>3, <1>4, <1>6, LimiterAssumption
  <2>2. CASE u # k /\ u \in Victims(k)
    <3>1. hits'[u] = {} /\ Recent({}) = {}
      BY <1>7, <2>2 DEF Recent
    <3>2. QED
      BY <3>1, FS_EmptySet, LimiterAssumption
  <2>3. CASE u # k /\ u \notin Victims(k)
    <3>1. hits'[u] = Recent(hits[u])
      BY <1>7, <2>3
    <3>2. QED
      BY <1>1, <3>1, KeyTypes, KeyInvariant
  <2>4. QED
    BY <2>1, <2>2, <2>3
<1>9. Tracked' = (Kept \ Victims(k)) \cup {k}
  <2>1. Tracked' = {u \in Client : hits'[u] # {}}
    BY DEF Tracked
  <2>2. \A u \in Client \ {k} : hits'[u] # {} <=> u \in Kept \ Victims(k)
    BY <1>7 DEF Kept
  <2>3. QED
    BY <1>2, <1>4, <1>6, <2>1, <2>2
<1>10. TypeOK'
  <2>1. hits' \in [Client -> SUBSET Hit] /\ granted' \in [Client -> SUBSET Hit]
    <3>1. hits' = [u \in Client |-> hits'[u]]
      BY DEF Allow
    <3>2. QED
      BY <1>5, <1>8, <3>1
  <2>2. \A u \in Client : IsFiniteSet(hits'[u]) /\ IsFiniteSet(granted'[u])
    BY <1>5, <1>8
  <2>3. retryAt' \in [Client -> Int]
    BY <1>1 DEF TypeOK, Allow
  <2>4. IsList(earlier', Tracked') /\ IsFiniteSet(Tracked') /\ Cardinality(Tracked') <= MaxKeys
    BY <1>1, <1>9, AllowedMap DEF Allow
  <2>5. earlier' \in [Client -> SUBSET Client]
    <3>1. \A u \in Client : earlier'[u] \subseteq Client
      BY <2>4 DEF IsList, Tracked
    <3>2. earlier' = [u \in Client |-> earlier'[u]]
      BY DEF Allow
    <3>3. QED
      BY <3>1, <3>2
  <2>6. QED
    BY <1>1, <2>1, <2>2, <2>3, <2>4, <2>5 DEF TypeOK
<1>11. HitsAreNumbered'
  BY <1>1, <1>8 DEF HitsAreNumbered, AtNow
<1>12. ASSUME NEW u \in Client
       PROVE  Recent(hits[u])' = hits'[u] /\ InWindow(granted[u])' = hits'[u]
  <2>1. Recent(hits[u])' = Recent(hits'[u]) /\ InWindow(granted[u])' = InWindow(hits'[u])
    BY <1>1, <1>5 DEF Recent, InWindow
  <2>2. \A h \in hits'[u] : h.at \in Int
    BY <1>8 DEF Hit
  <2>3. Recent(hits'[u]) = InWindow(hits'[u])
    BY <1>1, <2>2, WindowIsRecent
  <2>4. QED
    BY <1>8, <2>1, <2>3
<1>13. StoredIsGranted'
  BY <1>12 DEF StoredIsGranted
<1>14. AtMostMaxHitsPerWindow'
  BY <1>8, <1>12 DEF AtMostMaxHitsPerWindow
<1>15. RetryIsKept'
  <2>1. ASSUME NEW u \in Client, retryAt'[u] # -1
        PROVE  \E oldest \in 0 .. Horizon :
                 retryAt'[u] >= oldest + WindowMs
                 /\ Cardinality(After(hits'[u], oldest)) < MaxHits
    <3>1. u # k /\ u \notin Victims(k) /\ retryAt'[u] = retryAt[u]
      BY <2>1 DEF Allow
    <3>2. hits'[u] \in SUBSET hits[u]
      BY <1>7, <3>1 DEF Recent
    <3>3. QED
      BY <2>1, <3>1, <3>2, FewerHitsKeepRetry
  <2>2. QED
    BY <2>1 DEF RetryIsKept, After
<1>16. QED
  BY <1>10, <1>11, <1>13, <1>14, <1>15 DEF LimiterInv

\* So does a denied one.
LEMMA DenyKeeps ==
  ASSUME LimiterInv, NEW k \in Client, Deny(k)
  PROVE  LimiterInv'
<1>1. TypeOK /\ now' = now /\ now \in 0 .. Horizon /\ now \in Int /\ granted' = granted
  BY KeyTypes DEF LimiterInv, Deny, TypeOK
<1>2. hits' = [u \in Client |-> Recent(hits[u])] /\ earlier' = KeptEarlier
  BY DEF Deny, KeptHits
<1>3. \A u \in Client : hits'[u] = Recent(hits[u])
  BY <1>2
<1>4. TypeOK'
  <2>1. hits' \in [Client -> SUBSET Hit] /\ \A u \in Client : IsFiniteSet(hits'[u])
    BY <1>1, <1>2, <1>3, KeyTypes
  <2>2. retryAt' \in [Client -> Int]
    <3>1. now + Second * RetryAfterSec(Oldest(k)) \in Int
      BY DenialPromises DEF Deny
    <3>2. retryAt' = [retryAt EXCEPT ![k] = now + Second * RetryAfterSec(Oldest(k))]
      BY DEF Deny
    <3>3. QED
      BY <1>1, <3>1, <3>2 DEF TypeOK
  <2>3. Tracked' = Kept
    BY <1>3 DEF Tracked, Kept
  <2>4. IsList(earlier', Tracked') /\ IsFiniteSet(Tracked') /\ Cardinality(Tracked') <= MaxKeys
    BY <1>1, <1>2, <2>3, KeptIsList
  <2>5. earlier' \in [Client -> SUBSET Client]
    BY <1>1, <1>2 DEF KeptEarlier, Kept
  <2>6. granted' \in [Client -> SUBSET Hit] /\ \A u \in Client : IsFiniteSet(granted'[u])
    BY <1>1 DEF TypeOK
  <2>7. QED
    BY <1>1, <2>1, <2>2, <2>4, <2>5, <2>6 DEF TypeOK
<1>5. HitsAreNumbered'
  <2>1. \A u \in Client : \A h \in hits'[u] :
          h.at <= now /\ (h.at = now => h.nth < Cardinality(AtNow(hits'[u])))
    BY <1>3, KeyInvariant
  <2>2. QED
    BY <1>1, <2>1 DEF HitsAreNumbered, AtNow
<1>6. StoredIsGranted'
  <2>1. ASSUME NEW u \in Client PROVE Recent(hits[u])' = InWindow(granted[u])'
    <3>1. Recent(hits[u])' = Recent(Recent(hits[u])) /\ InWindow(granted[u])' = InWindow(granted[u])
      BY <1>1, <1>3 DEF Recent, InWindow
    <3>2. QED
      BY <3>1, KeyInvariant
  <2>2. QED
    BY <2>1 DEF StoredIsGranted
<1>7. AtMostMaxHitsPerWindow'
  <2>1. \A u \in Client : InWindow(granted[u])' = InWindow(granted[u])
    BY <1>1 DEF InWindow
  <2>2. QED
    BY <2>1 DEF LimiterInv, AtMostMaxHitsPerWindow
<1>8. RetryIsKept'
  <2>1. ASSUME NEW u \in Client, retryAt'[u] # -1
        PROVE  \E oldest \in 0 .. Horizon :
                 retryAt'[u] >= oldest + WindowMs
                 /\ Cardinality(After(hits'[u], oldest)) < MaxHits
    <3>1. CASE u = k
      <4>1. retryAt'[k] = now + Second * RetryAfterSec(Oldest(k))
        BY <1>1 DEF Deny, TypeOK
      <4>2. Cardinality(Recent(hits[k])) >= MaxHits
        BY DEF Deny
      <4>3. QED
        BY <1>3, <3>1, <4>1, <4>2, DenialPromises
    <3>2. CASE u # k
      <4>1. retryAt'[u] = retryAt[u]
        BY <1>1, <3>2 DEF Deny, TypeOK
      <4>2. hits'[u] \in SUBSET hits[u]
        BY <1>3 DEF Recent
      <4>3. QED
        BY <2>1, <4>1, <4>2, FewerHitsKeepRetry
    <3>3. QED
      BY <3>1, <3>2
  <2>2. QED
    BY <2>1 DEF RetryIsKept, After
<1>9. QED
  BY <1>4, <1>5, <1>6, <1>7, <1>8 DEF LimiterInv

\* And the clock: the window moves over both sets alike.
LEMMA TickKeeps ==
  ASSUME LimiterInv, Tick
  PROVE  LimiterInv'
<1>1. /\ TypeOK /\ now \in Int /\ now' = now + 1 /\ now' \in 0 .. Horizon
      /\ UNCHANGED <<hits, earlier, granted, retryAt>>
  BY LimiterAssumption DEF LimiterInv, TypeOK, Tick
<1>2. TypeOK'
  <2>1. Tracked' = Tracked
    BY <1>1 DEF Tracked
  <2>2. QED
    BY <1>1, <2>1 DEF TypeOK
<1>3. HitsAreNumbered'
  <2>1. ASSUME NEW u \in Client, NEW h \in hits[u] PROVE h.at <= now /\ h.at \in Int
    BY <1>1, KeyTypes DEF LimiterInv, HitsAreNumbered
  <2>2. QED
    BY <1>1, <2>1 DEF HitsAreNumbered
<1>4. ASSUME NEW u \in Client
      PROVE  /\ Recent(hits[u])' = {h \in Recent(hits[u]) : h.at > now + 1 - WindowMs}
             /\ InWindow(granted[u])' = {h \in InWindow(granted[u]) : h.at > now + 1 - WindowMs}
  <2>1. (\A h \in hits[u] : h.at \in Int) /\ (\A h \in granted[u] : h.at \in Int)
    BY <1>1, KeyTypes
  <2>2. QED
    BY <1>1, <2>1, LimiterAssumption DEF Recent, InWindow
<1>5. StoredIsGranted'
  <2>1. \A u \in Client : Recent(hits[u])' = InWindow(granted[u])'
    BY <1>4, KeyInvariant
  <2>2. QED
    BY <2>1 DEF StoredIsGranted
<1>6. AtMostMaxHitsPerWindow'
  <2>1. ASSUME NEW u \in Client PROVE Cardinality(InWindow(granted[u])') <= MaxHits
    <3>1. InWindow(granted[u])' \in SUBSET InWindow(granted[u])
      BY <1>4
    <3>2. IsFiniteSet(InWindow(granted[u])) /\ Cardinality(InWindow(granted[u])) <= MaxHits
      <4>1. InWindow(granted[u]) = Recent(hits[u]) /\ Cardinality(Recent(hits[u])) <= MaxHits
        BY KeyInvariant
      <4>2. QED
        BY <1>1, <4>1, KeyTypes
    <3>3. Cardinality(InWindow(granted[u])') <= Cardinality(InWindow(granted[u]))
          /\ Cardinality(InWindow(granted[u])') \in Nat /\ Cardinality(InWindow(granted[u])) \in Nat
      BY <3>1, <3>2, FS_Subset, FS_CardinalityType
    <3>4. QED
      BY <3>2, <3>3, LimiterAssumption
  <2>2. QED
    BY <2>1 DEF AtMostMaxHitsPerWindow
<1>7. RetryIsKept'
  BY <1>1 DEF LimiterInv, RetryIsKept, After
<1>8. QED
  BY <1>2, <1>3, <1>5, <1>6, <1>7 DEF LimiterInv
-----------------------------------------------------------------------------
(***************************************************************************)
(* The provider.  The attempts before the current one were lost or         *)
(* refused, the later ones were not made; a refused mail is void.          *)
(***************************************************************************)
CallInv(c) ==
  /\ \A a \in Attempt :
       /\ a < attempt[c] => heard[c][a] \in {"lost", "refused"}
       /\ a > attempt[c] => heard[c][a] = "unsent"
       /\ heard[c][a] = "unsent" => mail[c][a] = "unsent"
       /\ heard[c][a] = "refused" => mail[c][a] = "void"
  /\ phase[c] = "idle" => attempt[c] = 0 /\ heard[c][0] = "unsent"
  /\ phase[c] = "pausing" =>
       attempt[c] < MaxRetries /\ heard[c][attempt[c]] \in {"lost", "refused"}
  /\ phase[c] = "sent" => mail[c][attempt[c]] = "taken"
  /\ phase[c] = "failed" /\ kind[c] = "permanent" => heard[c][attempt[c]] = "refused"

ProviderInv ==
  /\ ProviderTypeOK
  /\ \A c \in Call : CallInv(c)

(***************************************************************************)
(* The requests.  Nothing is posted before "sending"; an answer says how   *)
(* the call of the provider ended, or that there was none.                 *)
(***************************************************************************)
RequestInv ==
  \A r \in Call :
    /\ pc[r] \in {"idle", "configured", "reading"} => phase[r] = "idle"
    /\ pc[r] # "answered" => ~captured[r]
    /\ pc[r] = "answered" =>
         /\ status[r] = 202 => phase[r] = IF captured[r] THEN "idle" ELSE "sent"
         /\ status[r] = 500 => phase[r] = "failed" /\ kind[r] = "permanent"
         /\ status[r] \in {204, 400, 429} => phase[r] = "idle"

ContactInv ==
  /\ LimiterInv
  /\ ProviderInv
  /\ RequestInv
  /\ ContactTypeOK
-----------------------------------------------------------------------------
\* The variables of one call of the provider.
CallState(c) == <<phase[c], attempt[c], kind[c], heard[c], mail[c]>>

\* Types of one call, unfolded.
LEMMA CallTypes ==
  ASSUME ProviderTypeOK, NEW c \in Call
  PROVE  /\ phase[c] \in Phase /\ attempt[c] \in Attempt /\ kind[c] \in Kind
         /\ heard[c] \in [Attempt -> Heard]
         /\ mail[c] \in [Attempt -> {"unsent", "open", "taken", "void"}]
         /\ attempt[c] \in Nat /\ 0 \in Attempt
BY ProviderAssumption DEF ProviderTypeOK, Attempt

\* A step of one call keeps the invariant if it keeps its types and its own part.
LEMMA OneCallSteps ==
  ASSUME ProviderInv, NEW c \in Call,
         ProviderTypeOK', CallInv(c)',
         \A d \in Call \ {c} : CallState(d)' = CallState(d)
  PROVE  ProviderInv'
<1>1. ASSUME NEW d \in Call, d # c PROVE CallInv(d)'
  <2>1. /\ phase'[d] = phase[d] /\ attempt'[d] = attempt[d] /\ kind'[d] = kind[d]
        /\ heard'[d] = heard[d] /\ mail'[d] = mail[d]
    BY <1>1 DEF CallState
  <2>2. CallInv(d)
    BY DEF ProviderInv
  <2>3. QED
    BY <2>1, <2>2 DEF CallInv
<1>2. QED
  BY <1>1 DEF ProviderInv

\* A POST of the first attempt, or of the one after a lost or refused one.
LEMMA PostKeeps ==
  ASSUME ProviderInv, NEW c \in Call, NEW a \in Attempt, Post(c, a), UNCHANGED kind,
         heard[c][a] = "unsent",
         \A b \in Attempt : b < a => heard[c][b] \in {"lost", "refused"},
         \A b \in Attempt : b > a => heard[c][b] = "unsent"
  PROVE  ProviderInv'
<1>1. ProviderTypeOK /\ CallInv(c)
  BY DEF ProviderInv
<1>2. /\ phase'[c] = "posting" /\ attempt'[c] = a /\ kind'[c] = kind[c]
      /\ heard'[c] = [heard[c] EXCEPT ![a] = "nothing"]
      /\ mail'[c] = [mail[c] EXCEPT ![a] = "open"]
      /\ \A d \in Call \ {c} : CallState(d)' = CallState(d)
  BY <1>1 DEF Post, ProviderTypeOK, CallState
<1>3. ProviderTypeOK'
  BY <1>1, <1>2 DEF Post, ProviderTypeOK, Phase, Heard
<1>4. \A b \in Attempt :
        /\ heard'[c][b] = IF b = a THEN "nothing" ELSE heard[c][b]
        /\ mail'[c][b] = IF b = a THEN "open" ELSE mail[c][b]
  BY <1>1, <1>2, CallTypes
<1>5. CallInv(c)'
  <2>1. ASSUME NEW b \in Attempt
        PROVE  /\ b < attempt'[c] => heard'[c][b] \in {"lost", "refused"}
               /\ b > attempt'[c] => heard'[c][b] = "unsent"
               /\ heard'[c][b] = "unsent" => mail'[c][b] = "unsent"
               /\ heard'[c][b] = "refused" => mail'[c][b] = "void"
    <3>1. a \in Nat /\ b \in Nat
      BY ProviderAssumption DEF Attempt
    <3>2. (heard[c][b] = "unsent" => mail[c][b] = "unsent")
          /\ (heard[c][b] = "refused" => mail[c][b] = "void")
      BY <1>1 DEF CallInv
    <3>3. QED
      BY <1>2, <1>4, <3>1, <3>2
  <2>2. QED
    BY <1>2, <2>1 DEF CallInv
<1>6. QED
  BY <1>2, <1>3, <1>5, OneCallSteps

\* What the code hears of the attempt under way, and how it goes on.
LEMMA HearKeeps ==
  ASSUME ProviderInv, NEW c \in Call, phase[c] = "posting",
         NEW what \in {"accepted", "refused", "lost", "timeout"}, Hear(c, what),
         UNCHANGED attempt,
         NEW fate \in {"unsent", "open", "taken", "void"},
         mail' = [mail EXCEPT ![c][attempt[c]] = fate],
         what = "refused" => fate = "void",
         NEW outcome \in Phase, NEW reason \in Kind,
         phase' = [phase EXCEPT ![c] = outcome], kind' = [kind EXCEPT ![c] = reason],
         outcome \in {"pausing", "sent", "failed"},
         outcome = "pausing" => attempt[c] < MaxRetries /\ what \in {"lost", "refused"},
         outcome = "sent" => fate = "taken",
         outcome = "failed" /\ reason = "permanent" => what = "refused"
  PROVE  ProviderInv'
<1>1. ProviderTypeOK /\ CallInv(c)
  BY DEF ProviderInv
<1>2. /\ phase'[c] = outcome /\ attempt'[c] = attempt[c] /\ kind'[c] = reason
      /\ heard'[c] = [heard[c] EXCEPT ![attempt[c]] = what]
      /\ mail'[c] = [mail[c] EXCEPT ![attempt[c]] = fate]
      /\ \A d \in Call \ {c} : CallState(d)' = CallState(d)
  BY <1>1 DEF Hear, ProviderTypeOK, CallState
<1>3. ProviderTypeOK'
  <2>1. attempt[c] \in Attempt
    BY <1>1, CallTypes
  <2>2. QED
    BY <1>1, <2>1 DEF Hear, ProviderTypeOK, Heard
<1>4. \A b \in Attempt :
        /\ heard'[c][b] = IF b = attempt[c] THEN what ELSE heard[c][b]
        /\ mail'[c][b] = IF b = attempt[c] THEN fate ELSE mail[c][b]
  BY <1>1, <1>2, CallTypes
<1>5. CallInv(c)'
  <2>1. ASSUME NEW b \in Attempt
        PROVE  /\ b < attempt'[c] => heard'[c][b] \in {"lost", "refused"}
               /\ b > attempt'[c] => heard'[c][b] = "unsent"
               /\ heard'[c][b] = "unsent" => mail'[c][b] = "unsent"
               /\ heard'[c][b] = "refused" => mail'[c][b] = "void"
    <3>1. attempt[c] \in Nat /\ b \in Nat
      BY <1>1, CallTypes, ProviderAssumption DEF Attempt
    <3>2. /\ b < attempt[c] => heard[c][b] \in {"lost", "refused"}
          /\ b > attempt[c] => heard[c][b] = "unsent"
          /\ heard[c][b] = "unsent" => mail[c][b] = "unsent"
          /\ heard[c][b] = "refused" => mail[c][b] = "void"
      BY <1>1 DEF CallInv
    <3>3. QED
      BY <1>2, <1>4, <3>1, <3>2
  <2>2. heard'[c][attempt[c]] = what /\ mail'[c][attempt[c]] = fate
    BY <1>1, <1>4, CallTypes
  <2>3. QED
    BY <1>2, <2>1, <2>2 DEF CallInv
<1>6. QED
  BY <1>2, <1>3, <1>5, OneCallSteps

\* A failed attempt ends the call or makes it pause.
LEMMA FailOrPauseKeeps ==
  ASSUME ProviderInv, NEW c \in Call, phase[c] = "posting",
         NEW what \in {"refused", "lost", "timeout"}, Hear(c, what), UNCHANGED attempt,
         NEW fate \in {"unsent", "open", "taken", "void"},
         mail' = [mail EXCEPT ![c][attempt[c]] = fate],
         what = "refused" => fate = "void",
         NEW k \in {"rate_limit", "transient", "permanent"}, NEW retryable \in BOOLEAN,
         FailOrPause(c, k, retryable),
         retryable => what \in {"lost", "refused"},
         k = "permanent" => what = "refused"
  PROVE  ProviderInv'
<1>1. kind \in [Call -> Kind] /\ kind[c] \in Kind
  BY CallTypes DEF ProviderInv, ProviderTypeOK
<1>2. CASE retryable /\ attempt[c] < MaxRetries
  <2>1. phase' = [phase EXCEPT ![c] = "pausing"] /\ kind' = [kind EXCEPT ![c] = kind[c]]
    BY <1>1, <1>2 DEF FailOrPause
  <2>2. "pausing" \in Phase
    BY DEF Phase
  <2>3. QED
    BY <1>1, <1>2, <2>1, <2>2, HearKeeps
<1>3. CASE ~ (retryable /\ attempt[c] < MaxRetries)
  <2>1. phase' = [phase EXCEPT ![c] = "failed"] /\ kind' = [kind EXCEPT ![c] = k]
    BY <1>3 DEF FailOrPause
  <2>2. "failed" \in Phase /\ k \in Kind
    BY DEF Phase, Kind
  <2>3. QED
    BY <2>1, <2>2, HearKeeps
<1>4. QED
  BY <1>2, <1>3

\* A call starts with its first attempt open and nothing heard.
LEMMA StartSendKeeps ==
  ASSUME ProviderInv, NEW c \in Call, StartSend(c)
  PROVE  ProviderInv'
<1>1. CallInv(c) /\ ProviderTypeOK
  BY DEF ProviderInv
<1>2. attempt[c] = 0 /\ heard[c][0] = "unsent" /\ 0 \in Attempt
  BY <1>1, CallTypes DEF CallInv, StartSend
<1>3. (\A b \in Attempt : b < 0 => heard[c][b] \in {"lost", "refused"})
      /\ (\A b \in Attempt : b > 0 => heard[c][b] = "unsent")
  BY <1>1, <1>2 DEF CallInv
<1>4. QED
  BY <1>2, <1>3, PostKeeps DEF StartSend

\* Every step of a call keeps the invariant of the provider.
LEMMA ProviderStepKeeps ==
  ASSUME ProviderInv, NEW c \in Call, ProviderStep(c)
  PROVE  ProviderInv'
<1>1. /\ CallInv(c) /\ ProviderTypeOK
      /\ attempt[c] \in Attempt /\ attempt[c] \in Nat
      /\ kind \in [Call -> Kind] /\ kind[c] \in Kind
      /\ mail \in [Call -> [Attempt -> {"unsent", "open", "taken", "void"}]]
      /\ mail[c][attempt[c]] \in {"unsent", "open", "taken", "void"}
  BY CallTypes DEF ProviderInv, ProviderTypeOK
<1>2. UNCHANGED mail => mail' = [mail EXCEPT ![c][attempt[c]] = mail[c][attempt[c]]]
  BY <1>1
<1>3. CASE HearAccepted(c)
  <2>1. phase' = [phase EXCEPT ![c] = "sent"] /\ kind' = [kind EXCEPT ![c] = kind[c]]
    BY <1>1, <1>3 DEF HearAccepted, BodyMatters
  <2>2. "sent" \in Phase
    BY DEF Phase
  <2>3. QED
    BY <1>1, <1>2, <1>3, <2>1, <2>2, HearKeeps DEF HearAccepted
<1>4. CASE HearRefused(c)
  <2>1. PICK k \in {"rate_limit", "transient", "permanent"} : FailOrPause(c, k, Retryable(k))
    BY <1>4 DEF HearRefused
  <2>2. Retryable(k) \in BOOLEAN
    BY DEF Retryable
  <2>3. QED
    BY <1>4, <2>1, <2>2, FailOrPauseKeeps DEF HearRefused
<1>5. CASE TimeOut(c)
  BY <1>1, <1>2, <1>5, FailOrPauseKeeps DEF TimeOut
<1>6. CASE LoseConnection(c)
  BY <1>1, <1>2, <1>6, FailOrPauseKeeps DEF LoseConnection
<1>7. CASE PostAgain(c)
  <2>1. attempt[c] < MaxRetries /\ heard[c][attempt[c]] \in {"lost", "refused"}
    BY <1>1, <1>7 DEF CallInv, PostAgain
  <2>2. attempt[c] + 1 \in Attempt
    BY <1>1, <2>1, ProviderAssumption DEF Attempt
  <2>3. heard[c][attempt[c] + 1] = "unsent"
    BY <1>1, <2>2 DEF CallInv
  <2>4. ASSUME NEW b \in Attempt
        PROVE  /\ b < attempt[c] + 1 => heard[c][b] \in {"lost", "refused"}
               /\ b > attempt[c] + 1 => heard[c][b] = "unsent"
    <3>1. b \in Nat
      BY ProviderAssumption DEF Attempt
    <3>2. (b < attempt[c] => heard[c][b] \in {"lost", "refused"})
          /\ (b > attempt[c] => heard[c][b] = "unsent")
      BY <1>1 DEF CallInv
    <3>3. QED
      BY <1>1, <2>1, <3>1, <3>2
  <2>5. QED
    BY <1>7, <2>2, <2>3, <2>4, PostKeeps DEF PostAgain
<1>8. ASSUME NEW a \in Attempt, TakeMail(c, a) PROVE ProviderInv'
  <2>1. /\ mail[c][a] = "open" /\ UNCHANGED <<phase, attempt, kind, heard>>
        /\ mail' = [mail EXCEPT ![c][a] = "taken"]
    BY <1>8 DEF TakeMail
  <2>2. ProviderTypeOK'
    BY <1>1, <2>1 DEF ProviderTypeOK
  <2>3. \A d \in Call \ {c} : CallState(d)' = CallState(d)
    BY <1>1, <2>1 DEF CallState
  <2>4. \A b \in Attempt : mail'[c][b] = IF b = a THEN "taken" ELSE mail[c][b]
    BY <1>1, <2>1
  <2>5. CallInv(c)'
    BY <1>1, <2>1, <2>4 DEF CallInv
  <2>6. QED
    BY <2>2, <2>3, <2>5, OneCallSteps
<1>9. QED
  BY <1>3, <1>4, <1>5, <1>6, <1>7, <1>8 DEF ProviderStep

\* A second copy needs a lost reply: the attempts before the last one were
\* lost or refused, and what was refused is never taken.
LEMMA CopiesAreExplained ==
  ASSUME ProviderInv
  PROVE  CopiesNeedLostReplies
<1>1. ASSUME NEW c \in Call
      PROVE  Cardinality(Taken(c)) <= Cardinality(LostReplies(c)) + 1
  <2>1. CallInv(c) /\ ProviderTypeOK /\ attempt[c] \in Nat
    BY CallTypes DEF ProviderInv
  <2>2. Taken(c) \subseteq LostReplies(c) \cup {attempt[c]}
    <3>1. ASSUME NEW a \in Attempt, mail[c][a] = "taken", a # attempt[c]
          PROVE  heard[c][a] = "lost"
      <4>1. a \in Nat
        BY ProviderAssumption DEF Attempt
      <4>2. QED
        BY <2>1, <3>1, <4>1 DEF CallInv
    <3>2. QED
      BY <3>1 DEF Taken, LostReplies
  <2>3. IsFiniteSet(Attempt)
    BY FS_Interval, ProviderAssumption DEF Attempt
  <2>4. IsFiniteSet(LostReplies(c))
    BY <2>3, FS_Subset DEF LostReplies
  <2>5. /\ IsFiniteSet(LostReplies(c) \cup {attempt[c]})
        /\ Cardinality(LostReplies(c) \cup {attempt[c]}) <= Cardinality(LostReplies(c)) + 1
        /\ Cardinality(LostReplies(c)) \in Nat
        /\ Cardinality(LostReplies(c) \cup {attempt[c]}) \in Nat
    BY <2>4, FS_AddElement, FS_CardinalityType
  <2>6. Cardinality(Taken(c)) <= Cardinality(LostReplies(c) \cup {attempt[c]})
        /\ Cardinality(Taken(c)) \in Nat
    <3>1. Taken(c) \in SUBSET (LostReplies(c) \cup {attempt[c]})
      BY <2>2
    <3>2. QED
      BY <2>5, <3>1, FS_Subset, FS_CardinalityType
  <2>7. QED
    BY <2>5, <2>6
<1>2. QED
  BY <1>1 DEF CopiesNeedLostReplies
-----------------------------------------------------------------------------
(***************************************************************************)
(* The endpoint.                                                           *)
(***************************************************************************)
RequestTypes ==
  /\ env \in Environment
  /\ pc \in [Call -> {"idle", "configured", "reading", "sending", "answered"}]
  /\ status \in [Call -> Status]
  /\ captured \in [Call -> BOOLEAN]

\* What the limiter does in a step of the endpoint.
LimiterNext == (\E k \in Client : TryConsume(k)) \/ Tick

\* Every step of the limiter keeps its invariant.
LEMMA LimiterKeeps ==
  ASSUME LimiterInv, [LimiterNext]_vars
  PROVE  LimiterInv'
<1>1. CASE LimiterNext
  BY <1>1, AllowKeeps, DenyKeeps, TickKeeps DEF LimiterNext, TryConsume
<1>2. CASE UNCHANGED vars
  <2>1. UNCHANGED <<now, hits, earlier, granted, retryAt>>
    BY <1>2 DEF vars
  <2>2. Tracked' = Tracked
    BY <2>1 DEF Tracked
  <2>3. TypeOK'
    BY <2>1, <2>2 DEF LimiterInv, TypeOK
  <2>4. HitsAreNumbered'
    BY <2>1 DEF LimiterInv, HitsAreNumbered, AtNow
  <2>5. StoredIsGranted' /\ AtMostMaxHitsPerWindow'
    BY <2>1 DEF LimiterInv, StoredIsGranted, AtMostMaxHitsPerWindow, Recent, InWindow
  <2>6. RetryIsKept'
    BY <2>1 DEF LimiterInv, RetryIsKept, After
  <2>7. QED
    BY <2>3, <2>4, <2>5, <2>6 DEF LimiterInv
<1>3. QED
  BY <1>1, <1>2

\* The endpoint touches the limiter only by tryConsume; time is the only other
\* change.
LEMMA StepUsesLimiter == [ContactNext]_contactVars => [LimiterNext]_vars
BY DEF ContactNext, contactVars, RequestStep, Arrive, AnswerPreflight, RejectBody, Settle,
       Consume, Submit, OtherRequest, Clock, LimiterNext, TryConsume

\* The initial state satisfies every invariant.
LEMMA ContactStart == ContactInit => ContactInv
<1> SUFFICES ASSUME ContactInit PROVE ContactInv
  OBVIOUS
<1>1. LimiterInv
  <2>1. /\ now = 0 /\ now \in 0 .. Horizon
        /\ \A k \in Client : hits[k] = {} /\ earlier[k] = {} /\ granted[k] = {} /\ retryAt[k] = -1
    BY LimiterAssumption DEF ContactInit, Init
  <2>2. Tracked = {} /\ IsFiniteSet({}) /\ Cardinality({}) = 0
    BY <2>1, FS_EmptySet DEF Tracked
  <2>3. IsList(earlier, Tracked)
    BY <2>1, <2>2 DEF IsList
  <2>4. TypeOK
    <3>1. /\ hits \in [Client -> SUBSET Hit] /\ granted \in [Client -> SUBSET Hit]
          /\ retryAt \in [Client -> Int] /\ earlier \in [Client -> SUBSET Client]
      BY DEF ContactInit, Init
    <3>2. QED
      BY <2>1, <2>2, <2>3, <3>1, LimiterAssumption DEF TypeOK
  <2>5. \A k \in Client : Recent(hits[k]) = {} /\ InWindow(granted[k]) = {}
    BY <2>1 DEF Recent, InWindow
  <2>6. StoredIsGranted /\ AtMostMaxHitsPerWindow
    <3>1. \A k \in Client : Cardinality(InWindow(granted[k])) = 0
      BY <2>5, FS_EmptySet
    <3>2. QED
      BY <2>5, <3>1, LimiterAssumption DEF StoredIsGranted, AtMostMaxHitsPerWindow
  <2>7. QED
    BY <2>1, <2>4, <2>6 DEF LimiterInv, HitsAreNumbered, RetryIsKept
<1>2. ProviderInv
  <2>1. ProviderTypeOK
    BY ProviderAssumption DEF ContactInit, ProviderInit, ProviderTypeOK, Attempt, Phase, Kind, Heard
  <2>2. ASSUME NEW c \in Call PROVE CallInv(c)
    <3>1. /\ phase[c] = "idle" /\ attempt[c] = 0 /\ kind[c] = "none" /\ 0 \in Attempt
          /\ \A a \in Attempt : heard[c][a] = "unsent" /\ mail[c][a] = "unsent" /\ a \in Nat
      BY ProviderAssumption DEF ContactInit, ProviderInit, Attempt
    <3>2. QED
      BY <3>1 DEF CallInv
  <2>3. QED
    BY <2>1, <2>2 DEF ProviderInv
<1>3. RequestInv
  BY DEF ContactInit, ProviderInit, RequestInv
<1>4. RequestTypes
  BY DEF ContactInit, RequestTypes, Status
<1>5. QED
  BY <1>1, <1>2, <1>3, <1>4 DEF ContactInv, ContactTypeOK, RequestTypes, LimiterInv, ProviderInv

\* A step of the provider is about one call that is under way.
LEMMA ProviderStepShape ==
  ASSUME ProviderTypeOK, NEW c \in Call, ProviderStep(c)
  PROVE  /\ phase[c] \in {"posting", "pausing"} \/ UNCHANGED <<phase, kind>>
         /\ \A d \in Call \ {c} : phase'[d] = phase[d] /\ kind'[d] = kind[d]
BY DEF ProviderTypeOK, ProviderStep, HearAccepted, HearRefused, TimeOut, LoseConnection, PostAgain,
       TakeMail, Post, FailOrPause

\* One request's part of RequestInv.
RequestPart(r) ==
  /\ pc[r] \in {"idle", "configured", "reading"} => phase[r] = "idle"
  /\ pc[r] # "answered" => ~captured[r]
  /\ pc[r] = "answered" =>
       /\ status[r] = 202 => phase[r] = IF captured[r] THEN "idle" ELSE "sent"
       /\ status[r] = 500 => phase[r] = "failed" /\ kind[r] = "permanent"
       /\ status[r] \in {204, 400, 429} => phase[r] = "idle"

\* Requests share nothing but the limiter: a step concerns one of them.
LEMMA OneRequestSteps ==
  ASSUME RequestInv, NEW r \in Call, RequestPart(r)',
         \A q \in Call \ {r} :
           /\ pc'[q] = pc[q] /\ status'[q] = status[q] /\ captured'[q] = captured[q]
           /\ phase'[q] = phase[q] /\ kind'[q] = kind[q]
  PROVE  RequestInv'
<1>1. ASSUME NEW q \in Call PROVE RequestPart(q)'
  <2>1. CASE q = r
    BY <2>1
  <2>2. CASE q # r
    <3>1. RequestPart(q)
      BY DEF RequestInv, RequestPart
    <3>2. QED
      BY <2>2, <3>1 DEF RequestPart
  <2>3. QED
    BY <2>1, <2>2
<1>2. QED
  BY <1>1 DEF RequestInv, RequestPart

\* Every step of a request keeps what is known of requests and calls.
LEMMA RequestKeeps ==
  ASSUME ProviderInv, RequestInv, RequestTypes, NEW r \in Call, RequestStep(r)
  PROVE  ProviderInv' /\ RequestInv' /\ RequestTypes'
<1>1. ProviderTypeOK /\ RequestPart(r)
  BY DEF ProviderInv, RequestInv, RequestPart
<1>2. UNCHANGED providerVars => ProviderInv'
  <2>1. ASSUME UNCHANGED providerVars PROVE ProviderInv'
    <3>1. UNCHANGED <<phase, attempt, kind, heard, mail>>
      BY <2>1 DEF providerVars
    <3>2. ProviderTypeOK' /\ \A c \in Call : CallInv(c)'
      BY <3>1 DEF ProviderInv, ProviderTypeOK, CallInv
    <3>3. QED
      BY <3>2 DEF ProviderInv
  <2>2. QED
    BY <2>1
<1>3. ASSUME UNCHANGED <<phase, kind, captured, env>>, phase[r] = "idle", ~captured[r],
             NEW p \in {"configured", "reading"}, pc' = [pc EXCEPT ![r] = p],
             UNCHANGED status
      PROVE  RequestInv' /\ RequestTypes'
  <2>1. RequestTypes'
    BY <1>3 DEF RequestTypes
  <2>2. RequestPart(r)'
    BY <1>3 DEF RequestPart, RequestTypes
  <2>3. QED
    BY <1>3, <2>1, <2>2, OneRequestSteps DEF RequestTypes
<1>4. ASSUME UNCHANGED <<phase, kind, env>>, NEW s \in Status, Answer(r, s),
             captured' \in [Call -> BOOLEAN],
             \A q \in Call \ {r} : captured'[q] = captured[q],
             s = 202 => phase[r] = IF captured'[r] THEN "idle" ELSE "sent",
             s = 500 => phase[r] = "failed" /\ kind[r] = "permanent",
             s \in {204, 400, 429} => phase[r] = "idle"
      PROVE  RequestInv' /\ RequestTypes'
  <2>1. RequestTypes'
    BY <1>4 DEF RequestTypes, Answer
  <2>2. pc'[r] = "answered" /\ status'[r] = s
    BY <1>4 DEF RequestTypes, Answer
  <2>3. RequestPart(r)'
    BY <1>4, <2>2 DEF RequestPart
  <2>4. QED
    BY <1>4, <2>1, <2>3, OneRequestSteps DEF RequestTypes, Answer
<1>5. captured \in [Call -> BOOLEAN] /\ captured[r] \in BOOLEAN
  BY DEF RequestTypes
<1>6. 202 \in Status /\ 204 \in Status /\ 400 \in Status /\ 429 \in Status /\ 500 \in Status
      /\ 503 \in Status
  BY DEF Status
<1>7. UNCHANGED providerVars => UNCHANGED <<phase, kind>>
  BY DEF providerVars
<1>8. CASE Arrive(r)
  <2>1. phase[r] = "idle" /\ ~captured[r]
    BY <1>1, <1>8 DEF Arrive, RequestPart
  <2>2. CASE pc' = [pc EXCEPT ![r] = "configured"] /\ UNCHANGED status
    BY <1>2, <1>3, <1>7, <1>8, <2>1, <2>2 DEF Arrive
  <2>3. CASE Answer(r, 503)
    BY <1>2, <1>4, <1>5, <1>6, <1>7, <1>8, <2>1, <2>3 DEF Arrive
  <2>4. QED
    BY <1>8, <2>2, <2>3 DEF Arrive
<1>9. CASE AnswerPreflight(r)
  <2>1. phase[r] = "idle"
    BY <1>1, <1>9 DEF AnswerPreflight, RequestPart
  <2>2. QED
    BY <1>2, <1>4, <1>5, <1>6, <1>7, <1>9, <2>1 DEF AnswerPreflight
<1>10. CASE RejectBody(r)
  <2>1. phase[r] = "idle"
    BY <1>1, <1>10 DEF RejectBody, RequestPart
  <2>2. QED
    BY <1>2, <1>4, <1>5, <1>6, <1>7, <1>10, <2>1 DEF RejectBody
<1>11. CASE Settle(r)
  <2> DEFINE s == IF phase[r] = "sent" THEN 202 ELSE FailureStatus(kind[r])
  <2>1. ~captured[r] /\ phase[r] \in {"sent", "failed"}
    BY <1>1, <1>11 DEF Settle, RequestPart
  <2>2. s \in Status /\ (s = 202 => phase[r] = "sent") /\ s \notin {204, 400, 429}
        /\ (s = 500 => phase[r] = "failed" /\ kind[r] = "permanent")
    BY <1>6, <2>1 DEF FailureStatus
  <2>3. Answer(r, s) /\ UNCHANGED <<providerVars, env, captured>>
    BY <1>11 DEF Settle
  <2> HIDE DEF s
  <2>4. QED
    BY <1>2, <1>4, <1>5, <1>7, <2>1, <2>2, <2>3
<1>12. ASSUME NEW k \in Client, Consume(r, k) PROVE ProviderInv' /\ RequestInv' /\ RequestTypes'
  <2>1. phase[r] = "idle" /\ ~captured[r]
    BY <1>1, <1>12 DEF Consume, RequestPart
  <2>2. CASE pc' = [pc EXCEPT ![r] = "reading"] /\ UNCHANGED status
    BY <1>2, <1>3, <1>7, <1>12, <2>1, <2>2 DEF Consume
  <2>3. CASE Answer(r, 429)
    BY <1>2, <1>4, <1>5, <1>6, <1>7, <1>12, <2>1, <2>3 DEF Consume
  <2>4. QED
    BY <1>12, <2>2, <2>3 DEF Consume
<1>13. ASSUME NEW h \in Headers, Submit(r, h) PROVE ProviderInv' /\ RequestInv' /\ RequestTypes'
  <2>1. phase[r] = "idle" /\ ~captured[r] /\ pc[r] = "reading" /\ UNCHANGED env
    BY <1>1, <1>13 DEF Submit, RequestPart
  <2>2. CASE Unavailable(r)
    BY <1>2, <1>4, <1>5, <1>6, <1>7, <2>1, <2>2 DEF Unavailable
  <2>3. CASE Capture(r)
    <3>1. captured' = [captured EXCEPT ![r] = TRUE] /\ captured'[r]
      BY <1>5, <2>3 DEF Capture
    <3>2. captured' \in [Call -> BOOLEAN] /\ \A q \in Call \ {r} : captured'[q] = captured[q]
      BY <1>5, <3>1
    <3>3. QED
      BY <1>2, <1>4, <1>6, <1>7, <2>1, <2>3, <3>1, <3>2 DEF Capture
  <2>4. CASE SendLive(r)
    <3>1. ProviderInv'
      BY <2>4, StartSendKeeps DEF SendLive
    <3>2. /\ pc' = [pc EXCEPT ![r] = "sending"] /\ UNCHANGED <<status, captured, kind>>
          /\ phase' = [phase EXCEPT ![r] = "posting"]
      BY <2>4 DEF SendLive, StartSend, Post
    <3>3. RequestTypes'
      BY <2>1, <3>2 DEF RequestTypes
    <3>4. RequestPart(r)'
      BY <2>1, <3>2 DEF RequestPart, RequestTypes
    <3>5. \A q \in Call \ {r} : pc'[q] = pc[q] /\ phase'[q] = phase[q]
      BY <1>1, <3>2 DEF RequestTypes, ProviderTypeOK
    <3>6. QED
      BY <3>1, <3>2, <3>3, <3>4, <3>5, OneRequestSteps
  <2>5. QED
    BY <1>13, <2>2, <2>3, <2>4 DEF Submit
<1>14. CASE ProviderStep(r) /\ UNCHANGED <<vars, requestVars>>
  <2>1. UNCHANGED <<env, pc, status, captured>>
    BY <1>14 DEF requestVars
  <2>2. RequestPart(r)'
    BY <1>1, <1>14, <2>1, ProviderStepShape DEF RequestPart
  <2>3. RequestInv'
    BY <1>1, <1>14, <2>1, <2>2, ProviderStepShape, OneRequestSteps
  <2>4. RequestTypes'
    BY <2>1 DEF RequestTypes
  <2>5. QED
    BY <1>14, <2>3, <2>4, ProviderStepKeeps
<1>15. QED
  BY <1>8, <1>9, <1>10, <1>11, <1>12, <1>13, <1>14 DEF RequestStep

\* Every step of the endpoint keeps the invariant.
LEMMA ContactStep == ContactInv /\ [ContactNext]_contactVars => ContactInv'
<1> SUFFICES ASSUME ContactInv, [ContactNext]_contactVars PROVE ContactInv'
  OBVIOUS
<1>1. LimiterInv /\ ProviderInv /\ RequestInv /\ RequestTypes
  BY DEF ContactInv, ContactTypeOK, RequestTypes
<1>2. LimiterInv'
  BY <1>1, StepUsesLimiter, LimiterKeeps
<1>3. ASSUME UNCHANGED <<providerVars, requestVars>>
      PROVE  ProviderInv' /\ RequestInv' /\ RequestTypes'
  <2>1. UNCHANGED <<phase, attempt, kind, heard, mail>> /\ UNCHANGED <<env, pc, status, captured>>
    BY <1>3 DEF providerVars, requestVars
  <2>2. ProviderTypeOK' /\ (\A c \in Call : CallInv(c)')
    BY <1>1, <2>1 DEF ProviderInv, ProviderTypeOK, CallInv
  <2>3. RequestInv' /\ RequestTypes'
    BY <1>1, <2>1 DEF RequestInv, RequestTypes
  <2>4. QED
    BY <2>2, <2>3 DEF ProviderInv
<1>4. ProviderInv' /\ RequestInv' /\ RequestTypes'
  <2>1. CASE \E r \in Call : RequestStep(r)
    BY <1>1, <2>1, RequestKeeps
  <2>2. CASE \E k \in Client : OtherRequest(k)
    BY <1>3, <2>2 DEF OtherRequest
  <2>3. CASE Clock
    BY <1>3, <2>3 DEF Clock
  <2>4. CASE UNCHANGED contactVars
    BY <1>3, <2>4 DEF contactVars
  <2>5. QED
    BY <2>1, <2>2, <2>3, <2>4 DEF ContactNext
<1>5. QED
  BY <1>2, <1>4 DEF ContactInv, ContactTypeOK, RequestTypes, LimiterInv, ProviderInv
-----------------------------------------------------------------------------
\* Both modules count alike.
LEMMA SameCardinality == \A S : Window!Cardinality(S) = Cardinality(S)
BY DEF Window!Cardinality, Cardinality

(***************************************************************************)
(* The limiter and the promise it implements: the keys in the Map are the  *)
(* callers with calls that count.                                          *)
(***************************************************************************)
LEMMA BusyIsKept ==
  ASSUME LimiterInv
  PROVE  /\ Window!Busy = Kept
         /\ \A k \in Client : Counted[k] = Recent(hits[k])
<1>1. \A k \in Client : Counted[k] = Recent(hits[k])
  BY KeyInvariant DEF Counted
<1>2. QED
  BY <1>1 DEF Window!Busy, Kept

\* After an allowed call the window holds what was recent, and the call.
LEMMA CountedAfterAllow ==
  ASSUME LimiterInv, NEW k \in Client, Allow(k)
  PROVE  Counted' = [u \in Client |->
           IF u = k THEN Counted[k] \cup {NewHit(Counted[k])}
           ELSE IF u \in Victims(k) THEN {} ELSE Counted[u]]
<1>1. LimiterInv'
  BY AllowKeeps
<1>2. TypeOK /\ now' = now /\ now \in 0 .. Horizon /\ now \in Int
  BY KeyTypes DEF LimiterInv, Allow, TypeOK
<1>3. ASSUME NEW u \in Client
      PROVE  InWindow(granted[u])' =
               IF u = k THEN Counted[k] \cup {NewHit(Counted[k])}
               ELSE IF u \in Victims(k) THEN {} ELSE Counted[u]
  <2>1. InWindow(granted[u])' = Recent(hits'[u])
    BY <1>1, <1>2 DEF LimiterInv, StoredIsGranted, Recent
  <2>2. Counted[u] = Recent(hits[u]) /\ Recent(Recent(hits[u])) = Recent(hits[u])
    BY BusyIsKept, KeyInvariant
  <2>3. CASE u = k
    <3>1. hits'[k] = Push(Recent(hits[k]))
      BY DEF Allow
    <3>2. Recent(hits[k]) \in SUBSET Hit /\ IsFiniteSet(Recent(hits[k]))
      BY <1>2, KeyTypes
    <3>3. \A h \in Recent(hits[k]) :
            h.at <= now /\ (h.at = now => h.nth < Cardinality(AtNow(Recent(hits[k]))))
      BY KeyInvariant
    <3>4. Recent(Push(Recent(hits[k]))) = Push(Recent(Recent(hits[k])))
      BY <1>2, <3>2, <3>3, PushAddsOne
    <3>5. QED
      BY <2>1, <2>2, <2>3, <3>1, <3>4 DEF Push
  <2>4. CASE u # k /\ u \in Victims(k)
    BY <2>1, <2>4 DEF Allow, Recent
  <2>5. CASE u # k /\ u \notin Victims(k)
    BY <2>1, <2>2, <2>5 DEF Allow, KeptHits
  <2>6. QED
    BY <2>3, <2>4, <2>5
<1>4. QED
  BY <1>3 DEF Counted

\* An allowed call is a grant, and the victims are whom it may forget.
LEMMA AllowGrants ==
  ASSUME LimiterInv, NEW k \in Client, Allow(k)
  PROVE  Victims(k) \in Window!Forgettable(k) /\ Window!Grant(k, Victims(k))
<1>1. TypeOK /\ now' = now /\ now \in 0 .. Horizon
  BY DEF LimiterInv, Allow, TypeOK
<1>2. Window!Busy = Kept /\ Counted[k] = Recent(hits[k])
  BY BusyIsKept
<1>3. Victims(k) \in Window!Forgettable(k)
  <2>1. Counted[k] = {} <=> k \notin Kept
    BY <1>2 DEF Kept
  <2>2. CASE MakesRoom(k)
    <3>1. \E v \in Kept : Victims(k) = {v}
      BY <1>1, <2>2, OneVictim
    <3>2. QED
      BY <1>2, <2>1, <2>2, <3>1, SameCardinality DEF Window!Forgettable, MakesRoom
  <2>3. CASE ~ MakesRoom(k)
    BY <1>2, <2>1, <2>3, SameCardinality DEF Window!Forgettable, MakesRoom, Victims
  <2>4. QED
    BY <2>2, <2>3
<1>4. NewHit(Counted[k]).at = now /\ NewHit(Counted[k]) \notin Counted[k]
  <2>1. Recent(hits[k]) \in SUBSET Hit /\ IsFiniteSet(Recent(hits[k]))
    BY <1>1, KeyTypes
  <2>2. \A h \in Recent(hits[k]) :
          h.at <= now /\ (h.at = now => h.nth < Cardinality(AtNow(Recent(hits[k]))))
    BY KeyInvariant
  <2>3. QED
    BY <1>1, <1>2, <2>1, <2>2, PushAddsOne
<1>5. \E h \in Counted'[k] \ Counted[k] :
        /\ h.at = now
        /\ Counted' = [u \in Client |->
             IF u = k THEN Counted[k] \cup {h}
             ELSE IF u \in Victims(k) THEN {} ELSE Counted[u]]
  <2>1. NewHit(Counted[k]) \in Counted'[k] \ Counted[k]
    BY <1>4, CountedAfterAllow
  <2>2. QED
    BY <1>4, <2>1, CountedAfterAllow
<1>6. retryAt' = [u \in Client |-> IF u \in Victims(k) \cup {k} THEN -1 ELSE retryAt[u]]
  BY DEF Allow
<1>7. Cardinality(Counted[k]) < MaxHits
  BY <1>2 DEF Allow
<1>8. QED
  BY <1>1, <1>3, <1>5, <1>6, <1>7, SameCardinality DEF Window!Grant

\* A denied call is a refusal: nothing is counted, and Retry-After is late enough.
LEMMA DenyRefuses ==
  ASSUME LimiterInv, NEW k \in Client, Deny(k)
  PROVE  Window!Refuse(k)
<1> DEFINE S == Recent(hits[k])
           t == now + Second * RetryAfterSec(Oldest(k))
<1>1. TypeOK /\ now' = now /\ granted' = granted /\ Cardinality(S) >= MaxHits
      /\ Counted[k] = S
  BY BusyIsKept DEF LimiterInv, Deny
<1>2. retryAt' = [retryAt EXCEPT ![k] = t] /\ retryAt'[k] = t
  BY <1>1 DEF Deny, TypeOK
<1>3. /\ t \in Nat /\ t > now /\ t >= Oldest(k) + WindowMs /\ Oldest(k) \in 0 .. Horizon
      /\ Cardinality(After(S, Oldest(k))) < MaxHits
  BY <1>1, DenialPromises
<1>4. Cardinality(Window!CountingAt(S, t)) < MaxHits
  <2> HIDE DEF t
  <2>1. S \in SUBSET Hit /\ IsFiniteSet(S)
    BY <1>1, KeyTypes
  <2>2. After(S, Oldest(k)) \in SUBSET S
    BY DEF After
  <2>3. Window!CountingAt(S, t) \in SUBSET After(S, Oldest(k))
    <3>1. \A h \in S : h.at \in Int
      BY <2>1 DEF Hit
    <3>2. QED
      BY <1>3, <3>1, LimiterAssumption DEF Window!CountingAt, After
  <2>4. IsFiniteSet(After(S, Oldest(k)))
    BY <2>1, <2>2, FS_Subset
  <2>5. /\ Cardinality(Window!CountingAt(S, t)) <= Cardinality(After(S, Oldest(k)))
        /\ Cardinality(Window!CountingAt(S, t)) \in Nat
        /\ Cardinality(After(S, Oldest(k))) \in Nat
    BY <2>3, <2>4, FS_Subset, FS_CardinalityType
  <2>6. QED
    BY <1>3, <2>5, LimiterAssumption
<1>5. Counted' = Counted
  BY <1>1 DEF Counted, InWindow
<1>6. QED
  BY <1>1, <1>2, <1>3, <1>4, <1>5, SameCardinality DEF Window!Refuse

\* What leaves the window counts no more.
LEMMA TickPasses ==
  ASSUME LimiterInv, Tick
  PROVE  Window!Pass
<1>1. /\ TypeOK /\ now \in Int /\ now' = now + 1
      /\ granted' = granted /\ retryAt' = retryAt
  BY LimiterAssumption DEF LimiterInv, TypeOK, Tick
<1>2. ASSUME NEW k \in Client
      PROVE  InWindow(granted[k])' = Window!CountingAt(Counted[k], now')
  <2>1. \A h \in granted[k] : h.at \in Int
    BY <1>1, KeyTypes
  <2>2. QED
    BY <1>1, <2>1, LimiterAssumption DEF Counted, InWindow, Window!CountingAt
<1>3. Counted' = [k \in Client |-> Window!CountingAt(Counted[k], now')]
  BY <1>2 DEF Counted
<1>4. QED
  BY <1>1, <1>3 DEF Window!Pass

\* Nothing counts at the start.
LEMMA WindowStart == Init => Window!Init
BY DEF Init, Window!Init, Counted, InWindow

\* Every step of the limiter is a step of SlidingWindow, or none.
LEMMA WindowStep ==
  ASSUME LimiterInv, [LimiterNext]_vars
  PROVE  [Window!Next]_(Window!vars)
<1>1. CASE \E k \in Client : Allow(k)
  BY <1>1, AllowGrants DEF Window!Next
<1>2. CASE \E k \in Client : Deny(k)
  BY <1>2, DenyRefuses DEF Window!Next
<1>3. CASE Tick
  BY <1>3, TickPasses DEF Window!Next
<1>4. CASE UNCHANGED vars
  BY <1>4 DEF vars, Window!vars, Counted, InWindow
<1>5. QED
  BY <1>1, <1>2, <1>3, <1>4 DEF LimiterNext, TryConsume
-----------------------------------------------------------------------------
(***************************************************************************)
(* The inductive invariant holds in every behaviour of the endpoint.       *)
(***************************************************************************)
THEOREM ContactInvariance == ContactSpec => []ContactInv
BY ContactStart, ContactStep, PTL DEF ContactSpec

(***************************************************************************)
(* Type correctness: the limiter's Map stays a list of at most MAX_KEYS    *)
(* keys, and a call of the provider makes at most MaxRetries + 1 attempts. *)
(***************************************************************************)
THEOREM ContactTypeCorrect == ContactSpec => []ContactTypeOK
<1>1. ContactInv => ContactTypeOK
  BY DEF ContactInv
<1>2. QED
  BY <1>1, ContactInvariance, PTL

(***************************************************************************)
(* No window holds more than MaxHits allowed calls of a key, whatever      *)
(* instants were pruned, unless the key was dropped to make room.          *)
(***************************************************************************)
THEOREM LimiterIsTight == ContactSpec => []AtMostMaxHitsPerWindow
<1>1. ContactInv => AtMostMaxHitsPerWindow
  BY DEF ContactInv, LimiterInv
<1>2. QED
  BY <1>1, ContactInvariance, PTL

(***************************************************************************)
(* Behind the endpoint, the limiter implements SlidingWindow: whom it      *)
(* lets through, whom it drops and what it tells the others depends only   *)
(* on the calls allowed within the window.                                 *)
(***************************************************************************)
THEOREM LimiterImplementsWindow == ContactSpec => ImplementsWindow
<1>1. ContactInit => Window!Init
  BY WindowStart DEF ContactInit
<1>2. ASSUME ContactInv, [ContactNext]_contactVars PROVE [Window!Next]_(Window!vars)
  BY <1>2, StepUsesLimiter, WindowStep DEF ContactInv
<1>3. QED
  BY <1>1, <1>2, ContactInvariance, PTL DEF ContactSpec, ImplementsWindow, Window!Spec

(***************************************************************************)
(* A caller who waits as long as Retry-After said is not denied again,     *)
(* however many other keys come and go meanwhile.                          *)
(***************************************************************************)
THEOREM RetryAfterSuffices == ContactSpec => RetryAfterIsEnough
<1>1. ASSUME ContactInv, [ContactNext]_contactVars
      PROVE  [\A k \in Client : (retryAt[k] # -1 /\ now >= retryAt[k]) => ~Deny(k)]_vars
  <2>1. ASSUME NEW k \in Client, retryAt[k] # -1, now >= retryAt[k], Deny(k) PROVE FALSE
    <3>1. LimiterInv /\ TypeOK /\ now \in Int /\ retryAt[k] \in Int
      BY <1>1 DEF ContactInv, LimiterInv, TypeOK
    <3>2. PICK oldest \in 0 .. Horizon :
            retryAt[k] >= oldest + WindowMs /\ Cardinality(After(hits[k], oldest)) < MaxHits
      BY <2>1, <3>1 DEF LimiterInv, RetryIsKept
    <3>3. Recent(hits[k]) \in SUBSET After(hits[k], oldest)
          /\ After(hits[k], oldest) \in SUBSET hits[k]
      <4>1. \A h \in hits[k] : h.at \in Int
        BY <3>1, KeyTypes
      <4>2. QED
        BY <2>1, <3>1, <3>2, <4>1, LimiterAssumption DEF Recent, After
    <3>4. IsFiniteSet(After(hits[k], oldest))
      <4>1. IsFiniteSet(hits[k])
        BY <3>1, KeyTypes
      <4>2. QED
        BY <3>3, <4>1, FS_Subset
    <3>5. /\ Cardinality(Recent(hits[k])) <= Cardinality(After(hits[k], oldest))
          /\ Cardinality(Recent(hits[k])) \in Nat /\ Cardinality(After(hits[k], oldest)) \in Nat
      BY <3>3, <3>4, FS_Subset, FS_CardinalityType
    <3>6. QED
      BY <2>1, <3>2, <3>5, LimiterAssumption DEF Deny
  <2>2. QED
    BY <2>1
<1>2. QED
  BY <1>1, ContactInvariance, PTL DEF ContactSpec, RetryAfterIsEnough

(***************************************************************************)
(* A mail leaves more often than once only by lost replies.                *)
(***************************************************************************)
THEOREM CopiesAreAccounted == ContactSpec => []CopiesNeedLostReplies
<1>1. ContactInv => CopiesNeedLostReplies
  BY CopiesAreExplained DEF ContactInv
<1>2. QED
  BY <1>1, ContactInvariance, PTL

(***************************************************************************)
(* What the caller is told is true of the mail.                            *)
(***************************************************************************)
THEOREM AnswersAreTrue == ContactSpec => []AnswerIsTrue
<1>1. ASSUME ContactInv PROVE AnswerIsTrue
  <2>1. ASSUME NEW r \in Call, pc[r] = "answered"
        PROVE  /\ status[r] = 202 => (Taken(r) # {} <=> ~captured[r])
               /\ status[r] = 500 =>
                    \A a \in Attempt : mail[r][a] \in {"open", "taken"} => a \in LostReplies(r)
               /\ status[r] \in {204, 400, 429} => \A a \in Attempt : mail[r][a] = "unsent"
    <3>1. /\ CallInv(r) /\ ProviderTypeOK /\ attempt[r] \in Attempt /\ attempt[r] \in Nat
          /\ \A a \in Attempt : a \in Nat
      BY <1>1, CallTypes, ProviderAssumption DEF ContactInv, ProviderInv, Attempt
    <3>2. RequestPart(r)
      BY <1>1 DEF ContactInv, RequestInv, RequestPart
    <3>3. phase[r] = "idle" => \A a \in Attempt : mail[r][a] = "unsent"
      <4>1. ASSUME phase[r] = "idle", NEW a \in Attempt PROVE heard[r][a] = "unsent"
        <5>1. attempt[r] = 0 /\ heard[r][0] = "unsent"
          BY <3>1, <4>1 DEF CallInv
        <5>2. a = 0 \/ a > attempt[r]
          BY <3>1, <5>1
        <5>3. QED
          BY <3>1, <5>1, <5>2 DEF CallInv
      <4>2. QED
        BY <3>1, <4>1 DEF CallInv
    <3>4. CASE status[r] = 202
      <4>1. CASE captured[r]
        BY <2>1, <3>2, <3>3, <3>4, <4>1 DEF RequestPart, Taken
      <4>2. CASE ~captured[r]
        <5>1. mail[r][attempt[r]] = "taken"
          BY <2>1, <3>1, <3>2, <3>4, <4>2 DEF RequestPart, CallInv
        <5>2. QED
          BY <3>1, <3>4, <4>2, <5>1 DEF Taken
      <4>3. QED
        BY <4>1, <4>2
    <3>5. CASE status[r] = 500
      <4>1. heard[r][attempt[r]] = "refused"
        BY <2>1, <3>1, <3>2, <3>5 DEF RequestPart, CallInv
      <4>2. ASSUME NEW a \in Attempt, mail[r][a] \in {"open", "taken"} PROVE heard[r][a] = "lost"
        <5>1. a < attempt[r] \/ a = attempt[r] \/ a > attempt[r]
          BY <3>1
        <5>2. QED
          BY <3>1, <4>1, <4>2, <5>1 DEF CallInv
      <4>3. QED
        BY <3>5, <4>2 DEF LostReplies
    <3>6. CASE status[r] \in {204, 400, 429}
      BY <2>1, <3>2, <3>3, <3>6 DEF RequestPart
    <3>7. QED
      BY <3>4, <3>5, <3>6
  <2>2. QED
    BY <2>1 DEF AnswerIsTrue
<1>2. QED
  BY <1>1, ContactInvariance, PTL
=============================================================================
