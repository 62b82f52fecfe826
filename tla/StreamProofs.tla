---------------------------- MODULE StreamProofs ----------------------------
(***************************************************************************)
(* What is streamed to a browser: the hub's events, for any number of      *)
(* them, any limits of history and queues, and a tab that reconnects as    *)
(* often as it likes (EventStream); and the AI's answers, for any requests *)
(* and whatever the provider sends (AiRequests).                           *)
(***************************************************************************)
EXTENDS EventStream, AiRequests, SequenceTheorems, FiniteSetTheorems, TLAPS

Connection ==
  [on : BOOLEAN, asked : Events \cup {None}, replay : Seq(Events), queue : Seq(Events)]

TypeOK ==
  /\ kind \in [Events -> {"none", "mine", "all", "other"}]
  /\ emitting \subseteq Events
  /\ channel \in Seq(Events) /\ history \in Seq(Events)
  /\ conn \in Connection
  /\ seen \subseteq Events /\ last \in Events \cup {None}
  /\ owed \subseteq Events /\ dropped \subseteq Events

\* An event is recorded once.
Once ==
  /\ \A e \in Members(history) : kind[e] # "none"
  /\ \A i, j \in DOMAIN history : history[i] = history[j] => i = j

\* What is under way to the user's connections concerns the user.
OnlyMineComes == \A e \in emitting \cup Members(channel) : Concerns(e)

\* A connection that has not read the history yet has no replay, and none
\* owes anything before it is made.
InTurn ==
  /\ conn.asked # None => conn.replay = <<>>
  /\ ~conn.on => owed = {}

IInv == TypeOK /\ Once /\ OnlyMineComes /\ InTurn /\ OnlyMine /\ LastWasSeen /\ NoHole

-----------------------------------------------------------------------------
(***************************************************************************)
(* Sequences                                                               *)
(***************************************************************************)
LEMMA MembersOfAppend ==
  ASSUME NEW S, NEW s \in Seq(S), NEW e \in S
  PROVE  Append(s, e) \in Seq(S) /\ Members(Append(s, e)) = Members(s) \cup {e}
<1>1. /\ Append(s, e) \in Seq(S) /\ DOMAIN Append(s, e) = 1..(Len(s) + 1) /\ DOMAIN s = 1..Len(s)
      /\ \A i \in 1..Len(s) : Append(s, e)[i] = s[i]
      /\ Append(s, e)[Len(s) + 1] = e /\ Len(s) \in Nat
  OBVIOUS
<1> QED
  BY <1>1 DEF Members

\* Taking the head off a sequence loses that member only.
LEMMA MembersOfTail ==
  ASSUME NEW S, NEW s \in Seq(S), s # <<>>
  PROVE  /\ Tail(s) \in Seq(S) /\ Head(s) \in S
         /\ Members(s) = Members(Tail(s)) \cup {Head(s)}
<1>1. /\ Tail(s) \in Seq(S) /\ DOMAIN Tail(s) = 1..(Len(s) - 1) /\ DOMAIN s = 1..Len(s)
      /\ \A i \in 1..(Len(s) - 1) : Tail(s)[i] = s[i + 1]
      /\ Head(s) = s[1] /\ Head(s) \in S /\ Len(s) \in Nat \ {0}
  OBVIOUS
<1>2. ASSUME NEW i \in 1..Len(s) PROVE s[i] = Head(s) \/ \E k \in DOMAIN Tail(s) : Tail(s)[k] = s[i]
  <2>1. CASE i = 1
    BY <1>1, <2>1
  <2>2. CASE i # 1
    <3>1. i - 1 \in 1..(Len(s) - 1)
      BY <1>1, <2>2
    <3>2. Tail(s)[i - 1] = s[(i - 1) + 1] /\ (i - 1) + 1 = i
      BY <1>1, <3>1
    <3> QED
      BY <1>1, <3>1, <3>2
  <2> QED
    BY <2>1, <2>2
<1>3. \A k \in DOMAIN Tail(s) : \E i \in DOMAIN s : Tail(s)[k] = s[i]
  BY <1>1
<1>4. Members(s) \subseteq Members(Tail(s)) \cup {Head(s)}
  BY <1>1, <1>2 DEF Members
<1>5. Head(s) \in Members(s) /\ Members(Tail(s)) \subseteq Members(s)
  BY <1>1, <1>3 DEF Members
<1> QED
  BY <1>1, <1>4, <1>5

\* The members of a sequence, and its places.
LEMMA MembersOf ==
  ASSUME NEW S, NEW s \in Seq(S)
  PROVE  /\ Members(s) \subseteq S /\ Members(<<>>) = {}
         /\ DOMAIN s = 1..Len(s) /\ Len(s) \in Nat
         /\ \A i \in 1..Len(s) : s[i] \in Members(s) /\ s[i] \in S
  BY DEF Members

\* How many of the places I are up to i.
Rank(I, i) == Cardinality({j \in I : j <= i})

\* Sets of places are finite.
LEMMA PlacesFinite ==
  ASSUME NEW n \in Nat, NEW I \in SUBSET (1..n)
  PROVE  IsFiniteSet(I) /\ Cardinality(I) \in Nat /\ I \subseteq Int
<1>1. IsFiniteSet(1..n)
  BY FS_Interval
<1>2. IsFiniteSet(I)
  BY <1>1, FS_Subset
<1> QED
  BY <1>2, FS_CardinalityType

\* The places are counted, so that every one has its turn.
LEMMA PlacesCounted ==
  ASSUME NEW n \in Nat, NEW I \in SUBSET (1..n)
  PROVE  /\ \A k \in 1..Cardinality(I) : Place(I, k) \in I /\ Rank(I, Place(I, k)) = k
         /\ \A i \in I : Rank(I, i) \in 1..Cardinality(I) /\ Place(I, Rank(I, i)) = i
<1> DEFINE m == Cardinality(I)
           upTo(i) == {j \in I : j <= i}
           rank == [i \in I |-> Rank(I, i)]
<1>1. IsFiniteSet(I) /\ m \in Nat /\ I \subseteq Int
  BY PlacesFinite
<1>2. ASSUME NEW i \in I PROVE IsFiniteSet(upTo(i)) /\ rank[i] \in 1..m
  <2>1. IsFiniteSet(upTo(i)) /\ Cardinality(upTo(i)) <= m /\ Cardinality(upTo(i)) \in Nat
    BY <1>1, FS_Subset, FS_CardinalityType
  <2>2. upTo(i) # {}
    BY <1>1
  <2>3. Cardinality(upTo(i)) # 0
    BY <2>1, <2>2, FS_EmptySet
  <2>4. rank[i] = Cardinality(upTo(i))
    BY DEF Rank
  <2> QED
    BY <1>1, <2>1, <2>3, <2>4
<1>r. DOMAIN rank = I /\ rank = [i \in I |-> rank[i]] /\ \A i \in I : rank[i] = Rank(I, i)
  OBVIOUS
<1>c. \A i \in I : rank[i] = Cardinality(upTo(i))
  BY DEF Rank
<1> HIDE DEF rank, m
<1>3. ASSUME NEW i \in I, NEW j \in I, rank[i] = rank[j] PROVE i = j
  <2>1. ASSUME NEW a \in I, NEW b \in I, a < b, rank[a] = rank[b] PROVE FALSE
    <3>0. a \in Int /\ b \in Int /\ a < b
      BY <1>1, <2>1
    <3>a. \A k \in I : k \in Int /\ (k <= a => k <= b)
      BY <1>1, <3>0
    <3>b. b <= b /\ ~(b <= a)
      BY <3>0
    <3>1. upTo(a) \in SUBSET upTo(b) /\ b \in upTo(b) /\ b \notin upTo(a)
      BY <3>a, <3>b
    <3>2. IsFiniteSet(upTo(b)) /\ Cardinality(upTo(a)) = Cardinality(upTo(b))
      BY <1>2, <1>c, <2>1
    <3>3. upTo(a) = upTo(b)
      <4> HIDE DEF upTo
      <4> QED
        BY <3>1, <3>2, FS_Subset
    <3> QED
      BY <3>1, <3>3
  <2>2. i \in Int /\ j \in Int
    BY <1>1
  <2> QED
    BY <1>3, <2>1, <2>2
<1>4. IsFiniteSet(1..m) /\ Cardinality(1..m) = m
  BY <1>1, FS_Interval
<1>p. rank \in [I -> 1..m]
  BY <1>2, <1>r
<1>5. rank \in Injection(I, 1..m)
  BY <1>p, <1>3 DEF Injection, IsInjective
<1>6. rank \in Surjection(I, 1..m)
  <2>1. Cardinality(I) = Cardinality(1..m)
    BY <1>4 DEF m
  <2> QED
    BY <1>4, <1>5, <2>1, FS_Injection
<1>7. \A k \in 1..m : \E i \in I : rank[i] = k
  BY <1>6 DEF Surjection
<1>8. ASSUME NEW k \in 1..m PROVE Place(I, k) \in I /\ rank[Place(I, k)] = k
  <2>1. \E i \in I : Cardinality({j \in I : j <= i}) = k
    BY <1>7, <1>c
  <2>2. Place(I, k) \in I /\ Cardinality({j \in I : j <= Place(I, k)}) = k
    BY <2>1 DEF Place
  <2> QED
    BY <1>c, <2>2
<1>9. ASSUME NEW i \in I PROVE rank[i] \in 1..m /\ Place(I, rank[i]) = i
  BY <1>2, <1>3, <1>8
<1> QED
  BY <1>8, <1>9, <1>r DEF m

\* Places in a sequence of length n.
Places(I, n) == I \subseteq 1..n

\* Places of the first of two sequences, and places of the second.
After(a, J) == {a + j : j \in J}
Both(I, a, J) == I \cup After(a, J)

\* Places in both halves of a concatenation: none is lost or counted twice.
LEMMA PlacesOfBoth ==
  ASSUME NEW a \in Nat, NEW b \in Nat, NEW I, NEW J, Places(I, a), Places(J, b)
  PROVE  Places(Both(I, a, J), a + b) /\ Cardinality(Both(I, a, J)) = Cardinality(I) + Cardinality(J)
<1> DEFINE f == [j \in J |-> a + j]
<1>1. /\ IsFiniteSet(I) /\ Cardinality(I) \in Nat /\ I \subseteq Int
      /\ IsFiniteSet(J) /\ Cardinality(J) \in Nat /\ J \subseteq Int
  BY PlacesFinite DEF Places
<1>2. After(a, J) \subseteq (a + 1)..(a + b)
  BY DEF After, Places
<1>3. f \in Bijection(J, After(a, J))
  <2>1. f \in [J -> After(a, J)]
    BY DEF After
  <2>2. \A i, j \in J : f[i] = f[j] => i = j
    BY <1>1
  <2>3. \A x \in After(a, J) : \E j \in J : f[j] = x
    BY DEF After
  <2> HIDE DEF f
  <2> QED
    BY <2>1, <2>2, <2>3 DEF Bijection, Injection, IsInjective, Surjection
<1>4. IsFiniteSet(After(a, J)) /\ Cardinality(After(a, J)) = Cardinality(J)
  <2> HIDE DEF f
  <2>1. ExistsBijection(J, After(a, J))
    BY <1>3 DEF ExistsBijection
  <2> QED
    BY <1>1, <2>1, FS_Bijection
<1>5. I \cap After(a, J) = {}
  BY <1>2 DEF Places
<1>6. Cardinality(I \cap After(a, J)) = 0
  BY <1>5, FS_EmptySet
<1>7. I \cup After(a, J) \in SUBSET (1..(a + b))
  <2>1. \A x \in (a + 1)..(a + b) : x \in 1..(a + b)
    OBVIOUS
  <2>2. \A x \in 1..a : x \in 1..(a + b)
    OBVIOUS
  <2> QED
    BY <1>2, <2>1, <2>2 DEF Places
<1>8. Cardinality(I \cup After(a, J)) = Cardinality(I) + Cardinality(After(a, J)) - Cardinality(I \cap After(a, J))
  BY <1>1, <1>4, FS_Union
<1> QED
  BY <1>1, <1>4, <1>6, <1>7, <1>8 DEF Both, Places

\* What is chosen from a concatenation is what is chosen from its parts.
LEMMA AtBoth ==
  ASSUME NEW S, NEW s \in Seq(S), NEW t \in Seq(S),
         NEW I, NEW J, Places(I, Len(s)), Places(J, Len(t))
  PROVE  At(s \o t, Both(I, Len(s), J)) = At(s, I) \o At(t, J)
<1> DEFINE a == Len(s)
           b == Len(t)
           K == Both(I, a, J)
           n == Cardinality(I)
           m == Cardinality(J)
<1>0. a \in Nat /\ b \in Nat
  OBVIOUS
<1>l. /\ \A i \in 1..a : (s \o t)[i] = s[i]
      /\ \A j \in 1..b : (s \o t)[a + j] = t[j]
  BY ConcatProperties
<1>t. /\ n \in Nat /\ m \in Nat /\ I \subseteq Int /\ J \subseteq Int
      /\ Places(K, a + b) /\ Cardinality(K) = n + m
  <2>1. Places(I, a) /\ Places(J, b)
    OBVIOUS
  <2> HIDE DEF a, b
  <2>2. n \in Nat /\ m \in Nat /\ I \subseteq Int /\ J \subseteq Int
    BY <1>0, <2>1, PlacesFinite DEF Places
  <2>3. Places(K, a + b) /\ Cardinality(K) = n + m
    BY <1>0, <2>1, PlacesOfBoth
  <2> QED
    BY <2>2, <2>3
<1>s. \A i \in 1..a : s[i] \in S
  OBVIOUS
<1>u. \A j \in 1..b : t[j] \in S
  OBVIOUS
<1>1. ASSUME NEW i \in I PROVE i \in K /\ Rank(K, i) = Rank(I, i)
  <2>0. i \in 1..a
    BY DEF Places
  <2>1. \A j \in J : a + j \in Int /\ ~(a + j <= i)
    <3>1. \A j \in J : j \in 1..b
      BY DEF Places
    <3> HIDE DEF a, b
    <3> QED
      BY <1>0, <2>0, <3>1
  <2>2. {j \in K : j <= i} = {j \in I : j <= i}
    <3> HIDE DEF a
    <3> QED
      BY <2>1 DEF Both, After
  <2> QED
    BY <2>2 DEF Rank, Both
<1>2. ASSUME NEW j \in J PROVE a + j \in K /\ Rank(K, a + j) = n + Rank(J, j)
  <2> DEFINE L == {y \in J : y <= j}
  <2>1. {x \in K : x <= a + j} = Both(I, a, L)
    <3>0. (\A i \in I : i \in 1..a) /\ \A y \in J : y \in 1..b
      BY DEF Places
    <3> HIDE DEF a, b
    <3>1. \A i \in I : i <= a + j
      BY <1>0, <3>0
    <3>2. \A y \in J : a + y <= a + j <=> y <= j
      BY <1>0, <3>0
    <3> QED
      BY <3>1, <3>2 DEF Both, After
  <2>2. Cardinality(Both(I, a, L)) = n + Cardinality(L)
    <3>1. Places(I, a) /\ Places(L, b)
      BY DEF Places
    <3> HIDE DEF a, b, L
    <3> QED
      BY <1>0, <3>1, PlacesOfBoth
  <2>3. a + j \in K
    BY DEF Both, After
  <2> QED
    BY <2>1, <2>2, <2>3 DEF Rank
<1> HIDE DEF a, b, K, n, m
<1>p. /\ \A k \in 1..n : Place(I, k) \in I /\ Rank(I, Place(I, k)) = k
      /\ \A k \in 1..m : Place(J, k) \in J /\ Rank(J, Place(J, k)) = k
      /\ \A i \in K : Place(K, Rank(K, i)) = i
  <2>1. \A k \in 1..n : Place(I, k) \in I /\ Rank(I, Place(I, k)) = k
    BY <1>0, PlacesCounted DEF n, a, Places
  <2>2. \A k \in 1..m : Place(J, k) \in J /\ Rank(J, Place(J, k)) = k
    BY <1>0, PlacesCounted DEF m, b, Places
  <2>3. a + b \in Nat
    BY <1>0
  <2>4. \A i \in K : Place(K, Rank(K, i)) = i
    BY <2>3, <1>t, PlacesCounted DEF Places
  <2> QED
    BY <2>1, <2>2, <2>4
<1>3. ASSUME NEW k \in 1..n PROVE Place(K, k) = Place(I, k)
  <2>1. Place(I, k) \in I /\ Rank(I, Place(I, k)) = k
    BY <1>p
  <2> QED
    BY <2>1, <1>1, <1>p
<1>4. ASSUME NEW k \in 1..m PROVE Place(K, n + k) = a + Place(J, k)
  <2>1. Place(J, k) \in J /\ Rank(J, Place(J, k)) = k
    BY <1>p
  <2>2. a + Place(J, k) \in K /\ Rank(K, a + Place(J, k)) = n + k
    BY <2>1, <1>2
  <2> QED
    BY <2>2, <1>p
<1>5. At(s \o t, K) = [k \in 1..(n + m) |-> (s \o t)[Place(K, k)]]
  BY <1>t DEF At
<1>6. /\ At(s, I) = [k \in 1..n |-> s[Place(I, k)]]
      /\ At(t, J) = [k \in 1..m |-> t[Place(J, k)]]
  BY DEF At, n, m
<1>7. \A k \in 1..n : s[Place(I, k)] \in S /\ (s \o t)[Place(K, k)] = s[Place(I, k)]
  <2>1. \A i \in I : i \in 1..a
    BY DEF a, Places
  <2> QED
    BY <2>1, <1>p, <1>3, <1>s, <1>l
<1>8. \A k \in 1..m : t[Place(J, k)] \in S /\ (s \o t)[Place(K, n + k)] = t[Place(J, k)]
  <2>1. \A j \in J : j \in 1..b
    BY DEF b, Places
  <2> QED
    BY <2>1, <1>p, <1>4, <1>u, <1>l
<1>9. At(s, I) \in Seq(S) /\ Len(At(s, I)) = n /\ At(t, J) \in Seq(S) /\ Len(At(t, J)) = m
  BY <1>6, <1>7, <1>8, <1>t
<1>10. ASSUME NEW k \in 1..(n + m)
       PROVE  (s \o t)[Place(K, k)] = (At(s, I) \o At(t, J))[k]
  <2>1. (At(s, I) \o At(t, J))[k] = IF k <= n THEN At(s, I)[k] ELSE At(t, J)[k - n]
    BY <1>9, ConcatProperties
  <2>2. CASE k <= n
    <3>1. k \in 1..n
      BY <2>2, <1>t
    <3> QED
      BY <2>1, <2>2, <3>1, <1>6, <1>7
  <2>3. CASE ~(k <= n)
    <3>1. k - n \in 1..m /\ n + (k - n) = k
      BY <2>3, <1>t
    <3>2. (s \o t)[Place(K, k)] = t[Place(J, k - n)]
      BY <3>1, <1>8
    <3>3. At(t, J)[k - n] = t[Place(J, k - n)]
      BY <3>1, <1>6
    <3> QED
      BY <2>1, <2>3, <3>2, <3>3
  <2> QED
    BY <2>2, <2>3
<1>11. At(s, I) \o At(t, J) \in Seq(S) /\ Len(At(s, I) \o At(t, J)) = n + m
  BY <1>9, ConcatProperties
<1>12. At(s \o t, K) = At(s, I) \o At(t, J)
  <2>1. DOMAIN (At(s, I) \o At(t, J)) = 1..(n + m)
    BY <1>11
  <2>2. At(s, I) \o At(t, J) = [k \in 1..(n + m) |-> (At(s, I) \o At(t, J))[k]]
    <3>1. PICK q : q = At(s, I) \o At(t, J)
      OBVIOUS
    <3>2. DOMAIN q = 1..(n + m) /\ q \in Seq(S)
      BY <1>11, <2>1, <3>1
    <3>3. q = [k \in DOMAIN q |-> q[k]]
      BY <3>2
    <3> QED
      BY <3>1, <3>2, <3>3
  <2> QED
    BY <2>2, <1>5, <1>10
<1> QED
  BY <1>12 DEF K, a

\* At(s, I) has the elements of s at the places I, and no others.
LEMMA AtIs ==
  ASSUME NEW S, NEW s \in Seq(S), NEW I \in SUBSET (1..Len(s))
  PROVE  At(s, I) \in Seq(S) /\ Members(At(s, I)) = {s[i] : i \in I}
<1> DEFINE n == Cardinality(I)
<1>0. Len(s) \in Nat /\ I \in SUBSET (1..Len(s))
  OBVIOUS
<1>1. n \in Nat
  BY <1>0, PlacesFinite
<1>2. /\ \A k \in 1..n : Place(I, k) \in I
      /\ \A i \in I : Rank(I, i) \in 1..n /\ Place(I, Rank(I, i)) = i
  BY <1>0, PlacesCounted
<1>3. At(s, I) = [k \in 1..n |-> s[Place(I, k)]]
  BY DEF At
<1> HIDE DEF n
<1>4. ASSUME NEW k \in 1..n PROVE s[Place(I, k)] \in S
  <2>1. Place(I, k) \in 1..Len(s)
    BY <1>2
  <2> QED
    BY <2>1
<1>5. At(s, I) \in Seq(S) /\ DOMAIN At(s, I) = 1..n
  BY <1>1, <1>3, <1>4
<1>6. Members(At(s, I)) \subseteq {s[i] : i \in I}
  <2>1. ASSUME NEW k \in 1..n PROVE At(s, I)[k] \in {s[i] : i \in I}
    BY <1>2, <1>3
  <2> QED
    BY <1>5, <2>1 DEF Members
<1>7. ASSUME NEW i \in I PROVE s[i] \in Members(At(s, I))
  BY <1>2, <1>3, <1>5 DEF Members
<1> QED
  BY <1>5, <1>6, <1>7

-----------------------------------------------------------------------------
\* What may be expected of a history is a part of it.
LEMMA DueOf ==
  ASSUME NEW c, NEW h \in Seq(Events)
  PROVE  Due(c, h) \subseteq Members(h) /\ \A e \in Due(c, h) : Concerns(e)
  BY DEF Due, Members

\* The replay is what the connection may expect, and concerns the user.
LEMMA ReplayIs ==
  ASSUME TypeOK, Once, conn.asked # None
  PROVE  LET r == EventsForReplay(history, conn.asked)
         IN  /\ r \in Seq(Events)
             /\ Due(conn, history) \subseteq Members(r)
             /\ \A e \in Members(r) : Concerns(e)
<1> DEFINE h == history
           asked == conn.asked
           places == {i \in DOMAIN h : h[i] = asked}
           start == IF places # {} THEN (CHOOSE i \in places : TRUE) + 1
                    ELSE IF Len(h) > Recent THEN Len(h) - Recent + 1 ELSE 1
           I == {i \in start..Len(h) : Concerns(h[i])}
<1>1. h \in Seq(Events) /\ DOMAIN h = 1..Len(h) /\ Len(h) \in Nat /\ Recent \in Nat
  BY EventStreamAssumption DEF TypeOK
<1>2. start \in Nat \ {0} /\ \A p \in places : start = p + 1
  <2>1. \A p, q \in places : p = q
    BY DEF Once
  <2>2. CASE places # {}
    <3>1. (CHOOSE i \in places : TRUE) \in places
      BY <2>2
    <3>2. \A p \in places : p \in 1..Len(h)
      BY <1>1
    <3> HIDE DEF places
    <3> QED
      BY <2>1, <2>2, <3>1, <3>2
  <2>3. CASE places = {}
    <3> HIDE DEF places
    <3> QED
      BY <1>1, <2>3
  <2> QED
    BY <2>2, <2>3
<1>3. I \in SUBSET (1..Len(h))
  <2> HIDE DEF start
  <2> QED
    BY <1>1, <1>2
<1>4. /\ EventsForReplay(history, conn.asked) = At(h, I)
      /\ At(h, I) \in Seq(Events) /\ Members(At(h, I)) = {h[i] : i \in I}
  <2>1. EventsForReplay(history, conn.asked) = At(h, I)
    BY DEF EventsForReplay
  <2> HIDE DEF I, h
  <2> QED
    BY <1>1, <1>3, <2>1, AtIs
<1>5. ASSUME NEW e \in Due(conn, h) PROVE \E i \in I : e = h[i]
  <2>1. PICK j \in DOMAIN h :
          /\ e = h[j] /\ Concerns(h[j])
          /\ IF asked \in Members(h) THEN \E k \in 1..(j - 1) : h[k] = asked ELSE j > Len(h) - Recent
    BY <1>5 DEF Due
  <2>2. j \in 1..Len(h)
    BY <1>1
  <2>3. CASE asked \in Members(h)
    <3>1. PICK k \in 1..(j - 1) : h[k] = asked
      BY <2>1, <2>3
    <3>2. k \in places /\ k < j
      BY <1>1, <2>2, <3>1
    <3>3. start = k + 1
      BY <1>2, <3>2
    <3>4. j \in start..Len(h)
      <4> HIDE DEF start
      <4> QED
        BY <1>1, <2>2, <3>1, <3>3
    <3> QED
      BY <2>1, <3>4
  <2>4. CASE asked \notin Members(h)
    <3>1. places = {}
      BY <2>4 DEF Members
    <3>2. start = IF Len(h) > Recent THEN Len(h) - Recent + 1 ELSE 1
      <4> HIDE DEF places
      <4> QED
        BY <3>1
    <3>3. j \in start..Len(h)
      <4> HIDE DEF start
      <4> QED
        BY <1>1, <2>1, <2>2, <2>4, <3>2
    <3> QED
      BY <2>1, <3>3
  <2> QED
    BY <2>3, <2>4
<1> HIDE DEF start
<1>6. \A i \in I : Concerns(h[i])
  OBVIOUS
<1> HIDE DEF I
<1> QED
  BY <1>4, <1>5, <1>6

-----------------------------------------------------------------------------
\* The parts of the connection that an event comes to.
LEMMA DeliverIs ==
  ASSUME TypeOK, NEW e \in Events, Deliver(e)
  PROVE  /\ conn' \in Connection /\ dropped' \subseteq Events /\ dropped \subseteq dropped'
         /\ conn'.on = conn.on /\ conn'.asked = conn.asked /\ conn'.replay = conn.replay
         /\ Members(conn.queue) \subseteq Members(conn'.queue)
         /\ Members(conn'.queue) \subseteq Members(conn.queue) \cup {e}
         /\ conn.on => e \in Members(conn'.queue) \cup dropped'
<1>0. conn \in Connection /\ conn.queue \in Seq(Events) /\ dropped \subseteq Events
  BY DEF TypeOK, Connection
<1>1. CASE conn.on /\ Len(conn.queue) < QueueLimit
  <2>1. conn' = [conn EXCEPT !.queue = Append(conn.queue, e)] /\ dropped' = dropped
    BY <1>1 DEF Deliver
  <2>2. Append(conn.queue, e) \in Seq(Events) /\ Members(Append(conn.queue, e)) = Members(conn.queue) \cup {e}
    BY <1>0, MembersOfAppend
  <2>3. /\ conn' \in Connection /\ conn'.on = conn.on /\ conn'.asked = conn.asked
        /\ conn'.replay = conn.replay /\ conn'.queue = Append(conn.queue, e)
    BY <1>0, <2>1, <2>2 DEF Connection
  <2> QED
    BY <1>0, <2>1, <2>2, <2>3
<1>2. CASE ~(conn.on /\ Len(conn.queue) < QueueLimit)
  <2>1. conn' = conn /\ dropped' = IF conn.on THEN dropped \cup {e} ELSE dropped
    BY <1>2 DEF Deliver
  <2> QED
    BY <1>0, <2>1
<1> QED
  BY <1>1, <1>2

\* Receive moves one event from the queue to the seen ones.
LEMMA ReceiveIs ==
  ASSUME TypeOK, Receive
  PROVE  LET e == Head(conn.queue)
         IN  /\ e \in Events /\ conn' \in Connection
             /\ conn'.on = conn.on /\ conn'.asked = conn.asked /\ conn'.replay = conn.replay
             /\ Members(conn.queue) = Members(conn'.queue) \cup {e}
             /\ seen' = seen \cup {e}
             /\ last' = last \/ last' = e
<1>0. conn \in Connection /\ conn.queue \in Seq(Events) /\ conn.queue # <<>>
  BY DEF TypeOK, Connection, Receive
<1>1. conn' = [conn EXCEPT !.queue = Tail(conn.queue)]
  BY DEF Receive
<1>2. /\ Tail(conn.queue) \in Seq(Events) /\ Head(conn.queue) \in Events
      /\ Members(conn.queue) = Members(Tail(conn.queue)) \cup {Head(conn.queue)}
  BY <1>0, MembersOfTail
<1>3. /\ conn' \in Connection /\ conn'.on = conn.on /\ conn'.asked = conn.asked
      /\ conn'.replay = conn.replay /\ conn'.queue = Tail(conn.queue)
  BY <1>0, <1>1, <1>2 DEF Connection
<1>4. seen' = seen \cup {Head(conn.queue)} /\ (last' = last \/ last' = Head(conn.queue))
  BY DEF Receive
<1> QED
  BY <1>2, <1>3, <1>4

\* ReplayPut moves one event from the replay to the queue, or drops it.
LEMMA ReplayPutIs ==
  ASSUME TypeOK, ReplayPut
  PROVE  /\ conn' \in Connection /\ dropped' \subseteq Events /\ dropped \subseteq dropped'
         /\ conn'.on = conn.on /\ conn'.asked = conn.asked /\ conn.replay # <<>>
         /\ Members(conn.queue) \subseteq Members(conn'.queue)
         /\ Members(conn'.queue) \cup Members(conn'.replay) \subseteq Members(conn.queue) \cup Members(conn.replay)
         /\ Members(conn.replay) \subseteq Members(conn'.queue) \cup Members(conn'.replay) \cup dropped'
<1>0. conn \in Connection /\ conn.queue \in Seq(Events) /\ conn.replay \in Seq(Events) /\ conn.replay # <<>>
  BY DEF TypeOK, Connection, ReplayPut
<1>1. /\ Tail(conn.replay) \in Seq(Events) /\ Head(conn.replay) \in Events
      /\ Members(conn.replay) = Members(Tail(conn.replay)) \cup {Head(conn.replay)}
  BY <1>0, MembersOfTail
<1>2. CASE Len(conn.queue) < QueueLimit
  <2>1. conn' = [conn EXCEPT !.replay = Tail(conn.replay), !.queue = Append(conn.queue, Head(conn.replay))]
        /\ dropped' = dropped
    BY <1>2 DEF ReplayPut
  <2>2. /\ Append(conn.queue, Head(conn.replay)) \in Seq(Events)
        /\ Members(Append(conn.queue, Head(conn.replay))) = Members(conn.queue) \cup {Head(conn.replay)}
    BY <1>0, <1>1, MembersOfAppend
  <2>3. /\ conn' \in Connection /\ conn'.on = conn.on /\ conn'.asked = conn.asked
        /\ conn'.replay = Tail(conn.replay) /\ conn'.queue = Append(conn.queue, Head(conn.replay))
    BY <1>0, <1>1, <2>1, <2>2 DEF Connection
  <2> QED
    BY <1>0, <1>1, <2>1, <2>2, <2>3 DEF TypeOK
<1>3. CASE ~(Len(conn.queue) < QueueLimit)
  <2>1. conn' = [conn EXCEPT !.replay = <<>>] /\ dropped' = dropped \cup Members(conn.replay)
    BY <1>3 DEF ReplayPut
  <2>2. /\ conn' \in Connection /\ conn'.on = conn.on /\ conn'.asked = conn.asked
        /\ conn'.replay = <<>> /\ conn'.queue = conn.queue
    <3>1. <<>> \in Seq(Events)
      OBVIOUS
    <3> QED
      BY <1>0, <2>1, <3>1 DEF Connection
  <2>3. Members(conn.replay) \subseteq Events /\ Members(<<>>) = {}
    BY <1>0, MembersOf
  <2> QED
    BY <1>0, <2>1, <2>2, <2>3 DEF TypeOK
<1> QED
  BY <1>2, <1>3

\* What a new connection starts with.
LEMMA ConnectIs ==
  ASSUME TypeOK
  PROVE  /\ Off \in Connection /\ [Off EXCEPT !.on = TRUE, !.asked = last] \in Connection
         /\ ~Off.on /\ Off.asked = None /\ Off.replay = <<>> /\ Off.queue = <<>>
         /\ LET c == [Off EXCEPT !.on = TRUE, !.asked = last]
            IN  c.on /\ c.asked = last /\ c.replay = <<>> /\ c.queue = <<>>
         /\ Members(<<>>) = {}
<1>1. <<>> \in Seq(Events) /\ Members(<<>>) = {}
  BY DEF Members
<1> QED
  BY <1>1 DEF Off, Connection, TypeOK

\* What Record makes of the history and of the kinds.
LEMMA RecordIs ==
  ASSUME TypeOK, Once, NEW e \in Events, NEW k \in {"mine", "all", "other"}, Record(e, k)
  PROVE  /\ history' \in Seq(Events)
         /\ kind' \in [Events -> {"none", "mine", "all", "other"}]
         /\ kind[e] = "none" /\ kind'[e] = k /\ \A x \in Events : x # e => kind'[x] = kind[x]
         /\ \A x \in Events : Concerns(x) => Concerns(x)'
         /\ Once'
<1> DEFINE longer == Append(history, e)
<1>1. /\ history \in Seq(Events) /\ DOMAIN history = 1..Len(history) /\ Len(history) \in Nat
      /\ HistoryLimit \in Nat
  BY EventStreamAssumption DEF TypeOK
<1>2. /\ longer \in Seq(Events) /\ Members(longer) = Members(history) \cup {e}
      /\ DOMAIN longer = 1..(Len(history) + 1) /\ Len(longer) = Len(history) + 1
      /\ \A i \in 1..Len(history) : longer[i] = history[i]
      /\ longer[Len(history) + 1] = e
  BY <1>1, MembersOfAppend
<1>3. history' = IF Len(longer) > HistoryLimit THEN Tail(longer) ELSE longer
  BY DEF Record
<1>4. /\ kind[e] = "none" /\ kind' = [kind EXCEPT ![e] = k]
      /\ kind \in [Events -> {"none", "mine", "all", "other"}]
  BY DEF Record, TypeOK
<1>5. e \notin Members(history)
  BY <1>4 DEF Once
<1>6. \A i \in 1..Len(history) : history[i] # e
  BY <1>1, <1>5 DEF Members
<1>7. \A i, j \in DOMAIN longer : longer[i] = longer[j] => i = j
  <2>1. ASSUME NEW i \in DOMAIN longer, NEW j \in DOMAIN longer, longer[i] = longer[j] PROVE i = j
    <3>1. CASE i \in 1..Len(history) /\ j \in 1..Len(history)
      BY <1>1, <1>2, <2>1, <3>1 DEF Once
    <3>2. CASE i \notin 1..Len(history)
      <4>1. i = Len(history) + 1 /\ longer[j] = e
        BY <1>1, <1>2, <2>1, <3>2
      <4>2. j \notin 1..Len(history)
        BY <1>2, <1>6, <4>1
      <4> QED
        BY <1>1, <1>2, <4>1, <4>2
    <3>3. CASE j \notin 1..Len(history)
      <4>1. j = Len(history) + 1 /\ longer[i] = e
        BY <1>1, <1>2, <2>1, <3>3
      <4>2. i \notin 1..Len(history)
        BY <1>2, <1>6, <4>1
      <4> QED
        BY <1>1, <1>2, <4>1, <4>2
    <3> QED
      BY <3>1, <3>2, <3>3
  <2> QED
    BY <2>1
<1> HIDE DEF longer
<1>8. /\ history' \in Seq(Events) /\ Members(history') \subseteq Members(longer)
      /\ \A i, j \in DOMAIN history' : history'[i] = history'[j] => i = j
  <2>1. CASE history' = longer
    BY <1>2, <1>7, <2>1
  <2>2. CASE history' = Tail(longer)
    <3>0. longer # <<>> /\ Len(longer) \in Nat \ {0}
      BY <1>1, <1>2
    <3>1. /\ Tail(longer) \in Seq(Events) /\ Members(Tail(longer)) \subseteq Members(longer)
      BY <1>2, <3>0, MembersOfTail
    <3>2. /\ DOMAIN Tail(longer) = 1..(Len(longer) - 1) /\ DOMAIN longer = 1..Len(longer)
          /\ \A i \in 1..(Len(longer) - 1) : Tail(longer)[i] = longer[i + 1]
      BY <1>2, <3>0
    <3>3. ASSUME NEW i \in 1..(Len(longer) - 1), NEW j \in 1..(Len(longer) - 1),
                 Tail(longer)[i] = Tail(longer)[j]
          PROVE  i = j
      <4>1. i + 1 \in DOMAIN longer /\ j + 1 \in DOMAIN longer /\ longer[i + 1] = longer[j + 1]
        BY <3>0, <3>2, <3>3
      <4>2. i + 1 = j + 1
        BY <1>7, <4>1
      <4> QED
        BY <4>2
    <3> QED
      BY <2>2, <3>1, <3>2, <3>3
  <2> QED
    BY <1>3, <2>1, <2>2
<1>9. \A x \in Members(history') : kind'[x] # "none"
  BY <1>2, <1>4, <1>8, MembersOf DEF Once, TypeOK
<1>10. \A x \in Events : Concerns(x) => Concerns(x)'
  BY <1>4 DEF Concerns
<1> QED
  BY <1>4, <1>8, <1>9, <1>10 DEF Once

\* The channel's head and the rest of it.
LEMMA ChannelIs ==
  ASSUME TypeOK, channel # <<>>
  PROVE  /\ Head(channel) \in Events /\ Tail(channel) \in Seq(Events)
         /\ Members(channel) = Members(Tail(channel)) \cup {Head(channel)}
  BY MembersOfTail DEF TypeOK

\* Every step keeps the types.
LEMMA TypeKept ==
  ASSUME IInv, Next
  PROVE  TypeOK'
<1>0. TypeOK /\ Once
  BY DEF IInv
<1>h. /\ \A c : Due(c, history) \subseteq Events
      /\ Members(channel) \subseteq Events /\ Members(history) \subseteq Events
  BY <1>0, DueOf, MembersOf DEF TypeOK
<1>1. ASSUME NEW e \in Events, NEW k \in {"mine", "all", "other"}, Record(e, k) PROVE TypeOK'
  <2>1. history' \in Seq(Events) /\ kind' \in [Events -> {"none", "mine", "all", "other"}]
    BY <1>0, <1>1, RecordIs
  <2>2. emitting' \subseteq Events /\ owed' \subseteq Events /\ dropped' \subseteq Events
    BY <1>0, <1>1, <1>h DEF Record, TypeOK
  <2> QED
    BY <1>0, <1>1, <2>1, <2>2 DEF Record, TypeOK
<1>2. ASSUME NEW e \in Events, Push(e) PROVE TypeOK'
  <2>1. channel' \in Seq(Events)
    BY <1>0, <1>2, MembersOfAppend DEF Push, TypeOK
  <2> QED
    BY <1>0, <1>2, <2>1 DEF Push, TypeOK
<1>3. ASSUME NEW e \in Events, SendAll(e) PROVE TypeOK'
  <2>1. conn' \in Connection /\ dropped' \subseteq Events
    BY <1>0, <1>3, DeliverIs DEF SendAll
  <2> QED
    BY <1>0, <1>3, <2>1 DEF SendAll, TypeOK
<1>4. CASE HubSend
  <2>1. Head(channel) \in Events /\ channel' \in Seq(Events)
    BY <1>0, <1>4, ChannelIs DEF HubSend
  <2>2. conn' \in Connection /\ dropped' \subseteq Events
    BY <1>0, <1>4, <2>1, DeliverIs DEF HubSend
  <2> QED
    BY <1>0, <1>4, <2>1, <2>2 DEF HubSend, TypeOK
<1>5. CASE Connect
  <2>1. conn' \in Connection
    BY <1>0, <1>5, ConnectIs DEF Connect
  <2>2. owed' \subseteq Events /\ dropped' \subseteq Events
    BY <1>0, <1>5, <1>h DEF Connect, TypeOK
  <2> QED
    BY <1>0, <1>5, <2>1, <2>2 DEF Connect, TypeOK
<1>6. CASE ReplayRead
  <2>1. EventsForReplay(history, conn.asked) \in Seq(Events)
    BY <1>0, <1>6, ReplayIs DEF ReplayRead
  <2>2. conn' \in Connection
    BY <1>0, <1>6, <2>1 DEF ReplayRead, Connection, TypeOK
  <2> QED
    BY <1>0, <1>6, <2>2 DEF ReplayRead, TypeOK
<1>7. CASE ReplayPut
  <2>1. conn' \in Connection /\ dropped' \subseteq Events
    BY <1>0, <1>7, ReplayPutIs
  <2> QED
    BY <1>0, <1>7, <2>1 DEF ReplayPut, TypeOK
<1>8. CASE Receive
  <2>1. /\ Head(conn.queue) \in Events /\ conn' \in Connection /\ seen' = seen \cup {Head(conn.queue)}
        /\ last' = last \/ last' = Head(conn.queue)
    BY <1>0, <1>8, ReceiveIs
  <2> QED
    BY <1>0, <1>8, <2>1 DEF Receive, TypeOK
<1>9. CASE Lose \/ Disconnect
  BY <1>0, <1>9, ConnectIs DEF Lose, Disconnect, TypeOK
<1> QED
  BY <1>1, <1>2, <1>3, <1>4, <1>5, <1>6, <1>7, <1>8, <1>9 DEF Next

\* All other steps leave the history and the kinds alone.
LEMMA OthersKeep ==
  ASSUME Next, \A e \in Events, k \in {"mine", "all", "other"} : ~Record(e, k)
  PROVE  kind' = kind /\ history' = history
  BY DEF Next, Push, SendAll, HubSend, Connect, ReplayRead, ReplayPut, Receive, Lose, Disconnect

\* No event is recorded twice, and what concerns the connection goes on doing so.
LEMMA OnceKept ==
  ASSUME IInv, Next
  PROVE  Once' /\ \A x \in Events : Concerns(x) => Concerns(x)'
<1>0. TypeOK /\ Once
  BY DEF IInv
<1>1. ASSUME NEW e \in Events, NEW k \in {"mine", "all", "other"}, Record(e, k)
      PROVE  Once' /\ \A x \in Events : Concerns(x) => Concerns(x)'
  BY <1>0, <1>1, RecordIs
<1>2. CASE kind' = kind /\ history' = history
  BY <1>0, <1>2 DEF Once, Concerns, Members
<1> QED
  BY <1>1, <1>2, OthersKeep

\* Neither live nor replayed does another user's event come under way.
LEMMA OnlyMineComesKept ==
  ASSUME IInv, Next
  PROVE  OnlyMineComes'
<1>0. TypeOK /\ Once /\ OnlyMineComes /\ Members(channel) \subseteq Events /\ emitting \subseteq Events
  BY MembersOf DEF IInv, TypeOK
<1>1. \A x \in Events : Concerns(x) => Concerns(x)'
  BY OnceKept
<1>2. ASSUME emitting' \cup Members(channel') \subseteq emitting \cup Members(channel) PROVE OnlyMineComes'
  BY <1>0, <1>1, <1>2 DEF OnlyMineComes, Members
<1>3. ASSUME NEW e \in Events, NEW k \in {"mine", "all", "other"}, Record(e, k) PROVE OnlyMineComes'
  <2>1. channel' = channel /\ kind'[e] = k /\ emitting' = IF k = "other" THEN emitting ELSE emitting \cup {e}
    BY <1>0, <1>3, RecordIs DEF Record
  <2>2. k # "other" => Concerns(e)'
    BY <2>1 DEF Concerns
  <2> QED
    BY <1>0, <1>1, <2>1, <2>2 DEF OnlyMineComes, Members
<1>4. ASSUME NEW e \in Events, Push(e) PROVE OnlyMineComes'
  <2>1. Members(channel') = Members(channel) \cup {e}
    BY <1>0, <1>4, MembersOfAppend DEF Push, TypeOK
  <2> QED
    BY <1>2, <1>4, <2>1 DEF Push
<1>5. CASE HubSend
  <2>1. Members(channel') \subseteq Members(channel)
    BY <1>0, <1>5, ChannelIs DEF HubSend
  <2> QED
    BY <1>2, <1>5, <2>1 DEF HubSend
<1>6. ASSUME emitting' \subseteq emitting, channel' = channel PROVE OnlyMineComes'
  BY <1>2, <1>6
<1> QED
  BY <1>3, <1>4, <1>5, <1>6
  DEF Next, SendAll, Connect, ReplayRead, ReplayPut, Receive, Lose, Disconnect

\* A connection that has yet to read the history has no replay, and one that
\* is off is owed nothing.
LEMMA InTurnKept ==
  ASSUME IInv, Next
  PROVE  InTurn'
<1>0. TypeOK /\ Once /\ InTurn /\ conn \in Connection
  BY DEF IInv, TypeOK
<1>1. ASSUME NEW e \in Events, NEW k \in {"mine", "all", "other"}, Record(e, k) PROVE InTurn'
  BY <1>0, <1>1 DEF Record, InTurn
<1>2. ASSUME NEW e \in Events, Deliver(e), owed' = owed PROVE InTurn'
  BY <1>0, <1>2, DeliverIs DEF InTurn
<1>3. CASE HubSend
  BY <1>0, <1>2, <1>3, ChannelIs DEF HubSend
<1>4. CASE Connect
  BY <1>0, <1>4, ConnectIs DEF Connect, InTurn
<1>5. CASE ReplayRead
  <2>1. conn'.asked = None /\ conn'.on = conn.on /\ owed' = owed
    BY <1>0, <1>5 DEF ReplayRead, Connection
  <2> QED
    BY <1>0, <2>1 DEF InTurn
<1>6. CASE ReplayPut
  BY <1>0, <1>6, ReplayPutIs DEF ReplayPut, InTurn
<1>7. CASE Receive
  BY <1>0, <1>7, ReceiveIs DEF Receive, InTurn
<1>8. CASE Lose \/ Disconnect
  BY <1>0, <1>8, ConnectIs DEF Lose, Disconnect, InTurn
<1> QED
  BY <1>0, <1>1, <1>2, <1>3, <1>4, <1>5, <1>6, <1>7, <1>8 DEF Next, Push, SendAll, InTurn

\* What the tab has handled or will handle of this connection.
Shown == seen \cup Members(conn.queue) \cup Members(conn.replay)

\* What reaches the tab's queue is the tab's.
LEMMA OnlyMineKept ==
  ASSUME IInv, Next
  PROVE  OnlyMine'
<1>0. TypeOK /\ Once /\ OnlyMineComes /\ conn \in Connection
  BY DEF IInv, TypeOK
<1>1. \A x \in Events : Concerns(x) => Concerns(x)'
  BY OnceKept
<1>2. Shown \subseteq Events /\ \A x \in Shown : Concerns(x)
  BY <1>0, MembersOf DEF IInv, TypeOK, Connection, OnlyMine, Shown
<1>3. ASSUME \A x \in Shown' : x \in Shown \/ (x \in Events /\ Concerns(x)) PROVE OnlyMine'
  <2>1. \A x \in Shown' : Concerns(x)'
    BY <1>1, <1>2, <1>3
  <2> QED
    BY <2>1 DEF OnlyMine, Shown
<1>4. ASSUME conn' = conn, seen' = seen PROVE OnlyMine'
  <2>1. Shown' = Shown
    BY <1>4 DEF Shown, Members
  <2> QED
    BY <1>3, <2>1
<1>5. ASSUME NEW e \in Events, Deliver(e), Concerns(e), seen' = seen PROVE OnlyMine'
  <2>1. Members(conn'.queue) \subseteq Members(conn.queue) \cup {e} /\ conn'.replay = conn.replay
    BY <1>0, <1>5, DeliverIs
  <2>2. Shown' \subseteq Shown \cup {e}
    BY <1>5, <2>1 DEF Members, Shown
  <2> QED
    BY <1>3, <1>5, <2>2
<1>6. ASSUME NEW e \in Events, SendAll(e) PROVE OnlyMine'
  BY <1>0, <1>5, <1>6 DEF SendAll, OnlyMineComes
<1>7. CASE HubSend
  <2>1. Head(channel) \in Events /\ Concerns(Head(channel))
    BY <1>0, <1>7, ChannelIs DEF HubSend, OnlyMineComes
  <2> QED
    BY <1>5, <1>7, <2>1 DEF HubSend
<1>8. CASE Connect \/ Lose \/ Disconnect
  <2>1. conn'.queue = <<>> /\ conn'.replay = <<>> /\ Members(<<>>) = {} /\ seen' \subseteq seen
    BY <1>0, <1>8, ConnectIs DEF Connect, Lose, Disconnect
  <2>2. Shown' \subseteq Shown
    BY <2>1 DEF Members, Shown
  <2> QED
    BY <1>3, <2>2
<1>9. CASE ReplayRead
  <2> DEFINE r == EventsForReplay(history, conn.asked)
  <2>1. r \in Seq(Events) /\ \A x \in Members(r) : Concerns(x)
    BY <1>0, <1>9, ReplayIs DEF ReplayRead
  <2>2. conn'.queue = conn.queue /\ conn'.replay = r /\ seen' = seen
    BY <1>0, <1>9 DEF ReplayRead, Connection
  <2> HIDE DEF r
  <2>3. Members(r) \subseteq Events
    BY <2>1, MembersOf
  <2>4. Shown' \subseteq Shown \cup Members(r)
    BY <2>2 DEF Members, Shown
  <2> QED
    BY <1>3, <2>1, <2>3, <2>4
<1>10. CASE ReplayPut
  <2>1. Members(conn'.queue) \cup Members(conn'.replay) \subseteq Members(conn.queue) \cup Members(conn.replay)
    BY <1>0, <1>10, ReplayPutIs
  <2>2. Shown' \subseteq Shown
    BY <1>10, <2>1 DEF Members, ReplayPut, Shown
  <2> QED
    BY <1>3, <2>2
<1>11. CASE Receive
  <2>1. /\ conn'.replay = conn.replay /\ Members(conn.queue) = Members(conn'.queue) \cup {Head(conn.queue)}
        /\ seen' = seen \cup {Head(conn.queue)}
    BY <1>0, <1>11, ReceiveIs
  <2>2. Shown' \subseteq Shown
    BY <2>1 DEF Members, Shown
  <2> QED
    BY <1>3, <2>2
<1>12. ASSUME NEW e \in Events, Push(e) \/ \E k \in {"mine", "all", "other"} : Record(e, k) PROVE OnlyMine'
  BY <1>4, <1>12 DEF Push, Record
<1> QED
  BY <1>6, <1>7, <1>8, <1>9, <1>10, <1>11, <1>12 DEF Next

\* The event to be named remains one that was handled.
LEMMA LastWasSeenKept ==
  ASSUME IInv, Next
  PROVE  LastWasSeen'
<1>0. LastWasSeen
  BY DEF IInv
<1>1. CASE Receive
  BY <1>0, <1>1 DEF Receive, LastWasSeen
<1>2. CASE Disconnect
  BY <1>2 DEF Disconnect, LastWasSeen
<1>3. CASE seen' = seen /\ last' = last
  BY <1>0, <1>3 DEF LastWasSeen
<1> QED
  BY <1>1, <1>2, <1>3 DEF Next, Record, Push, SendAll, HubSend, Connect, ReplayRead, ReplayPut, Lose

\* What an event owed is accounted for by.
Accounted(e) == e \in seen \cup dropped \/ OnItsWay(e)

\* No step loses an event the connection owes.
LEMMA NoHoleKept ==
  ASSUME IInv, Next
  PROVE  NoHole'
<1>0. /\ TypeOK /\ Once /\ InTurn /\ NoHole /\ conn \in Connection
      /\ owed \subseteq Events /\ \A e \in owed : conn.on
  BY DEF IInv, TypeOK, InTurn
<1>1. ASSUME \A x \in owed' : x \in owed
      PROVE  (\A x \in owed : Accounted(x) => Accounted(x)') => NoHole'
  BY <1>0, <1>1 DEF NoHole, Accounted, OnItsWay
<1>d. ASSUME conn'.asked = conn.asked, history' = history, kind' = kind
      PROVE  Due(conn, history)' = Due(conn, history)
  BY <1>d DEF Due, Concerns, Members
<1>2. ASSUME NEW e \in Events, NEW k \in {"mine", "all", "other"}, Record(e, k) PROVE NoHole'
  <2>1. /\ channel' = channel /\ conn' = conn /\ seen' = seen
        /\ emitting' = IF k = "other" THEN emitting ELSE emitting \cup {e}
        /\ owed' = IF conn.on /\ k # "other" THEN owed \cup {e} ELSE owed
        /\ dropped' = dropped \cup (Due(conn, history) \ Due(conn, history'))
    BY <1>2 DEF Record
  <2>2. \A x \in Events : Concerns(x) => Concerns(x)'
    BY OnceKept
  <2>3. history' \in Seq(Events) /\ \A i \in DOMAIN history' : history'[i] \in Events
    BY <1>0, <1>2, RecordIs
  <2>4. Due(conn, history') \subseteq Due(conn, history)'
    BY <2>1, <2>2, <2>3 DEF Due, Members
  <2>5. \A x \in owed : Accounted(x) => Accounted(x)'
    BY <2>1, <2>4 DEF Accounted, OnItsWay, Members
  <2>6. \A x \in owed : Accounted(x)'
    BY <1>0, <2>5 DEF NoHole, Accounted
  <2>7. \A x \in owed' : x \in owed \/ x \in emitting'
    BY <2>1
  <2> QED
    BY <2>6, <2>7 DEF NoHole, Accounted, OnItsWay
<1>3. ASSUME NEW e \in Events, Push(e) PROVE NoHole'
  <2>1. /\ Members(channel') = Members(channel) \cup {e} /\ emitting' = emitting \ {e}
        /\ conn' = conn /\ seen' = seen /\ dropped' = dropped /\ owed' = owed
        /\ history' = history /\ kind' = kind
    BY <1>0, <1>3, MembersOfAppend DEF Push, TypeOK
  <2>2. Due(conn, history)' = Due(conn, history)
    BY <1>d, <2>1
  <2>3. \A x \in owed : Accounted(x) => Accounted(x)'
    BY <2>1, <2>2 DEF Accounted, OnItsWay, Members
  <2> QED
    BY <1>1, <2>1, <2>3
<1>4. ASSUME NEW e \in Events, Deliver(e), seen' = seen, owed' = owed, kind' = kind, history' = history,
             \A x \in emitting \cup Members(channel) : x = e \/ x \in emitting' \cup Members(channel')
      PROVE  NoHole'
  <2>1. /\ dropped \subseteq dropped' /\ conn'.asked = conn.asked /\ conn'.replay = conn.replay
        /\ Members(conn.queue) \subseteq Members(conn'.queue)
        /\ conn.on => e \in Members(conn'.queue) \cup dropped'
    BY <1>0, <1>4, DeliverIs
  <2>2. Due(conn, history)' = Due(conn, history)
    BY <1>d, <1>4, <2>1
  <2>3. ASSUME NEW x \in owed, Accounted(x) PROVE Accounted(x)'
    <3>1. conn.on
      BY <1>0, <2>3
    <3>2. CASE x \in emitting \cup Members(channel)
      BY <1>4, <2>1, <3>1, <3>2 DEF Accounted, OnItsWay, Members
    <3>3. CASE x \notin emitting \cup Members(channel)
      BY <1>4, <2>1, <2>2, <2>3, <3>3 DEF Accounted, OnItsWay, Members
    <3> QED
      BY <3>2, <3>3
  <2> QED
    BY <1>1, <1>4, <2>3
<1>5. ASSUME NEW e \in Events, SendAll(e) PROVE NoHole'
  BY <1>4, <1>5 DEF SendAll, Members
<1>6. CASE HubSend
  <2>1. Head(channel) \in Events /\ Members(channel) = Members(channel') \cup {Head(channel)}
    BY <1>0, <1>6, ChannelIs DEF HubSend
  <2> QED
    BY <1>4, <1>6, <2>1 DEF HubSend
<1>7. CASE Connect
  <2>1. /\ owed' = emitting \cup Members(channel) \cup Due(conn', history)
        /\ emitting' = emitting /\ channel' = channel /\ history' = history /\ kind' = kind
    BY <1>7 DEF Connect
  <2>2. Due(conn', history) = Due(conn, history)'
    BY <2>1 DEF Due, Concerns, Members
  <2> QED
    BY <2>1, <2>2 DEF NoHole, OnItsWay, Members
<1>8. CASE ReplayRead
  <2> DEFINE r == EventsForReplay(history, conn.asked)
  <2>1. Due(conn, history) \subseteq Members(r) /\ conn.replay = <<>>
    BY <1>0, <1>8, ReplayIs DEF ReplayRead, InTurn
  <2>2. /\ conn'.queue = conn.queue /\ conn'.replay = r /\ seen' = seen /\ dropped' = dropped
        /\ owed' = owed /\ emitting' = emitting /\ channel' = channel
    BY <1>0, <1>8 DEF ReplayRead, Connection
  <2> HIDE DEF r
  <2>3. Members(conn.replay) = {}
    BY <2>1 DEF Members
  <2>4. \A x \in owed : Accounted(x) => Accounted(x)'
    BY <2>1, <2>2, <2>3 DEF Accounted, OnItsWay, Members
  <2> QED
    BY <1>1, <2>2, <2>4
<1>9. CASE ReplayPut
  <2>1. /\ dropped \subseteq dropped' /\ conn'.asked = conn.asked
        /\ Members(conn.queue) \subseteq Members(conn'.queue)
        /\ Members(conn.replay) \subseteq Members(conn'.queue) \cup Members(conn'.replay) \cup dropped'
    BY <1>0, <1>9, ReplayPutIs
  <2>2. /\ seen' = seen /\ owed' = owed /\ emitting' = emitting /\ channel' = channel
        /\ history' = history /\ kind' = kind
    BY <1>9 DEF ReplayPut
  <2>3. Due(conn, history)' = Due(conn, history)
    BY <1>d, <2>1, <2>2
  <2>4. \A x \in owed : Accounted(x) => Accounted(x)'
    BY <2>1, <2>2, <2>3 DEF Accounted, OnItsWay, Members
  <2> QED
    BY <1>1, <2>2, <2>4
<1>10. CASE Receive
  <2>1. /\ conn'.asked = conn.asked /\ conn'.replay = conn.replay
        /\ Members(conn.queue) = Members(conn'.queue) \cup {Head(conn.queue)}
        /\ seen' = seen \cup {Head(conn.queue)}
    BY <1>0, <1>10, ReceiveIs
  <2>2. /\ dropped' = dropped /\ owed' = owed /\ emitting' = emitting /\ channel' = channel
        /\ history' = history /\ kind' = kind
    BY <1>10 DEF Receive
  <2>3. Due(conn, history)' = Due(conn, history)
    BY <1>d, <2>1, <2>2
  <2>4. \A x \in owed : Accounted(x) => Accounted(x)'
    BY <2>1, <2>2, <2>3 DEF Accounted, OnItsWay, Members
  <2> QED
    BY <1>1, <2>2, <2>4
<1>11. CASE Lose \/ Disconnect
  BY <1>11 DEF Lose, Disconnect, NoHole
<1> QED
  BY <1>2, <1>3, <1>5, <1>6, <1>7, <1>8, <1>9, <1>10, <1>11 DEF Next

-----------------------------------------------------------------------------
\* The invariant holds before anything is recorded.
LEMMA IInvInit ==
  ASSUME Init
  PROVE  IInv
<1>1. TypeOK
  BY ConnectIs DEF Init, TypeOK, Off, Connection
<1>2. Members(<<>>) = {} /\ Off.queue = <<>> /\ Off.replay = <<>> /\ Off.asked = None
  BY DEF Members, Off
<1> QED
  BY <1>1, <1>2 DEF Init, IInv, Once, OnlyMineComes, InTurn, OnlyMine, LastWasSeen, NoHole

\* Every step keeps the invariant.
LEMMA IInvKept ==
  ASSUME IInv, [Next]_vars
  PROVE  IInv'
<1>1. CASE Next
  BY <1>1, TypeKept, OnceKept, OnlyMineComesKept, InTurnKept, OnlyMineKept, LastWasSeenKept, NoHoleKept DEF IInv
<1>2. CASE UNCHANGED vars
  BY <1>2 DEF vars, IInv, TypeOK, Once, OnlyMineComes, InTurn, OnlyMine, LastWasSeen, NoHole, OnItsWay,
              Members, Concerns, Due
<1> QED
  BY <1>1, <1>2

\* The invariant holds in every reachable state.
LEMMA IInvAlways == Spec => []IInv
  BY IInvInit, IInvKept, PTL DEF Spec

\* Every variable keeps its type; in particular the tab only ever handles
\* events, in whatever order they come.
THEOREM TypeCorrect == Spec => []TypeOK
<1>1. IInv => TypeOK
  BY DEF IInv
<1> QED
  BY <1>1, IInvAlways, PTL

\* Between eventsForReplay and the live events nothing falls through: what the
\* connection owes the tab was handled, is under way, or was dropped because
\* the queue of the client or the history of the hub was full.
THEOREM NothingFallsThrough == Spec => []NoHole
<1>1. IInv => NoHole
  BY DEF IInv
<1> QED
  BY <1>1, IInvAlways, PTL

\* Neither send and sendAll nor the replay puts another user's event into the
\* queue of the tab's connection, though the hub keeps one history for all.
THEOREM NobodyElsesEvents == Spec => []OnlyMine
<1>1. IInv => OnlyMine
  BY DEF IInv
<1> QED
  BY <1>1, IInvAlways, PTL

\* WsManager asks for what came after an event of this very session: the
\* event it names is one it handled since the last disconnect.
THEOREM AsksForItsOwn == Spec => []LastWasSeen
<1>1. IInv => LastWasSeen
  BY DEF IInv
<1> QED
  BY <1>1, IInvAlways, PTL

-----------------------------------------------------------------------------
(***************************************************************************)
(* The AI's answers: the saved summary                                     *)
(***************************************************************************)
\* A request has all its fields, whatever is in them.
Fields ==
  {"pc", "op", "stream", "user", "thing", "mode", "shape", "len", "next", "hasDelta", "buf", "acc",
   "shown", "result", "ended", "events", "status", "late", "cancelled", "browser"}
Whole(r) == DOMAIN r = Fields

\* The same request, further on.
Continues(r, s) ==
  Whole(s) /\ s.op = r.op /\ s.stream = r.stream /\ s.user = r.user /\ s.thing = r.thing

\* A request that may save a summary is for an order of its user, and one
\* that does so has an answer.
MaySave(r) ==
  /\ r.pc \in {"ai", "save"} /\ r.op = "summary" => r.thing \in Things /\ r.user = Client[r.thing]
  /\ r.pc = "save" => r.op = "summary" /\ r.result \in {"ai", "substitute"}

\* What is saved for t, or read by an edit of t, is the whole answer of a
\* request that is over.
Answers(row, t) ==
  row # Old =>
    LET r == calls[row.by] IN
    /\ row.by \in Calls /\ r.op = "summary" /\ r.thing = t /\ r.user = Client[t]
    /\ r.pc = "done" /\ r.result \in {"ai", "substitute"} /\ row.text = r.acc

AiInv ==
  /\ calls = [c \in Calls |-> calls[c]]
  /\ summary = [t \in Things |-> summary[t]]
  /\ edit = [t \in Things |-> edit[t]]
  /\ \A c \in Calls : Whole(calls[c]) /\ MaySave(calls[c])
  /\ \A t \in Things : Answers(summary[t], t) /\ (edit[t].on => Answers(edit[t].row, t))

-----------------------------------------------------------------------------
\* A delta sent changes what is shown, never the request or its result.
LEMMA ChunkIs ==
  ASSUME NEW r, Whole(r), NEW chunk
  PROVE  LET s == Chunk(r, chunk) IN
         Continues(r, s) /\ s.pc = r.pc /\ s.result = r.result /\ s.acc = r.acc
BY DEF Whole, Fields, Chunk, Continues

\* Nor does an event of any other kind.
LEMMA EventIs ==
  ASSUME NEW r, Whole(r), NEW what
  PROVE  LET s == Event(r, what) IN
         Continues(r, s) /\ s.pc = r.pc /\ s.result = r.result /\ s.acc = r.acc
BY DEF Whole, Fields, Event, Continues

\* Closing the response ends the request with the result it had.
LEMMA HangupIs ==
  ASSUME NEW r, Whole(r)
  PROVE  LET s == Hangup(r) IN
         Continues(r, s) /\ s.pc = "done" /\ s.result = r.result /\ s.acc = r.acc
BY DEF Whole, Fields, Hangup, Continues

\* Continuing is transitive.
LEMMA ContinuesOn ==
  ASSUME NEW r, NEW s, NEW x, Continues(r, s), Continues(s, x)
  PROVE  Continues(r, x)
BY DEF Continues

\* onDelta only adds to what the request holds.
LEMMA OnDeltaIs ==
  ASSUME NEW r, Whole(r), NEW chunk
  PROVE  LET s == OnDelta(r, chunk) IN Continues(r, s) /\ s.pc = r.pc /\ s.result = r.result
<1> DEFINE k == [r EXCEPT !.acc = @ \o chunk]
<1>1. Continues(r, k) /\ Whole(k) /\ k.pc = r.pc /\ k.result = r.result
  BY DEF Whole, Fields, Continues
<1>2. OnDelta(r, chunk) = Chunk(k, chunk)
  BY DEF OnDelta
<1> HIDE DEF k
<1> QED
  BY <1>1, <1>2, ChunkIs DEF Continues

\* Flushing changes no result.
LEMMA FlushIs ==
  ASSUME NEW r, Whole(r)
  PROVE  LET s == Flush(r) IN Continues(r, s) /\ s.pc = r.pc /\ s.result = r.result
<1> DEFINE k == [r EXCEPT !.buf = <<>>]
<1>1. Continues(r, k) /\ Whole(k) /\ k.pc = r.pc /\ k.result = r.result
  BY DEF Whole, Fields, Continues
<1>2. Flush(r) = IF r.buf = <<>> THEN r ELSE OnDelta(k, r.buf)
  BY DEF Flush
<1> HIDE DEF k
<1> QED
  BY <1>1, <1>2, OnDeltaIs DEF Continues

\* Buffering changes no result.
LEMMA BufferedIs ==
  ASSUME NEW r, Whole(r), NEW pieces
  PROVE  LET s == Buffered(r, pieces) IN Continues(r, s) /\ s.pc = r.pc /\ s.result = r.result
<1> DEFINE b == r.buf \o pieces
           k == [r EXCEPT !.buf = <<>>]
           l == [r EXCEPT !.buf = b]
<1>1. Continues(r, k) /\ Whole(k) /\ k.pc = r.pc /\ k.result = r.result
  BY DEF Whole, Fields, Continues
<1>2. Continues(r, l) /\ l.pc = r.pc /\ l.result = r.result
  BY DEF Whole, Fields, Continues
<1>3. Buffered(r, pieces) = IF Bytes(b) >= FlushAt THEN OnDelta(k, b) ELSE l
  BY DEF Buffered
<1> HIDE DEF b, k, l
<1> QED
  BY <1>1, <1>2, <1>3, OnDeltaIs DEF Continues

\* A plain answer ends the request.
LEMMA RespondIs ==
  ASSUME NEW r, Whole(r), NEW status
  PROVE  LET s == Respond(r, status) IN
         Continues(r, s) /\ s.pc = "done" /\ s.result = r.result /\ s.acc = r.acc
<1> DEFINE k == [r EXCEPT !.status = IF Arrives(r) THEN status ELSE 0]
<1>1. Continues(r, k) /\ Whole(k) /\ k.result = r.result /\ k.acc = r.acc
  BY DEF Whole, Fields, Continues
<1>2. Respond(r, status) = Hangup(k)
  BY DEF Respond
<1> HIDE DEF k
<1> QED
  BY <1>1, <1>2, HangupIs DEF Continues

\* A failure ends it too, with whatever status.
LEMMA FailIs ==
  ASSUME NEW r, Whole(r), NEW status
  PROVE  LET s == Fail(r, status) IN Continues(r, s) /\ s.pc = "done"
<1> DEFINE k == [r EXCEPT !.result = "error"]
<1>1. Continues(r, k) /\ Whole(k)
  BY DEF Whole, Fields, Continues
<1>2. Fail(r, status) = IF k.stream THEN Hangup(Event(k, "error")) ELSE Respond(k, status)
  BY <1>1 DEF Fail, Continues
<1> HIDE DEF k
<1>3. Continues(k, Hangup(Event(k, "error"))) /\ Hangup(Event(k, "error")).pc = "done"
  BY <1>1, EventIs, HangupIs DEF Continues
<1>4. Continues(k, Respond(k, status)) /\ Respond(k, status).pc = "done"
  BY <1>1, RespondIs DEF Continues
<1> QED
  BY <1>1, <1>2, <1>3, <1>4, ContinuesOn

\* A stream that has ended goes on to save its text, or is over.
LEMMA StreamedIs ==
  ASSUME NEW r, Whole(r), NEW ended
  PROVE  LET s == Streamed(r, ended) IN
         /\ Continues(r, s)
         /\ \/ s.pc = "done"
            \/ s.pc = "save" /\ s.op = "summary" /\ s.result = "ai"
<1> DEFINE f == Flush(r)
           s == [f EXCEPT !.ended = ended]
           x == [s EXCEPT !.pc = "save", !.result = "ai"]
           y == [s EXCEPT !.result = IF ended = "all" THEN Complete(s.op, s.shape)
                                     ELSE Complete(s.op, "prose")]
<1>1. Continues(r, f) /\ Whole(f)
  BY FlushIs DEF Continues
<1>2. Streamed(r, ended) = IF s.op = "summary" THEN x
                           ELSE Hangup(IF s.op \in Completes THEN Event(y, "data") ELSE y)
  BY DEF Streamed
<1> HIDE DEF f
<1>3. Continues(f, s) /\ Whole(s)
  BY <1>1 DEF Whole, Fields, Continues
<1> HIDE DEF s
<1>4. Continues(s, x) /\ x.pc = "save" /\ x.result = "ai"
  BY <1>3 DEF Whole, Fields, Continues
<1>5. Continues(s, y) /\ Whole(y)
  BY <1>3 DEF Whole, Fields, Continues
<1> HIDE DEF x, y
<1>6. /\ Continues(y, Hangup(Event(y, "data"))) /\ Hangup(Event(y, "data")).pc = "done"
      /\ Continues(y, Hangup(y)) /\ Hangup(y).pc = "done"
  BY <1>5, EventIs, HangupIs DEF Continues
<1>7. CASE s.op = "summary"
  BY <1>1, <1>2, <1>3, <1>4, <1>7, ContinuesOn DEF Continues
<1>8. CASE s.op # "summary"
  BY <1>1, <1>2, <1>3, <1>5, <1>6, <1>8, ContinuesOn
<1> QED
  BY <1>7, <1>8

-----------------------------------------------------------------------------
\* A row's answer stays one as long as the requests that are over do.
LEMMA AnswerStays ==
  ASSUME NEW row, NEW t, Answers(row, t),
         \A d \in Calls : calls[d].pc = "done" => calls'[d] = calls[d]
  PROVE  row # Old =>
           LET r == calls'[row.by] IN
           /\ row.by \in Calls /\ r.op = "summary" /\ r.thing = t /\ r.user = Client[t]
           /\ r.pc = "done" /\ r.result \in {"ai", "substitute"} /\ row.text = r.acc
BY DEF Answers

\* A step of one request that leaves the rows keeps the invariant.
LEMMA OneGoesOn ==
  ASSUME AiInv, NEW c \in Calls, NEW r, OnlyCall(c, r), calls[c].pc # "done",
         Whole(r), MaySave(r)
  PROVE  AiInv'
<1>1. calls' = [calls EXCEPT ![c] = r] /\ UNCHANGED <<summary, edit>>
  BY DEF OnlyCall, Put
<1>2. /\ calls' = [d \in Calls |-> calls'[d]] /\ calls'[c] = r
      /\ \A d \in Calls : d # c => calls'[d] = calls[d]
  BY <1>1 DEF AiInv
<1>3. \A d \in Calls : Whole(calls'[d]) /\ MaySave(calls'[d])
  BY <1>2 DEF AiInv
<1>4. ASSUME NEW t \in Things
      PROVE  Answers(summary[t], t)' /\ (edit'[t].on => Answers(edit[t].row, t)')
  <2>1. \A d \in Calls : calls[d].pc = "done" => calls'[d] = calls[d]
    BY <1>2
  <2>2. Answers(summary[t], t) /\ (edit[t].on => Answers(edit[t].row, t))
    BY DEF AiInv
  <2> QED
    BY <1>1, <2>1, <2>2 DEF Answers
<1> QED
  BY <1>1, <1>2, <1>3, <1>4 DEF AiInv

\* The request goes on as it was, or is over.
LEMMA OneContinues ==
  ASSUME AiInv, NEW c \in Calls, NEW r, OnlyCall(c, r), calls[c].pc # "done",
         Continues(calls[c], r),
         \/ r.pc = "done"
         \/ r.pc = calls[c].pc /\ r.result = calls[c].result
  PROVE  AiInv'
<1>1. Whole(r)
  BY DEF Continues
<1>2. MaySave(calls[c])
  BY DEF AiInv
<1>3. MaySave(r)
  BY <1>2 DEF MaySave, Continues
<1> QED
  BY <1>1, <1>3, OneGoesOn

\* Saving ends a request; the summary it writes, if any, is what it composed.
LEMMA SaveKeeps ==
  ASSUME AiInv, NEW c \in Calls, NEW ok, Save(c, ok)
  PROVE  AiInv'
<1>0. PICK r : r = calls[c]
  OBVIOUS
<1>r. /\ Whole(r) /\ r.pc = "save" /\ r.op = "summary" /\ r.result \in {"ai", "substitute"}
      /\ r.thing \in Things /\ r.user = Client[r.thing]
  BY <1>0 DEF AiInv, MaySave, Save
<1>1. CASE r.acc # <<>> /\ ~ok
  <2>1. OnlyCall(c, Fail(r, 500))
    BY <1>0, <1>1 DEF Save
  <2> QED
    BY <1>0, <1>r, <2>1, FailIs, OneContinues
<1>2. CASE ~(r.acc # <<>> /\ ~ok)
  <2> DEFINE e == Event(r, "done")
             s == IF r.stream THEN Hangup(e) ELSE Respond(r, 200)
             row == [by |-> c, text |-> r.acc]
  <2>1. /\ calls' = [calls EXCEPT ![c] = s] /\ edit' = edit
        /\ summary' = IF r.acc = <<>> THEN summary ELSE [summary EXCEPT ![r.thing] = row]
    BY <1>0, <1>2 DEF Save, Put
  <2>2. Continues(r, e) /\ Whole(e) /\ e.result = r.result /\ e.acc = r.acc
    BY <1>r, EventIs DEF Continues
  <2> HIDE DEF e
  <2>3. Continues(r, s) /\ s.pc = "done" /\ s.result = r.result /\ s.acc = r.acc
    <3>1. Continues(e, Hangup(e)) /\ Hangup(e).pc = "done" /\ Hangup(e).result = e.result
          /\ Hangup(e).acc = e.acc
      BY <2>2, HangupIs
    <3>2. /\ Continues(r, Respond(r, 200)) /\ Respond(r, 200).pc = "done"
          /\ Respond(r, 200).result = r.result /\ Respond(r, 200).acc = r.acc
      BY <1>r, RespondIs
    <3> QED
      BY <2>2, <3>1, <3>2, ContinuesOn
  <2> HIDE DEF s
  <2>4. /\ calls' = [d \in Calls |-> calls'[d]] /\ calls'[c] = s
        /\ \A d \in Calls : d # c => calls'[d] = calls[d]
    BY <2>1 DEF AiInv
  <2>5. \A d \in Calls : Whole(calls'[d]) /\ MaySave(calls'[d])
    BY <2>3, <2>4 DEF AiInv, Continues, MaySave
  <2>6. \A d \in Calls : calls[d].pc = "done" => calls'[d] = calls[d]
    BY <1>0, <1>r, <2>4
  <2>7. summary' = [t \in Things |-> summary'[t]]
    BY <2>1 DEF AiInv
  <2>8. ASSUME NEW t \in Things PROVE Answers(summary[t], t)'
    <3>1. CASE summary'[t] = summary[t]
      BY <2>6, <3>1 DEF AiInv, Answers
    <3>2. CASE summary'[t] # summary[t]
      <4>1. t = r.thing /\ summary'[t] = row
        BY <2>1, <3>2 DEF AiInv
      <4>2. row.by = c /\ row.text = r.acc
        OBVIOUS
      <4> HIDE DEF row
      <4> QED
        BY <1>r, <2>3, <2>4, <4>1, <4>2 DEF Answers, Continues
    <3> QED
      BY <3>1, <3>2
  <2>9. ASSUME NEW t \in Things, edit'[t].on PROVE Answers(edit[t].row, t)'
    BY <2>1, <2>6, <2>9 DEF AiInv, Answers
  <2> QED
    BY <2>1, <2>4, <2>5, <2>7, <2>8, <2>9 DEF AiInv
<1> QED
  BY <1>1, <1>2

\* An edit writes back a summary the row had when the edit read it.
LEMMA EditKeeps ==
  ASSUME AiInv, NEW t \in Things, EditRead(t) \/ EditWrite(t)
  PROVE  AiInv'
<1>1. \A u \in Things : Answers(summary[u], u) /\ (edit[u].on => Answers(edit[u].row, u))
  BY DEF AiInv
<1>2. calls' = calls
  BY DEF EditRead, EditWrite
<1>3. /\ \A u : Answers(summary'[u], u) => Answers(summary[u], u)'
      /\ \A u : Answers(edit'[u].row, u) => Answers(edit[u].row, u)'
  BY <1>2 DEF Answers
<1>4. CASE EditRead(t)
  <2>1. edit' = [edit EXCEPT ![t] = [on |-> TRUE, row |-> summary[t]]] /\ summary' = summary
    BY <1>4 DEF EditRead
  <2>2. /\ edit'[t].row = summary[t] /\ edit' = [u \in Things |-> edit'[u]]
        /\ \A u \in Things : u # t => edit'[u] = edit[u]
    BY <2>1 DEF AiInv
  <2>3. ASSUME NEW u \in Things
        PROVE  Answers(summary[u], u)' /\ (edit'[u].on => Answers(edit[u].row, u)')
    <3>1. Answers(summary'[u], u) /\ (edit'[u].on => Answers(edit'[u].row, u))
      BY <1>1, <2>1, <2>2
    <3> QED
      BY <1>3, <3>1
  <2> QED
    BY <1>2, <2>1, <2>2, <2>3 DEF AiInv
<1>5. CASE EditWrite(t)
  <2>1. /\ summary' = [summary EXCEPT ![t] = edit[t].row] /\ edit' = [edit EXCEPT ![t] = NoEdit]
        /\ edit[t].on
    BY <1>5 DEF EditWrite
  <2>2. /\ summary'[t] = edit[t].row /\ ~edit'[t].on
        /\ \A u \in Things : u # t => edit'[u] = edit[u] /\ summary'[u] = summary[u]
        /\ edit' = [u \in Things |-> edit'[u]] /\ summary' = [u \in Things |-> summary'[u]]
    BY <2>1 DEF AiInv, NoEdit
  <2>3. ASSUME NEW u \in Things
        PROVE  Answers(summary[u], u)' /\ (edit'[u].on => Answers(edit[u].row, u)')
    <3>1. Answers(summary'[u], u) /\ (edit'[u].on => Answers(edit'[u].row, u))
      BY <1>1, <2>1, <2>2
    <3> QED
      BY <1>3, <3>1
  <2> QED
    BY <1>2, <2>2, <2>3 DEF AiInv
<1> QED
  BY <1>4, <1>5

-----------------------------------------------------------------------------
\* Every step keeps the invariant.
LEMMA AiInvKept == AiInv /\ [AiNext]_aiVars => AiInv'
<1> SUFFICES ASSUME AiInv, [AiNext]_aiVars PROVE AiInv'
  OBVIOUS
<1>w. \A c \in Calls : Whole(calls[c]) /\ MaySave(calls[c])
  BY DEF AiInv
<1>1. ASSUME NEW c \in Calls, NEW op, NEW stream, NEW u, NEW t, Begin(c, op, stream, u, t)
      PROVE  AiInv'
  <2>1. PICK mode, shape, n :
          OnlyCall(c, [Idle EXCEPT !.pc = "gate", !.op = op, !.stream = stream, !.user = u,
                                   !.thing = t, !.mode = mode, !.shape = shape, !.len = n,
                                   !.browser = "open"])
    BY <1>1 DEF Begin
  <2> DEFINE r == [Idle EXCEPT !.pc = "gate", !.op = op, !.stream = stream, !.user = u,
                               !.thing = t, !.mode = mode, !.shape = shape, !.len = n,
                               !.browser = "open"]
  <2>2. Whole(r) /\ r.pc = "gate"
    BY DEF Whole, Fields, Idle
  <2>3. calls[c].pc # "done" /\ OnlyCall(c, r)
    BY <1>1, <2>1 DEF Begin
  <2> HIDE DEF r
  <2>4. MaySave(r)
    BY <2>2 DEF MaySave
  <2> QED
    BY <2>2, <2>3, <2>4, OneGoesOn
<1>2. ASSUME NEW c \in Calls, NEW known, NEW valid, Gate(c, known, valid) PROVE AiInv'
  <2>0. PICK r : r = calls[c]
    OBVIOUS
  <2>r. Whole(r) /\ r.pc = "gate"
    BY <1>w, <2>0, <1>2 DEF Gate
  <2> DEFINE k == [r EXCEPT !.result = "error"]
             l == [r EXCEPT !.pc = "load"]
  <2>1. Continues(r, k) /\ Whole(k)
    BY <2>r DEF Whole, Fields, Continues
  <2>2. Continues(r, l) /\ Whole(l) /\ l.pc = "load"
    BY <2>r DEF Whole, Fields, Continues
  <2>3. \/ \E status : OnlyCall(c, Respond(r, status))
        \/ OnlyCall(c, Hangup(Event(k, "error")))
        \/ OnlyCall(c, l)
    BY <1>2, <2>0 DEF Gate
  <2> HIDE DEF k, l
  <2>4. ASSUME NEW status, OnlyCall(c, Respond(r, status)) PROVE AiInv'
    BY <2>0, <2>r, <2>4, RespondIs, OneContinues
  <2>5. CASE OnlyCall(c, Hangup(Event(k, "error")))
    <3>1. Continues(k, Hangup(Event(k, "error"))) /\ Hangup(Event(k, "error")).pc = "done"
      BY <2>1, EventIs, HangupIs DEF Continues
    <3> QED
      BY <2>0, <2>r, <2>1, <2>5, <3>1, ContinuesOn, OneContinues
  <2>6. CASE OnlyCall(c, l)
    BY <2>0, <2>r, <2>2, <2>6, OneGoesOn DEF MaySave
  <2> QED
    BY <2>3, <2>4, <2>5, <2>6
<1>3. ASSUME NEW c \in Calls, NEW row, Load(c, row) PROVE AiInv'
  <2>0. PICK r : r = calls[c]
    OBVIOUS
  <2>r. Whole(r) /\ r.pc = "load"
    BY <1>w, <2>0, <1>3 DEF Load
  <2> DEFINE l == [r EXCEPT !.pc = "ai"]
  <2>1. CASE Loads(r.op, r.user, r.thing, row)
    <3>1. OnlyCall(c, l)
      BY <1>3, <2>0, <2>1 DEF Load
    <3>2. Continues(r, l) /\ Whole(l) /\ l.pc = "ai"
      BY <2>r DEF Whole, Fields, Continues
    <3>3. r.op = "summary" => r.thing \in Things /\ r.user = Client[r.thing]
      BY <2>1 DEF Loads, SummaryLoad, Found
    <3> HIDE DEF l
    <3>4. MaySave(l)
      BY <3>2, <3>3 DEF MaySave, Continues
    <3> QED
      BY <2>0, <2>r, <3>1, <3>2, <3>4, OneGoesOn
  <2>2. CASE ~Loads(r.op, r.user, r.thing, row)
    <3>1. OnlyCall(c, Fail(r, NotFound(r.op, r.thing)))
      BY <1>3, <2>0, <2>2 DEF Load
    <3> QED
      BY <2>0, <2>r, <3>1, FailIs, OneContinues
  <2> QED
    BY <2>1, <2>2
<1>4. ASSUME NEW c \in Calls, EmptyChat(c) PROVE AiInv'
  <2>0. PICK r : r = calls[c]
    OBVIOUS
  <2>r. Whole(r) /\ r.pc = "load"
    BY <1>w, <2>0, <1>4 DEF EmptyChat
  <2> DEFINE k == [r EXCEPT !.result = "substitute"]
  <2>1. Continues(r, k) /\ Whole(k) /\ k.stream = r.stream
    BY <2>r DEF Whole, Fields, Continues
  <2>2. OnlyCall(c, Hangup(k)) \/ OnlyCall(c, Respond(k, 200))
    BY <1>4, <2>0 DEF EmptyChat
  <2> HIDE DEF k
  <2>3. /\ Continues(k, Hangup(k)) /\ Hangup(k).pc = "done"
        /\ Continues(k, Respond(k, 200)) /\ Respond(k, 200).pc = "done"
    BY <2>1, HangupIs, RespondIs
  <2> QED
    BY <2>0, <2>r, <2>1, <2>2, <2>3, ContinuesOn, OneContinues
<1>5. ASSUME NEW c \in Calls, NEW reply \in Replies, Reply(c, reply) PROVE AiInv'
  <2>0. PICK r : r = calls[c]
    OBVIOUS
  <2>r. Whole(r) /\ r.pc = "ai" /\ MaySave(r)
    BY <1>w, <2>0, <1>5 DEF Reply
  <2> DEFINE result == Result(r.op, reply)
             s == [r EXCEPT !.pc = "save", !.result = result, !.ended = "all", !.acc = UpTo(r.len)]
             k == [r EXCEPT !.result = result, !.ended = "all"]
  <2>1. \/ OnlyCall(c, Fail(r, 500))
        \/ r.op = "summary" /\ result # "error" /\ OnlyCall(c, s)
        \/ OnlyCall(c, Respond(k, 200))
    BY <1>5, <2>0 DEF Reply
  <2>2. CASE OnlyCall(c, Fail(r, 500))
    BY <2>0, <2>r, <2>2, FailIs, OneContinues
  <2>3. CASE r.op = "summary" /\ OnlyCall(c, s)
    <3>1. result \in {"ai", "substitute"}
      BY <2>3 DEF Result, SummaryReply, Substitute
    <3> HIDE DEF result
    <3>2. Continues(r, s) /\ Whole(s) /\ s.pc = "save" /\ s.result = result
      BY <2>r DEF Whole, Fields, Continues
    <3> HIDE DEF s
    <3>3. MaySave(s)
      BY <2>r, <2>3, <3>1, <3>2 DEF MaySave, Continues
    <3> QED
      BY <2>0, <2>r, <2>3, <3>2, <3>3, OneGoesOn
  <2>4. CASE OnlyCall(c, Respond(k, 200))
    <3> HIDE DEF result
    <3>1. Continues(r, k) /\ Whole(k)
      BY <2>r DEF Whole, Fields, Continues
    <3> HIDE DEF k
    <3>2. Continues(k, Respond(k, 200)) /\ Respond(k, 200).pc = "done"
      BY <3>1, RespondIs
    <3> QED
      BY <2>0, <2>r, <2>4, <3>1, <3>2, ContinuesOn, OneContinues
  <2> QED
    BY <2>1, <2>2, <2>3, <2>4
\* A stream goes on, fails or ends.
<1>6. ASSUME NEW c \in Calls, NEW k, NEW pieces, calls[c].pc = "ai", Continues(calls[c], k),
             k.pc = calls[c].pc, k.result = calls[c].result, OnlyCall(c, Buffered(k, pieces))
      PROVE  AiInv'
  <2>1. /\ Continues(k, Buffered(k, pieces)) /\ Buffered(k, pieces).pc = k.pc
        /\ Buffered(k, pieces).result = k.result
    BY <1>6, BufferedIs DEF Continues
  <2> QED
    BY <1>6, <2>1, ContinuesOn, OneContinues
<1>7. ASSUME NEW c \in Calls, SendPiece(c) PROVE AiInv'
  <2>0. PICK r : r = calls[c]
    OBVIOUS
  <2> DEFINE k == [r EXCEPT !.next = @ + 1, !.hasDelta = @ \/ r.mode = "deltas"]
  <2>1. Continues(r, k) /\ k.pc = r.pc /\ k.result = r.result
    BY <1>w, <2>0 DEF Whole, Fields, Continues
  <2>2. r.pc = "ai" /\ OnlyCall(c, Buffered(k, <<r.next + 1>>))
    BY <1>7, <2>0 DEF SendPiece, Streaming
  <2> HIDE DEF k
  <2> QED
    BY <2>0, <2>1, <2>2, <1>6
<1>8. ASSUME NEW c \in Calls, SendWhole(c) PROVE AiInv'
  <2>0. PICK r : r = calls[c]
    OBVIOUS
  <2> DEFINE k == [r EXCEPT !.next = r.len, !.ended = "text"]
  <2>1. Continues(r, k) /\ k.pc = r.pc /\ k.result = r.result
    BY <1>w, <2>0 DEF Whole, Fields, Continues
  <2>2. r.pc = "ai" /\ (OnlyCall(c, Buffered(k, UpTo(r.len))) \/ OnlyCall(c, k))
    BY <1>8, <2>0 DEF SendWhole, Streaming
  <2> HIDE DEF k
  <2> QED
    BY <2>0, <2>1, <2>2, <1>6, OneContinues
<1>9. ASSUME NEW c \in Calls, NEW ended, calls[c].pc = "ai", OnlyCall(c, Streamed(calls[c], ended))
      PROVE  AiInv'
  <2>0. PICK r, s : r = calls[c] /\ s = Streamed(r, ended)
    OBVIOUS
  <2>1. /\ Whole(r) /\ MaySave(r) /\ r.pc = "ai" /\ Continues(r, s) /\ OnlyCall(c, s)
        /\ s.pc = "done" \/ (s.pc = "save" /\ s.op = "summary" /\ s.result = "ai")
    BY <1>9, <1>w, <2>0, StreamedIs
  <2>2. MaySave(s) /\ Whole(s)
    BY <2>1 DEF MaySave, Continues
  <2> QED
    BY <2>0, <2>1, <2>2, OneGoesOn
<1>10. ASSUME NEW c \in Calls, SendDone(c) \/ SendCut(c) \/ ReadCancelled(c) PROVE AiInv'
  BY <1>10, <1>9 DEF SendDone, SendCut, ReadCancelled, Streaming
<1>11. ASSUME NEW c \in Calls, StreamFails(c) PROVE AiInv'
  <2>0. PICK r : r = calls[c]
    OBVIOUS
  <2>r. Whole(r) /\ r.pc = "ai"
    BY <1>w, <1>11, <2>0 DEF StreamFails, Streaming
  <2> DEFINE f == Flush(r)
             k == [f EXCEPT !.ended = "failed"]
  <2>1. Continues(r, f) /\ Whole(f)
    BY <2>r, FlushIs DEF Continues
  <2>2. OnlyCall(c, Fail(k, 500))
    BY <1>11, <2>0 DEF StreamFails
  <2> HIDE DEF f
  <2>3. Continues(f, k) /\ Whole(k)
    BY <2>1 DEF Whole, Fields, Continues
  <2> HIDE DEF k
  <2>4. Continues(k, Fail(k, 500)) /\ Fail(k, 500).pc = "done"
    BY <2>3, FailIs
  <2> QED
    BY <2>0, <2>r, <2>1, <2>2, <2>3, <2>4, ContinuesOn, OneContinues
<1>12. ASSUME NEW c \in Calls, AiTimesOut(c) PROVE AiInv'
  BY <1>12, <1>5, <1>11 DEF AiTimesOut, Replies
<1>13. ASSUME NEW c \in Calls, Late(c) PROVE AiInv'
  <2>1. Continues(calls[c], [calls[c] EXCEPT !.late = TRUE])
        /\ [calls[c] EXCEPT !.late = TRUE].pc = calls[c].pc
        /\ [calls[c] EXCEPT !.late = TRUE].result = calls[c].result
    BY <1>w DEF Whole, Fields, Continues
  <2> QED
    BY <1>13, <2>1, OneContinues DEF Late, InFlight
<1>14. ASSUME NEW c \in Calls, Abort(c) PROVE AiInv'
  <2>1. Continues(calls[c], [calls[c] EXCEPT !.browser = "aborted"])
        /\ [calls[c] EXCEPT !.browser = "aborted"].pc = calls[c].pc
        /\ [calls[c] EXCEPT !.browser = "aborted"].result = calls[c].result
    BY <1>w DEF Whole, Fields, Continues
  <2> QED
    BY <1>14, <2>1, OneContinues DEF Abort, InFlight
<1>15. ASSUME NEW c \in Calls, SeesAbort(c) PROVE AiInv'
  <2>1. Continues(calls[c], [calls[c] EXCEPT !.cancelled = TRUE])
        /\ [calls[c] EXCEPT !.cancelled = TRUE].pc = calls[c].pc
        /\ [calls[c] EXCEPT !.cancelled = TRUE].result = calls[c].result
    BY <1>w DEF Whole, Fields, Continues
  <2> QED
    BY <1>15, <2>1, OneContinues DEF SeesAbort, InFlight
<1>16. CASE UNCHANGED aiVars
  BY <1>16 DEF aiVars, AiInv, Answers
<1> QED
  BY <1>1, <1>2, <1>3, <1>4, <1>5, <1>7, <1>8, <1>10, <1>11, <1>12, <1>13, <1>14, <1>15, <1>16,
     SaveKeeps, EditKeeps DEF AiNext, Handler, Provider, Done

\* No request runs and no summary is saved at first.
LEMMA AiInvInit == AiInit => AiInv
<1> SUFFICES ASSUME AiInit PROVE AiInv
  OBVIOUS
<1>1. /\ calls = [c \in Calls |-> Idle] /\ summary = [t \in Things |-> Old]
      /\ edit = [t \in Things |-> NoEdit]
  BY DEF AiInit
<1>2. Whole(Idle) /\ MaySave(Idle) /\ ~NoEdit.on
  BY DEF Whole, Fields, Idle, MaySave, NoEdit
<1> QED
  BY <1>1, <1>2 DEF AiInv, Answers

\* A saved summary is what one request of the row's own client had composed,
\* saved by it at its end, for any requests, edits, failures and aborts.
THEOREM SummariesAreAnswers == AiSpec => []SummaryIsAnAnswer
<1>1. AiInv => SummaryIsAnAnswer
  BY DEF AiInv, Answers, SummaryIsAnAnswer
<1> QED
  BY <1>1, AiInvInit, AiInvKept, PTL DEF AiSpec

-----------------------------------------------------------------------------
(***************************************************************************)
(* The AI's answers: what the reader is told                               *)
(***************************************************************************)
\* The words of a text are those of its parts.
LEMMA WordsOfBoth ==
  ASSUME NEW s \in Seq(Int), NEW t \in Seq(Int)
  PROVE  Words(s \o t) = Words(s) \o Words(t)
<1> DEFINE I == {i \in 1..Len(s) : s[i] \notin Breaks}
           J == {j \in 1..Len(t) : t[j] \notin Breaks}
<1>1. /\ Len(s) \in Nat /\ Len(t) \in Nat /\ Len(s \o t) = Len(s) + Len(t)
      /\ \A i \in 1..Len(s) : (s \o t)[i] = s[i]
      /\ \A j \in 1..Len(t) : (s \o t)[Len(s) + j] = t[j]
  BY ConcatProperties
<1>2. {i \in 1..Len(s \o t) : (s \o t)[i] \notin Breaks} = Both(I, Len(s), J)
  <2>1. ASSUME NEW i \in 1..(Len(s) + Len(t))
        PROVE  (s \o t)[i] \notin Breaks <=> i \in Both(I, Len(s), J)
    <3>1. CASE i <= Len(s)
      <4>1. i \in 1..Len(s) /\ \A j \in J : i # Len(s) + j
        BY <1>1, <3>1
      <4> QED
        BY <4>1, <1>1 DEF Both, After
    <3>2. CASE ~(i <= Len(s))
      <4>1. i - Len(s) \in 1..Len(t) /\ i = Len(s) + (i - Len(s)) /\ i \notin I
        BY <1>1, <3>2
      <4>2. (s \o t)[i] = t[i - Len(s)]
        BY <4>1, <1>1
      <4>3. i \in After(Len(s), J) <=> i - Len(s) \in J
        <5>1. \A j \in J : i = Len(s) + j => j = i - Len(s)
          BY <1>1
        <5> QED
          BY <4>1, <5>1 DEF After
      <4> QED
        BY <4>1, <4>2, <4>3 DEF Both
    <3> QED
      BY <3>1, <3>2
  <2>2. Both(I, Len(s), J) \subseteq 1..(Len(s) + Len(t))
    BY <1>1 DEF Both, After
  <2> QED
    BY <1>1, <2>1, <2>2
<1> HIDE DEF I, J
<1>3. Places(I, Len(s)) /\ Places(J, Len(t))
  BY DEF I, J, Places
<1>4. At(s \o t, Both(I, Len(s), J)) = At(s, I) \o At(t, J)
  BY <1>3, AtBoth
<1> QED
  BY <1>2, <1>4 DEF Words, I, J

\* Pieces a + 1 to b.
Seg(a, b) == [i \in 1..(b - a) |-> a + i]

\* Pieces d+1..n of the answer: their concatenation, and their words.
LEMMA Segs ==
  ASSUME NEW d \in Nat, NEW n \in Nat, d <= n
  PROVE  /\ Seg(d, n) \in Seq(Int) /\ UpTo(n) \in Seq(Int)
         /\ UpTo(d) \o Seg(d, n) = UpTo(n)
         /\ Seg(d, n) \o <<n + 1>> = Seg(d, n + 1)
         /\ Seg(n, n) = <<>> /\ Seg(0, n) = UpTo(n) /\ <<>> \o UpTo(n) = UpTo(n)
         /\ Words(UpTo(n)) = Words(UpTo(d)) \o Words(Seg(d, n))
<1>1. /\ Seg(d, n) \in Seq(Int) /\ Len(Seg(d, n)) = n - d
      /\ UpTo(n) \in Seq(Int) /\ Len(UpTo(n)) = n
      /\ UpTo(d) \in Seq(Int) /\ Len(UpTo(d)) = d
      /\ Seg(d, n + 1) \in Seq(Int) /\ Len(Seg(d, n + 1)) = n + 1 - d
  BY DEF Seg, UpTo
<1>2. UpTo(d) \o Seg(d, n) = UpTo(n)
  BY <1>1 DEF Seg, UpTo
<1>3. Seg(d, n) \o <<n + 1>> = Seg(d, n + 1)
  BY <1>1 DEF Seg
<1>4. Seg(n, n) = <<>> /\ Seg(0, n) = UpTo(n)
  BY DEF Seg, UpTo
<1>5. <<>> \o UpTo(n) = UpTo(n)
  BY <1>1, ConcatEmptySeq
<1> QED
  BY <1>1, <1>2, <1>3, <1>4, <1>5, WordsOfBoth

\* No text has no words.
LEMMA NoWords == Words(<<>>) = <<>> /\ UpTo(0) = <<>>
<1>1. {i \in 1..Len(<<>>) : <<>>[i] \notin Breaks} = {}
  OBVIOUS
<1>2. Cardinality({}) = 0
  BY FS_EmptySet
<1> QED
  BY <1>1, <1>2 DEF Words, At, UpTo

-----------------------------------------------------------------------------
\* The one text of a stream that is not shown.
Lost(r) == r.mode = "whole" /\ ~Short(r.len)

\* All of a stream has been shown, if it has ended by itself.
ShowsAll(r) ==
  r.stream /\ r.ended \notin {"no", "cut"} /\ ~Lost(r)
    => r.shown = Followed(r, Words(UpTo(r.len)))

\* The reader has the text up to a piece, and the buffer has the rest of
\* what was sent.
InStep(r) ==
  \E d \in 0..r.next : /\ r.buf = Seg(d, r.next)
                       /\ Arrives(r) => r.shown = Words(UpTo(d))

Told(r) ==
  /\ r.stream \in BOOLEAN /\ r.hasDelta \in BOOLEAN /\ r.late \in BOOLEAN /\ r.cancelled \in BOOLEAN
  /\ r.len \in Nat \ {0} /\ r.next \in 0..r.len
  /\ r.cancelled => ~Arrives(r)
  /\ ShownInOrder(r)

\* The event with the result is still to come.
Counted(r) == Told(r) /\ ~Announced(r)

Honest(r) ==
  /\ Told(r)
  /\ r.pc # "done" => Counted(r) /\ r.browser # "finished" /\ r.result # "error"
  /\ r.pc \in {"idle", "gate", "load"} => r.next = 0 /\ r.ended = "no" /\ ~r.hasDelta
  /\ r.pc \in {"idle", "gate", "load"} \/ (r.pc = "ai" /\ ~r.stream) => r.buf = <<>> /\ r.shown = <<>>
  /\ r.pc = "ai" =>
       /\ ~r.stream => r.ended = "no"
       /\ InStep(r) \/ (Lost(r) /\ r.buf = <<>> /\ r.shown = <<>>)
       /\ r.mode = "deltas" => (r.hasDelta <=> r.next > 0)
       /\ r.mode = "whole" => ~r.hasDelta
       /\ r.mode = "whole" /\ r.ended = "no" => r.next = 0
  /\ r.pc = "save" /\ Arrives(r) => ShowsAll(r)
  /\ EndedWell(r) => r.result # "error" /\ ShowsAll(r)

\* s is r but for the fields F.
Same(r, s, F) == \A f \in Fields \ F : s[f] = r[f]

\* What is counted depends only on the fields of the stream.
LEMMA SameTold ==
  ASSUME NEW r, NEW s, NEW F, Same(r, s, F), Counted(r),
         F \cap {"stream", "hasDelta", "late", "cancelled", "len", "next", "shown", "browser",
               "events"} = {}
  PROVE  Counted(s)
BY DEF Same, Fields, Counted, Told, Arrives, ShownInOrder, Followed, Announced

\* Sending pieces d+1..next to a reader that has d brings it up to next.
LEMMA ChunkTells ==
  ASSUME NEW r, Whole(r), Counted(r), NEW d \in 0..r.next,
         Arrives(r) => r.shown = Words(UpTo(d))
  PROVE  LET s == Chunk(r, Seg(d, r.next)) IN
         /\ Whole(s) /\ Counted(s) /\ Same(r, s, {"shown", "cancelled"})
         /\ Arrives(s) => s.shown = Words(UpTo(s.next))
<1> DEFINE s == Chunk(r, Seg(d, r.next))
<1>1. /\ Whole(s) /\ Same(r, s, {"shown", "cancelled"})
      /\ s.shown = IF Arrives(r) THEN r.shown \o Words(Seg(d, r.next)) ELSE r.shown
      /\ s.cancelled = (r.cancelled \/ r.late)
  BY DEF Whole, Chunk, Same, Fields
<1> HIDE DEF s
<1>2. /\ s.stream = r.stream /\ s.hasDelta = r.hasDelta /\ s.late = r.late /\ s.len = r.len
      /\ s.next = r.next /\ s.browser = r.browser /\ s.events = r.events
  BY <1>1 DEF Same, Fields
<1>3. Words(UpTo(r.next)) = Words(UpTo(d)) \o Words(Seg(d, r.next)) /\ r.next \in Nat
  <2>1. r.next \in Nat /\ d \in Nat /\ d <= r.next
    BY DEF Counted, Told
  <2> QED
    BY <2>1, Segs
<1>4. Arrives(s) <=> Arrives(r)
  BY <1>2 DEF Arrives
<1>5. Arrives(s) => s.shown = Words(UpTo(s.next))
  BY <1>1, <1>2, <1>3, <1>4
<1>6. ShownInOrder(s)
  <2>1. CASE Arrives(r)
    <3>1. s.next \in 0..s.next
      BY <1>2, <1>3
    <3> QED
      BY <1>2, <1>4, <1>5, <2>1, <3>1 DEF Counted, ShownInOrder, Followed, Announced
  <2>2. CASE ~Arrives(r)
    BY <1>1, <1>2, <2>2 DEF Counted, Told, ShownInOrder, Followed, Announced
  <2> QED
    BY <2>1, <2>2
<1>7. s.cancelled \in BOOLEAN /\ (s.cancelled => ~Arrives(s))
  BY <1>1, <1>2 DEF Counted, Told, Arrives
<1>8. Counted(s)
  BY <1>2, <1>6, <1>7 DEF Counted, Told, Announced
<1> QED
  BY <1>1, <1>5, <1>8 DEF s

\* Two steps that change fields F and G change none outside of both.
LEMMA SameOn ==
  ASSUME NEW r, NEW s, NEW x, NEW F, NEW G, NEW H, Same(r, s, F), Same(s, x, G),
         F \subseteq H, G \subseteq H
  PROVE  Same(r, x, H)
BY DEF Same

\* onDelta sends what it was given, so the reader is up to date.
LEMMA OnDeltaTells ==
  ASSUME NEW r, Whole(r), Counted(r), NEW d \in 0..r.next,
         Arrives(r) => r.shown = Words(UpTo(d))
  PROVE  LET s == OnDelta(r, Seg(d, r.next)) IN
         /\ Whole(s) /\ Counted(s) /\ Same(r, s, {"acc", "shown", "cancelled"})
         /\ Arrives(s) => s.shown = Words(UpTo(s.next))
<1> DEFINE k == [r EXCEPT !.acc = @ \o Seg(d, r.next)]
<1>1. Whole(k) /\ Same(r, k, {"acc"})
  BY DEF Whole, Fields, Same
<1>2. OnDelta(r, Seg(d, r.next)) = Chunk(k, Seg(d, r.next))
  BY DEF OnDelta
<1> HIDE DEF k
<1>3. /\ k.next = r.next /\ k.shown = r.shown /\ k.events = r.events /\ (Arrives(k) <=> Arrives(r)) /\ Counted(k)
  <2>1. Counted(k)
    BY <1>1, SameTold
  <2> QED
    BY <1>1, <2>1 DEF Same, Fields, Arrives
<1>4. LET s == Chunk(k, Seg(d, k.next)) IN
      /\ Whole(s) /\ Counted(s) /\ Same(k, s, {"shown", "cancelled"})
      /\ Arrives(s) => s.shown = Words(UpTo(s.next))
  BY <1>1, <1>3, ChunkTells
<1> QED
  BY <1>1, <1>2, <1>3, <1>4, SameOn

\* Flush sends the buffer, so the reader is up to date, unless it was all too long.
LEMMA FlushTells ==
  ASSUME NEW r, Whole(r), Counted(r), InStep(r) \/ (Lost(r) /\ r.buf = <<>>)
  PROVE  LET s == Flush(r) IN
         /\ Whole(s) /\ Counted(s) /\ Same(r, s, {"buf", "acc", "shown", "cancelled"})
         /\ ~Lost(r) /\ Arrives(s) => s.shown = Words(UpTo(s.next))
<1>1. CASE r.buf = <<>>
  <2>1. Flush(r) = r /\ Same(r, r, {"buf", "acc", "shown", "cancelled"})
    BY <1>1 DEF Flush, Same
  <2>2. ASSUME ~Lost(r), Arrives(r) PROVE r.shown = Words(UpTo(r.next))
    <3>1. PICK d \in 0..r.next : r.buf = Seg(d, r.next) /\ r.shown = Words(UpTo(d))
      BY <2>2 DEF InStep
    <3>2. Len(Seg(d, r.next)) = r.next - d /\ r.next \in Nat /\ d \in Nat
      BY DEF Seg, Counted, Told
    <3>3. d = r.next
      BY <1>1, <3>1, <3>2
    <3> QED
      BY <3>1, <3>3
  <2> QED
    BY <2>1, <2>2
<1>2. CASE r.buf # <<>>
  <2>1. PICK d \in 0..r.next : r.buf = Seg(d, r.next) /\ (Arrives(r) => r.shown = Words(UpTo(d)))
    BY <1>2 DEF InStep
  <2> DEFINE k == [r EXCEPT !.buf = <<>>]
  <2>2. Whole(k) /\ Same(r, k, {"buf"})
    BY DEF Whole, Fields, Same
  <2>3. Flush(r) = OnDelta(k, Seg(d, r.next))
    BY <1>2, <2>1 DEF Flush
  <2> HIDE DEF k
  <2>4. k.next = r.next /\ k.shown = r.shown /\ k.events = r.events /\ (Arrives(k) <=> Arrives(r)) /\ Counted(k)
    <3>1. Counted(k)
      BY <2>2, SameTold
    <3> QED
      BY <2>2, <3>1 DEF Same, Fields, Arrives
  <2>5. LET s == OnDelta(k, Seg(d, k.next)) IN
        /\ Whole(s) /\ Counted(s) /\ Same(k, s, {"acc", "shown", "cancelled"})
        /\ Arrives(s) => s.shown = Words(UpTo(s.next))
    BY <2>1, <2>2, <2>4, OnDeltaTells
  <2> QED
    BY <2>2, <2>3, <2>4, <2>5, SameOn
<1> QED
  BY <1>1, <1>2

\* A buffered piece is sent, or waits as the next of the buffer.
LEMMA BufferedTells ==
  ASSUME NEW r, Whole(r), Counted(r), NEW pieces, NEW d \in 0..r.next,
         r.buf \o pieces = Seg(d, r.next), Arrives(r) => r.shown = Words(UpTo(d))
  PROVE  LET s == Buffered(r, pieces) IN
         /\ Whole(s) /\ Counted(s) /\ InStep(s)
         /\ Same(r, s, {"buf", "acc", "shown", "cancelled"})
<1> DEFINE k == [r EXCEPT !.buf = <<>>]
           l == [r EXCEPT !.buf = Seg(d, r.next)]
<1>1. Whole(k) /\ Same(r, k, {"buf"}) /\ k.buf = <<>>
  BY DEF Whole, Fields, Same
<1>2. Whole(l) /\ Same(r, l, {"buf"}) /\ l.buf = Seg(d, r.next)
  BY DEF Whole, Fields, Same
<1>3. Buffered(r, pieces) = IF Bytes(Seg(d, r.next)) >= FlushAt THEN OnDelta(k, Seg(d, r.next)) ELSE l
  BY DEF Buffered
<1> HIDE DEF k, l
<1>4. /\ Counted(k) /\ k.next = r.next /\ k.shown = r.shown /\ k.events = r.events /\ (Arrives(k) <=> Arrives(r))
      /\ Counted(l) /\ l.next = r.next /\ l.shown = r.shown /\ l.events = r.events /\ (Arrives(l) <=> Arrives(r))
  <2>1. Counted(k) /\ Counted(l)
    BY <1>1, <1>2, SameTold
  <2> QED
    BY <1>1, <1>2, <2>1 DEF Same, Fields, Arrives
<1>5. CASE Bytes(Seg(d, r.next)) >= FlushAt
  <2>1. PICK s : s = OnDelta(k, Seg(d, k.next))
    OBVIOUS
  <2>2. /\ Whole(s) /\ Counted(s) /\ Same(k, s, {"acc", "shown", "cancelled"})
        /\ Arrives(s) => s.shown = Words(UpTo(s.next))
    BY <1>1, <1>4, <2>1, OnDeltaTells
  <2>3. s.buf = <<>> /\ s.next \in Nat
    BY <1>1, <2>2 DEF Same, Fields, Counted, Told
  <2>4. Seg(s.next, s.next) = <<>> /\ s.next \in 0..s.next
    BY <2>3 DEF Seg
  <2>5. InStep(s)
    BY <2>2, <2>3, <2>4 DEF InStep
  <2> QED
    BY <1>1, <1>3, <1>4, <1>5, <2>1, <2>2, <2>5, SameOn
<1>6. CASE ~(Bytes(Seg(d, r.next)) >= FlushAt)
  <2>1. InStep(l)
    BY <1>2, <1>4 DEF InStep
  <2> QED
    BY <1>2, <1>3, <1>4, <1>6, <2>1 DEF Same
<1> QED
  BY <1>5, <1>6

\* A handler may return: what arrives tells of an error, or all is shown.
Fine(r) == ShowsAll(r) /\ r.result # "error"
Ready(r) ==
  /\ Whole(r) /\ Told(r) /\ r.browser # "finished"
  /\ Arrives(r) => "error" \in r.events \/ ~(r.status < 400) \/ Fine(r)

\* Closing a stream that was ready is an honest end.
LEMMA HangupTells ==
  ASSUME NEW r, Ready(r)
  PROVE  Honest(Hangup(r))
<1> DEFINE s == Hangup(r)
<1>1. /\ Same(r, s, {"pc", "browser"}) /\ s.pc = "done"
      /\ s.browser = IF r.browser # "open" THEN r.browser ELSE IF r.late THEN "broken" ELSE "finished"
  BY DEF Ready, Hangup, Whole, Fields, Same
<1> HIDE DEF s
<1>2. /\ s.stream = r.stream /\ s.hasDelta = r.hasDelta /\ s.late = r.late /\ s.len = r.len
      /\ s.next = r.next /\ s.cancelled = r.cancelled /\ s.shown = r.shown /\ s.events = r.events /\ s.mode = r.mode
      /\ s.ended = r.ended /\ s.result = r.result /\ s.events = r.events /\ s.status = r.status
  BY <1>1 DEF Same, Fields
<1>3. ~Arrives(s)
  BY <1>1, <1>2 DEF Arrives
<1>4. Told(s)
  BY <1>2, <1>3 DEF Ready, Counted, Told, ShownInOrder, Followed, Announced
<1>5. s.browser = "finished" => Arrives(r)
  BY <1>1 DEF Ready, Arrives
<1>6. Fine(r) => Fine(s)
  BY <1>2 DEF Fine, ShowsAll, Followed, Announced, Lost
<1>7. EndedWell(s) => s.result # "error" /\ ShowsAll(s)
  BY <1>1, <1>2, <1>5, <1>6 DEF EndedWell, Ready, Fine
<1> QED
  BY <1>1, <1>4, <1>7 DEF Honest, s

\* The last event is honest if the text is whole, or if it says that it failed.
LEMMA EventTells ==
  ASSUME NEW r, NEW what, Whole(r), Counted(r), r.browser # "finished",
         Arrives(r) => Fine(r) \/ what = "error"
  PROVE  Ready(Event(r, what))
<1> DEFINE s == Event(r, what)
<1>1. /\ Whole(s) /\ Same(r, s, {"events", "shown", "cancelled"})
      /\ s.events = IF Arrives(r) THEN r.events \cup {what} ELSE r.events
      /\ s.shown = IF Arrives(r) /\ what # "error" THEN Append(r.shown, Payload) ELSE r.shown
      /\ s.cancelled = (r.cancelled \/ r.late)
  BY DEF Event, Whole, Fields, Same
<1> HIDE DEF s
<1>2. /\ s.stream = r.stream /\ s.hasDelta = r.hasDelta /\ s.late = r.late /\ s.len = r.len
      /\ s.next = r.next /\ s.browser = r.browser /\ s.mode = r.mode
      /\ s.ended = r.ended /\ s.result = r.result
  BY <1>1 DEF Same, Fields
<1>3. Arrives(s) <=> Arrives(r)
  BY <1>2 DEF Arrives
<1>4. s.cancelled \in BOOLEAN /\ (s.cancelled => ~Arrives(s))
  BY <1>1, <1>2 DEF Counted, Told, Arrives
\* The payload follows whatever text had been shown.
<1>5. ASSUME NEW text, r.shown = Followed(r, text) PROVE s.shown = Followed(s, text)
  <2>1. r.shown = text /\ r.events \subseteq {"error"}
    BY <1>5 DEF Counted, Followed, Announced
  <2>2. CASE Arrives(r) /\ what # "error"
    BY <1>1, <2>1, <2>2 DEF Followed, Announced
  <2>3. CASE ~(Arrives(r) /\ what # "error")
    BY <1>1, <2>1, <2>3 DEF Followed, Announced
  <2> QED
    BY <2>2, <2>3
<1>6. ShownInOrder(s)
  <2>1. PICK n \in 0..r.next : r.shown = Followed(r, Words(UpTo(n)))
    BY DEF Counted, Told, ShownInOrder
  <2>2. s.shown = Followed(s, Words(UpTo(n)))
    BY <1>5, <2>1
  <2> QED
    BY <1>2, <2>2 DEF ShownInOrder
<1>7. Told(s)
  BY <1>2, <1>4, <1>6 DEF Counted, Told
<1>8. Fine(r) => Fine(s)
  <2>1. ShowsAll(r) => ShowsAll(s)
    BY <1>2, <1>5 DEF ShowsAll, Lost
  <2> QED
    BY <1>2, <2>1 DEF Fine
<1> QED
  BY <1>1, <1>2, <1>3, <1>7, <1>8 DEF Ready, s

\* A plain answer below 400 is honest if the text is whole.
LEMMA RespondTells ==
  ASSUME NEW r, NEW status, Whole(r), Counted(r), r.browser # "finished",
         Arrives(r) => Fine(r) \/ ~(status < 400)
  PROVE  Honest(Respond(r, status))
<1> DEFINE s == [r EXCEPT !.status = IF Arrives(r) THEN status ELSE 0]
<1>1. /\ Whole(s) /\ Same(r, s, {"status"})
      /\ s.status = IF Arrives(r) THEN status ELSE 0
  BY DEF Whole, Fields, Same
<1>2. Respond(r, status) = Hangup(s)
  BY DEF Respond
<1> HIDE DEF s
<1>3. Counted(s)
  BY <1>1, SameTold
<1>4. /\ s.stream = r.stream /\ s.late = r.late /\ s.len = r.len
      /\ s.browser = r.browser /\ s.shown = r.shown /\ s.events = r.events /\ s.mode = r.mode
      /\ s.ended = r.ended /\ s.result = r.result
  BY <1>1 DEF Same, Fields
<1>5. (Arrives(s) <=> Arrives(r)) /\ (Fine(r) => Fine(s))
  BY <1>4 DEF Arrives, Fine, ShowsAll, Followed, Announced, Lost
<1>6. Ready(s)
  BY <1>1, <1>3, <1>4, <1>5 DEF Ready, Counted
<1> QED
  BY <1>2, <1>6, HangupTells

\* A failure is told, whatever had been shown.
LEMMA FailTells ==
  ASSUME NEW r, NEW status, Whole(r), Counted(r), r.browser # "finished", ~(status < 400)
  PROVE  Honest(Fail(r, status))
<1> DEFINE k == [r EXCEPT !.result = "error"]
<1>1. Whole(k) /\ Same(r, k, {"result"})
  BY DEF Whole, Fields, Same
<1>2. Fail(r, status) = IF k.stream THEN Hangup(Event(k, "error")) ELSE Respond(k, status)
  BY <1>1 DEF Fail, Same, Fields
<1> HIDE DEF k
<1>3. Counted(k) /\ k.browser # "finished"
  <2>1. Counted(k)
    BY <1>1, SameTold
  <2> QED
    BY <1>1, <2>1 DEF Same, Fields
<1>4. Honest(Respond(k, status))
  BY <1>1, <1>3, RespondTells
<1>5. Honest(Hangup(Event(k, "error")))
  BY <1>1, <1>3, EventTells, HangupTells
<1> QED
  BY <1>2, <1>4, <1>5

\* A stream that has ended has shown what it could.
LEMMA StreamedTells ==
  ASSUME NEW r, NEW ended \in {"all", "cut", "cancelled"}, Whole(r), Honest(r), r.pc = "ai", r.stream,
         ended = "all" => r.next = r.len, ended = "cancelled" => r.cancelled
  PROVE  Honest(Streamed(r, ended))
<1> DEFINE f == Flush(r)
           s == [f EXCEPT !.ended = ended]
           x == [s EXCEPT !.pc = "save", !.result = "ai"]
           value == IF ended = "all" THEN Complete(s.op, s.shape) ELSE Complete(s.op, "prose")
           y == [s EXCEPT !.result = value]
<1>0. Counted(r) /\ (InStep(r) \/ (Lost(r) /\ r.buf = <<>>)) /\ r.browser # "finished"
  BY DEF Honest
<1>1. /\ Whole(f) /\ Counted(f) /\ Same(r, f, {"buf", "acc", "shown", "cancelled"})
      /\ ~Lost(r) /\ Arrives(f) => f.shown = Words(UpTo(f.next))
  BY <1>0, FlushTells
<1>2. Streamed(r, ended) = IF s.op = "summary" THEN x
                           ELSE Hangup(IF s.op \in Completes THEN Event(y, "data") ELSE y)
  BY DEF Streamed
<1> HIDE DEF f
<1>3. Whole(s) /\ Same(f, s, {"ended"}) /\ s.ended = ended
  BY <1>1 DEF Whole, Fields, Same
<1> HIDE DEF s
<1>4. Counted(s)
  BY <1>1, <1>3, SameTold
<1>5. /\ s.stream = r.stream /\ s.late = r.late /\ s.len = r.len /\ s.next = r.next
      /\ s.browser = r.browser /\ s.mode = r.mode /\ s.shown = f.shown /\ s.events = f.events
      /\ f.late = r.late /\ f.browser = r.browser /\ f.next = r.next
  BY <1>1, <1>3 DEF Same, Fields
<1>6. Arrives(s) => ShowsAll(s)
  <2>1. (Arrives(s) <=> Arrives(r)) /\ (Arrives(f) <=> Arrives(r)) /\ (Lost(s) <=> Lost(r))
    BY <1>5 DEF Arrives, Lost
  <2>2. CASE ended = "all"
    BY <1>1, <1>4, <1>5, <2>1, <2>2 DEF Counted, ShowsAll, Followed, Announced
  <2>3. CASE ended = "cut"
    BY <1>3, <2>3 DEF ShowsAll, Followed, Announced
  <2>4. CASE ended = "cancelled"
    BY <1>0, <2>1, <2>4 DEF Counted, Told
  <2> QED
    BY <2>2, <2>3, <2>4
<1>7. CASE s.op = "summary"
  <2>1. Whole(x) /\ Same(s, x, {"pc", "result"}) /\ x.pc = "save" /\ x.result = "ai"
    BY <1>3 DEF Whole, Fields, Same
  <2> HIDE DEF x
  <2>2. Counted(x)
    BY <1>4, <2>1, SameTold
  <2>3. /\ x.stream = s.stream /\ x.late = s.late /\ x.len = s.len /\ x.browser = s.browser
        /\ x.mode = s.mode /\ x.shown = s.shown /\ x.events = s.events /\ x.ended = s.ended
    BY <2>1 DEF Same, Fields
  <2>4. Arrives(x) => ShowsAll(x)
    BY <1>6, <2>3 DEF Arrives, ShowsAll, Followed, Announced, Lost
  <2> QED
    BY <1>0, <1>2, <1>5, <1>7, <2>1, <2>2, <2>3, <2>4 DEF Honest, EndedWell, Counted
<1>8. CASE s.op # "summary"
  <2>0. value # "error"
    BY DEF Complete, PriceComplete, QualityComplete, Substitute
  <2> HIDE DEF value
  <2>1. Whole(y) /\ Same(s, y, {"result"}) /\ y.result = value
    BY <1>3 DEF Whole, Fields, Same
  <2> HIDE DEF y
  <2>2. Counted(y)
    BY <1>4, <2>1, SameTold
  <2>3. /\ y.stream = s.stream /\ y.late = s.late /\ y.len = s.len /\ y.browser = s.browser
        /\ y.mode = s.mode /\ y.shown = s.shown /\ y.events = s.events /\ y.ended = s.ended
    BY <2>1 DEF Same, Fields
  <2>4. Arrives(y) => Fine(y)
    BY <1>6, <2>0, <2>1, <2>3 DEF Arrives, Fine, ShowsAll, Followed, Announced, Lost
  <2>5. y.browser # "finished"
    BY <1>0, <1>5, <2>3
  <2>6. Honest(Hangup(Event(y, "data")))
    BY <2>1, <2>2, <2>4, <2>5, EventTells, HangupTells
  <2>7. Honest(Hangup(y))
    BY <2>1, <2>2, <2>4, <2>5, HangupTells DEF Ready, Counted
  <2> QED
    BY <1>2, <1>8, <2>6, <2>7
<1> QED
  BY <1>7, <1>8

\* Nothing arrives any more.
LEMMA GoneTells ==
  ASSUME NEW r, NEW s, Honest(r), r.pc # "done", Same(r, s, {"late", "browser", "cancelled"}),
         s.late \in BOOLEAN, s.cancelled \in BOOLEAN, s.browser # "finished", ~Arrives(s)
  PROVE  Honest(s)
<1>1. /\ s.pc = r.pc /\ s.stream = r.stream /\ s.hasDelta = r.hasDelta /\ s.len = r.len /\ s.next = r.next
      /\ s.shown = r.shown /\ s.events = r.events /\ s.buf = r.buf /\ s.mode = r.mode /\ s.ended = r.ended /\ s.result = r.result
  BY DEF Same, Fields
<1>2. Counted(s)
  BY <1>1 DEF Honest, Counted, Told, ShownInOrder, Followed, Announced
<1>3. (InStep(r) => InStep(s)) /\ (Lost(r) <=> Lost(s))
  BY <1>1 DEF InStep, Lost
<1> QED
  BY <1>1, <1>2, <1>3 DEF Honest, EndedWell, Counted

-----------------------------------------------------------------------------
AllHonest == \A c \in Calls : Honest(calls[c])

\* A step of one request that keeps it honest keeps all honest.
LEMMA OneTold ==
  ASSUME AiInv, AllHonest, NEW c \in Calls, NEW r, Put(c, r), Honest(r)
  PROVE  AllHonest'
<1>1. calls' = [calls EXCEPT ![c] = r]
  BY DEF Put
<1>2. \A d \in Calls : calls'[d] = IF d = c THEN r ELSE calls[d]
  BY <1>1 DEF AiInv
<1> QED
  BY <1>2 DEF AllHonest

\* Every step keeps every request honest.
LEMMA HonestKept == AiInv /\ AllHonest /\ [AiNext]_aiVars => AllHonest'
<1> SUFFICES ASSUME AiInv, AllHonest, [AiNext]_aiVars PROVE AllHonest'
  OBVIOUS
<1>w. \A c \in Calls : Whole(calls[c]) /\ Honest(calls[c])
  BY DEF AiInv, AllHonest
<1>h. \A c \in Calls : calls[c].pc # "done" => Counted(calls[c]) /\ calls[c].browser # "finished"
  BY <1>w DEF Honest
<1>1. ASSUME NEW c \in Calls, NEW op, NEW stream \in BOOLEAN, NEW u, NEW t, Begin(c, op, stream, u, t)
      PROVE  AllHonest'
  <2>1. PICK mode \in {"deltas", "pieces", "whole"}, shape \in Shapes, n \in 1..Pieces :
          OnlyCall(c, [Idle EXCEPT !.pc = "gate", !.op = op, !.stream = stream, !.user = u,
                                   !.thing = t, !.mode = mode, !.shape = shape, !.len = n,
                                   !.browser = "open"])
    BY <1>1 DEF Begin
  <2> DEFINE r == [Idle EXCEPT !.pc = "gate", !.op = op, !.stream = stream, !.user = u,
                               !.thing = t, !.mode = mode, !.shape = shape, !.len = n,
                               !.browser = "open"]
  <2>2. /\ r.pc = "gate" /\ r.stream = stream /\ r.len = n /\ r.next = 0 /\ r.hasDelta = FALSE
        /\ r.buf = <<>> /\ r.shown = <<>> /\ r.result = "none" /\ r.ended = "no"
        /\ r.late = FALSE /\ r.cancelled = FALSE /\ r.browser = "open" /\ r.events = {}
    BY DEF Idle
  <2>3. OnlyCall(c, r)
    BY <2>1
  <2> HIDE DEF r
  <2>4. n \in Nat \ {0}
    BY AiAssumption
  <2>5. ShownInOrder(r)
    BY <2>2, NoWords DEF ShownInOrder, Followed, Announced
  <2>6. Counted(r)
    <3>1. r.stream \in BOOLEAN /\ r.hasDelta \in BOOLEAN /\ r.late \in BOOLEAN /\ r.cancelled \in BOOLEAN
      BY <2>2
    <3>2. r.len \in Nat \ {0} /\ r.next \in 0..r.len
      BY <2>2, <2>4
    <3> QED
      BY <2>2, <2>5, <3>1, <3>2 DEF Counted, Told, Announced
  <2>7. Honest(r)
    BY <2>2, <2>6 DEF Honest, EndedWell, Counted
  <2> QED
    BY <2>3, <2>7, OneTold DEF OnlyCall
\* Before the provider is asked nothing has been shown.
<1>2. ASSUME NEW r, Whole(r), Honest(r), r.pc \in {"gate", "load"}
      PROVE  Counted(r) /\ r.browser # "finished" /\ Fine(r)
  BY <1>2 DEF Honest, Fine, ShowsAll, Followed, Announced
<1>3. ASSUME NEW c \in Calls, NEW known, NEW valid, Gate(c, known, valid) PROVE AllHonest'
  <2>0. PICK r : r = calls[c]
    OBVIOUS
  <2>r. Whole(r) /\ Honest(r) /\ r.pc = "gate" /\ Counted(r) /\ r.browser # "finished" /\ Fine(r)
    BY <1>w, <2>0, <1>2, <1>3 DEF Gate
  <2> DEFINE k == [r EXCEPT !.result = "error"]
             l == [r EXCEPT !.pc = "load"]
  <2>1. \/ \E status : OnlyCall(c, Respond(r, status))
        \/ OnlyCall(c, Hangup(Event(k, "error")))
        \/ OnlyCall(c, l)
    BY <1>3, <2>0 DEF Gate
  <2>2. ASSUME NEW status PROVE Honest(Respond(r, status))
    BY <2>r, RespondTells
  <2>3. Honest(Hangup(Event(k, "error")))
    <3>1. Whole(k) /\ Same(r, k, {"result"})
      BY <2>r DEF Whole, Fields, Same
    <3> HIDE DEF k
    <3>2. Counted(k) /\ k.browser # "finished"
      <4>1. Counted(k)
        BY <2>r, <3>1, SameTold
      <4> QED
        BY <2>r, <3>1, <4>1 DEF Same, Fields
    <3> QED
      BY <3>1, <3>2, EventTells, HangupTells
  <2>4. Honest(l)
    <3>1. Whole(l) /\ Same(r, l, {"pc"}) /\ l.pc = "load"
      BY <2>r DEF Whole, Fields, Same
    <3> HIDE DEF l
    <3>2. Counted(l)
      BY <2>r, <3>1, SameTold
    <3>3. /\ l.next = r.next /\ l.ended = r.ended /\ l.hasDelta = r.hasDelta /\ l.buf = r.buf
          /\ l.shown = r.shown /\ l.events = r.events /\ l.browser = r.browser /\ l.result = r.result
      BY <3>1 DEF Same, Fields
    <3> QED
      BY <2>r, <3>1, <3>2, <3>3 DEF Honest, EndedWell, Counted
  <2> HIDE DEF k, l
  <2> QED
    BY <2>1, <2>2, <2>3, <2>4, OneTold DEF OnlyCall
<1>4. ASSUME NEW c \in Calls, NEW row, Load(c, row) PROVE AllHonest'
  <2>0. PICK r : r = calls[c]
    OBVIOUS
  <2>r. Whole(r) /\ Honest(r) /\ r.pc = "load" /\ Counted(r) /\ r.browser # "finished"
    BY <1>w, <2>0, <1>2, <1>4 DEF Load
  <2> DEFINE l == [r EXCEPT !.pc = "ai"]
             status == NotFound(r.op, r.thing)
  <2>1. OnlyCall(c, l) \/ OnlyCall(c, Fail(r, status))
    BY <1>4, <2>0 DEF Load
  <2>2. ~(status < 400)
    BY DEF NotFound
  <2> HIDE DEF status
  <2>3. Honest(Fail(r, status))
    BY <2>r, <2>2, FailTells
  <2>4. Honest(l)
    <3>1. Whole(l) /\ Same(r, l, {"pc"}) /\ l.pc = "ai"
      BY <2>r DEF Whole, Fields, Same
    <3> HIDE DEF l
    <3>2. Counted(l)
      BY <2>r, <3>1, SameTold
    <3>3. /\ l.next = 0 /\ l.ended = "no" /\ ~l.hasDelta /\ l.buf = <<>>
          /\ l.shown = <<>> /\ l.browser # "finished" /\ l.result # "error"
      BY <2>r, <3>1 DEF Same, Fields, Honest
    <3>4. InStep(l)
      <4>1. Seg(0, 0) = <<>>
        BY DEF Seg
      <4> QED
        BY <3>3, <4>1, NoWords DEF InStep
    <3> QED
      BY <3>1, <3>2, <3>3, <3>4 DEF Honest, EndedWell, Counted
  <2> HIDE DEF l
  <2> QED
    BY <2>1, <2>3, <2>4, OneTold DEF OnlyCall
<1>5. ASSUME NEW c \in Calls, EmptyChat(c) PROVE AllHonest'
  <2>0. PICK r : r = calls[c]
    OBVIOUS
  <2>r. Whole(r) /\ Honest(r) /\ r.pc = "load" /\ Counted(r) /\ r.browser # "finished" /\ Fine(r)
    BY <1>w, <2>0, <1>2, <1>5 DEF EmptyChat
  <2> DEFINE k == [r EXCEPT !.result = "substitute"]
  <2>1. Whole(k) /\ Same(r, k, {"result"}) /\ k.result = "substitute"
    BY <2>r DEF Whole, Fields, Same
  <2>2. OnlyCall(c, Hangup(k)) \/ OnlyCall(c, Respond(k, 200))
    BY <1>5, <2>0 DEF EmptyChat
  <2> HIDE DEF k
  <2>3. Counted(k)
    BY <2>r, <2>1, SameTold
  <2>4. k.browser # "finished" /\ Fine(k)
    <3>1. /\ k.stream = r.stream /\ k.ended = r.ended /\ k.mode = r.mode /\ k.shown = r.shown /\ k.events = r.events
          /\ k.len = r.len /\ k.browser = r.browser
      BY <2>1 DEF Same, Fields
    <3> QED
      BY <2>r, <2>1, <3>1 DEF Fine, ShowsAll, Followed, Announced, Lost
  <2>5. Honest(Hangup(k)) /\ Honest(Respond(k, 200))
    BY <2>1, <2>3, <2>4, HangupTells, RespondTells DEF Ready, Counted
  <2> QED
    BY <2>2, <2>5, OneTold DEF OnlyCall
<1>6. ASSUME NEW c \in Calls, NEW reply, Reply(c, reply) PROVE AllHonest'
  <2>0. PICK r : r = calls[c]
    OBVIOUS
  <2>r. Whole(r) /\ Honest(r) /\ r.pc = "ai" /\ ~r.stream /\ Counted(r) /\ r.browser # "finished"
    BY <1>w, <1>h, <2>0, <1>6 DEF Reply
  <2> DEFINE result == Result(r.op, reply)
             s == [r EXCEPT !.pc = "save", !.result = result, !.ended = "all", !.acc = UpTo(r.len)]
             k == [r EXCEPT !.result = result, !.ended = "all"]
  <2>1. \/ OnlyCall(c, Fail(r, 500))
        \/ result # "error" /\ OnlyCall(c, s)
        \/ result # "error" /\ OnlyCall(c, Respond(k, 200))
    BY <1>6, <2>0 DEF Reply
  <2>2. Honest(Fail(r, 500))
    BY <2>r, FailTells
  <2>3. /\ Whole(s) /\ Same(r, s, {"pc", "result", "ended", "acc"}) /\ s.pc = "save" /\ s.result = result
        /\ Whole(k) /\ Same(r, k, {"result", "ended"}) /\ k.result = result
    BY <2>r DEF Whole, Fields, Same
  <2> HIDE DEF s, k, result
  <2>4. Counted(s) /\ Counted(k)
    BY <2>r, <2>3, SameTold
  <2>5. /\ s.stream = r.stream /\ s.browser = r.browser /\ k.stream = r.stream /\ k.browser = r.browser
    BY <2>3 DEF Same, Fields
  <2>6. ASSUME result # "error" PROVE Honest(s)
    BY <2>r, <2>3, <2>4, <2>5, <2>6 DEF Honest, EndedWell, Counted, ShowsAll, Followed, Announced
  <2>7. ASSUME result # "error" PROVE Honest(Respond(k, 200))
    <3>1. Fine(k)
      BY <2>r, <2>3, <2>5, <2>7 DEF Fine, ShowsAll, Followed, Announced
    <3> QED
      BY <2>r, <2>3, <2>4, <2>5, <3>1, RespondTells
  <2> QED
    BY <2>1, <2>2, <2>6, <2>7, OneTold DEF OnlyCall
<1>7. ASSUME NEW c \in Calls, SendPiece(c) PROVE AllHonest'
  <2>0. PICK r : r = calls[c]
    OBVIOUS
  <2>r. /\ Whole(r) /\ Honest(r) /\ r.pc = "ai" /\ r.stream /\ Counted(r) /\ r.browser # "finished"
        /\ r.mode \in {"deltas", "pieces"} /\ r.next < r.len
    BY <1>w, <1>h, <2>0, <1>7 DEF SendPiece, Streaming
  <2> DEFINE k == [r EXCEPT !.next = @ + 1, !.hasDelta = @ \/ r.mode = "deltas"]
  <2>1. /\ Whole(k) /\ Same(r, k, {"next", "hasDelta"})
        /\ k.next = r.next + 1 /\ k.hasDelta = (r.hasDelta \/ r.mode = "deltas")
    BY <2>r DEF Whole, Fields, Same
  <2>2. OnlyCall(c, Buffered(k, <<r.next + 1>>))
    BY <1>7, <2>0 DEF SendPiece
  <2> HIDE DEF k
  <2>3. /\ k.pc = r.pc /\ k.stream = r.stream /\ k.late = r.late /\ k.cancelled = r.cancelled /\ k.len = r.len
        /\ k.browser = r.browser /\ k.shown = r.shown /\ k.events = r.events /\ k.buf = r.buf /\ k.mode = r.mode /\ k.result = r.result
        /\ k.ended = r.ended
    BY <2>1 DEF Same, Fields
  <2>4. r.next \in Nat /\ r.len \in Nat /\ k.next \in 0..k.len /\ k.next \in Nat
    BY <2>r, <2>1, <2>3 DEF Counted, Told
  <2>5. Counted(k)
    <3>1. ShownInOrder(k)
      <4>1. PICK n \in 0..r.next : r.shown = Words(UpTo(n))
        BY <2>r DEF Counted, Told, ShownInOrder, Followed, Announced
      <4>2. n \in 0..k.next
        BY <2>1, <2>4
      <4> QED
        BY <2>r, <2>3, <4>1, <4>2 DEF Counted, ShownInOrder, Followed, Announced
    <3>2. k.hasDelta \in BOOLEAN
      BY <2>1
    <3> QED
      BY <2>r, <2>3, <2>4, <3>1, <3>2 DEF Counted, Told, Arrives, Announced
  <2>6. PICK d \in 0..r.next : r.buf = Seg(d, r.next) /\ (Arrives(r) => r.shown = Words(UpTo(d)))
    BY <2>r DEF Honest, InStep, Lost
  <2>7. d \in 0..k.next /\ k.buf \o <<r.next + 1>> = Seg(d, k.next)
    <3>1. d \in Nat /\ d <= r.next
      BY <2>4
    <3>2. Seg(d, r.next) \o <<r.next + 1>> = Seg(d, r.next + 1)
      BY <2>4, <3>1, Segs
    <3> QED
      BY <2>1, <2>3, <2>4, <2>6, <3>1, <3>2
  <2>8. Arrives(k) => k.shown = Words(UpTo(d))
    BY <2>3, <2>6 DEF Arrives
  <2> DEFINE s == Buffered(k, <<r.next + 1>>)
  <2>9. /\ Whole(s) /\ Counted(s) /\ InStep(s)
        /\ Same(k, s, {"buf", "acc", "shown", "cancelled"})
    BY <2>1, <2>5, <2>7, <2>8, BufferedTells
  <2> HIDE DEF s
  <2>10. /\ s.pc = r.pc /\ s.stream = r.stream /\ s.mode = r.mode /\ s.hasDelta = k.hasDelta
         /\ s.next = k.next /\ s.browser = r.browser /\ s.result = r.result
    BY <2>3, <2>9 DEF Same, Fields
  <2>11. s.mode = "deltas" => (s.hasDelta <=> s.next > 0)
    <3>1. s.next > 0
      BY <2>1, <2>4, <2>10
    <3>2. s.mode = "deltas" => s.hasDelta
      BY <2>1, <2>10
    <3> QED
      BY <3>1, <3>2
  <2>12. Honest(s)
    <3>1. s.pc # "done" => s.browser # "finished" /\ s.result # "error"
      BY <2>r, <2>10 DEF Honest
    <3> QED
      BY <2>r, <2>9, <2>10, <2>11, <3>1 DEF Honest, EndedWell, Counted
  <2> QED
    BY <2>2, <2>12, OneTold DEF OnlyCall, s
<1>8. ASSUME NEW c \in Calls, SendWhole(c) PROVE AllHonest'
  <2>0. PICK r : r = calls[c]
    OBVIOUS
  <2>r. /\ Whole(r) /\ Honest(r) /\ r.pc = "ai" /\ r.stream /\ Counted(r) /\ r.browser # "finished"
        /\ r.ended = "no" /\ r.result # "error"
        /\ \/ r.mode = "deltas" /\ r.next = r.len
           \/ r.mode = "whole" /\ r.next = 0
    <3>1. /\ Whole(r) /\ Honest(r) /\ r.pc = "ai" /\ r.stream /\ r.ended = "no"
          /\ \/ r.mode = "deltas" /\ r.next = r.len
             \/ r.mode = "whole" /\ r.next = 0
      BY <1>w, <2>0, <1>8 DEF SendWhole, Streaming
    <3> QED
      BY <3>1 DEF Honest
  <2> DEFINE k == [r EXCEPT !.next = r.len, !.ended = "text"]
             s == Buffered(k, UpTo(r.len))
  <2>1. Whole(k) /\ Same(r, k, {"next", "ended"}) /\ k.next = r.len
    BY <2>r DEF Whole, Fields, Same
  <2>2. OnlyCall(c, IF ~r.hasDelta /\ Short(r.len) THEN s ELSE k)
    BY <1>8, <2>0 DEF SendWhole
  <2> HIDE DEF k
  <2>3. /\ k.pc = r.pc /\ k.stream = r.stream /\ k.late = r.late /\ k.cancelled = r.cancelled /\ k.len = r.len
        /\ k.browser = r.browser /\ k.shown = r.shown /\ k.events = r.events /\ k.buf = r.buf /\ k.mode = r.mode /\ k.result = r.result
        /\ k.hasDelta = r.hasDelta
    BY <2>1 DEF Same, Fields
  <2>4. r.next \in Nat /\ r.len \in Nat \ {0} /\ r.next <= r.len
    BY <2>r DEF Counted, Told
  <2>5. Counted(k)
    <3>1. ShownInOrder(k)
      <4>1. PICK n \in 0..r.next : r.shown = Words(UpTo(n))
        BY <2>r DEF Counted, Told, ShownInOrder, Followed, Announced
      <4>2. n \in 0..k.next
        BY <2>1, <2>4
      <4> QED
        BY <2>r, <2>3, <4>1, <4>2 DEF Counted, ShownInOrder, Followed, Announced
    <3> QED
      BY <2>r, <2>1, <2>3, <2>4, <3>1 DEF Counted, Told, Arrives, Announced
  <2>6. CASE r.mode = "deltas"
    <3>1. r.next = r.len /\ r.hasDelta /\ k.next = r.next
      BY <2>r, <2>1, <2>4, <2>6 DEF Honest
    <3>2. InStep(k)
      BY <2>r, <2>3, <2>6, <3>1 DEF Honest, InStep, Lost, Arrives
    <3>3. Honest(k)
      BY <2>r, <2>3, <2>4, <2>5, <2>6, <3>1, <3>2 DEF Honest, EndedWell, Counted
    <3> QED
      BY <2>2, <3>1, <3>3, OneTold DEF OnlyCall
  <2>7. CASE r.mode = "whole"
    <3>1. r.next = 0 /\ ~r.hasDelta
      BY <2>r, <2>7 DEF Honest
    <3>2. r.buf = <<>> /\ r.shown = <<>>
      <4>1. r.shown = <<>>
        <5>1. \A n \in 0..r.next : n = 0
          BY <3>1
        <5> QED
          BY <2>r, <5>1, NoWords DEF Counted, Told, ShownInOrder, Followed, Announced
      <4>2. InStep(r) => r.buf = <<>>
        BY <3>1 DEF InStep, Seg
      <4> QED
        BY <2>r, <4>1, <4>2 DEF Honest
    <3>3. CASE Short(r.len)
      <4>1. k.buf \o UpTo(r.len) = Seg(0, k.next) /\ k.shown = Words(UpTo(0)) /\ 0 \in 0..k.next
        <5>1. Seg(0, r.len) = UpTo(r.len) /\ <<>> \o UpTo(r.len) = UpTo(r.len)
          <6>1. 0 \in Nat /\ r.len \in Nat /\ 0 <= r.len
            BY <2>4
          <6> QED
            BY <6>1, Segs
        <5> QED
          BY <2>1, <2>3, <2>4, <3>2, <5>1, NoWords
      <4>2. /\ Whole(s) /\ Counted(s) /\ InStep(s)
            /\ Same(k, s, {"buf", "acc", "shown", "cancelled"})
        BY <2>1, <2>5, <4>1, BufferedTells
      <4> HIDE DEF s
      <4>3. /\ s.pc = r.pc /\ s.stream = r.stream /\ s.mode = r.mode /\ s.hasDelta = k.hasDelta
            /\ s.next = k.next /\ s.browser = r.browser /\ s.result = r.result /\ s.ended = k.ended
        BY <2>3, <4>2 DEF Same, Fields
      <4>4. k.ended = "text"
        BY <2>r DEF k, Whole, Fields
      <4>5. Honest(s)
        BY <2>r, <2>3, <2>7, <3>1, <4>2, <4>3, <4>4 DEF Honest, EndedWell, Counted
      <4> QED
        BY <2>2, <3>1, <3>3, <4>5, OneTold DEF OnlyCall
    <3>4. CASE ~Short(r.len)
      <4>1. Lost(k)
        BY <2>3, <2>7, <3>4 DEF Lost
      <4>2. k.ended = "text"
        BY <2>r DEF k, Whole, Fields
      <4>3. Honest(k)
        BY <2>r, <2>3, <2>5, <2>7, <3>1, <3>2, <4>1, <4>2 DEF Honest, EndedWell, Counted
      <4> QED
        BY <2>2, <3>4, <4>3, OneTold DEF OnlyCall
    <3> QED
      BY <3>3, <3>4
  <2> QED
    BY <2>r, <2>6, <2>7
<1>9. ASSUME NEW c \in Calls, SendDone(c) \/ SendCut(c) \/ ReadCancelled(c) PROVE AllHonest'
  <2>1. PICK ended \in {"all", "cut", "cancelled"} :
          /\ calls[c].pc = "ai" /\ calls[c].stream
          /\ ended = "all" => calls[c].next = calls[c].len
          /\ ended = "cancelled" => calls[c].cancelled
          /\ OnlyCall(c, Streamed(calls[c], ended))
    BY <1>9 DEF SendDone, SendCut, ReadCancelled, Streaming
  <2>2. Honest(Streamed(calls[c], ended))
    BY <1>w, <2>1, StreamedTells
  <2> QED
    BY <2>1, <2>2, OneTold DEF OnlyCall
<1>10. ASSUME NEW c \in Calls, StreamFails(c) PROVE AllHonest'
  <2>0. PICK r : r = calls[c]
    OBVIOUS
  <2>r. /\ Whole(r) /\ Honest(r) /\ r.pc = "ai" /\ Counted(r) /\ r.browser # "finished"
    BY <1>w, <1>h, <2>0, <1>10 DEF StreamFails, Streaming
  <2> DEFINE f == Flush(r)
             k == [f EXCEPT !.ended = "failed"]
  <2>1. Whole(f) /\ Counted(f) /\ Same(r, f, {"buf", "acc", "shown", "cancelled"})
    <3>1. InStep(r) \/ (Lost(r) /\ r.buf = <<>>)
      BY <2>r DEF Honest
    <3> QED
      BY <2>r, <3>1, FlushTells
  <2>2. OnlyCall(c, Fail(k, 500))
    BY <1>10, <2>0 DEF StreamFails
  <2> HIDE DEF f
  <2>3. Whole(k) /\ Same(f, k, {"ended"})
    BY <2>1 DEF Whole, Fields, Same
  <2> HIDE DEF k
  <2>4. Counted(k)
    BY <2>1, <2>3, SameTold
  <2>5. k.browser # "finished"
    BY <2>r, <2>1, <2>3 DEF Same, Fields
  <2>6. Honest(Fail(k, 500))
    BY <2>3, <2>4, <2>5, FailTells
  <2> QED
    BY <2>2, <2>6, OneTold DEF OnlyCall
<1>11. ASSUME NEW c \in Calls, AiTimesOut(c) PROVE AllHonest'
  BY <1>11, <1>6, <1>10 DEF AiTimesOut
<1>12. ASSUME NEW c \in Calls, NEW ok, Save(c, ok) PROVE AllHonest'
  <2>0. PICK r : r = calls[c]
    OBVIOUS
  <2>r. Whole(r) /\ Honest(r) /\ r.pc = "save" /\ Counted(r) /\ r.browser # "finished"
    BY <1>w, <1>h, <2>0, <1>12 DEF Save
  <2>1. Arrives(r) => Fine(r)
    BY <2>r DEF Honest, Fine
  <2>2. Put(c, Fail(r, 500)) \/ Put(c, Hangup(Event(r, "done"))) \/ Put(c, Respond(r, 200))
    BY <1>12, <2>0 DEF Save, OnlyCall
  <2>3. Honest(Fail(r, 500)) /\ Honest(Respond(r, 200))
    BY <2>r, <2>1, FailTells, RespondTells
  <2>4. Honest(Hangup(Event(r, "done")))
    BY <2>r, <2>1, EventTells, HangupTells
  <2> QED
    BY <2>2, <2>3, <2>4, OneTold
<1>13. ASSUME NEW c \in Calls, Late(c) \/ Abort(c) \/ SeesAbort(c) PROVE AllHonest'
  <2>0. PICK r : r = calls[c]
    OBVIOUS
  <2>r. Whole(r) /\ Honest(r) /\ r.pc # "done" /\ Counted(r) /\ r.browser # "finished"
    BY <1>w, <1>h, <2>0, <1>13 DEF Late, Abort, SeesAbort, InFlight
  <2>1. CASE Late(c)
    <3> DEFINE s == [r EXCEPT !.late = TRUE]
    <3>1. /\ Same(r, s, {"late", "browser", "cancelled"})
          /\ s.late = TRUE /\ s.cancelled = r.cancelled /\ s.browser = r.browser
      BY <2>r DEF Whole, Fields, Same
    <3>2. OnlyCall(c, s)
      BY <2>0, <2>1 DEF Late
    <3> HIDE DEF s
    <3>3. s.cancelled \in BOOLEAN /\ s.late \in BOOLEAN /\ ~Arrives(s)
      BY <2>r, <3>1 DEF Counted, Told, Arrives
    <3>4. Honest(s)
      BY <2>r, <3>1, <3>3, GoneTells
    <3> QED
      BY <3>2, <3>4, OneTold DEF OnlyCall
  <2>2. CASE Abort(c)
    <3> DEFINE s == [r EXCEPT !.browser = "aborted"]
    <3>1. /\ Same(r, s, {"late", "browser", "cancelled"})
          /\ s.late = r.late /\ s.cancelled = r.cancelled /\ s.browser = "aborted"
      BY <2>r DEF Whole, Fields, Same
    <3>2. OnlyCall(c, s)
      BY <2>0, <2>2 DEF Abort
    <3> HIDE DEF s
    <3>3. s.cancelled \in BOOLEAN /\ s.late \in BOOLEAN /\ ~Arrives(s)
      BY <2>r, <3>1 DEF Counted, Told, Arrives
    <3>4. Honest(s)
      BY <2>r, <3>1, <3>3, GoneTells
    <3> QED
      BY <3>2, <3>4, OneTold DEF OnlyCall
  <2>3. CASE SeesAbort(c)
    <3> DEFINE s == [r EXCEPT !.cancelled = TRUE]
    <3>1. /\ Same(r, s, {"late", "browser", "cancelled"})
          /\ s.late = r.late /\ s.cancelled = TRUE /\ s.browser = r.browser
      BY <2>r DEF Whole, Fields, Same
    <3>2. OnlyCall(c, s) /\ r.browser = "aborted"
      BY <2>0, <2>3 DEF SeesAbort
    <3> HIDE DEF s
    <3>3. s.cancelled \in BOOLEAN /\ s.late \in BOOLEAN /\ ~Arrives(s)
      BY <2>r, <3>1, <3>2 DEF Counted, Told, Arrives
    <3>4. Honest(s)
      BY <2>r, <3>1, <3>3, GoneTells
    <3> QED
      BY <3>2, <3>4, OneTold DEF OnlyCall
  <2> QED
    BY <1>13, <2>1, <2>2, <2>3
<1>14. ASSUME NEW t, EditRead(t) \/ EditWrite(t) PROVE AllHonest'
  BY <1>14 DEF EditRead, EditWrite, AllHonest
<1>15. CASE UNCHANGED aiVars
  BY <1>15 DEF aiVars, AllHonest
<1> QED
  BY <1>1, <1>3, <1>4, <1>5, <1>6, <1>7, <1>8, <1>9, <1>10, <1>11, <1>12, <1>13, <1>14, <1>15
     DEF AiNext, Handler, Provider, Done

\* No request has shown anything at first.
LEMMA HonestInit == AiInit => AllHonest
<1> SUFFICES ASSUME AiInit, NEW c \in Calls PROVE Honest(calls[c])
  BY DEF AllHonest
<1>1. calls[c] = Idle
  BY DEF AiInit
<1>2. /\ Idle.pc = "idle" /\ Idle.stream = FALSE /\ Idle.len = 1 /\ Idle.next = 0 /\ Idle.hasDelta = FALSE
      /\ Idle.buf = <<>> /\ Idle.shown = <<>> /\ Idle.result = "none" /\ Idle.ended = "no"
      /\ Idle.late = FALSE /\ Idle.cancelled = FALSE /\ Idle.browser = "none" /\ Idle.events = {}
  BY DEF Idle
<1>3. Counted(Idle)
  <2>1. ShownInOrder(Idle)
    BY <1>2, NoWords DEF ShownInOrder, Followed, Announced
  <2>2. /\ Idle.stream \in BOOLEAN /\ Idle.hasDelta \in BOOLEAN
        /\ Idle.late \in BOOLEAN /\ Idle.cancelled \in BOOLEAN
    BY <1>2
  <2>3. Idle.len \in Nat \ {0} /\ Idle.next \in 0..Idle.len
    BY <1>2
  <2> QED
    BY <1>2, <2>1, <2>2, <2>3 DEF Counted, Told, Announced
<1> QED
  BY <1>1, <1>2, <1>3 DEF Honest, EndedWell, Counted

\* What a stream has shown is always a beginning of the text, nothing twice
\* and nothing out of order, then at most the payload of the event that ends
\* it; one that ends well has shown all of it, unless
\* it was cut off or came in one event that was too long, and no failure
\* passes for such an end, for any provider, text, deadline and abort.
THEOREM EndsAreHonest == AiSpec => []EndIsHonest
<1>1. AllHonest => EndIsHonest
  BY DEF AllHonest, Honest, Counted, Told, EndIsHonest, ShowsAll, Followed, Announced, Lost
<1>2. AiInv /\ AllHonest /\ [AiNext]_aiVars => (AiInv /\ AllHonest)'
  BY AiInvKept, HonestKept
<1> QED
  BY <1>1, <1>2, AiInvInit, HonestInit, PTL DEF AiSpec

=============================================================================
