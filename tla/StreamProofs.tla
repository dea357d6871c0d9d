----------------------------- MODULE StreamProofs -----------------------------
(***************************************************************************)
(* Proofs about the two streams a consumer reads through a bounded queue:  *)
(* the durable events of EventStream.tla and the frames of a worker's call *)
(* in StreamCredit.tla.                                                    *)
(*                                                                         *)
(* EventStream, for any clients, batches and capacities: a client misses   *)
(* no event and resumes where it stopped.  Between lists a set of cursors  *)
(* by their ranks.  Such a list exists and is the only ascending one       *)
(* (OrderLists, ListedOnce, by counting), so IInv says of each client that *)
(* its sequences list a set of events, and a step is a fact about sets: a  *)
(* list goes on with the next interval (Join), starts with a smaller one   *)
(* (Prefix), and does not notice events booked above it (Grow).            *)
(*                                                                         *)
(* StreamCredit, for every ceiling and every number of frames: CreditInv   *)
(* says where credit comes from: a grant replaces a frame the consumer has *)
(* drained, and, as long as no lossy frame was taken in, what is           *)
(* outstanding and what was accepted exceed what was replaced by at most   *)
(* the opening window.  AccountInv follows the numbers of the frames       *)
(* instead, from the session to the consumer.                              *)
(***************************************************************************)
EXTENDS EventStream, StreamCredit, FiniteSetTheorems, TLAPS

-----------------------------------------------------------------------------
(* Sets of cursors in order *)

\* s is the elements of S in ascending order, each once.
Lists(s, S) ==
    /\ s \in Seq(Nat)
    /\ {s[i] : i \in 1..Len(s)} = S
    /\ \A i, j \in 1..Len(s) : i < j => s[i] < s[j]

\* How many elements of S are not above c, and the sequence these ranks give.
Rank(S, c) == Cardinality({d \in S : d <= c})
InOrder(S) == [i \in 1..Cardinality(S) |-> CHOOSE c \in S : Rank(S, c) = i]

\* A list of S, element by element.
LEMMA ListsMeans ==
  ASSUME NEW S, NEW s, Lists(s, S)
  PROVE  /\ s \in Seq(Nat) /\ Len(s) \in Nat
         /\ \A i \in 1..Len(s) : s[i] \in S /\ s[i] \in Nat
         /\ \A x \in S : \E i \in 1..Len(s) : x = s[i]
         /\ \A i, j \in 1..Len(s) : i < j => s[i] < s[j]
<1>1. s \in Seq(Nat) /\ \A i, j \in 1..Len(s) : i < j => s[i] < s[j]
  BY Zenon DEF Lists
<1>2. {s[i] : i \in 1..Len(s)} = S
  BY Zenon DEF Lists
<1>3. /\ \A i \in 1..Len(s) : s[i] \in S
      /\ \A x \in S : \E i \in 1..Len(s) : x = s[i]
  BY <1>2, Zenon
<1>4. Len(s) \in Nat /\ \A i \in 1..Len(s) : s[i] \in Nat
  BY <1>1
<1> QED BY <1>1, <1>3, <1>4, Zenon

\* The same facts make a list.
LEMMA MeansLists ==
  ASSUME NEW S, NEW s \in Seq(Nat),
         \A i \in 1..Len(s) : s[i] \in S,
         \A x \in S : \E i \in 1..Len(s) : x = s[i],
         \A i, j \in 1..Len(s) : i < j => s[i] < s[j]
  PROVE  Lists(s, S)
<1>1. {s[i] : i \in 1..Len(s)} = S
  BY Zenon
<1> QED BY <1>1, Zenon DEF Lists

\* What is listed without repetition is counted by the length of the list.
LEMMA ListedCount ==
  ASSUME NEW n \in Nat, NEW s, NEW T,
         \A x : x \in T <=> \E i \in 1..n : x = s[i],
         \A i, j \in 1..n : s[i] = s[j] => i = j
  PROVE  IsFiniteSet(T) /\ Cardinality(T) = n
<1> DEFINE f == [i \in 1..n |-> s[i]]
<1>1. f \in Bijection(1..n, T)
  BY Zenon DEF Bijection, Injection, Surjection, IsInjective
<1>2. ExistsBijection(1..n, T)
  BY <1>1, Zenon DEF ExistsBijection
<1> QED BY <1>2, FS_CountingElements, FS_NatBijection, Zenon

\* A list in ascending order ranks its elements by their place in it.
LEMMA ListedRank ==
  ASSUME NEW S, NEW s, Lists(s, S)
  PROVE  /\ IsFiniteSet(S) /\ Cardinality(S) = Len(s)
         /\ \A i \in 1..Len(s) : s[i] \in S /\ Rank(S, s[i]) = i
<1>1. /\ s \in Seq(Nat) /\ Len(s) \in Nat /\ S = {s[i] : i \in 1..Len(s)}
      /\ \A i \in 1..Len(s) : s[i] \in Nat
  BY DEF Lists
<1>2. \A i, j \in 1..Len(s) : s[i] = s[j] => i = j
  BY <1>1 DEF Lists
<1>3. IsFiniteSet(S) /\ Cardinality(S) = Len(s)
  <2>1. \A x : x \in S <=> \E i \in 1..Len(s) : x = s[i]
    BY <1>1, Zenon
  <2> QED BY <1>1, <1>2, <2>1, ListedCount, Zenon
<1>4. ASSUME NEW i \in 1..Len(s) PROVE s[i] \in S /\ Rank(S, s[i]) = i
  <2>1. \A j \in 1..Len(s) : s[j] <= s[i] <=> j <= i
    BY <1>1 DEF Lists
  <2>2. {d \in S : d <= s[i]} = {s[j] : j \in 1..i}
    BY <1>1, <2>1
  <2>3. i \in Nat /\ \A j, k \in 1..i : s[j] = s[k] => j = k
    BY <1>1, <1>2
  <2>4. Cardinality({d \in S : d <= s[i]}) = i
    <3>1. \A x : x \in {d \in S : d <= s[i]} <=> \E j \in 1..i : x = s[j]
      BY <2>2, Zenon
    <3> QED BY <2>3, <3>1, ListedCount, Zenon
  <2> QED BY <1>1, <2>4, Zenon DEF Rank
<1> QED BY <1>3, <1>4, Zenon

\* There is one such list.
LEMMA ListedOnce ==
  ASSUME NEW S, NEW s, Lists(s, S)
  PROVE  s = InOrder(S)
<1>1. /\ s \in Seq(Nat) /\ Len(s) \in Nat /\ DOMAIN s = 1..Len(s)
      /\ S = {s[i] : i \in 1..Len(s)}
  BY DEF Lists
<1>2. /\ Cardinality(S) = Len(s)
      /\ \A i \in 1..Len(s) : s[i] \in S /\ Rank(S, s[i]) = i
  BY ListedRank, Zenon
<1>3. ASSUME NEW i \in 1..Len(s) PROVE InOrder(S)[i] = s[i]
  <2>1. \A c \in S : Rank(S, c) = i => c = s[i]
    BY <1>1, <1>2, Zenon
  <2>2. (CHOOSE c \in S : Rank(S, c) = i) = s[i]
    BY <1>2, <2>1, Zenon
  <2> QED BY <1>2, <2>2, Zenon DEF InOrder
<1>4. InOrder(S) = [i \in 1..Len(s) |-> InOrder(S)[i]]
  BY <1>2 DEF InOrder
<1> QED BY <1>1, <1>3, <1>4

\* Every finite set of cursors has one: the ranks of its elements are 1, 2 and so on.
LEMMA OrderLists ==
  ASSUME NEW S \in SUBSET Nat, IsFiniteSet(S)
  PROVE  Lists(InOrder(S), S)
<1> DEFINE n == Cardinality(S)
           r == [c \in S |-> Rank(S, c)]
<1>1. n \in Nat
  BY FS_CardinalityType, Zenon
<1>2. ASSUME NEW c \in S
      PROVE  /\ IsFiniteSet({d \in S : d <= c})
             /\ Rank(S, c) \in 1..n
  <2>1. /\ IsFiniteSet({d \in S : d <= c})
        /\ Cardinality({d \in S : d <= c}) <= n
    BY FS_Subset, Zenon
  <2>2. Cardinality({d \in S : d <= c}) \in Nat
    BY <2>1, FS_CardinalityType, Zenon
  <2>3. c \in {d \in S : d <= c}
    OBVIOUS
  <2>4. Cardinality({d \in S : d <= c}) # 0
    BY <2>1, <2>3, FS_EmptySet, Zenon
  <2> QED BY <1>1, <2>1, <2>2, <2>4 DEF Rank
<1>3. ASSUME NEW c \in S, NEW e \in S, c < e
      PROVE  Rank(S, c) < Rank(S, e)
  <2>1. {d \in S : d <= c} \in SUBSET {d \in S : d <= e}
    <3>1. \A d \in S : d <= c => d <= e
      BY <1>3
    <3> QED BY <3>1, Zenon
  <2>2. {d \in S : d <= c} # {d \in S : d <= e}
    BY <1>3
  <2>3. /\ Rank(S, c) <= Rank(S, e)
        /\ Rank(S, c) # Rank(S, e)
    BY <1>2, <2>1, <2>2, FS_Subset, Zenon DEF Rank
  <2>4. Rank(S, c) \in Int /\ Rank(S, e) \in Int
    <3>1. Rank(S, c) \in 1..n /\ Rank(S, e) \in 1..n
      BY <1>2, Zenon
    <3> QED BY <3>1
  <2> QED BY <2>3, <2>4
<1>4. \A c, e \in S : Rank(S, c) = Rank(S, e) => c = e
  <2> SUFFICES ASSUME NEW c \in S, NEW e \in S, Rank(S, c) = Rank(S, e), c # e
               PROVE  FALSE
    BY Zenon
  <2>1. c < e \/ e < c
    OBVIOUS
  <2>2. Rank(S, c) \in Int
    <3>1. Rank(S, c) \in 1..n
      BY <1>2, Zenon
    <3> QED BY <3>1
  <2> QED BY <1>3, <2>1, <2>2
<1>5. r \in Injection(S, 1..n)
  BY <1>2, <1>4, Zenon DEF Injection, IsInjective
<1>6. IsFiniteSet(1..n) /\ Cardinality(1..n) = n
  BY <1>1, FS_Interval
<1>7. r \in Surjection(S, 1..n)
  BY <1>5, <1>6, FS_Injection, Zenon
<1>8. \A i \in 1..n : \E c \in S : Rank(S, c) = i
  BY <1>7, Zenon DEF Surjection
<1>9. \A i \in 1..n : InOrder(S)[i] \in S /\ Rank(S, InOrder(S)[i]) = i
  BY <1>8, Zenon DEF InOrder
<1>10. /\ InOrder(S) \in Seq(Nat) /\ Len(InOrder(S)) = n
       /\ DOMAIN InOrder(S) = 1..n
  <2>1. InOrder(S) = [i \in 1..n |-> InOrder(S)[i]]
    BY DEF InOrder
  <2> QED BY <1>1, <1>9, <2>1
<1>11. S \subseteq {InOrder(S)[i] : i \in 1..n}
  <2> SUFFICES ASSUME NEW c \in S PROVE \E i \in 1..n : InOrder(S)[i] = c
    BY Zenon
  <2>1. Rank(S, c) \in 1..n
    BY <1>2, Zenon
  <2> QED BY <1>4, <1>9, <2>1, Zenon
<1>12. ASSUME NEW i \in 1..n, NEW j \in 1..n, i < j
       PROVE  InOrder(S)[i] < InOrder(S)[j]
  <2>1. /\ InOrder(S)[i] \in S /\ Rank(S, InOrder(S)[i]) = i
        /\ InOrder(S)[j] \in S /\ Rank(S, InOrder(S)[j]) = j
    BY <1>9, Zenon
  <2>2. i \in Nat /\ j \in Nat /\ i # j /\ ~(j < i)
    BY <1>1, <1>12
  <2>3. InOrder(S)[i] # InOrder(S)[j]
    BY <2>1, <2>2, Zenon
  <2>4. ~(InOrder(S)[j] < InOrder(S)[i])
    BY <1>3, <2>1, <2>2, Zenon
  <2>5. InOrder(S)[i] \in Nat /\ InOrder(S)[j] \in Nat
    BY <2>1, Zenon
  <2> QED BY <2>3, <2>4, <2>5
<1> QED BY <1>9, <1>10, <1>11, <1>12, Zenon DEF Lists

-----------------------------------------------------------------------------
(* The inductive invariant *)

\* The booked cursors above a and not above u.
Events(B, a, u) == {x \in B : a < x /\ x <= u}

\* The last event of g, which started to be read at o.
Last(o, g) == IF g = <<>> THEN o ELSE g[Len(g)]

\* A cursor that no event still to be booked can be at or below.
Reached(x, B) == x \in Nat /\ (x = 0 \/ \E b \in B : x <= b)

\* The fields of a subscription.
RowInv(s) ==
    /\ s.open \in BOOLEAN
    /\ s.open =>
        /\ s.queue \in Seq(Nat) /\ Len(s.queue) <= Capacity
        /\ s.lastQueued \in Nat /\ s.available \in Nat

\* What was received and what is queued is all that there is up to lastQueued; the
\* queue is full or has every event it was offered.
OpenInv(s, o, g, B, p, w) ==
    /\ Lists(g \o s.queue, Events(B, o, s.lastQueued))
    /\ o <= s.lastQueued /\ Reached(s.lastQueued, B)
    /\ ~w => p <= s.available
    /\ \/ Len(s.queue) = Capacity
       \/ \A b \in B : (b < p \/ (b = p /\ ~w)) => b <= s.lastQueued

ClientInv(s, o, g, B, p, w) ==
    /\ RowInv(s) /\ Reached(o, B) /\ g \in Seq(Nat)
    /\ s.open => s.lastDelivered = Last(o, g)
    /\ IF s.open /\ s.closed = "no" THEN OpenInv(s, o, g, B, p, w)
       ELSE Lists(g, Events(B, o, Last(o, g)))

JournalInv ==
    /\ next \in Nat \ {0} /\ booked \in SUBSET (1..(next - 1))
    /\ batch \in Seq(Nat)
    /\ \A i \in 1..Len(batch) : 0 < batch[i] /\ batch[i] < next /\ \A b \in booked : b < batch[i]
    /\ \A i, j \in 1..Len(batch) : i < j => batch[i] < batch[j]
    /\ published = 0 \/ published \in booked
    /\ floor \in Nat
    /\ command # "booking" => batch = <<>>
    /\ command # "publishing" => waiting = {}
    /\ waiting \subseteq {c \in Clients : Subscribed(c)}
    /\ DOMAIN subs = Clients /\ DOMAIN origin = Clients /\ DOMAIN got = Clients

IInv ==
    /\ JournalInv
    /\ \A c \in Clients : ClientInv(subs[c], origin[c], got[c], booked, published, c \in waiting)

-----------------------------------------------------------------------------
(* Lemmas on journals *)

\* A finite set of cursors that is not empty has a greatest and a least element.
LEMMA Extremes ==
  ASSUME NEW S \in SUBSET Nat, IsFiniteSet(S), S # {}
  PROVE  /\ Max(S) \in S /\ \A x \in S : x <= Max(S)
         /\ Min(S) \in S /\ \A x \in S : Min(S) <= x
<1> DEFINE l == InOrder(S)
<1>1. Lists(l, S)
  BY OrderLists, Zenon
<1> HIDE DEF l
<1>2. /\ l \in Seq(Nat) /\ Len(l) \in Nat
      /\ \A i \in 1..Len(l) : l[i] \in S
      /\ \A x \in S : \E i \in 1..Len(l) : x = l[i]
      /\ \A i, j \in 1..Len(l) : i < j => l[i] < l[j]
  BY <1>1, ListsMeans, Zenon
<1>3. Len(l) > 0
  <2>1. PICK x \in S : TRUE
    BY Zenon
  <2>2. PICK i \in 1..Len(l) : x = l[i]
    BY <1>2, Zenon
  <2> QED BY <1>2, <2>2
<1>4. /\ l[1] \in S /\ \A x \in S : l[1] <= x
      /\ l[Len(l)] \in S /\ \A x \in S : x <= l[Len(l)]
  <2>1. 1 \in 1..Len(l) /\ Len(l) \in 1..Len(l)
    BY <1>2, <1>3
  <2>2. ASSUME NEW x \in S PROVE l[1] <= x /\ x <= l[Len(l)]
    <3>1. PICK i \in 1..Len(l) : x = l[i]
      BY <1>2, Zenon
    <3>2. \A j \in 1..Len(l) : l[j] \in Nat
      BY <1>2, Zenon
    <3>3. i = 1 \/ 1 < i
      BY <1>2
    <3>4. i = Len(l) \/ i < Len(l)
      BY <1>2
    <3>5. l[1] <= l[i]
      BY <1>2, <2>1, <3>2, <3>3
    <3>6. l[i] <= l[Len(l)]
      BY <1>2, <2>1, <3>2, <3>4
    <3> QED BY <3>1, <3>5, <3>6, Zenon
  <2> QED BY <1>2, <2>1, <2>2, Zenon
<1>5. \E x \in S : \A y \in S : x >= y
  BY <1>4, Zenon
<1>6. \E x \in S : \A y \in S : x <= y
  BY <1>4, Zenon
<1>7. Max(S) \in S /\ \A y \in S : Max(S) >= y
  BY <1>5, Zenon DEF Max
<1>8. Min(S) \in S /\ \A y \in S : Min(S) <= y
  BY <1>6, Zenon DEF Min
<1> QED BY <1>7, <1>8, Zenon

\* What Between reads from the books lists the events of the interval.
LEMMA BetweenLists ==
  ASSUME NEW a, NEW u, booked \in SUBSET Nat, IsFiniteSet(booked)
  PROVE  Lists(Between(a, u), Events(booked, a, u))
<1>1. Between(a, u) = InOrder(Events(booked, a, u))
  BY Zenon DEF Between, InOrder, Events, Rank
<1>2. Events(booked, a, u) \in SUBSET Nat /\ Events(booked, a, u) \subseteq booked
  BY Zenon DEF Events
<1>3. IsFiniteSet(Events(booked, a, u))
  BY <1>2, FS_Subset, Zenon
<1> QED BY <1>1, <1>2, <1>3, OrderLists, Zenon

\* A reader that has the first few events of an interval has all of them up to the
\* last that it has.
LEMMA Prefix ==
  ASSUME NEW B \in SUBSET Nat, NEW o \in Nat, NEW u \in Nat,
         NEW t, Lists(t, Events(B, o, u)),
         NEW p \in Seq(Nat), Len(p) <= Len(t), \A i \in 1..Len(p) : p[i] = t[i]
  PROVE  /\ Lists(p, Events(B, o, Last(o, p)))
         /\ Last(o, p) \in Nat /\ o <= Last(o, p)
         /\ p # <<>> => Last(o, p) \in Events(B, o, u)
         /\ o <= u => Last(o, p) <= u
<1>1. /\ t \in Seq(Nat) /\ Len(t) \in Nat
      /\ \A i \in 1..Len(t) : t[i] \in Nat /\ t[i] \in B /\ o < t[i] /\ t[i] <= u
      /\ \A x \in B : o < x /\ x <= u => \E i \in 1..Len(t) : x = t[i]
      /\ \A i, j \in 1..Len(t) : i < j => t[i] < t[j]
  <2>1. /\ t \in Seq(Nat) /\ Len(t) \in Nat
        /\ \A i \in 1..Len(t) : t[i] \in Events(B, o, u) /\ t[i] \in Nat
        /\ \A x \in Events(B, o, u) : \E i \in 1..Len(t) : x = t[i]
        /\ \A i, j \in 1..Len(t) : i < j => t[i] < t[j]
    BY ListsMeans, Zenon
  <2> QED BY <2>1, Zenon DEF Events
<1> Len(p) \in Nat
  OBVIOUS
<1>2. CASE p = <<>>
  <2>1. Last(o, p) = o /\ Len(p) = 0
    BY <1>2, Zenon DEF Last
  <2>2. Events(B, o, o) = {}
    <3>1. \A x \in B : ~(o < x /\ x <= o)
      OBVIOUS
    <3> QED BY <3>1, Zenon DEF Events
  <2>3. \A i \in 1..Len(p) : FALSE
    BY <2>1
  <2>4. Lists(p, Events(B, o, Last(o, p)))
    BY <2>1, <2>2, <2>3, MeansLists, Zenon
  <2> QED BY <1>2, <2>1, <2>4
<1>3. CASE p # <<>>
  <2> DEFINE n == Len(p)
  <2>1. n \in 1..Len(t) /\ n \in 1..Len(p) /\ Last(o, p) = t[n]
    BY <1>1, <1>3 DEF Last
  <2>2. t[n] \in Nat /\ t[n] \in B /\ o < t[n] /\ t[n] <= u
    BY <1>1, <2>1, Zenon
  <2>3. \A i \in 1..Len(p) : i \in 1..Len(t) /\ p[i] \in Events(B, o, t[n])
    <3> SUFFICES ASSUME NEW i \in 1..Len(p)
                 PROVE  i \in 1..Len(t) /\ p[i] \in Events(B, o, t[n])
      BY Zenon
    <3>1. i \in 1..Len(t) /\ (i < n \/ i = n)
      BY <1>1, <2>1
    <3>2. t[i] <= t[n] /\ t[i] \in B /\ o < t[i]
      BY <1>1, <2>1, <2>2, <3>1
    <3> QED BY <3>1, <3>2, Zenon DEF Events
  <2>4. ASSUME NEW x \in Events(B, o, t[n]) PROVE \E i \in 1..Len(p) : x = p[i]
    <3>1. x \in B /\ o < x /\ x <= t[n] /\ x \in Nat
      BY Zenon DEF Events
    <3>2. PICK i \in 1..Len(t) : x = t[i]
      BY <1>1, <2>2, <3>1
    <3>3. ~(n < i)
      BY <1>1, <2>1, <2>2, <3>1, <3>2
    <3>4. i \in 1..Len(p)
      BY <1>1, <2>1, <3>3
    <3> QED BY <3>2, <3>4, Zenon
  <2>6. \A i, j \in 1..Len(p) : i < j => p[i] < p[j]
    BY <1>1, <2>3, Zenon
  <2>7. Lists(p, Events(B, o, Last(o, p)))
    BY <2>1, <2>3, <2>4, <2>6, MeansLists, Zenon
  <2>8. t[n] \in Events(B, o, u)
    BY <2>2, Zenon DEF Events
  <2> QED BY <2>1, <2>2, <2>7, <2>8
<1> QED BY <1>2, <1>3, Zenon

\* Two intervals that meet, one after the other, are listed one after the other.
LEMMA Join ==
  ASSUME NEW B \in SUBSET Nat, NEW o \in Nat, NEW l \in Nat, NEW u \in Nat,
         o <= l, l <= u,
         NEW s, Lists(s, Events(B, o, l)), NEW e, Lists(e, Events(B, l, u))
  PROVE  Lists(s \o e, Events(B, o, u))
<1> DEFINE t == s \o e
<1>1. /\ s \in Seq(Nat) /\ Len(s) \in Nat
      /\ \A i \in 1..Len(s) : s[i] \in Nat /\ s[i] \in B /\ o < s[i] /\ s[i] <= l
      /\ \A x \in B : o < x /\ x <= l => \E i \in 1..Len(s) : x = s[i]
      /\ \A i, j \in 1..Len(s) : i < j => s[i] < s[j]
  <2>1. /\ s \in Seq(Nat) /\ Len(s) \in Nat
        /\ \A i \in 1..Len(s) : s[i] \in Events(B, o, l) /\ s[i] \in Nat
        /\ \A x \in Events(B, o, l) : \E i \in 1..Len(s) : x = s[i]
        /\ \A i, j \in 1..Len(s) : i < j => s[i] < s[j]
    BY ListsMeans, Zenon
  <2> QED BY <2>1, Zenon DEF Events
<1>2. /\ e \in Seq(Nat) /\ Len(e) \in Nat
      /\ \A i \in 1..Len(e) : e[i] \in Nat /\ e[i] \in B /\ l < e[i] /\ e[i] <= u
      /\ \A x \in B : l < x /\ x <= u => \E i \in 1..Len(e) : x = e[i]
      /\ \A i, j \in 1..Len(e) : i < j => e[i] < e[j]
  <2>1. /\ e \in Seq(Nat) /\ Len(e) \in Nat
        /\ \A i \in 1..Len(e) : e[i] \in Events(B, l, u) /\ e[i] \in Nat
        /\ \A x \in Events(B, l, u) : \E i \in 1..Len(e) : x = e[i]
        /\ \A i, j \in 1..Len(e) : i < j => e[i] < e[j]
    BY ListsMeans, Zenon
  <2> QED BY <2>1, Zenon DEF Events
<1>3. /\ t \in Seq(Nat) /\ Len(t) = Len(s) + Len(e)
      /\ \A i \in 1..Len(s) : i \in 1..Len(t) /\ t[i] = s[i]
      /\ \A i \in 1..Len(e) : Len(s) + i \in 1..Len(t) /\ t[Len(s) + i] = e[i]
  BY <1>1, <1>2
<1>4. ASSUME NEW i \in 1..Len(t)
      PROVE  \/ i \in 1..Len(s) /\ t[i] = s[i]
             \/ i - Len(s) \in 1..Len(e) /\ t[i] = e[i - Len(s)]
  <2>1. i \in 1..Len(s) \/ (i - Len(s) \in 1..Len(e) /\ Len(s) + (i - Len(s)) = i)
    BY <1>1, <1>2, <1>3
  <2> QED BY <1>3, <2>1, Zenon
<1> HIDE DEF t
<1>5. ASSUME NEW i \in 1..Len(t) PROVE t[i] \in Events(B, o, u)
  <2>1. CASE i \in 1..Len(s) /\ t[i] = s[i]
    BY <1>1, <2>1 DEF Events
  <2>2. CASE i - Len(s) \in 1..Len(e) /\ t[i] = e[i - Len(s)]
    BY <1>2, <2>2 DEF Events
  <2> QED BY <1>4, <2>1, <2>2, Zenon
<1>6. ASSUME NEW x \in Events(B, o, u) PROVE \E i \in 1..Len(t) : x = t[i]
  <2>1. x \in B /\ x \in Nat /\ o < x /\ x <= u
    BY Zenon DEF Events
  <2>2. CASE x <= l
    BY <1>1, <1>3, <2>1, <2>2, Zenon
  <2>3. CASE l < x
    BY <1>2, <1>3, <2>1, <2>3, Zenon
  <2> QED BY <2>1, <2>2, <2>3
<1>8. ASSUME NEW i \in 1..Len(t), NEW j \in 1..Len(t), i < j PROVE t[i] < t[j]
  <2>1. CASE i \in 1..Len(s) /\ j \in 1..Len(s)
    BY <1>1, <1>3, <1>8, <2>1, Zenon
  <2>2. CASE i \in 1..Len(s) /\ j \notin 1..Len(s)
    <3>1. t[i] = s[i] /\ j - Len(s) \in 1..Len(e) /\ t[j] = e[j - Len(s)]
      BY <1>3, <1>4, <2>2, Zenon
    <3>2. s[i] <= l /\ l < e[j - Len(s)] /\ s[i] \in Nat /\ e[j - Len(s)] \in Nat
      BY <1>1, <1>2, <2>2, <3>1, Zenon
    <3> QED BY <3>1, <3>2
  <2>3. CASE i \notin 1..Len(s)
    <3>1. j \notin 1..Len(s)
      BY <1>1, <1>8, <2>3
    <3>2. /\ i - Len(s) \in 1..Len(e) /\ t[i] = e[i - Len(s)]
          /\ j - Len(s) \in 1..Len(e) /\ t[j] = e[j - Len(s)]
      BY <1>4, <2>3, <3>1, Zenon
    <3>3. i - Len(s) < j - Len(s)
      BY <1>1, <1>8
    <3> QED BY <1>2, <3>2, <3>3, Zenon
  <2> QED BY <2>1, <2>2, <2>3, Zenon
<1>9. Lists(t, Events(B, o, u))
  <2>1. /\ t \in Seq(Nat) /\ \A i \in 1..Len(t) : t[i] \in Events(B, o, u)
        /\ \A x \in Events(B, o, u) : \E i \in 1..Len(t) : x = t[i]
        /\ \A i, j \in 1..Len(t) : i < j => t[i] < t[j]
    BY <1>3, <1>5, <1>6, <1>8, Zenon
  <2> QED BY <2>1, MeansLists, Zenon
<1> QED BY <1>9, Zenon DEF t

\* Where a client has got to: what it received is every event up to there, and no
\* event is still to be booked at or below it.
LEMMA HasGot ==
  ASSUME NEW B \in SUBSET Nat, NEW s, NEW o, NEW g, NEW p, NEW w,
         ClientInv(s, o, g, B, p, w)
  PROVE  /\ Lists(g, Events(B, o, Last(o, g)))
         /\ Reached(Last(o, g), B) /\ o <= Last(o, g)
         /\ o \in Nat /\ g \in Seq(Nat)
<1>1. o \in Nat /\ g \in Seq(Nat) /\ Reached(o, B)
  BY Zenon DEF ClientInv, Reached
<1>2. Lists(g, Events(B, o, Last(o, g)))
  <2>1. CASE s.open /\ s.closed = "no"
    <3> DEFINE t == g \o s.queue
    <3>1. RowInv(s) /\ OpenInv(s, o, g, B, p, w)
      BY <2>1, Zenon DEF ClientInv
    <3>2. s.queue \in Seq(Nat) /\ s.lastQueued \in Nat
      BY <2>1, <3>1, Zenon DEF RowInv
    <3>3. Lists(t, Events(B, o, s.lastQueued))
      BY <3>1, Zenon DEF OpenInv
    <3>4. Len(g) <= Len(t) /\ \A i \in 1..Len(g) : g[i] = t[i]
      BY <1>1, <3>2
    <3> HIDE DEF t
    <3> QED BY <1>1, <3>2, <3>3, <3>4, Prefix, Zenon
  <2>2. CASE ~(s.open /\ s.closed = "no")
    BY <2>2, Zenon DEF ClientInv
  <2> QED BY <2>1, <2>2, Zenon
<1>3. Reached(Last(o, g), B) /\ o <= Last(o, g)
  <2>1. CASE g = <<>>
    BY <1>1, <2>1 DEF Last
  <2>2. CASE g # <<>>
    <3>1. Len(g) \in 1..Len(g) /\ Last(o, g) = g[Len(g)]
      BY <1>1, <2>2 DEF Last
    <3>2. g[Len(g)] \in Events(B, o, Last(o, g))
      BY <1>2, <3>1, ListsMeans, Zenon
    <3>3. g[Len(g)] \in B /\ o < g[Len(g)]
      BY <3>2, Zenon DEF Events
    <3> QED BY <1>1, <3>1, <3>3 DEF Reached
  <2> QED BY <2>1, <2>2, Zenon
<1> QED BY <1>1, <1>2, <1>3, Zenon

\* Events booked above all the others disturb no client.
LEMMA Grow ==
  ASSUME NEW B \in SUBSET Nat, NEW C \in SUBSET Nat, B \subseteq C,
         \A x \in C \ B : 0 < x /\ \A b \in B : b < x,
         NEW s, NEW o, NEW g, NEW p, p = 0 \/ p \in B, NEW w,
         ClientInv(s, o, g, B, p, w)
  PROVE  ClientInv(s, o, g, C, p, w)
<1>1. ASSUME NEW x, Reached(x, B)
      PROVE  Reached(x, C) /\ \A a : Events(C, a, x) = Events(B, a, x)
  <2>1. x \in Nat /\ Reached(x, C)
    BY <1>1, Zenon DEF Reached
  <2>2. \A y \in C : y <= x => y \in B
    BY <1>1 DEF Reached
  <2> QED BY <2>1, <2>2, Zenon DEF Events
<1>2. Reached(o, C)
  BY <1>1, Zenon DEF ClientInv
<1>3. CASE s.open /\ s.closed = "no"
  <2>1. OpenInv(s, o, g, B, p, w)
    BY <1>3, Zenon DEF ClientInv
  <2>2. Reached(s.lastQueued, C) /\ Lists(g \o s.queue, Events(C, o, s.lastQueued))
    BY <1>1, <2>1, Zenon DEF OpenInv
  <2>3. \A b \in C \ B : ~(b < p) /\ b # p
    <3> SUFFICES ASSUME NEW b \in C \ B PROVE ~(b < p) /\ b # p
      BY Zenon
    <3>1. b \in Nat /\ (p = 0 \/ p \in Nat) /\ 0 < b /\ (p = 0 \/ p < b)
      BY Zenon
    <3> QED BY <3>1
  <2>4. OpenInv(s, o, g, C, p, w)
    BY <2>1, <2>2, <2>3, Zenon DEF OpenInv
  <2> QED BY <1>2, <1>3, <2>4, Zenon DEF ClientInv
<1>4. CASE ~(s.open /\ s.closed = "no")
  <2>1. Lists(g, Events(C, o, Last(o, g)))
    BY <1>1, HasGot, Zenon
  <2> QED BY <1>2, <1>4, <2>1, Zenon DEF ClientInv
<1> QED BY <1>3, <1>4, Zenon

\* A subscription that is dropped, or closed for a slow consumer, leaves the client
\* with what it received.
LEMMA Dropped ==
  ASSUME NEW B \in SUBSET Nat, NEW s, NEW o, NEW g, NEW p, NEW w,
         ClientInv(s, o, g, B, p, w), NEW q, NEW v
  PROVE  /\ ClientInv(NoSub, o, g, B, q, v)
         /\ s.open => ClientInv(SlowConsumer(s), o, g, B, q, v)
<1>1. Lists(g, Events(B, o, Last(o, g)))
  BY HasGot, Zenon
<1>2. NoSub.open = FALSE
  BY Zenon DEF NoSub
<1>3. ClientInv(NoSub, o, g, B, q, v)
  BY <1>1, <1>2, Zenon DEF ClientInv, RowInv
<1>4. ASSUME s.open PROVE ClientInv(SlowConsumer(s), o, g, B, q, v)
  <2> DEFINE r == SlowConsumer(s)
  <2>1. /\ r.open = TRUE /\ r.queue = <<>> /\ r.lastQueued = s.lastQueued
        /\ r.lastDelivered = s.lastDelivered /\ r.available = s.available
        /\ r.closed # "no"
    BY Zenon DEF SlowConsumer
  <2> HIDE DEF r
  <2>2. RowInv(s) /\ Reached(o, B) /\ g \in Seq(Nat) /\ s.lastDelivered = Last(o, g)
    BY <1>4, Zenon DEF ClientInv
  <2>3. s.lastQueued \in Nat /\ s.available \in Nat
    BY <1>4, <2>2, Zenon DEF RowInv
  <2>4. Len(<<>>) <= Capacity /\ <<>> \in Seq(Nat)
    BY StreamAssumption
  <2>5. RowInv(r)
    BY <2>1, <2>3, <2>4, Zenon DEF RowInv
  <2>6. ClientInv(r, o, g, B, q, v)
    BY <1>1, <2>1, <2>2, <2>5, Zenon DEF ClientInv
  <2> QED BY <2>6, Zenon DEF r
<1> QED BY <1>3, <1>4, Zenon

\* Three sequences one after the other, however they are grouped.
LEMMA Regroup ==
  ASSUME NEW a \in Seq(Nat), NEW b \in Seq(Nat), NEW d \in Seq(Nat)
  PROVE  (a \o b) \o d = a \o (b \o d)
OBVIOUS

\* Events that follow the last one queued, with none left out, may be queued.
LEMMA Enqueued ==
  ASSUME NEW B \in SUBSET Nat, NEW s, NEW o, NEW g, ClientInv(s, o, g, B, 0, TRUE),
         s.open = TRUE, s.closed = "no",
         NEW e \in Seq(Nat), e # <<>>, Lists(e, Events(B, s.lastQueued, e[Len(e)])),
         Len(s.queue) + Len(e) <= Capacity,
         NEW p, p <= s.available,
         \/ Len(s.queue) + Len(e) = Capacity
         \/ \A b \in B : b < p \/ b = p => b <= e[Len(e)]
  PROVE  ClientInv(Queued(s, e), o, g, B, p, FALSE)
<1> DEFINE r == Queued(s, e)
           u == e[Len(e)]
           l == s.lastQueued
<1>1. /\ RowInv(s) /\ Reached(o, B) /\ g \in Seq(Nat) /\ s.lastDelivered = Last(o, g)
      /\ OpenInv(s, o, g, B, 0, TRUE)
  BY Zenon DEF ClientInv
<1>2. s.queue \in Seq(Nat) /\ l \in Nat /\ s.available \in Nat /\ o \in Nat
  BY <1>1, Zenon DEF RowInv, Reached
<1>3. Lists(g \o s.queue, Events(B, o, l)) /\ o <= l
  BY <1>1, Zenon DEF OpenInv
<1>4. Len(e) \in 1..Len(e) /\ u \in Nat
  OBVIOUS
<1>5. u \in Events(B, l, u)
  BY <1>4, ListsMeans, Zenon
<1>6. u \in B /\ l < u
  BY <1>5, Zenon DEF Events
<1>7. /\ r.open = TRUE /\ r.queue = s.queue \o e /\ r.lastQueued = u
      /\ r.lastDelivered = s.lastDelivered /\ r.available = s.available
      /\ r.closed = "no"
  BY Zenon DEF Queued
<1> HIDE DEF r, u, l
<1>8. l <= u /\ o <= u
  BY <1>2, <1>3, <1>4, <1>6
<1>9. Lists((g \o s.queue) \o e, Events(B, o, u))
  <2>1. Lists(e, Events(B, l, u))
    BY Zenon DEF u, l
  <2> QED BY <1>2, <1>3, <1>4, <1>8, <2>1, Join, Zenon
<1>10. Lists(g \o (s.queue \o e), Events(B, o, u))
  <2>1. (g \o s.queue) \o e = g \o (s.queue \o e)
    BY <1>1, <1>2, Regroup, Zenon
  <2> QED BY <1>9, <2>1, Zenon
<1>11. s.queue \o e \in Seq(Nat) /\ Len(s.queue \o e) = Len(s.queue) + Len(e)
  BY <1>2
<1>12. RowInv(r)
  BY <1>2, <1>4, <1>7, <1>11, Zenon DEF RowInv
<1>13. Reached(u, B)
  <2>1. u <= u
    BY <1>4
  <2> QED BY <1>4, <1>6, <2>1, Zenon DEF Reached
<1>14. \/ Len(s.queue \o e) = Capacity
       \/ \A b \in B : b < p \/ b = p => b <= u
  BY <1>11, Zenon DEF u
<1>15. OpenInv(r, o, g, B, p, FALSE)
  BY <1>7, <1>8, <1>10, <1>13, <1>14, Zenon DEF OpenInv
<1>16. ClientInv(r, o, g, B, p, FALSE)
  BY <1>1, <1>7, <1>12, <1>15, Zenon DEF ClientInv
<1> QED BY <1>16, Zenon DEF r

\* fill_retained: from the books, up to what the subscription may see.
LEMMA Filled ==
  ASSUME booked \in SUBSET Nat, IsFiniteSet(booked),
         NEW c, NEW s, NEW o, NEW g, ClientInv(s, o, g, booked, 0, TRUE),
         s.open = TRUE, s.closed = "no", NEW p \in Nat, p <= s.available
  PROVE  ClientInv(FillRetained(c, s), o, g, booked, p, FALSE)
<1> DEFINE l == s.lastQueued
           n == Capacity - Len(s.queue)
           all == Between(l, s.available)
           e == EventsAfter(l, s.available, n)
<1>1. /\ RowInv(s) /\ Reached(o, booked) /\ g \in Seq(Nat)
      /\ s.lastDelivered = Last(o, g) /\ OpenInv(s, o, g, booked, 0, TRUE)
  BY Zenon DEF ClientInv
<1>2. /\ s.queue \in Seq(Nat) /\ Len(s.queue) <= Capacity
      /\ l \in Nat /\ s.available \in Nat
  BY <1>1, Zenon DEF RowInv
<1>3. Lists(all, Events(booked, l, s.available))
  BY BetweenLists, Zenon
<1>4. /\ all \in Seq(Nat) /\ Len(all) \in Nat
      /\ \A i \in 1..Len(all) : all[i] \in Events(booked, l, s.available) /\ all[i] \in Nat
      /\ \A x \in Events(booked, l, s.available) : \E i \in 1..Len(all) : x = all[i]
      /\ \A i, j \in 1..Len(all) : i < j => all[i] < all[j]
  BY <1>3, ListsMeans, Zenon
<1>5. n \in Nat /\ Len(s.queue) \in Nat /\ Capacity \in Nat
  BY <1>2, StreamAssumption
<1> DEFINE m == Min({n, Len(all)})
<1>6. m \in {n, Len(all)} /\ m <= n /\ m <= Len(all) /\ m \in Nat
  <2>1. \E x \in {n, Len(all)} : \A y \in {n, Len(all)} : x <= y
    BY <1>4, <1>5
  <2>2. m \in {n, Len(all)} /\ \A y \in {n, Len(all)} : m <= y
    BY <2>1, Zenon DEF Min
  <2> HIDE DEF m
  <2> QED BY <1>4, <1>5, <2>2, Zenon
<1>7. e = SubSeq(all, 1, m)
  BY Zenon DEF EventsAfter
<1> HIDE DEF m, e, all
<1>8. e \in Seq(Nat) /\ Len(e) = m /\ \A i \in 1..m : e[i] = all[i]
  BY <1>4, <1>6, <1>7
<1>9. ASSUME NEW b \in booked, b < p \/ b = p, ~(b <= l)
      PROVE  \E i \in 1..Len(all) : b = all[i]
  <2>1. b \in Nat /\ l < b /\ b <= s.available
    BY <1>2, <1>9
  <2>2. b \in Events(booked, l, s.available)
    BY <2>1, Zenon DEF Events
  <2> QED BY <1>4, <2>2, Zenon
<1>10. CASE Len(s.queue) = Capacity \/ e = <<>>
  <2>1. FillRetained(c, s) = s
    BY <1>10, Zenon DEF FillRetained, e, n, l
  <2>2. Len(s.queue) = Capacity \/ \A b \in booked : b < p \/ b = p => b <= l
    <3>1. CASE Len(s.queue) # Capacity /\ e = <<>>
      <4>1. Len(all) = 0
        BY <1>5, <1>6, <1>8, <3>1, <1>2, <1>4
      <4>2. \A i \in 1..Len(all) : FALSE
        BY <4>1
      <4> QED BY <1>9, <4>2, Zenon
    <3> QED BY <1>10, <3>1, Zenon
  <2>3. OpenInv(s, o, g, booked, p, FALSE)
    BY <1>1, <2>2, Zenon DEF OpenInv, l
  <2> QED BY <1>1, <2>1, <2>3, Zenon DEF ClientInv
<1>11. CASE Len(s.queue) # Capacity /\ e # <<>>
  <2> DEFINE u == e[Len(e)]
  <2>1. CASE QueuedByOthers(c) + Len(s.queue) + Len(e) > MaxQueued
    <3>1. FillRetained(c, s) = SlowConsumer(s)
      BY <1>11, <2>1, Zenon DEF FillRetained, e, n, l
    <3> QED BY <3>1, Dropped, Zenon
  <2>2. CASE ~(QueuedByOthers(c) + Len(s.queue) + Len(e) > MaxQueued)
    <3>1. FillRetained(c, s) = Queued(s, e)
      BY <1>11, <2>2, Zenon DEF FillRetained, e, n, l
    <3>2. Len(e) <= Len(all) /\ \A i \in 1..Len(e) : e[i] = all[i]
      BY <1>6, <1>8, Zenon
    <3>3. Last(l, e) = u
      BY <1>11, Zenon DEF Last
    <3>4. Lists(e, Events(booked, l, u))
      <4>1. Lists(e, Events(booked, l, Last(l, e)))
        BY <1>2, <1>3, <1>8, <3>2, Prefix, Zenon
      <4> QED BY <3>3, <4>1, Zenon
    <3>5. Len(s.queue) + Len(e) <= Capacity
      BY <1>5, <1>6, <1>8
    <3>6. \/ Len(s.queue) + Len(e) = Capacity
          \/ \A b \in booked : b < p \/ b = p => b <= u
      <4>1. CASE m = n
        BY <1>5, <1>8, <4>1
      <4>2. CASE m = Len(all)
        <5> SUFFICES ASSUME NEW b \in booked, b < p \/ b = p PROVE b <= u
          BY Zenon
        <5>1. m \in 1..Len(all) /\ u = all[m] /\ u \in Nat /\ l < u
          <6>1. m \in 1..m
            BY <1>6, <1>8, <1>11
          <6>2. u = all[m] /\ m \in 1..Len(all)
            BY <1>8, <4>2, <6>1, Zenon
          <6>3. all[m] \in Events(booked, l, s.available) /\ all[m] \in Nat
            BY <1>4, <6>2, Zenon
          <6> QED BY <6>2, <6>3, Zenon DEF Events
        <5>2. CASE b <= l
          <6>1. b \in Nat
            BY Zenon
          <6> QED BY <1>2, <5>1, <5>2, <6>1
        <5>3. CASE ~(b <= l)
          <6>1. PICK i \in 1..Len(all) : b = all[i]
            BY <1>9, <5>3, Zenon
          <6>2. i = m \/ i < m
            BY <1>4, <4>2
          <6>3. all[i] \in Nat /\ (i < m => all[i] < all[m])
            BY <1>4, <5>1, Zenon
          <6> QED BY <5>1, <6>1, <6>2, <6>3
        <5> QED BY <5>2, <5>3, Zenon
      <4> QED BY <1>6, <4>1, <4>2, Zenon
    <3>7. Lists(e, Events(booked, s.lastQueued, e[Len(e)]))
      BY <3>4, Zenon DEF l
    <3>8. ClientInv(Queued(s, e), o, g, booked, p, FALSE)
      BY <1>8, <1>11, <3>5, <3>6, <3>7, Enqueued, Zenon
    <3> QED BY <3>1, <3>8, Zenon
  <2> QED BY <2>1, <2>2, Zenon
<1> QED BY <1>10, <1>11, Zenon

\* enqueue_event: the event being published follows the last one queued.
LEMMA Offered ==
  ASSUME booked \in SUBSET Nat, published = 0 \/ published \in booked,
         NEW c, NEW s, NEW o, NEW g,
         ClientInv(s, o, g, booked, published, TRUE), s.open = TRUE,
         NEW r,
         r = [open |-> TRUE, queue |-> s.queue, lastQueued |-> s.lastQueued,
              lastDelivered |-> s.lastDelivered, available |-> published,
              closed |-> s.closed]
  PROVE  ClientInv(EnqueueEvent(c, r), o, g, booked, published, FALSE)
<1> DEFINE p == published
           l == s.lastQueued
<1>1. /\ r.open = TRUE /\ r.queue = s.queue /\ r.lastQueued = s.lastQueued
      /\ r.lastDelivered = s.lastDelivered /\ r.available = p /\ r.closed = s.closed
  BY Zenon
<1>2. /\ RowInv(s) /\ Reached(o, booked) /\ g \in Seq(Nat)
      /\ s.lastDelivered = Last(o, g)
  BY Zenon DEF ClientInv
<1>3. p \in Nat /\ p <= p
  <2>1. p = 0 \/ p \in Nat
    BY Zenon
  <2> QED BY ONLY <2>1
<1>4. RowInv(r)
  BY <1>1, <1>2, <1>3, Zenon DEF RowInv
<1>5. CASE s.closed # "no"
  <2>1. Lists(g, Events(booked, o, Last(o, g)))
    BY HasGot, Zenon
  <2>2. EnqueueEvent(c, r) = r
    BY <1>1, <1>5, Zenon DEF EnqueueEvent
  <2> QED BY <1>1, <1>2, <1>4, <1>5, <2>1, <2>2, Zenon DEF ClientInv
<1>6. CASE s.closed = "no"
  <2>1. OpenInv(s, o, g, booked, p, TRUE)
    BY <1>6, Zenon DEF ClientInv
  <2>2. \A b \in booked : ~(b < 0)
    OBVIOUS
  <2>3. OpenInv(r, o, g, booked, 0, TRUE)
    BY <1>1, <2>1, <2>2, Zenon DEF OpenInv
  <2>4. ClientInv(r, o, g, booked, 0, TRUE)
    BY <1>1, <1>2, <1>4, <1>6, <2>3, Zenon DEF ClientInv
  <2>5. s.queue \in Seq(Nat) /\ Len(s.queue) <= Capacity /\ l \in Nat
    BY <1>2, Zenon DEF RowInv
  <2>6. CASE p <= l
    <3>1. EnqueueEvent(c, r) = r
      BY <1>1, <2>6, Zenon DEF EnqueueEvent
    <3>2. \A b \in booked : b = p => b <= l
      BY <2>6, Zenon
    <3>3. OpenInv(r, o, g, booked, p, FALSE)
      BY <1>1, <1>3, <2>1, <3>2, Zenon DEF OpenInv
    <3> QED BY <1>1, <1>2, <1>4, <1>6, <3>1, <3>3, Zenon DEF ClientInv
  <2> DEFINE over == Len(s.queue) = Capacity \/ QueuedByOthers(c) + Len(s.queue) + 1 > MaxQueued
  <2>7. CASE ~(p <= l) /\ over
    <3>1. EnqueueEvent(c, r) = SlowConsumer(r)
      BY <1>1, <1>6, <2>7, Zenon DEF EnqueueEvent
    <3> QED BY <1>1, <2>4, <3>1, Dropped, Zenon
  <2>8. CASE ~(p <= l) /\ ~over
    <3> DEFINE e == <<p>>
    <3>1. EnqueueEvent(c, r) = Queued(r, e)
      BY <1>1, <1>6, <2>8, Zenon DEF EnqueueEvent
    <3>2. e \in Seq(Nat) /\ e # <<>> /\ Len(e) = 1 /\ e[1] = p /\ \A i \in 1..1 : i = 1
      BY <1>3
    <3>3. p \in booked /\ l < p
      BY <1>3, <2>5, <2>8
    <3>4. \A b \in booked : b < p => b <= l
      BY <2>1, <2>8, Zenon DEF OpenInv
    <3>5. \A x \in booked : l < x /\ x <= p => x = p
      <4> SUFFICES ASSUME NEW x \in booked, l < x, x <= p PROVE x = p
        BY Zenon
      <4>1. x \in Nat /\ ~(x <= l)
        BY <2>5
      <4>2. ~(x < p)
        BY <3>4, <4>1, Zenon
      <4> QED BY <1>3, <4>1, <4>2
    <3>6. Lists(e, Events(booked, l, p))
      <4> HIDE DEF e
      <4>1. p \in Events(booked, l, p)
        BY <1>3, <3>3, Zenon DEF Events
      <4>2. \A x \in Events(booked, l, p) : x = p
        BY <3>5, Zenon DEF Events
      <4>3. 1 \in 1..Len(e) /\ \A i \in 1..Len(e) : e[i] = p
        BY <3>2
      <4>4. \A i, j \in 1..Len(e) : ~(i < j)
        BY <3>2
      <4>5. \A i \in 1..Len(e) : e[i] \in Events(booked, l, p)
        BY <4>1, <4>3, Zenon
      <4>6. \A x \in Events(booked, l, p) : \E i \in 1..Len(e) : x = e[i]
        BY <4>2, <4>3, Zenon
      <4> QED BY <3>2, <4>4, <4>5, <4>6, MeansLists, Zenon
    <3> HIDE DEF e
    <3>7. Len(r.queue) + Len(e) <= Capacity
      BY <1>1, <2>5, <2>8, <3>2, StreamAssumption
    <3>8. \A b \in booked : b < p \/ b = p => b <= e[Len(e)]
      <4>1. \A b \in booked : b < p \/ b = p => b <= p
        BY <1>3
      <4> QED BY <3>2, <4>1, Zenon
    <3>9. Lists(e, Events(booked, r.lastQueued, e[Len(e)]))
      BY <1>1, <3>2, <3>6, Zenon
    <3>10. p <= r.available
      BY <1>1, <1>3, Zenon
    <3>11. ClientInv(Queued(r, e), o, g, booked, p, FALSE)
      BY <1>1, <1>6, <2>4, <3>2, <3>7, <3>8, <3>9, <3>10, Enqueued, Zenon
    <3> QED BY <3>1, <3>11, Zenon
  <2> QED BY <2>6, <2>7, <2>8, Zenon
<1> QED BY <1>5, <1>6, Zenon

\* What is appended comes last.
LEMMA Appended ==
  ASSUME NEW g \in Seq(Nat), NEW x \in Nat
  PROVE  /\ Append(g, x) \in Seq(Nat) /\ Append(g, x) # <<>>
         /\ Append(g, x)[Len(Append(g, x))] = x
OBVIOUS

\* The head of one sequence moves to the end of another.
LEMMA HeadMoves ==
  ASSUME NEW g \in Seq(Nat), NEW q \in Seq(Nat), q # <<>>
  PROVE  /\ Append(g, Head(q)) \in Seq(Nat) /\ Append(g, Head(q)) # <<>>
         /\ Append(g, Head(q))[Len(Append(g, Head(q)))] = Head(q)
         /\ Tail(q) \in Seq(Nat)
         /\ Append(g, Head(q)) \o Tail(q) = g \o q
<1>1. Head(q) \in Nat /\ Tail(q) \in Seq(Nat)
  OBVIOUS
<1>2. ASSUME NEW x \in Nat
      PROVE  /\ Append(g, x) \in Seq(Nat) /\ Append(g, x) # <<>>
             /\ Append(g, x)[Len(Append(g, x))] = x
             /\ <<x>> \in Seq(Nat) /\ Append(g, x) = g \o <<x>>
  <2>1. /\ Append(g, x) \in Seq(Nat) /\ Append(g, x) # <<>>
        /\ Append(g, x)[Len(Append(g, x))] = x
    BY Appended, Zenon
  <2>2. Append(g, x) = g \o <<x>>
    OBVIOUS
  <2>3. <<x>> \in Seq(Nat)
    OBVIOUS
  <2> QED BY <2>1, <2>2, <2>3, Zenon
<1>3. q = <<Head(q)>> \o Tail(q)
  OBVIOUS
<1>4. (g \o <<Head(q)>>) \o Tail(q) = g \o (<<Head(q)>> \o Tail(q))
  BY <1>1, <1>2, Regroup, Zenon
<1> QED BY <1>1, <1>2, <1>3, <1>4, Zenon

\* An event that is polled moves from the queue to what the client received.
LEMMA Polled ==
  ASSUME NEW B \in SUBSET Nat, NEW s, NEW o, NEW g, NEW p, NEW w,
         ClientInv(s, o, g, B, p, w), s.open = TRUE, s.closed = "no", s.queue # <<>>,
         NEW r,
         r = [open |-> TRUE, queue |-> Tail(s.queue), lastQueued |-> s.lastQueued,
              lastDelivered |-> Head(s.queue), available |-> s.available,
              closed |-> "no"]
  PROVE  ClientInv(r, o, Append(g, Head(s.queue)), B, 0, TRUE)
<1> DEFINE q == s.queue
           h == Append(g, Head(q))
<1>1. /\ r.open = TRUE /\ r.queue = Tail(q) /\ r.lastQueued = s.lastQueued
      /\ r.lastDelivered = Head(q) /\ r.available = s.available /\ r.closed = "no"
  BY Zenon
<1>2. /\ RowInv(s) /\ Reached(o, B) /\ g \in Seq(Nat) /\ OpenInv(s, o, g, B, p, w)
  BY Zenon DEF ClientInv
<1>3. /\ q \in Seq(Nat) /\ Len(q) <= Capacity /\ q # <<>>
      /\ s.lastQueued \in Nat /\ s.available \in Nat
  BY <1>2, Zenon DEF RowInv
<1> HIDE DEF q
<1>4. /\ h \in Seq(Nat) /\ h # <<>> /\ h[Len(h)] = Head(q)
      /\ Tail(q) \in Seq(Nat) /\ h \o Tail(q) = g \o q
  BY <1>2, <1>3, HeadMoves, Zenon
<1>5. Len(Tail(q)) <= Capacity
  BY <1>3, StreamAssumption
<1>6. Last(o, h) = Head(q)
  BY <1>4, Zenon DEF Last
<1>7. Lists(h \o Tail(q), Events(B, o, s.lastQueued))
  BY <1>2, <1>4, Zenon DEF OpenInv, q
<1>8. \A b \in B : ~(b < 0)
  OBVIOUS
<1> HIDE DEF h
<1>9. OpenInv(r, o, h, B, 0, TRUE)
  BY <1>1, <1>2, <1>7, <1>8, Zenon DEF OpenInv
<1>10. RowInv(r)
  BY <1>1, <1>3, <1>4, <1>5, Zenon DEF RowInv
<1>11. ClientInv(r, o, h, B, 0, TRUE)
  BY <1>1, <1>2, <1>4, <1>6, <1>9, <1>10, Zenon DEF ClientInv
<1> QED BY <1>11, Zenon DEF h, q

\* A new subscription goes on where its client has got to.
LEMMA Opened ==
  ASSUME NEW B \in SUBSET Nat, NEW o, NEW g \in Seq(Nat), NEW a, NEW v \in Nat,
         a = Last(o, g), Lists(g, Events(B, o, a)),
         Reached(o, B), Reached(a, B), o <= a,
         NEW r,
         r = [open |-> TRUE, queue |-> <<>>, lastQueued |-> a, lastDelivered |-> a,
              available |-> v, closed |-> "no"]
  PROVE  ClientInv(r, o, g, B, 0, TRUE)
<1>1. /\ r.open = TRUE /\ r.queue = <<>> /\ r.lastQueued = a
      /\ r.lastDelivered = a /\ r.available = v /\ r.closed = "no"
  BY Zenon
<1>2. g \o <<>> = g
  OBVIOUS
<1>3. \A b \in B : ~(b < 0)
  OBVIOUS
<1>4. Len(<<>>) <= Capacity /\ <<>> \in Seq(Nat)
  BY StreamAssumption
<1>5. a \in Nat
  BY Zenon DEF Reached
<1>6. OpenInv(r, o, g, B, 0, TRUE)
  BY <1>1, <1>2, <1>3, Zenon DEF OpenInv
<1>7. RowInv(r)
  BY <1>1, <1>4, <1>5, Zenon DEF RowInv
<1> QED BY <1>1, <1>6, <1>7, Zenon DEF ClientInv

\* publish_through: the next event is now owed to every subscription.
LEMMA Announced ==
  ASSUME NEW B \in SUBSET Nat, NEW s, NEW o, NEW g, NEW p \in Nat, NEW q \in Nat,
         ClientInv(s, o, g, B, p, FALSE), \A b \in B : p < b => q <= b
  PROVE  ClientInv(s, o, g, B, q, s.open)
<1>1. CASE s.open /\ s.closed = "no"
  <2>1. OpenInv(s, o, g, B, p, FALSE) /\ s.open = TRUE
    BY <1>1, Zenon DEF ClientInv, RowInv
  <2>2. \A b \in B : b < q => b < p \/ b = p
    OBVIOUS
  <2>3. OpenInv(s, o, g, B, q, s.open)
    BY <2>1, <2>2, Zenon DEF OpenInv
  <2> QED BY <1>1, <2>3, Zenon DEF ClientInv
<1>2. CASE ~(s.open /\ s.closed = "no")
  BY <1>2, Zenon DEF ClientInv
<1> QED BY <1>1, <1>2, Zenon

-----------------------------------------------------------------------------
(* The steps *)

\* What the invariant says of the books and of the cursors into them.
LEMMA Books ==
  ASSUME JournalInv
  PROVE  /\ booked \in SUBSET Nat /\ IsFiniteSet(booked)
         /\ \A b \in booked : 0 < b /\ b < next /\ b <= latest_cursor
         /\ latest_cursor \in Nat /\ (latest_cursor = 0 \/ latest_cursor \in booked)
         /\ published \in Nat /\ published <= latest_cursor
<1>1. /\ next \in Nat \ {0} /\ booked \in SUBSET (1..(next - 1))
      /\ published = 0 \/ published \in booked
  BY Zenon DEF JournalInv
<1>2. booked \in SUBSET Nat /\ \A b \in booked : 0 < b /\ b < next
  BY <1>1
<1>3. IsFiniteSet(booked)
  <2>1. IsFiniteSet(1..(next - 1))
    BY <1>1, FS_Interval
  <2> QED BY <1>1, <2>1, FS_Subset, Zenon
<1>4. latest_cursor \in booked \cup {0} /\ \A b \in booked \cup {0} : b <= latest_cursor
  <2> DEFINE S == booked \cup {0}
  <2>1. S \in SUBSET Nat /\ S # {}
    BY <1>2
  <2>2. IsFiniteSet(S)
    BY <1>3, FS_AddElement, Zenon
  <2> HIDE DEF S
  <2>3. Max(S) \in S /\ \A x \in S : x <= Max(S)
    BY <2>1, <2>2, Extremes, Zenon
  <2> QED BY <2>3, Zenon DEF S, latest_cursor
<1>5. latest_cursor \in Nat /\ (latest_cursor = 0 \/ latest_cursor \in booked)
  BY <1>2, <1>4
<1>6. published \in Nat /\ published <= latest_cursor
  <2>1. published \in booked \cup {0}
    BY <1>1, Zenon
  <2>2. published \in Nat
    BY <1>2, <2>1
  <2> QED BY <1>4, <2>1, <2>2, Zenon
<1> QED BY <1>2, <1>3, <1>4, <1>5, <1>6, Zenon

\* A step that changes the subscription of one client, and perhaps what it read.
LEMMA OneClient ==
  ASSUME IInv, NEW c \in Clients, NEW v, subs' = [subs EXCEPT ![c] = v],
         UNCHANGED <<journal, published, floor>>,
         DOMAIN origin' = Clients, DOMAIN got' = Clients,
         \A d \in Clients \ {c} : origin'[d] = origin[d] /\ got'[d] = got[d],
         waiting' = waiting \ {c},
         ClientInv(v, origin'[c], got'[c], booked, published, FALSE)
  PROVE  IInv'
<1>1. JournalInv
  BY Zenon DEF IInv
<1>2. DOMAIN subs = Clients
  BY <1>1, Zenon DEF JournalInv
<1>3. /\ next' = next /\ batch' = batch /\ booked' = booked /\ command' = command
      /\ published' = published /\ floor' = floor
  BY Zenon DEF journal
<1>4. DOMAIN subs' = Clients /\ subs'[c] = v /\ \A d \in Clients \ {c} : subs'[d] = subs[d]
  BY <1>2, Zenon
<1>5. waiting' \subseteq {d \in Clients : subs'[d].open}
  BY <1>1, <1>4, Zenon DEF JournalInv, Subscribed
<1>6. waiting = {} => waiting' = {}
  BY Zenon
<1>7. JournalInv'
  BY <1>1, <1>3, <1>4, <1>5, <1>6, Zenon DEF JournalInv, Subscribed
<1>8. ASSUME NEW d \in Clients
      PROVE  ClientInv(subs'[d], origin'[d], got'[d], booked', published', d \in waiting')
  <2>1. CASE d = c
    <3>1. d \in waiting' <=> FALSE
      BY <2>1, Zenon
    <3>2. ClientInv(v, origin'[d], got'[d], booked, published, d \in waiting')
      BY <2>1, <3>1, Zenon DEF ClientInv, OpenInv
    <3> QED BY <1>3, <1>4, <2>1, <3>2, Zenon
  <2>2. CASE d # c
    <3>1. d \in waiting' <=> d \in waiting
      BY <2>2, Zenon
    <3>2. subs'[d] = subs[d] /\ origin'[d] = origin[d] /\ got'[d] = got[d]
      BY <1>4, <2>2, Zenon
    <3>3. ClientInv(subs[d], origin[d], got[d], booked, published, d \in waiting)
      BY Zenon DEF IInv
    <3>4. ClientInv(subs[d], origin[d], got[d], booked, published, d \in waiting')
      BY <3>1, <3>3, Zenon DEF ClientInv, OpenInv
    <3> QED BY <1>3, <3>2, <3>4, Zenon
  <2> QED BY <2>1, <2>2, Zenon
<1> QED BY <1>7, <1>8, Zenon DEF IInv

\* A step that changes nothing a client sees.
LEMMA NoClient ==
  ASSUME IInv, JournalInv', UNCHANGED <<booked, published, waiting, subs, clients>>
  PROVE  IInv'
<1>1. /\ booked' = booked /\ published' = published /\ waiting' = waiting
      /\ subs' = subs /\ origin' = origin /\ got' = got
  BY Zenon DEF clients
<1> QED BY <1>1, Zenon DEF IInv

\* A step of a client, with the stream gate: nothing is being published.
LEMMA AtTheGate ==
  ASSUME IInv, StreamGate, NEW c \in Clients
  PROVE  /\ JournalInv /\ waiting = {} /\ waiting = waiting \ {c}
         /\ ClientInv(subs[c], origin[c], got[c], booked, published, FALSE)
         /\ DOMAIN subs = Clients /\ DOMAIN origin = Clients /\ DOMAIN got = Clients
         /\ subs[c].open \in BOOLEAN
<1>1. JournalInv /\ command # "publishing"
  BY Zenon DEF IInv, StreamGate
<1>2. waiting = {}
  BY <1>1, Zenon DEF JournalInv
<1>3. waiting = waiting \ {c} /\ (c \in waiting <=> FALSE)
  BY <1>2, Zenon
<1>4. ClientInv(subs[c], origin[c], got[c], booked, published, c \in waiting)
  BY Zenon DEF IInv
<1>5. ClientInv(subs[c], origin[c], got[c], booked, published, FALSE)
  BY <1>3, <1>4, Zenon DEF ClientInv, OpenInv
<1>6. subs[c].open \in BOOLEAN
  BY <1>5, Zenon DEF ClientInv, RowInv
<1> QED BY <1>1, <1>2, <1>3, <1>5, <1>6, Zenon DEF JournalInv

\* commit: the cursors of a batch are above every booked one.
LEMMA CommitKeeps ==
  ASSUME IInv, NEW n \in 1..MaxBatch, Commit(n)
  PROVE  IInv'
<1>1. JournalInv /\ next \in Nat \ {0} /\ booked \in SUBSET (1..(next - 1))
  BY Zenon DEF IInv, JournalInv
<1>2. n \in Nat /\ n # 0
  BY StreamAssumption
<1>3. /\ batch' = [i \in 1..n |-> next + i - 1] /\ next' = next + n /\ command' = "booking"
      /\ UNCHANGED <<booked, published, waiting, floor, subs, clients>>
      /\ command # "publishing"
  BY Zenon DEF Commit
<1>4. /\ batch' \in Seq(Nat) /\ Len(batch') = n
      /\ \A i \in 1..n : batch'[i] = next + i - 1
  BY <1>1, <1>2, <1>3
<1>5. \A b \in booked : b \in Nat /\ 0 < b /\ b < next
  BY <1>1
<1>6. \A i \in 1..Len(batch') :
        0 < batch'[i] /\ batch'[i] < next' /\ \A b \in booked : b < batch'[i]
  BY <1>1, <1>2, <1>3, <1>4, <1>5
<1>7. \A i, j \in 1..Len(batch') : i < j => batch'[i] < batch'[j]
  BY <1>1, <1>2, <1>4
<1>8. next' \in Nat \ {0} /\ booked \in SUBSET (1..(next' - 1))
  BY <1>1, <1>2, <1>3, <1>5
<1>9. waiting = {}
  BY <1>1, <1>3, Zenon DEF JournalInv
<1>10. JournalInv'
  BY <1>1, <1>3, <1>4, <1>6, <1>7, <1>8, <1>9, Zenon DEF JournalInv, Subscribed, clients
<1> QED BY <1>3, <1>10, NoClient, Zenon

\* A booked event is above every other: no client has passed it.
LEMMA BookKeeps ==
  ASSUME IInv, BookEvent
  PROVE  IInv'
<1> DEFINE x == Head(batch)
<1>1. JournalInv
  BY Zenon DEF IInv
<1>2. /\ command = "booking" /\ batch # <<>> /\ booked' = booked \cup {x}
      /\ batch' = Tail(batch)
      /\ UNCHANGED <<next, command, published, waiting, floor, subs, origin, got>>
  BY Zenon DEF BookEvent, clients
<1>3. /\ batch \in Seq(Nat) /\ next \in Nat \ {0} /\ booked \in SUBSET (1..(next - 1))
      /\ \A i \in 1..Len(batch) : 0 < batch[i] /\ batch[i] < next /\ \A b \in booked : b < batch[i]
      /\ \A i, j \in 1..Len(batch) : i < j => batch[i] < batch[j]
      /\ (published = 0 \/ published \in booked) /\ waiting = {}
  BY <1>1, <1>2, Zenon DEF JournalInv
<1>4. /\ x = batch[1] /\ 1 \in 1..Len(batch) /\ x \in Nat
      /\ Tail(batch) \in Seq(Nat) /\ Len(Tail(batch)) = Len(batch) - 1
      /\ \A i \in 1..(Len(batch) - 1) : Tail(batch)[i] = batch[i + 1]
      /\ Len(batch) \in Nat
  BY <1>2, <1>3
<1> HIDE DEF x
<1>5. 0 < x /\ x < next /\ \A b \in booked : b < x
  BY <1>3, <1>4, Zenon
<1>6. booked \in SUBSET Nat /\ booked' \in SUBSET Nat /\ booked \subseteq booked'
  <2>1. booked \in SUBSET Nat
    BY <1>1, Books, Zenon
  <2> QED BY <1>2, <1>4, <2>1, Zenon
<1>7. booked' \in SUBSET (1..(next - 1))
  <2>1. x \in 1..(next - 1)
    BY <1>3, <1>4, <1>5
  <2> QED BY <1>2, <1>3, <2>1, Zenon
<1>8. ASSUME NEW i \in 1..Len(batch')
      PROVE  /\ i + 1 \in 1..Len(batch) /\ batch'[i] = batch[i + 1]
             /\ 0 < batch'[i] /\ batch'[i] < next /\ \A b \in booked' : b < batch'[i]
  <2>1. i \in 1..(Len(batch) - 1) /\ i + 1 \in 1..Len(batch) /\ 1 < i + 1
    BY <1>2, <1>4
  <2>2. batch'[i] = batch[i + 1]
    BY <1>2, <1>4, <2>1, Zenon
  <2>3. 0 < batch[i + 1] /\ batch[i + 1] < next /\ \A b \in booked : b < batch[i + 1]
    BY <1>3, <2>1, Zenon
  <2>4. x < batch[i + 1]
    BY <1>3, <1>4, <2>1, Zenon
  <2>5. \A b \in booked' : b < batch[i + 1]
    BY <1>2, <2>3, <2>4, Zenon
  <2> QED BY <2>1, <2>2, <2>3, <2>5, Zenon
<1>9. \A i, j \in 1..Len(batch') : i < j => batch'[i] < batch'[j]
  <2> SUFFICES ASSUME NEW i \in 1..Len(batch'), NEW j \in 1..Len(batch'), i < j
               PROVE  batch'[i] < batch'[j]
    BY Zenon
  <2>1. i + 1 < j + 1
    OBVIOUS
  <2> QED BY <1>3, <1>8, <2>1, Zenon
<1>10. JournalInv'
  <2>1. /\ batch' \in Seq(Nat) /\ (published = 0 \/ published \in booked')
        /\ waiting' = {}
    BY <1>2, <1>3, <1>4, Zenon
  <2> QED BY <1>1, <1>2, <1>7, <1>8, <1>9, <2>1, Zenon DEF JournalInv, Subscribed
<1>11. ASSUME NEW d \in Clients
       PROVE  ClientInv(subs[d], origin[d], got[d], booked', published, d \in waiting)
  <2>1. \A y \in booked' \ booked : 0 < y /\ \A b \in booked : b < y
    BY <1>2, <1>5, Zenon
  <2>2. ClientInv(subs[d], origin[d], got[d], booked, published, d \in waiting)
    BY Zenon DEF IInv
  <2> QED BY <1>3, <1>6, <2>1, <2>2, Grow, Zenon
<1> QED BY <1>2, <1>10, <1>11, Zenon DEF IInv

\* publish_through: no event lies between the last published one and the next.
LEMMA PublishKeeps ==
  ASSUME IInv, PublishEvent
  PROVE  IInv'
<1> DEFINE S == {b \in booked : b > published}
           q == Min(S)
<1>1. JournalInv
  BY Zenon DEF IInv
<1>2. /\ command = "publishing" /\ waiting = {} /\ published < latest_cursor
      /\ published' = q /\ waiting' = {d \in Clients : Subscribed(d)}
      /\ UNCHANGED <<next, batch, booked, command, floor, subs, origin, got>>
  BY Zenon DEF PublishEvent, journal, clients
<1>3. /\ booked \in SUBSET Nat /\ IsFiniteSet(booked) /\ published \in Nat
      /\ latest_cursor \in Nat /\ (latest_cursor = 0 \/ latest_cursor \in booked)
  BY <1>1, Books, Zenon
<1>4. S \in SUBSET Nat /\ S \subseteq booked /\ latest_cursor \in S
  <2>1. latest_cursor # 0 /\ latest_cursor > published
    BY <1>2, <1>3
  <2> QED BY <1>3, <2>1, Zenon
<1>5. IsFiniteSet(S) /\ S # {}
  BY <1>3, <1>4, FS_Subset, Zenon
<1>6. q \in S /\ \A b \in S : q <= b
  BY <1>4, <1>5, Extremes, Zenon
<1>7. q \in Nat /\ q \in booked /\ \A b \in booked : published < b => q <= b
  BY <1>3, <1>6, Zenon
<1> HIDE DEF q
<1>8. JournalInv'
  BY <1>1, <1>2, <1>7, Zenon DEF JournalInv, Subscribed
<1>9. ASSUME NEW d \in Clients
      PROVE  ClientInv(subs[d], origin[d], got[d], booked, q, d \in waiting')
  <2>1. ClientInv(subs[d], origin[d], got[d], booked, published, d \in waiting)
    BY Zenon DEF IInv
  <2>2. d \in waiting <=> FALSE
    BY <1>2, Zenon
  <2>3. ClientInv(subs[d], origin[d], got[d], booked, published, FALSE)
    BY <2>1, <2>2, Zenon DEF ClientInv, OpenInv
  <2>4. ClientInv(subs[d], origin[d], got[d], booked, q, subs[d].open)
    BY <1>3, <1>7, <2>3, Announced, Zenon
  <2>5. d \in waiting' <=> subs[d].open
    BY <1>2, Zenon DEF Subscribed
  <2> QED BY <2>4, <2>5, Zenon DEF ClientInv, OpenInv
<1> QED BY <1>2, <1>8, <1>9, Zenon DEF IInv

\* The event being published is offered to a subscription.
LEMMA OfferKeeps ==
  ASSUME IInv, NEW c \in Clients, Offer(c)
  PROVE  IInv'
<1> DEFINE s == subs[c]
           r == [open |-> TRUE, queue |-> s.queue, lastQueued |-> s.lastQueued,
                 lastDelivered |-> s.lastDelivered, available |-> published,
                 closed |-> s.closed]
<1>1. JournalInv
  BY Zenon DEF IInv
<1>2. /\ booked \in SUBSET Nat /\ (published = 0 \/ published \in booked)
      /\ DOMAIN subs = Clients /\ DOMAIN origin = Clients /\ DOMAIN got = Clients
  BY <1>1, Books, Zenon DEF JournalInv
<1>3. /\ c \in waiting /\ waiting' = waiting \ {c}
      /\ UNCHANGED <<journal, published, floor, origin, got>>
  BY Zenon DEF Offer, clients
<1>4. subs' = [subs EXCEPT ![c] = EnqueueEvent(c, r)]
  BY Zenon DEF Offer
<1>5. s.open
  BY <1>1, <1>3, Zenon DEF JournalInv, Subscribed
<1>6. ClientInv(s, origin[c], got[c], booked, published, c \in waiting)
  BY Zenon DEF IInv
<1>7. ClientInv(s, origin[c], got[c], booked, published, TRUE)
  BY <1>3, <1>6, Zenon DEF ClientInv, OpenInv
<1>8. s.open = TRUE
  BY <1>5, <1>7, Zenon DEF ClientInv, RowInv
<1> HIDE DEF s
<1>9. ClientInv(EnqueueEvent(c, r), origin[c], got[c], booked, published, FALSE)
  BY <1>2, <1>7, <1>8, Offered, Zenon
<1> HIDE DEF r
<1> QED BY <1>2, <1>3, <1>4, <1>9, OneClient, Zenon

\* subscribe: the subscription is filled from where its client has got to.
LEMMA SubscribeKeeps ==
  ASSUME IInv, NEW c \in Clients, NEW after, Subscribe(c, after),
         NEW o, NEW g \in Seq(Nat), o = origin'[c], g = got'[c],
         DOMAIN origin' = Clients, DOMAIN got' = Clients,
         \A d \in Clients \ {c} : origin'[d] = origin[d] /\ got'[d] = got[d],
         after = Last(o, g), Lists(g, Events(booked, o, after)),
         Reached(o, booked), Reached(after, booked), o <= after
  PROVE  IInv'
<1> DEFINE r == [open |-> TRUE, queue |-> <<>>, lastQueued |-> after,
                 lastDelivered |-> after, available |-> latest_cursor, closed |-> "no"]
<1>1. /\ StreamGate /\ subs' = [subs EXCEPT ![c] = FillRetained(c, r)]
      /\ UNCHANGED <<journal, published, waiting, floor>>
  BY Zenon DEF Subscribe
<1>2. JournalInv /\ waiting = waiting \ {c}
  BY <1>1, AtTheGate, Zenon
<1>3. /\ booked \in SUBSET Nat /\ IsFiniteSet(booked) /\ latest_cursor \in Nat
      /\ published \in Nat /\ published <= latest_cursor
  BY <1>2, Books, Zenon
<1>4. r.open = TRUE /\ r.closed = "no" /\ r.available = latest_cursor
  BY Zenon
<1>5. ClientInv(r, o, g, booked, 0, TRUE)
  BY <1>3, Opened, Zenon
<1> HIDE DEF r
<1>6. ClientInv(FillRetained(c, r), o, g, booked, published, FALSE)
  <2>1. published <= r.available
    BY <1>3, <1>4, Zenon
  <2> QED BY <1>3, <1>4, <1>5, <2>1, Filled, Zenon
<1>7. ClientInv(FillRetained(c, r), origin'[c], got'[c], booked, published, FALSE)
  BY <1>6, Zenon
<1> QED BY <1>1, <1>2, <1>7, OneClient, Zenon

\* A client that resumes where it was told to.
LEMMA SubscribeOnKeeps ==
  ASSUME IInv, NEW c \in Clients, SubscribeOn(c)
  PROVE  IInv'
<1> DEFINE o == origin[c]
           g == got[c]
           after == Last(o, g)
<1>1. Subscribe(c, after) /\ origin' = origin /\ got' = got
  BY Zenon DEF SubscribeOn, LastGot, Last, clients
<1>2. StreamGate
  BY <1>1, Zenon DEF Subscribe
<1>3. /\ JournalInv /\ ClientInv(subs[c], o, g, booked, published, FALSE)
      /\ DOMAIN origin = Clients /\ DOMAIN got = Clients
  BY <1>2, AtTheGate, Zenon
<1>4. booked \in SUBSET Nat
  BY <1>3, Books, Zenon
<1>5. /\ Lists(g, Events(booked, o, after)) /\ Reached(after, booked) /\ o <= after
      /\ g \in Seq(Nat) /\ Reached(o, booked)
  BY <1>3, <1>4, HasGot, Zenon DEF ClientInv
<1>6. o = origin'[c] /\ g = got'[c]
  BY <1>1, Zenon
<1>7. /\ DOMAIN origin' = Clients /\ DOMAIN got' = Clients
      /\ \A d \in Clients \ {c} : origin'[d] = origin[d] /\ got'[d] = got[d]
  BY <1>1, <1>3, Zenon
<1> HIDE DEF o, g
<1> QED BY <1>1, <1>5, <1>6, <1>7, SubscribeKeeps, Zenon

\* A client that starts anew, from the floor or from the latest event.
LEMMA SubscribeAnewKeeps ==
  ASSUME IInv, NEW c \in Clients, SubscribeAnew(c)
  PROVE  IInv'
<1>1. PICK after \in {floor, latest_cursor} :
        /\ Subscribe(c, after)
        /\ origin' = [origin EXCEPT ![c] = after]
        /\ got' = [got EXCEPT ![c] = <<>>]
  BY Zenon DEF SubscribeAnew
<1>2. StreamGate /\ after <= latest_cursor
  BY <1>1, Zenon DEF Subscribe
<1>3. JournalInv /\ DOMAIN origin = Clients /\ DOMAIN got = Clients /\ floor \in Nat
  BY <1>2, AtTheGate, Zenon DEF JournalInv
<1>4. /\ booked \in SUBSET Nat /\ latest_cursor \in Nat
      /\ (latest_cursor = 0 \/ latest_cursor \in booked)
  BY <1>3, Books, Zenon
<1>5. after \in Nat
  BY <1>1, <1>3, <1>4, Zenon
<1>6. Reached(after, booked) /\ after <= after
  <2>1. after = 0 \/ \E b \in booked : after <= b
    BY <1>2, <1>4, <1>5
  <2>2. after <= after
    BY <1>5
  <2> QED BY <1>5, <2>1, <2>2, Zenon DEF Reached
<1>7. /\ origin'[c] = after /\ got'[c] = <<>>
      /\ DOMAIN origin' = Clients /\ DOMAIN got' = Clients
      /\ \A d \in Clients \ {c} : origin'[d] = origin[d] /\ got'[d] = got[d]
  BY <1>1, <1>3, Zenon
<1>8. after = Last(after, <<>>)
  BY Zenon DEF Last
<1>9. Lists(<<>>, Events(booked, after, after))
  <2>1. \A x \in booked : ~(after < x /\ x <= after)
    BY <1>4, <1>5
  <2>2. \A x \in Events(booked, after, after) : FALSE
    BY <2>1, Zenon DEF Events
  <2>3. <<>> \in Seq(Nat) /\ \A i \in 1..Len(<<>>) : FALSE
    OBVIOUS
  <2> QED BY <2>2, <2>3, MeansLists, Zenon
<1>10. <<>> \in Seq(Nat)
  OBVIOUS
<1>11. after = origin'[c] /\ <<>> = got'[c]
  BY <1>7, Zenon
<1> QED BY <1>1, <1>6, <1>7, <1>8, <1>9, <1>10, <1>11, SubscribeKeeps, Zenon

\* poll: an event is handed over and the queue filled again.
LEMMA PollKeeps ==
  ASSUME IInv, NEW c \in Clients, PollEvent(c)
  PROVE  IInv'
<1> DEFINE s == subs[c]
           h == Append(got[c], Head(s.queue))
           r == [open |-> TRUE, queue |-> Tail(s.queue),
                 lastQueued |-> s.lastQueued, lastDelivered |-> Head(s.queue),
                 available |-> s.available, closed |-> "no"]
<1>1. /\ StreamGate /\ s.open /\ s.closed = "no" /\ s.queue # <<>>
      /\ UNCHANGED <<journal, published, waiting, floor, origin>>
  BY Zenon DEF PollEvent, Subscribed, Closed
<1>2. /\ subs' = [subs EXCEPT ![c] = FillRetained(c, r)]
      /\ got' = [got EXCEPT ![c] = h]
  BY Zenon DEF PollEvent
<1>3. /\ JournalInv /\ waiting = waiting \ {c}
      /\ ClientInv(s, origin[c], got[c], booked, published, FALSE)
      /\ DOMAIN origin = Clients /\ DOMAIN got = Clients /\ s.open \in BOOLEAN
  BY <1>1, AtTheGate, Zenon
<1>4. /\ booked \in SUBSET Nat /\ IsFiniteSet(booked) /\ published \in Nat
  BY <1>3, Books, Zenon
<1>5. s.open = TRUE
  BY <1>1, <1>3, Zenon
<1>6. published <= s.available
  BY <1>1, <1>3, Zenon DEF ClientInv, OpenInv
<1> HIDE DEF s
<1>7. r.open = TRUE /\ r.closed = "no" /\ r.available = s.available
  BY Zenon
<1>8. ClientInv(r, origin[c], h, booked, 0, TRUE)
  BY <1>1, <1>3, <1>4, <1>5, Polled, Zenon
<1> HIDE DEF r, h
<1>9. ClientInv(FillRetained(c, r), origin[c], h, booked, published, FALSE)
  <2>1. published <= r.available
    BY <1>6, <1>7, Zenon
  <2> QED BY <1>4, <1>7, <1>8, <2>1, Filled, Zenon
<1>10. /\ got'[c] = h /\ DOMAIN got' = Clients
       /\ \A d \in Clients \ {c} : got'[d] = got[d]
  BY <1>2, <1>3, Zenon
<1>11. /\ DOMAIN origin' = Clients
       /\ \A d \in Clients \ {c} : origin'[d] = origin[d] /\ got'[d] = got[d]
       /\ waiting' = waiting \ {c} /\ UNCHANGED <<journal, published, floor>>
  BY <1>1, <1>3, <1>10, Zenon
<1>12. ClientInv(FillRetained(c, r), origin'[c], got'[c], booked, published, FALSE)
  BY <1>1, <1>9, <1>10, Zenon
<1> QED BY <1>2, <1>10, <1>11, <1>12, OneClient, Zenon

\* A subscription that is gone, closed by either side.
LEMMA CloseKeeps ==
  ASSUME IInv, NEW c \in Clients, PollClosed(c) \/ CloseSubscription(c)
  PROVE  IInv'
<1>1. /\ StreamGate /\ subs' = [subs EXCEPT ![c] = NoSub]
      /\ UNCHANGED <<journal, published, waiting, floor, origin, got>>
  BY Zenon DEF PollClosed, CloseSubscription, clients
<1>2. /\ JournalInv /\ waiting = waiting \ {c}
      /\ ClientInv(subs[c], origin[c], got[c], booked, published, FALSE)
      /\ DOMAIN origin = Clients /\ DOMAIN got = Clients
  BY <1>1, AtTheGate, Zenon
<1>3. booked \in SUBSET Nat
  BY <1>2, Books, Zenon
<1>4. ClientInv(NoSub, origin[c], got[c], booked, published, FALSE)
  BY <1>2, <1>3, Dropped, Zenon
<1>5. ClientInv(NoSub, origin'[c], got'[c], booked, published, FALSE)
  BY <1>1, <1>4, Zenon
<1>6. /\ DOMAIN origin' = Clients /\ DOMAIN got' = Clients
      /\ \A d \in Clients \ {c} : origin'[d] = origin[d] /\ got'[d] = got[d]
      /\ waiting' = waiting \ {c} /\ UNCHANGED <<journal, published, floor>>
  BY <1>1, <1>2, Zenon
<1> QED BY <1>1, <1>5, <1>6, OneClient, Zenon

\* A restart books the rest of the batch, which is above every booked event, and
\* forgets the subscriptions.
LEMMA RestartKeeps ==
  ASSUME IInv, Restart
  PROVE  IInv'
<1> DEFINE D == booked \cup {batch[i] : i \in DOMAIN batch}
           m == Max(D \cup {0})
<1>1. JournalInv
  BY Zenon DEF IInv
<1>2. /\ booked' = D /\ next' = m + 1 /\ published' = m /\ batch' = <<>>
      /\ command' = "idle" /\ waiting' = {}
      /\ subs' = [c \in Clients |-> NoSub]
      /\ floor' = floor /\ origin' = origin /\ got' = got
  BY Zenon DEF Restart, Durable, clients
<1>3. /\ batch \in Seq(Nat) /\ next \in Nat \ {0} /\ booked \in SUBSET (1..(next - 1))
      /\ \A i \in 1..Len(batch) : 0 < batch[i] /\ batch[i] < next /\ \A b \in booked : b < batch[i]
      /\ (published = 0 \/ published \in booked) /\ floor \in Nat
      /\ DOMAIN origin = Clients /\ DOMAIN got = Clients
  BY <1>1, Zenon DEF JournalInv
<1>4. DOMAIN batch = 1..Len(batch) /\ \A i \in 1..Len(batch) : batch[i] \in Nat
  BY <1>3
<1>5. \A x \in D : x \in booked \/ \E i \in 1..Len(batch) : x = batch[i]
  BY <1>4, Zenon
<1>6. /\ booked \in SUBSET Nat /\ booked \subseteq D
      /\ \A x \in D \ booked : 0 < x /\ \A b \in booked : b < x
  <2>1. booked \in SUBSET Nat
    BY <1>1, Books, Zenon
  <2> QED BY <1>3, <1>5, <2>1, Zenon
<1>7. D \in SUBSET (1..(next - 1))
  <2>1. \A i \in 1..Len(batch) : batch[i] \in 1..(next - 1)
    BY <1>3, <1>4
  <2> QED BY <1>3, <1>5, <2>1, Zenon
<1> HIDE DEF D
<1>8. D \in SUBSET Nat /\ \A x \in D : 0 < x
  BY <1>3, <1>7
<1>9. IsFiniteSet(D \cup {0})
  <2>1. IsFiniteSet(1..(next - 1))
    BY <1>3, FS_Interval
  <2>2. IsFiniteSet(D)
    BY <1>7, <2>1, FS_Subset, Zenon
  <2> QED BY <2>2, FS_AddElement, Zenon
<1>10. m \in D \cup {0} /\ \A x \in D \cup {0} : x <= m
  <2>1. D \cup {0} \in SUBSET Nat /\ D \cup {0} # {}
    BY <1>8
  <2> QED BY <1>9, <2>1, Extremes, Zenon
<1> HIDE DEF m
<1>11. m \in Nat /\ m + 1 \in Nat \ {0} /\ D \in SUBSET (1..((m + 1) - 1)) /\ (m = 0 \/ m \in D)
  <2>1. m \in Nat /\ (m = 0 \/ m \in D) /\ \A x \in D : x \in Nat /\ 0 < x /\ x <= m
    <3>1. 0 \in Nat
      BY Zenon
    <3> QED BY <1>8, <1>10, <3>1, Zenon
  <2>2. m + 1 \in Nat \ {0} /\ \A x \in D : x \in 1..((m + 1) - 1)
    BY <2>1
  <2> QED BY <2>1, <2>2, Zenon
<1>12. /\ batch' \in Seq(Nat) /\ \A i \in 1..Len(batch') : FALSE
  BY <1>2
<1>13. JournalInv'
  <2>1. DOMAIN subs' = Clients /\ command' # "booking" /\ command' # "publishing"
    BY <1>2, Zenon
  <2> QED BY <1>2, <1>3, <1>11, <1>12, <2>1, Zenon DEF JournalInv
<1>14. ASSUME NEW d \in Clients
       PROVE  ClientInv(subs'[d], origin'[d], got'[d], booked', published', d \in waiting')
  <2>1. ClientInv(subs[d], origin[d], got[d], booked, published, d \in waiting)
    BY Zenon DEF IInv
  <2>2. ClientInv(subs[d], origin[d], got[d], D, published, d \in waiting)
    BY <1>3, <1>6, <1>8, <2>1, Grow, Zenon
  <2>3. ClientInv(NoSub, origin[d], got[d], D, m, d \in waiting')
    BY <1>8, <2>2, Dropped, Zenon
  <2>4. subs'[d] = NoSub
    BY <1>2, Zenon
  <2> QED BY <1>2, <2>3, <2>4, Zenon
<1> QED BY <1>13, <1>14, Zenon DEF IInv

\* The invariant holds at the start: nothing is booked and nobody reads.
LEMMA InitIInv ==
  ASSUME Init
  PROVE  IInv
<1>1. JournalInv
  BY DEF Init, JournalInv
<1>2. ASSUME NEW d \in Clients
      PROVE  ClientInv(subs[d], origin[d], got[d], booked, published, d \in waiting)
  <2>1. subs[d] = NoSub /\ origin[d] = 0 /\ got[d] = <<>> /\ booked = {}
    BY Zenon DEF Init
  <2>2. NoSub.open = FALSE
    BY Zenon DEF NoSub
  <2>3. <<>> \in Seq(Nat) /\ 0 \in Nat /\ \A i \in 1..Len(<<>>) : FALSE
    OBVIOUS
  <2>4. \A x \in Events({}, 0, 0) : FALSE
    BY Zenon DEF Events
  <2>5. Lists(<<>>, Events({}, 0, 0))
    BY <2>3, <2>4, MeansLists, Zenon
  <2>6. Last(0, <<>>) = 0
    BY Zenon DEF Last
  <2>7. Lists(<<>>, Events({}, 0, Last(0, <<>>)))
    BY <2>5, <2>6, Zenon
  <2>8. Reached(0, {})
    BY <2>3, Zenon DEF Reached
  <2>9. ClientInv(NoSub, 0, <<>>, {}, published, d \in waiting)
    BY <2>2, <2>3, <2>7, <2>8, Zenon DEF ClientInv, RowInv
  <2> QED BY <2>1, <2>9, Zenon
<1> QED BY <1>1, <1>2, Zenon DEF IInv

\* Every step keeps the invariant.
LEMMA NextIInv ==
  ASSUME IInv, [Next]_vars
  PROVE  IInv'
<1>1. JournalInv
  BY Zenon DEF IInv
<1>2. CASE Abort
  <2>1. /\ next' = next + 1
        /\ UNCHANGED <<batch, booked, command, published, waiting, floor, subs, clients>>
    BY <1>2, Zenon DEF Abort
  <2>2. next \in Nat \ {0} /\ booked \in SUBSET (1..(next - 1)) /\ batch \in Seq(Nat)
    BY <1>1, Zenon DEF JournalInv
  <2>3. /\ next' \in Nat \ {0} /\ 1..(next - 1) \subseteq 1..(next' - 1)
        /\ \A i \in 1..Len(batch) : batch[i] < next => batch[i] < next'
    BY <2>1, <2>2
  <2>4. JournalInv'
    BY <1>1, <2>1, <2>3, Zenon DEF JournalInv, Subscribed, clients
  <2> QED BY <2>1, <2>4, NoClient, Zenon
<1>3. CASE \E n \in 1..MaxBatch : Commit(n)
  BY <1>3, CommitKeeps, Zenon
<1>4. CASE BookEvent
  BY <1>4, BookKeeps, Zenon
<1>5. CASE StartPublish
  <2>1. /\ batch = <<>> /\ command' = "publishing"
        /\ UNCHANGED <<next, batch, booked, published, waiting, floor, subs, clients>>
    BY <1>5, Zenon DEF StartPublish
  <2>2. JournalInv'
    BY <1>1, <2>1, Zenon DEF JournalInv, Subscribed, clients
  <2> QED BY <2>1, <2>2, NoClient, Zenon
<1>6. CASE PublishEvent
  BY <1>6, PublishKeeps, Zenon
<1>7. CASE \E c \in Clients : Offer(c)
  BY <1>7, OfferKeeps, Zenon
<1>8. CASE FinishPublish
  <2>1. /\ command = "publishing" /\ command' = "idle" /\ waiting = {}
        /\ UNCHANGED <<next, batch, booked, published, waiting, floor, subs, clients>>
    BY <1>8, Zenon DEF FinishPublish
  <2>2. command # "booking"
    BY <2>1, Zenon
  <2>3. JournalInv'
    BY <1>1, <2>1, <2>2, Zenon DEF JournalInv, Subscribed, clients
  <2> QED BY <2>1, <2>3, NoClient, Zenon
<1>9. CASE \E c \in Clients : SubscribeOn(c)
  BY <1>9, SubscribeOnKeeps, Zenon
<1>10. CASE \E c \in Clients : SubscribeAnew(c)
  BY <1>10, SubscribeAnewKeeps, Zenon
<1>11. CASE \E c \in Clients : PollEvent(c)
  BY <1>11, PollKeeps, Zenon
<1>12. CASE \E c \in Clients : PollClosed(c) \/ CloseSubscription(c)
  BY <1>12, CloseKeeps, Zenon
<1>13. CASE \E f \in Cursors : SetMinRetainedCursor(f)
  <2>1. PICK f \in Cursors : SetMinRetainedCursor(f)
    BY <1>13, Zenon
  <2>2. /\ floor' = f
        /\ UNCHANGED <<next, batch, booked, command, published, waiting, subs, clients>>
    BY <2>1, Zenon DEF SetMinRetainedCursor, journal
  <2>3. f \in Nat
    BY StreamAssumption DEF Cursors
  <2>4. JournalInv'
    BY <1>1, <2>2, <2>3, Zenon DEF JournalInv, Subscribed, clients
  <2> QED BY <2>2, <2>4, NoClient, Zenon
<1>14. CASE Poison \/ UNCHANGED vars
  <2>1. UNCHANGED <<next, batch, booked, command, published, waiting, floor, subs, clients>>
    BY <1>14, Zenon DEF Poison, journal, vars
  <2>2. JournalInv'
    BY <1>1, <2>1, Zenon DEF JournalInv, Subscribed, clients
  <2> QED BY <2>1, <2>2, NoClient, Zenon
<1>15. CASE Restart
  BY <1>15, RestartKeeps, Zenon
<1> QED
  BY <1>2, <1>3, <1>4, <1>5, <1>6, <1>7, <1>8, <1>9, <1>10, <1>11, <1>12, <1>13,
     <1>14, <1>15, Zenon DEF Next, Publisher, Poll

\* The inductive invariant holds throughout.
THEOREM Inductive == Spec => []IInv
<1>1. Init => IInv
  BY InitIInv, Zenon
<1>2. IInv /\ [Next]_vars => IInv'
  BY NextIInv, Zenon
<1> QED BY <1>1, <1>2, PTL DEF Spec

-----------------------------------------------------------------------------
(* The theorems *)

\* What a client received and what is queued for it is every event of the journal
\* between where it started and the last one queued, each once and in order,
\* whatever the capacities, the batches and the number of clients; this holds
\* across slow-consumer closures, new subscriptions and restarts (fill_retained and
\* enqueue_event feed one queue).
THEOREM ReadersMissNoEvent == Spec => []NothingMissed
<1>1. ASSUME IInv PROVE NothingMissed
  <2>1. booked \in SUBSET Nat
    BY <1>1, Books, Zenon DEF IInv
  <2>2. ASSUME NEW a, NEW u, NEW t, Lists(t, Events(booked, a, u))
        PROVE  t = Between(a, u)
    <3>1. t = InOrder(Events(booked, a, u))
      BY <2>2, ListedOnce, Zenon
    <3>2. Between(a, u) = InOrder(Events(booked, a, u))
      BY Zenon DEF Between, InOrder, Events, Rank
    <3> QED BY <3>1, <3>2, Zenon
  <2>3. ASSUME NEW c \in Clients
        PROVE  IF Subscribed(c) /\ ~Closed(c)
               THEN got[c] \o subs[c].queue = Between(origin[c], subs[c].lastQueued)
               ELSE got[c] = Between(origin[c], LastGot(c))
    <3>1. ClientInv(subs[c], origin[c], got[c], booked, published, c \in waiting)
      BY <1>1, Zenon DEF IInv
    <3>2. CASE Subscribed(c) /\ ~Closed(c)
      <4>1. subs[c].open /\ subs[c].closed = "no"
        BY <3>2, Zenon DEF Subscribed, Closed
      <4>2. Lists(got[c] \o subs[c].queue, Events(booked, origin[c], subs[c].lastQueued))
        BY <3>1, <4>1, Zenon DEF ClientInv, OpenInv
      <4> QED BY <2>2, <3>2, <4>2, Zenon
    <3>3. CASE ~(Subscribed(c) /\ ~Closed(c))
      <4>1. Lists(got[c], Events(booked, origin[c], Last(origin[c], got[c])))
        BY <2>1, <3>1, HasGot, Zenon
      <4>2. LastGot(c) = Last(origin[c], got[c])
        BY Zenon DEF LastGot, Last
      <4> QED BY <2>2, <3>3, <4>1, <4>2, Zenon
    <3> QED BY <3>2, <3>3, Zenon
  <2> QED BY <2>3, Zenon DEF NothingMissed
<1> QED BY <1>1, Inductive, PTL

\* The cursor a slow consumer is told to resume from is the last event its client
\* received (the lastDelivered that enqueue_event and fill_retained leave in a
\* closed subscription).
THEOREM ResumeWhereItStopped == Spec => []ResumePointIsExact
<1>1. ASSUME IInv PROVE ResumePointIsExact
  <2>1. ASSUME NEW c \in Clients, Closed(c) PROVE subs[c].lastDelivered = LastGot(c)
    <3>1. ClientInv(subs[c], origin[c], got[c], booked, published, c \in waiting)
      BY <1>1, Zenon DEF IInv
    <3>2. subs[c].lastDelivered = Last(origin[c], got[c])
      BY <2>1, <3>1, Zenon DEF ClientInv, Closed, Subscribed
    <3> QED BY <3>2, Zenon DEF LastGot, Last
  <2> QED BY <2>1, Zenon DEF ResumePointIsExact
<1> QED BY <1>1, Inductive, PTL

-----------------------------------------------------------------------------
(* The frames of a worker's call (StreamCredit.tla) *)

CallRows ==
    [live : BOOLEAN, stream_open : BOOLEAN, stream_muted : BOOLEAN,
     last_item_seen : BOOLEAN, credit_left : Nat, seq : Nat, lossy_dropped : Nat]

StreamRows ==
    [present : BOOLEAN, opened : BOOLEAN, outstanding_credit : Nat,
     accepted : Nat, replaced : Nat, local_drops : Nat]

FrameRows == [seq : Nat, class : Classes, dropped : Nat, wire : Nat]

\* The types of the state, without the bounds.
Typed ==
    /\ call \in CallRows
    /\ stream \in StreamRows
    /\ channel \in Seq(FrameRows)
    /\ drops \in Nat
    /\ consumer \in [items : BOOLEAN, terminal : BOOLEAN]
    /\ received \in Nat
    /\ lossy_seen \in BOOLEAN
    /\ lost \in [Classes -> Nat]

\* The pump's entry lives no longer than the call and knows of its open.
StreamFollowsCall ==
    Streaming => Live /\ (stream.opened = call.stream_open)

\* Before the open there is nothing to account for.
UnopenedIsEmpty ==
    Streaming /\ ~stream.opened =>
        stream.outstanding_credit = 0 /\ stream.accepted = 0 /\ stream.replaced = 0

\* A grant replaces a frame that was accepted and is no longer queued.
GrantsAreDrained ==
    Streaming => stream.replaced + Len(channel) <= stream.accepted

\* A lossless stream spends a credit for every frame it accepts.
CreditsPayForFrames ==
    Streaming /\ ~lossy_seen =>
        stream.outstanding_credit + stream.accepted <= ChannelCapacity + stream.replaced

\* A channel the consumer dropped is empty.
DroppedIsEmpty == ~consumer.items => channel = <<>>

NothingLost == ~lossy_seen => lost["lossless"] = 0

CreditInv ==
    /\ Typed
    /\ StreamFollowsCall
    /\ UnopenedIsEmpty
    /\ GrantsAreDrained
    /\ CreditsPayForFrames
    /\ DroppedIsEmpty
    /\ NothingLost
    /\ WindowsAgree

USE CreditAssumption DEF ChannelCapacity, Live, Streaming, Monus, Classes

\* A new call satisfies the invariant.
LEMMA InitCreditInv == CreditInit => CreditInv
<1> SUFFICES ASSUME CreditInit PROVE CreditInv
  BY Zenon
<1>1. /\ call \in CallRows
      /\ stream \in StreamRows /\ consumer \in [items : BOOLEAN, terminal : BOOLEAN]
  BY Zenon DEF CreditInit, CallRows, StreamRows, NewStream
<1>2. channel \in Seq(FrameRows) /\ Len(channel) = 0
  BY DEF CreditInit
<1>3. drops \in Nat /\ received \in Nat /\ lossy_seen \in BOOLEAN /\ lost \in [Classes -> Nat]
  BY Zenon DEF CreditInit
<1>4. Typed
  BY <1>1, <1>2, <1>3, Zenon DEF Typed
<1>5. /\ StreamFollowsCall /\ UnopenedIsEmpty /\ GrantsAreDrained
      /\ CreditsPayForFrames /\ WindowsAgree
  BY <1>2 DEF CreditInit, NewStream, StreamFollowsCall, UnopenedIsEmpty, GrantsAreDrained,
              CreditsPayForFrames, WindowsAgree
<1>6. DroppedIsEmpty /\ NothingLost
  BY Zenon DEF CreditInit, DroppedIsEmpty, NothingLost
<1> QED
  BY <1>4, <1>5, <1>6, Zenon DEF CreditInv

\* Every action that removes the pump's entry preserves the invariant: only the
\* types and what is said of the channel remain to be shown.
LEMMA RemovedIInv ==
  ASSUME Typed', stream' = NoStream, DroppedIsEmpty', NothingLost'
  PROVE  CreditInv'
BY Zenon DEF NoStream, CreditInv, StreamFollowsCall, UnopenedIsEmpty, GrantsAreDrained,
       CreditsPayForFrames, WindowsAgree

\* The open sets both windows to the worker's opening credit, at most the ceiling.
LEMMA OpenIInv == CreditInv /\ StreamOpen => CreditInv'
<1> SUFFICES ASSUME CreditInv, StreamOpen PROVE CreditInv'
  BY Zenon
<1> USE DEF CreditInv
<1>1. PICK credit \in 1..MaxStreamCredit :
        /\ call' = [call EXCEPT !.stream_open = TRUE, !.credit_left = credit]
        /\ stream' = IF Streaming
                     THEN [stream EXCEPT !.opened = TRUE, !.outstanding_credit = credit]
                     ELSE stream
  BY Zenon DEF StreamOpen
<1>2. call \in CallRows /\ stream \in StreamRows /\ credit \in Nat
  BY DEF Typed
<1>3. call' \in CallRows
  BY <1>1, <1>2, Zenon DEF CallRows
<1>4. call'.credit_left = credit
  BY <1>1, <1>2, Zenon DEF CallRows
<1>5. call'.live = call.live /\ call'.stream_open = TRUE
  BY <1>1, <1>2, Zenon DEF CallRows
<1>6. CASE ~Streaming
  <2>1. stream' = stream
    BY <1>1, <1>6, Zenon
  <2> QED
    BY <1>3, <1>6, <2>1, Zenon DEF Typed, StreamOpen, StreamFollowsCall, UnopenedIsEmpty,
       GrantsAreDrained, CreditsPayForFrames, DroppedIsEmpty, NothingLost, WindowsAgree
<1>7. CASE Streaming
  <2>1. stream' = [stream EXCEPT !.opened = TRUE, !.outstanding_credit = credit]
    BY <1>1, <1>7, Zenon
  <2>2. stream' \in StreamRows
    BY <1>2, <2>1, Zenon DEF StreamRows
  <2>3. stream'.outstanding_credit = credit
    BY <1>2, <2>1, Zenon DEF StreamRows
  <2>4. stream'.accepted = stream.accepted /\ stream'.replaced = stream.replaced
    BY <1>2, <2>1, Zenon DEF StreamRows
  <2>5. stream'.opened = TRUE
    BY <1>2, <2>1, Zenon DEF StreamRows
  <2>6. Typed' /\ DroppedIsEmpty' /\ NothingLost'
    BY <1>3, <2>2, Zenon DEF Typed, StreamOpen, DroppedIsEmpty, NothingLost
  <2>7. StreamFollowsCall' /\ UnopenedIsEmpty' /\ WindowsAgree'
    BY <1>4, <1>5, <1>7, <2>3, <2>5, Zenon
      DEF StreamOpen, StreamFollowsCall, UnopenedIsEmpty, WindowsAgree
  <2>8. ~stream.opened
    BY <1>7, Zenon DEF StreamOpen, StreamFollowsCall
  <2>9. GrantsAreDrained' /\ CreditsPayForFrames'
    BY <1>7, <2>3, <2>4, <2>8
      DEF StreamOpen, UnopenedIsEmpty, GrantsAreDrained, CreditsPayForFrames
  <2> QED
    BY <2>6, <2>7, <2>9, Zenon
<1> QED
  BY <1>6, <1>7, Zenon

\* A tick grants no more than was drained and not replaced yet.
LEMMA RegrantIInv == CreditInv /\ Regrant => CreditInv'
<1> SUFFICES ASSUME CreditInv, Regrant PROVE CreditInv'
  BY Zenon
<1> USE DEF CreditInv
<1> DEFINE n == Additional
<1>1. call \in CallRows /\ stream \in StreamRows /\ Len(channel) \in Nat
  BY DEF Typed
<1>2. /\ stream.accepted \in Nat /\ stream.replaced \in Nat
      /\ stream.outstanding_credit \in Nat /\ call.credit_left \in Nat
  BY <1>1, Zenon DEF CallRows, StreamRows
<1>a. stream.replaced + Len(channel) <= stream.accepted
  BY Zenon DEF Regrant, GrantsAreDrained
<1>b. Drained = stream.accepted - Len(channel)
  BY <1>1, <1>2, <1>a DEF Drained
<1>c. Earned = stream.accepted - Len(channel) - stream.replaced
  BY <1>1, <1>2, <1>a, <1>b DEF Earned
<1>d. Monus(MaxStreamCredit, stream.outstanding_credit) \in Nat
  BY <1>2
<1>g. Earned \in Nat
  BY <1>1, <1>2, <1>a, <1>c
<1>h. n \in Nat /\ n <= Earned
  <2> DEFINE budget == Monus(MaxStreamCredit, stream.outstanding_credit)
  <2>1. n = IF Earned < budget THEN Earned ELSE budget
    BY Zenon DEF Additional
  <2>2. budget \in Nat
    BY <1>d, Zenon
  <2> HIDE DEF n, budget
  <2> QED
    BY <1>g, <2>1, <2>2
<1>3. n \in Nat /\ stream.replaced + n + Len(channel) <= stream.accepted
  <2> HIDE DEF n
  <2> QED
    BY <1>1, <1>2, <1>c, <1>g, <1>h
<1>4. /\ call' = [call EXCEPT !.credit_left = @ + n]
      /\ stream' = [stream EXCEPT !.outstanding_credit = @ + n, !.replaced = @ + n]
      /\ UNCHANGED <<channel, drops, consumer, received, lossy_seen, lost>>
      /\ Streaming /\ stream.opened
  BY Zenon DEF Regrant
<1> HIDE DEF n
<1>e. /\ call.credit_left + n \in Nat
      /\ stream.outstanding_credit + n \in Nat /\ stream.replaced + n \in Nat
  BY <1>2, <1>3
<1>5. call' \in CallRows
  BY <1>1, <1>4, <1>e, Zenon DEF CallRows
<1>6. call'.credit_left = call.credit_left + n
  BY <1>1, <1>4, Zenon DEF CallRows
<1>7. call'.live = call.live /\ call'.stream_open = call.stream_open
  BY <1>1, <1>4, Zenon DEF CallRows
<1>8. call'.stream_muted = call.stream_muted
  BY <1>1, <1>4, Zenon DEF CallRows
<1>9. stream' \in StreamRows
  BY <1>1, <1>4, <1>e, Zenon DEF StreamRows
<1>10. stream'.outstanding_credit = stream.outstanding_credit + n
  BY <1>1, <1>4, Zenon DEF StreamRows
<1>11. stream'.replaced = stream.replaced + n /\ stream'.accepted = stream.accepted
  BY <1>1, <1>4, Zenon DEF StreamRows
<1>12. stream'.present = stream.present /\ stream'.opened = stream.opened
  BY <1>1, <1>4, Zenon DEF StreamRows
<1>13. Typed' /\ DroppedIsEmpty' /\ NothingLost'
  BY <1>4, <1>5, <1>9, Zenon DEF Typed, DroppedIsEmpty, NothingLost
<1>14. StreamFollowsCall' /\ UnopenedIsEmpty'
  BY <1>4, <1>7, <1>12, Zenon DEF StreamFollowsCall, UnopenedIsEmpty
<1>15. WindowsAgree'
  BY <1>2, <1>3, <1>4, <1>6, <1>7, <1>8, <1>10, <1>12, Zenon DEF WindowsAgree
<1>f. channel' = channel
  BY <1>4, Zenon
<1>16. GrantsAreDrained'
  BY <1>1, <1>2, <1>3, <1>11, <1>f, Zenon DEF GrantsAreDrained
<1>17. CreditsPayForFrames'
  <2> SUFFICES ASSUME ~lossy_seen'
               PROVE  stream'.outstanding_credit + stream'.accepted
                        <= ChannelCapacity + stream'.replaced
    BY Zenon DEF CreditsPayForFrames
  <2>1. ~lossy_seen
    BY <1>4, Zenon
  <2>2. stream.outstanding_credit + stream.accepted <= ChannelCapacity + stream.replaced
    BY <1>4, <2>1, Zenon DEF CreditsPayForFrames
  <2>3. stream.outstanding_credit + n + stream.accepted <= ChannelCapacity + (stream.replaced + n)
    <3> HIDE DEF CreditInv
    <3>1. n \in Nat /\ ChannelCapacity \in Nat
      BY <1>3, CreditAssumption, Zenon
    <3> QED
      BY <1>2, <2>2, <3>1
  <2> QED
    BY <1>10, <1>11, <2>3, Zenon
<1> QED
  BY <1>13, <1>14, <1>15, <1>16, <1>17, Zenon

\* The session's half of a data frame: it spends a credit if it is lossless.
LEMMA ReceivedCall ==
  ASSUME CreditInv, NEW class \in Classes, NEW more \in BOOLEAN, NEW dropped \in Nat,
         Admits(class, dropped), NEW c, c = Received(class, more, dropped)
  PROVE  /\ c \in CallRows
         /\ c.live = call.live /\ c.stream_open = call.stream_open
         /\ c.stream_muted = call.stream_muted
         /\ c.credit_left = IF class = "lossless" THEN call.credit_left - 1 ELSE call.credit_left
         /\ class = "lossless" => call.credit_left > 0
<1>1. call \in CallRows
  BY Zenon DEF CreditInv, Typed
<1>2. call.credit_left \in Nat /\ call.seq \in Nat
  BY <1>1, Zenon DEF CallRows
<1>3. class = "lossless" => call.credit_left > 0
  BY Zenon DEF Admits
<1>4. (IF class = "lossless" THEN call.credit_left - 1 ELSE call.credit_left) \in Nat
  BY <1>2, <1>3
<1>5. c \in CallRows
  <2> DEFINE left == IF class = "lossless" THEN call.credit_left - 1 ELSE call.credit_left
             last == ~more
             after == call.seq + 1
  <2>1. c = [call EXCEPT !.seq = after, !.lossy_dropped = dropped,
                         !.last_item_seen = last, !.credit_left = left]
    BY Zenon DEF Received
  <2>2. left \in Nat /\ after \in Nat /\ last \in BOOLEAN
    BY <1>2, <1>4
  <2> HIDE DEF left, after, last
  <2> QED
    BY <1>1, <2>1, <2>2, Zenon DEF CallRows
<1>6. c.live = call.live /\ c.stream_open = call.stream_open
  BY <1>1, Zenon DEF Received, CallRows
<1>7. c.stream_muted = call.stream_muted
  BY <1>1, Zenon DEF Received, CallRows
<1>8. c.credit_left = IF class = "lossless" THEN call.credit_left - 1 ELSE call.credit_left
  BY <1>1, Zenon DEF Received, CallRows
<1> QED
  BY <1>3, <1>5, <1>6, <1>7, <1>8, Zenon

\* The pump's half: the credit of a lossless frame is spent.
LEMMA SpentStream ==
  ASSUME CreditInv, NEW class \in Classes, NEW s, s = Spent(class)
  PROVE  /\ s \in StreamRows
         /\ s.present = stream.present /\ s.opened = stream.opened
         /\ s.accepted = stream.accepted /\ s.replaced = stream.replaced
         /\ s.outstanding_credit =
              IF class = "lossless" THEN Monus(stream.outstanding_credit, 1)
              ELSE stream.outstanding_credit
<1>1. stream \in StreamRows
  BY Zenon DEF CreditInv, Typed
<1>2. stream.outstanding_credit \in Nat
  BY <1>1, Zenon DEF StreamRows
<1>3. CASE class = "lossless"
  <2>1. s = [stream EXCEPT !.outstanding_credit = Monus(stream.outstanding_credit, 1)]
    BY <1>3, Zenon DEF Spent
  <2>2. Monus(stream.outstanding_credit, 1) \in Nat
    BY <1>2
  <2>3. s \in StreamRows
    BY <1>1, <2>1, <2>2, Zenon DEF StreamRows
  <2>4. s.present = stream.present /\ s.opened = stream.opened
    BY <1>1, <2>1, Zenon DEF StreamRows
  <2>5. s.accepted = stream.accepted /\ s.replaced = stream.replaced
    BY <1>1, <2>1, Zenon DEF StreamRows
  <2>6. s.outstanding_credit = Monus(stream.outstanding_credit, 1)
    BY <1>1, <2>1, Zenon DEF StreamRows
  <2> QED
    BY <1>3, <2>3, <2>4, <2>5, <2>6, Zenon
<1>4. CASE class # "lossless"
  BY <1>1, <1>4, Zenon DEF Spent
<1> QED
  BY <1>3, <1>4, Zenon

\* A data frame delivered into the channel, or dropped for want of a slot.  A
\* lossless frame within its credit is never dropped before a lossy frame came:
\* its credit and the queue fit the channel together.
LEMMA DataIInv ==
  ASSUME CreditInv, NEW class \in Classes, NEW more \in BOOLEAN, NEW dropped \in Nat,
         StreamData(class, more, dropped)
  PROVE  CreditInv'
<1> USE DEF CreditInv
<1> DEFINE s == Spent(class)
           spent == IF class = "lossless" THEN 1 ELSE 0
<1>1. /\ call' \in CallRows
      /\ call'.live = call.live /\ call'.stream_open = call.stream_open
      /\ call'.stream_muted = call.stream_muted
      /\ call'.credit_left = IF class = "lossless" THEN call.credit_left - 1 ELSE call.credit_left
      /\ class = "lossless" => call.credit_left > 0
  BY ReceivedCall DEF StreamData
<1>2. /\ s \in StreamRows
      /\ s.present = stream.present /\ s.opened = stream.opened
      /\ s.accepted = stream.accepted /\ s.replaced = stream.replaced
      /\ s.outstanding_credit = IF class = "lossless" THEN Monus(stream.outstanding_credit, 1)
                                ELSE stream.outstanding_credit
  BY SpentStream, Zenon
<1>3. /\ stream.accepted \in Nat /\ stream.replaced \in Nat
      /\ stream.outstanding_credit \in Nat /\ stream.local_drops \in Nat
      /\ call.credit_left \in Nat /\ call.seq \in Nat
      /\ channel \in Seq(FrameRows) /\ Len(channel) \in Nat
      /\ s.local_drops \in Nat
  BY <1>2 DEF Typed, CallRows, StreamRows
<1>4. Streaming /\ Live /\ ~call.stream_muted /\ stream.opened /\ consumer.items
  BY Zenon DEF StreamData, Admits, StreamFollowsCall
<1>5. stream.outstanding_credit = call.credit_left
  BY <1>4, Zenon DEF WindowsAgree
<1>6. spent \in {0, 1} /\ s.outstanding_credit = stream.outstanding_credit - spent
      /\ call'.credit_left = call.credit_left - spent
  BY <1>1, <1>2, <1>3, <1>5
<1>7. /\ consumer' = consumer
      /\ received' = received /\ lossy_seen' = (lossy_seen \/ class = "lossy")
  BY Zenon DEF StreamData
<1>8. lossy_seen \in BOOLEAN /\ lossy_seen' \in BOOLEAN
  BY <1>7, Zenon DEF Typed
<1> HIDE DEF s, spent
<1>9. CASE Accept(class, dropped)
  <2>1. stream' = [s EXCEPT !.accepted = @ + 1]
    BY <1>9, Zenon DEF Accept, s
  <2>a. s.accepted + 1 \in Nat
    BY <1>2, <1>3
  <2>2. stream' \in StreamRows
    BY <1>2, <2>1, <2>a, Zenon DEF StreamRows
  <2>3. stream'.accepted = stream.accepted + 1 /\ stream'.replaced = stream.replaced
    BY <1>2, <2>1, Zenon DEF StreamRows
  <2>4. stream'.outstanding_credit = stream.outstanding_credit - spent
    BY <1>2, <1>6, <2>1, Zenon DEF StreamRows
  <2>5. stream'.present = stream.present /\ stream'.opened = stream.opened
    BY <1>2, <2>1, Zenon DEF StreamRows
  <2>6. Frame(class, dropped) \in FrameRows
    BY <1>3 DEF Frame, FrameRows
  <2>7. channel' \in Seq(FrameRows) /\ Len(channel') = Len(channel) + 1
    BY <1>3, <1>9, <2>6 DEF Accept
  <2>8. Typed'
    BY <1>1, <1>7, <1>8, <1>9, <2>2, <2>7, Zenon DEF Typed, Accept
  <2>9. DroppedIsEmpty' /\ NothingLost'
    BY <1>4, <1>7, <1>9, Zenon DEF Accept, DroppedIsEmpty, NothingLost
  <2>10. StreamFollowsCall' /\ UnopenedIsEmpty'
    BY <1>1, <1>4, <2>5, Zenon DEF StreamFollowsCall, UnopenedIsEmpty
  <2>11. WindowsAgree'
    BY <1>5, <1>6, <2>4, Zenon DEF WindowsAgree
  <2>12. GrantsAreDrained'
    BY <1>3, <1>4, <2>3, <2>7 DEF GrantsAreDrained
  <2>13. CreditsPayForFrames'
    <3> SUFFICES ASSUME ~lossy_seen'
                 PROVE  stream'.outstanding_credit + stream'.accepted
                          <= ChannelCapacity + stream'.replaced
      BY Zenon DEF CreditsPayForFrames
    <3>1. ~lossy_seen /\ class = "lossless"
      BY <1>7, Zenon
    <3>2. spent = 1
      BY <3>1, Zenon DEF spent
    <3> QED
      BY <1>3, <1>4, <2>3, <2>4, <3>1, <3>2 DEF CreditsPayForFrames
  <2> QED
    BY <2>8, <2>9, <2>10, <2>11, <2>12, <2>13, Zenon
<1>10. CASE DropLocally(class)
  <2>1. stream' = [s EXCEPT !.local_drops = @ + 1]
    BY <1>10, Zenon DEF DropLocally, s
  <2>a. s.local_drops + 1 \in Nat
    BY <1>3
  <2>2. stream' \in StreamRows
    BY <1>2, <2>1, <2>a, Zenon DEF StreamRows
  <2>3. stream'.accepted = stream.accepted /\ stream'.replaced = stream.replaced
    BY <1>2, <2>1, Zenon DEF StreamRows
  <2>4. stream'.outstanding_credit = stream.outstanding_credit - spent
    BY <1>2, <1>6, <2>1, Zenon DEF StreamRows
  <2>5. stream'.present = stream.present /\ stream'.opened = stream.opened
    BY <1>2, <2>1, Zenon DEF StreamRows
  <2>6. channel' = channel /\ drops' \in Nat
    BY <1>10 DEF DropLocally, Typed
  <2>7. lost' \in [Classes -> Nat]
    BY <1>10 DEF DropLocally, Typed
  <2>8. Typed'
    BY <1>1, <1>7, <1>8, <2>2, <2>6, <2>7, Zenon DEF Typed
  <2>9. lossy_seen'
    <3> SUFFICES ASSUME ~lossy_seen' PROVE FALSE
      BY Zenon
    <3>1. ~lossy_seen /\ class = "lossless"
      BY <1>7, Zenon
    <3>2. stream.outstanding_credit + stream.accepted <= ChannelCapacity + stream.replaced
      BY <1>4, <3>1, Zenon DEF CreditsPayForFrames
    <3>3. stream.replaced + Len(channel) <= stream.accepted
      BY <1>4, Zenon DEF GrantsAreDrained
    <3>4. stream.outstanding_credit > 0
      BY <1>1, <1>5, <3>1, Zenon
    <3>5. ~(Len(channel) < ChannelCapacity)
      BY <1>10, <3>1, Zenon DEF DropLocally, HasSlot
    <3> QED
      BY <1>3, <3>2, <3>3, <3>4, <3>5
  <2>10. DroppedIsEmpty' /\ NothingLost' /\ CreditsPayForFrames'
    BY <1>4, <1>7, <2>9, Zenon DEF DroppedIsEmpty, NothingLost, CreditsPayForFrames
  <2>11. StreamFollowsCall' /\ UnopenedIsEmpty'
    BY <1>1, <1>4, <2>5, Zenon DEF StreamFollowsCall, UnopenedIsEmpty
  <2>12. WindowsAgree'
    BY <1>5, <1>6, <2>4, Zenon DEF WindowsAgree
  <2>13. GrantsAreDrained'
    BY <1>4, <2>3, <2>6, Zenon DEF GrantsAreDrained
  <2> QED
    BY <2>8, <2>10, <2>11, <2>12, <2>13, Zenon
<1> QED
  BY <1>9, <1>10, Zenon DEF StreamData

\* A frame of a stream that was muted or removed changes the session only.
LEMMA DataMutedIInv ==
  ASSUME CreditInv, NEW class \in Classes, NEW more \in BOOLEAN, NEW dropped \in Nat,
         StreamDataMuted(class, more, dropped)
  PROVE  CreditInv'
<1> USE DEF CreditInv
<1>1. /\ call' \in CallRows
      /\ call'.live = call.live /\ call'.stream_open = call.stream_open
      /\ call'.stream_muted = call.stream_muted
  BY ReceivedCall DEF StreamDataMuted
<1>2. UNCHANGED <<stream, channel, drops, consumer, received, lossy_seen, lost>>
  BY Zenon DEF StreamDataMuted
<1>3. call.stream_muted \/ ~Streaming
  BY Zenon DEF StreamDataMuted
<1>4. Typed' /\ DroppedIsEmpty' /\ NothingLost'
  BY <1>1, <1>2, Zenon DEF Typed, DroppedIsEmpty, NothingLost
<1>5. StreamFollowsCall' /\ UnopenedIsEmpty' /\ GrantsAreDrained' /\ CreditsPayForFrames'
  BY <1>1, <1>2, Zenon
    DEF StreamFollowsCall, UnopenedIsEmpty, GrantsAreDrained, CreditsPayForFrames
<1>6. WindowsAgree'
  BY <1>1, <1>2, <1>3, Zenon DEF WindowsAgree
<1> QED
  BY <1>4, <1>5, <1>6, Zenon

\* A frame that meets a dropped channel removes the stream, or is a lossy frame
\* counted as dropped.
LEMMA DataClosedIInv ==
  ASSUME CreditInv, NEW class \in Classes, NEW more \in BOOLEAN, NEW dropped \in Nat,
         StreamDataClosed(class, more, dropped)
  PROVE  CreditInv'
<1> USE DEF CreditInv
<1> DEFINE c == Received(class, more, dropped)
<1>1. /\ c \in CallRows
      /\ c.live = call.live /\ c.stream_open = call.stream_open
      /\ c.stream_muted = call.stream_muted
      /\ c.credit_left = IF class = "lossless" THEN call.credit_left - 1 ELSE call.credit_left
  BY ReceivedCall DEF StreamDataClosed
<1> HIDE DEF c
<1>2. UNCHANGED <<channel, consumer, received>> /\ lossy_seen' = (lossy_seen \/ class = "lossy")
  BY Zenon DEF StreamDataClosed
<1>3. lossy_seen \in BOOLEAN /\ lossy_seen' \in BOOLEAN
  BY <1>2, Zenon DEF Typed
<1>4. CASE HasSlot(class)
  <2>1. /\ call' = [c EXCEPT !.stream_muted = TRUE]
        /\ stream' = NoStream /\ UNCHANGED <<drops, lost>>
    BY <1>4, Zenon DEF StreamDataClosed, c
  <2>2. call' \in CallRows
    BY <1>1, <2>1, Zenon DEF CallRows
  <2>3. NoStream \in StreamRows
    BY Zenon DEF NoStream, StreamRows
  <2>4. Typed'
    BY <1>2, <1>3, <2>1, <2>2, <2>3, Zenon DEF Typed
  <2>5. DroppedIsEmpty' /\ NothingLost'
    BY <1>2, <2>1, Zenon DEF DroppedIsEmpty, NothingLost
  <2> QED
    BY <2>1, <2>4, <2>5, RemovedIInv, Zenon
<1>5. CASE ~HasSlot(class)
  <2>1. /\ call' = c
        /\ stream' = [stream EXCEPT !.local_drops = stream.local_drops + 1]
        /\ drops' = drops + 1
        /\ lost' = [lost EXCEPT ![class] = @ + 1]
    BY <1>5, Zenon DEF StreamDataClosed, c
  <2>2. channel = <<>> /\ Streaming
    BY Zenon DEF StreamDataClosed, DroppedIsEmpty
  <2>3. class = "lossy"
    BY <1>5, <2>2 DEF HasSlot
  <2>4. stream \in StreamRows /\ stream.local_drops + 1 \in Nat
    BY DEF Typed, StreamRows
  <2>5. stream' \in StreamRows
    BY <2>1, <2>4, Zenon DEF StreamRows
  <2>6. stream'.accepted = stream.accepted /\ stream'.replaced = stream.replaced
    BY <2>1, <2>4, Zenon DEF StreamRows
  <2>7. stream'.outstanding_credit = stream.outstanding_credit
    BY <2>1, <2>4, Zenon DEF StreamRows
  <2>8. stream'.present = stream.present /\ stream'.opened = stream.opened
    BY <2>1, <2>4, Zenon DEF StreamRows
  <2>9. lost' \in [Classes -> Nat] /\ drops' \in Nat
    BY <2>1 DEF Typed
  <2>10. Typed'
    BY <1>1, <1>2, <1>3, <2>1, <2>5, <2>9, Zenon DEF Typed
  <2>11. lossy_seen'
    BY <1>2, <2>3, Zenon
  <2>12. DroppedIsEmpty' /\ NothingLost' /\ CreditsPayForFrames'
    BY <1>2, <2>11, Zenon DEF DroppedIsEmpty, NothingLost, CreditsPayForFrames
  <2>13. StreamFollowsCall' /\ UnopenedIsEmpty'
    BY <1>1, <2>1, <2>6, <2>7, <2>8, Zenon DEF StreamFollowsCall, UnopenedIsEmpty
  <2>14. GrantsAreDrained'
    BY <1>2, <2>2, <2>6, Zenon DEF GrantsAreDrained
  <2>15. WindowsAgree'
    BY <1>1, <2>1, <2>3, <2>7, <2>8, Zenon DEF WindowsAgree
  <2> QED
    BY <2>10, <2>12, <2>13, <2>14, <2>15, Zenon
<1> QED
  BY <1>4, <1>5, Zenon

\* The three ways the pump drops its entry besides a closed channel's frame.
LEMMA RemovalIInv ==
  ASSUME CreditInv, RegrantClosed \/ RetireDroppedWaiter \/ Settle
  PROVE  CreditInv'
<1>1. /\ stream' = NoStream
      /\ UNCHANGED <<channel, drops, consumer, received, lossy_seen, lost>>
  BY Zenon DEF RegrantClosed, RetireDroppedWaiter, Settle
<1>2. call \in CallRows
  BY Zenon DEF CreditInv, Typed
<1>3. call' \in CallRows
  <2>1. CASE RegrantClosed
    BY <1>2, <2>1, Zenon DEF RegrantClosed, CallRows
  <2>2. CASE RetireDroppedWaiter
    BY <1>2, <2>2, Zenon DEF RetireDroppedWaiter
  <2>3. CASE Settle
    BY <1>2, <2>3, Zenon DEF Settle, CallRows
  <2> QED
    BY <2>1, <2>2, <2>3, Zenon
<1>4. NoStream \in StreamRows
  BY Zenon DEF NoStream, StreamRows
<1>5. Typed'
  BY <1>1, <1>3, <1>4, Zenon DEF CreditInv, Typed
<1>6. DroppedIsEmpty' /\ NothingLost'
  BY <1>1, Zenon DEF CreditInv, DroppedIsEmpty, NothingLost
<1> QED
  BY <1>1, <1>5, <1>6, RemovedIInv, Zenon

\* Cancelling the stream half mutes the session and nothing else.
LEMMA CancelIInv == CreditInv /\ CancelStream => CreditInv'
<1> SUFFICES ASSUME CreditInv, CancelStream PROVE CreditInv'
  BY Zenon
<1> USE DEF CreditInv
<1>1. /\ call' = [call EXCEPT !.stream_muted = TRUE]
      /\ UNCHANGED <<stream, channel, drops, consumer, received, lossy_seen, lost>>
      /\ call \in CallRows
  BY Zenon DEF CancelStream, Typed
<1>2. call' \in CallRows
  BY <1>1, Zenon DEF CallRows
<1>3. call'.live = call.live /\ call'.stream_open = call.stream_open
  BY <1>1, Zenon DEF CallRows
<1>4. call'.stream_muted = TRUE
  BY <1>1, Zenon DEF CallRows
<1>5. Typed' /\ DroppedIsEmpty' /\ NothingLost'
  BY <1>1, <1>2, Zenon DEF Typed, DroppedIsEmpty, NothingLost
<1>6. StreamFollowsCall' /\ UnopenedIsEmpty' /\ GrantsAreDrained' /\ CreditsPayForFrames'
  BY <1>1, <1>3, Zenon
    DEF StreamFollowsCall, UnopenedIsEmpty, GrantsAreDrained, CreditsPayForFrames
<1>7. WindowsAgree'
  BY <1>4, Zenon DEF WindowsAgree
<1> QED
  BY <1>5, <1>6, <1>7, Zenon

\* The consumer only ever shortens the channel.
LEMMA ConsumerIInv ==
  ASSUME CreditInv, NextItem \/ IntoPending \/ DropCall
  PROVE  CreditInv'
<1> USE DEF CreditInv
<1>1. UNCHANGED <<call, stream, drops, lossy_seen, lost>>
  BY Zenon DEF NextItem, IntoPending, DropCall
<1>2. channel \in Seq(FrameRows) /\ stream \in StreamRows
  BY Zenon DEF Typed
<1>3. stream.replaced \in Nat /\ stream.accepted \in Nat
  BY <1>2, Zenon DEF StreamRows
<1>4. /\ channel' \in Seq(FrameRows) /\ Len(channel') <= Len(channel)
      /\ Len(channel) \in Nat /\ Len(channel') \in Nat
  <2>1. CASE NextItem
    BY <1>2, <2>1 DEF NextItem
  <2>2. CASE IntoPending \/ DropCall
    <3>1. channel' = <<>>
      BY <2>2, Zenon DEF IntoPending, DropCall
    <3> QED
      BY <1>2, <3>1
  <2> QED
    BY <2>1, <2>2, Zenon
<1>5. consumer' \in [items : BOOLEAN, terminal : BOOLEAN]
  <2>1. CASE NextItem
    BY <2>1, Zenon DEF NextItem, Typed
  <2>2. CASE IntoPending
    BY <2>2, Zenon DEF IntoPending, Typed
  <2>3. CASE DropCall
    BY <2>3, Zenon DEF DropCall
  <2> QED
    BY <2>1, <2>2, <2>3, Zenon
<1>6. received' \in Nat
  BY DEF NextItem, IntoPending, DropCall, Typed
<1>7. DroppedIsEmpty'
  BY Zenon DEF NextItem, IntoPending, DropCall, DroppedIsEmpty
<1>8. Typed'
  BY <1>1, <1>4, <1>5, <1>6, Zenon DEF Typed
<1>9. GrantsAreDrained'
  BY <1>1, <1>3, <1>4 DEF GrantsAreDrained
<1>10. /\ StreamFollowsCall' /\ UnopenedIsEmpty' /\ CreditsPayForFrames'
       /\ NothingLost' /\ WindowsAgree'
  BY <1>1, Zenon
    DEF StreamFollowsCall, UnopenedIsEmpty, CreditsPayForFrames, NothingLost, WindowsAgree
<1> QED
  BY <1>7, <1>8, <1>9, <1>10, Zenon

\* Every step preserves the invariant.
LEMMA NextCreditInv == CreditInv /\ [CreditNext]_creditVars => CreditInv'
<1> SUFFICES ASSUME CreditInv, [CreditNext]_creditVars PROVE CreditInv'
  BY Zenon
<1>1. CASE Worker
  <2>1. CASE StreamOpen
    BY <2>1, OpenIInv, Zenon
  <2>2. ASSUME NEW class \in Classes, NEW more \in BOOLEAN, NEW dropped \in 0..MaxWireDrops,
               \/ StreamData(class, more, dropped)
               \/ StreamDataMuted(class, more, dropped)
               \/ StreamDataClosed(class, more, dropped)
        PROVE  CreditInv'
    <3>1. dropped \in Nat
      OBVIOUS
    <3> QED
      BY <2>2, <3>1, DataIInv, DataMutedIInv, DataClosedIInv, Zenon
  <2> QED
    BY <1>1, <2>1, <2>2, Zenon DEF Worker
<1>2. CASE Tick
  BY <1>2, RegrantIInv, RemovalIInv, Zenon DEF Tick
<1>3. CASE RetireDroppedWaiter \/ Settle
  BY <1>3, RemovalIInv, Zenon
<1>4. CASE Consumer
  BY <1>4, ConsumerIInv, CancelIInv, Zenon DEF Consumer
<1>5. CASE UNCHANGED creditVars
  BY <1>5, Zenon
    DEF creditVars, CreditInv, Typed, StreamFollowsCall, UnopenedIsEmpty, GrantsAreDrained,
              CreditsPayForFrames, DroppedIsEmpty, NothingLost, WindowsAgree
<1> QED
  BY <1>1, <1>2, <1>3, <1>4, <1>5, Zenon DEF CreditNext

\* The credit accounting is inductive.
THEOREM CreditInductive == CreditSpec => []CreditInv
  BY InitCreditInv, NextCreditInv, PTL DEF CreditSpec

\* The session's window and the pump's copy of it agree, whatever the ceiling.
THEOREM WindowsAlwaysAgree == CreditSpec => []WindowsAgree
<1>1. CreditInv => WindowsAgree
  BY Zenon DEF CreditInv
<1> QED
  BY <1>1, CreditInductive, PTL

\* A stream without lossy frames never holds more credit than it has slots for,
\* and never drops a frame, whatever the ceiling and however long it runs.
THEOREM LosslessNeverDropped == CreditSpec => []LosslessStreamConserves
<1>1. CreditInv => LosslessStreamConserves
  <2> SUFFICES ASSUME CreditInv, ~lossy_seen
               PROVE  /\ Streaming => Len(channel) + stream.outstanding_credit <= ChannelCapacity
                      /\ lost["lossless"] = 0
    BY Zenon DEF LosslessStreamConserves
  <2>1. stream \in StreamRows /\ Len(channel) \in Nat
    BY DEF CreditInv, Typed
  <2>2. /\ stream.replaced \in Nat /\ stream.accepted \in Nat
        /\ stream.outstanding_credit \in Nat
    BY <2>1, Zenon DEF StreamRows
  <2>3. lost["lossless"] = 0
    BY Zenon DEF CreditInv, NothingLost
  <2>4. ASSUME Streaming PROVE Len(channel) + stream.outstanding_credit <= ChannelCapacity
    <3>1. /\ stream.replaced + Len(channel) <= stream.accepted
          /\ stream.outstanding_credit + stream.accepted <= ChannelCapacity + stream.replaced
      BY <2>4, Zenon DEF CreditInv, GrantsAreDrained, CreditsPayForFrames
    <3> QED
      BY <2>1, <2>2, <3>1
  <2> QED
    BY <2>3, <2>4, Zenon
<1> QED
  BY <1>1, CreditInductive, PTL
-----------------------------------------------------------------------------
(* Every frame is accounted for *)

\* A frame in the channel carries the drops of the host that came before it.
FramesCount ==
    \A i \in 1..Len(channel) :
        channel[i].seq = received + (i - 1) + channel[i].dropped - channel[i].wire

\* The shared counter has what the pump's entry counts.
CountersAgree == Streaming => stream.local_drops = drops

\* As long as the consumer reads and the session forwards, nothing is missing.
NothingMissing ==
    consumer.items /\ ~call.stream_muted => call.seq = received + Len(channel) + drops

\* The pump lets go of a live call's stream only when nobody reads it.
ReaderHasStream ==
    /\ consumer.items => consumer.terminal
    /\ Live /\ consumer.items => Streaming

AccountInv == CreditInv /\ FramesCount /\ CountersAgree /\ NothingMissing /\ ReaderHasStream

\* The session numbers every frame it admits.
LEMMA ReceivedSeq ==
  ASSUME CreditInv, NEW class \in Classes, NEW more \in BOOLEAN, NEW dropped \in Nat,
         NEW c, c = Received(class, more, dropped)
  PROVE  c.seq = call.seq + 1 /\ c.live = call.live /\ c.stream_muted = call.stream_muted
<1>1. call \in CallRows
  BY Zenon DEF CreditInv, Typed
<1>2. c.seq = call.seq + 1
  BY <1>1, Zenon DEF Received, CallRows
<1>3. c.live = call.live
  BY <1>1, Zenon DEF Received, CallRows
<1>4. c.stream_muted = call.stream_muted
  BY <1>1, Zenon DEF Received, CallRows
<1> QED BY <1>2, <1>3, <1>4, Zenon

\* Spending a credit counts no drop.
LEMMA SpentDrops ==
  ASSUME CreditInv, NEW class \in Classes
  PROVE  Spent(class) \in StreamRows /\ Spent(class).present = stream.present
         /\ Spent(class).local_drops = stream.local_drops
<1>1. PICK s : s = Spent(class)
  BY Zenon
<1>2. s \in StreamRows /\ s.present = stream.present
  BY <1>1, SpentStream, Zenon
<1>3. s.local_drops = stream.local_drops
  <2>1. PICK v : v = Monus(stream.outstanding_credit, 1)
    BY Zenon
  <2>2. s = stream \/ s = [stream EXCEPT !.outstanding_credit = v]
    BY <1>1, <2>1, Zenon DEF Spent
  <2>3. stream \in StreamRows
    BY Zenon DEF CreditInv, Typed
  <2> QED BY <2>2, <2>3, Zenon DEF StreamRows
<1> QED BY <1>1, <1>2, <1>3, Zenon

\* A step that leaves the numbers, the channel and the consumer alone.
LEMMA AccountKept ==
  ASSUME AccountInv, CreditInv', UNCHANGED <<channel, drops, consumer, received>>,
         call'.seq = call.seq, call'.live => call.live,
         call.stream_muted => call'.stream_muted, call'.stream_muted \in BOOLEAN,
         stream'.present => stream.present /\ stream'.local_drops = stream.local_drops,
         call'.live /\ consumer.items => stream'.present
  PROVE  AccountInv'
<1>1. FramesCount'
  BY Zenon DEF AccountInv, FramesCount
<1>2. CountersAgree'
  BY Zenon DEF AccountInv, CountersAgree
<1>3. NothingMissing'
  BY Zenon DEF AccountInv, NothingMissing
<1>4. ReaderHasStream'
  BY Zenon DEF AccountInv, ReaderHasStream
<1> QED BY <1>1, <1>2, <1>3, <1>4, Zenon DEF AccountInv

\* The open, a grant, the removals and the cancellation number no frame.
LEMMA QuietAccount ==
  ASSUME AccountInv, CreditInv',
         StreamOpen \/ Regrant \/ RegrantClosed \/ RetireDroppedWaiter \/ Settle \/ CancelStream
  PROVE  AccountInv'
<1>1. /\ call \in CallRows /\ stream \in StreamRows /\ call' \in CallRows
      /\ UNCHANGED <<channel, drops, consumer, received>>
  BY Zenon
    DEF AccountInv, CreditInv, Typed, StreamOpen, Regrant, RegrantClosed, RetireDroppedWaiter,
        Settle, CancelStream
<1>2. call'.stream_muted \in BOOLEAN
  BY <1>1, Zenon DEF CallRows
<1>3. Live /\ consumer.items => Streaming
  BY Zenon DEF AccountInv, ReaderHasStream
<1>4. CASE StreamOpen
  <2>1. PICK credit, yes : /\ yes = TRUE
                           /\ call' = [call EXCEPT !.stream_open = yes, !.credit_left = credit]
                           /\ stream' = IF Streaming
                                        THEN [stream EXCEPT !.opened = yes, !.outstanding_credit = credit]
                                        ELSE stream
    BY <1>4, Zenon DEF StreamOpen
  <2>2. call'.seq = call.seq /\ call'.live = call.live /\ call'.stream_muted = call.stream_muted
    BY <1>1, <2>1, Zenon DEF CallRows
  <2>3. stream'.present = stream.present /\ stream'.local_drops = stream.local_drops
    BY <1>1, <2>1, Zenon DEF StreamRows
  <2> QED BY <1>1, <1>2, <1>3, <2>2, <2>3, AccountKept, Zenon
<1>5. CASE Regrant
  <2>1. PICK n : n = Additional
    BY Zenon
  <2>2. /\ call' = [call EXCEPT !.credit_left = @ + n]
        /\ stream' = [stream EXCEPT !.outstanding_credit = @ + n, !.replaced = @ + n]
    BY <1>5, <2>1, Zenon DEF Regrant
  <2>3. call'.seq = call.seq /\ call'.live = call.live /\ call'.stream_muted = call.stream_muted
    BY <1>1, <2>2, Zenon DEF CallRows
  <2>4. stream'.present = stream.present /\ stream'.local_drops = stream.local_drops
    BY <1>1, <2>2, Zenon DEF StreamRows
  <2> QED BY <1>1, <1>2, <1>3, <2>3, <2>4, AccountKept, Zenon
<1>6. CASE RegrantClosed \/ RetireDroppedWaiter \/ Settle
  <2>1. stream'.present = FALSE
    BY <1>6 DEF RegrantClosed, RetireDroppedWaiter, Settle, NoStream
  <2>2. /\ call'.seq = call.seq
        /\ call'.live => call.live
        /\ call.stream_muted => call'.stream_muted
        /\ call'.live => ~consumer.items
    <3>1. CASE RegrantClosed
      <4>1. PICK yes : yes = TRUE /\ call' = [call EXCEPT !.stream_muted = yes] /\ ~consumer.items
        BY <3>1, Zenon DEF RegrantClosed
      <4>2. call'.seq = call.seq /\ call'.live = call.live /\ call'.stream_muted = yes
        BY <1>1, <4>1, Zenon DEF CallRows
      <4> QED BY <4>1, <4>2, Zenon
    <3>2. CASE RetireDroppedWaiter
      BY <3>2, Zenon DEF RetireDroppedWaiter, AccountInv, ReaderHasStream
    <3>3. CASE Settle
      <4>1. PICK no : no = FALSE /\ call' = [call EXCEPT !.live = no]
        BY <3>3, Zenon DEF Settle
      <4>2. call'.seq = call.seq /\ call'.live = no /\ call'.stream_muted = call.stream_muted
        BY <1>1, <4>1, Zenon DEF CallRows
      <4> QED BY <4>1, <4>2, Zenon
    <3> QED BY <1>6, <3>1, <3>2, <3>3, Zenon
  <2> QED BY <1>1, <1>2, <2>1, <2>2, AccountKept, Zenon
<1>7. CASE CancelStream
  <2>1. PICK yes : yes = TRUE /\ call' = [call EXCEPT !.stream_muted = yes] /\ stream' = stream
    BY <1>7, Zenon DEF CancelStream
  <2>2. call'.seq = call.seq /\ call'.live = call.live /\ call'.stream_muted = yes
    BY <1>1, <2>1, Zenon DEF CallRows
  <2> QED BY <1>1, <1>2, <1>3, <2>1, <2>2, AccountKept, Zenon
<1> QED BY <1>4, <1>5, <1>6, <1>7, Zenon

\* A frame the open channel takes or drops is counted on both sides.
LEMMA DataAccount ==
  ASSUME AccountInv, CreditInv', NEW class \in Classes, NEW more \in BOOLEAN, NEW dropped \in Nat,
         StreamData(class, more, dropped)
  PROVE  AccountInv'
<1>1. /\ call \in CallRows /\ stream \in StreamRows /\ channel \in Seq(FrameRows)
      /\ drops \in Nat /\ received \in Nat /\ CreditInv
  BY Zenon DEF AccountInv, CreditInv, Typed
<1>2. call'.seq = call.seq + 1 /\ call'.live = call.live /\ call'.stream_muted = call.stream_muted
  BY <1>1, ReceivedSeq DEF StreamData
<1>3. /\ consumer' = consumer /\ received' = received
      /\ consumer.items /\ ~call.stream_muted /\ stream.present
  BY Zenon DEF StreamData
<1>4. /\ call.seq = received + Len(channel) + drops /\ stream.local_drops = drops
      /\ consumer.terminal
  BY <1>3, Zenon DEF AccountInv, NothingMissing, CountersAgree, ReaderHasStream
<1>5. Len(channel) \in Nat /\ call.seq \in Nat
  BY <1>1 DEF CallRows
<1>6. PICK s : s = Spent(class)
  BY Zenon
<1>7. s \in StreamRows /\ s.present = stream.present /\ s.local_drops = drops
  BY <1>1, <1>4, <1>6, SpentDrops, Zenon
<1>8. CASE Accept(class, dropped)
  <2>1. PICK f : f = Frame(class, dropped)
    BY Zenon
  <2>2. /\ f \in FrameRows
        /\ f.seq = call.seq /\ f.dropped = dropped + drops /\ f.wire = dropped
    BY <1>1, <1>4, <1>5, <2>1 DEF Frame, FrameRows
  <2>3. channel' = Append(channel, f) /\ stream' = [s EXCEPT !.accepted = @ + 1] /\ drops' = drops
    BY <1>6, <1>8, <2>1, Zenon DEF Accept
  <2>4. Len(channel') = Len(channel) + 1
    BY <1>1, <2>2, <2>3
  <2>5. stream'.present = stream.present /\ stream'.local_drops = drops
    BY <1>7, <2>3, Zenon DEF StreamRows
  <2>6. FramesCount'
    <3> SUFFICES ASSUME NEW i \in 1..Len(channel')
                 PROVE  channel'[i].seq = received' + (i - 1) + channel'[i].dropped - channel'[i].wire
      BY Zenon DEF FramesCount
    <3>1. CASE i \in 1..Len(channel)
      <4>1. channel'[i] = channel[i]
        BY <1>1, <2>2, <2>3, <3>1
      <4> QED BY <1>3, <3>1, <4>1, Zenon DEF AccountInv, FramesCount
    <3>2. CASE i = Len(channel) + 1
      <4>1. channel'[i] = f
        BY <1>1, <2>2, <2>3, <3>2
      <4> QED BY <1>1, <1>3, <1>4, <1>5, <2>2, <3>2, <4>1
    <3> QED BY <1>5, <2>4, <3>1, <3>2
  <2>7. CountersAgree' /\ ReaderHasStream'
    BY <1>2, <1>3, <1>4, <2>3, <2>5, Zenon DEF CountersAgree, ReaderHasStream
  <2>8. NothingMissing'
    BY <1>1, <1>2, <1>3, <1>4, <1>5, <2>3, <2>4 DEF NothingMissing
  <2> QED BY <2>6, <2>7, <2>8, Zenon DEF AccountInv
<1>9. CASE DropLocally(class)
  <2>1. stream' = [s EXCEPT !.local_drops = @ + 1] /\ drops' = drops + 1 /\ channel' = channel
    BY <1>6, <1>9, Zenon DEF DropLocally
  <2>2. stream'.present = stream.present /\ stream'.local_drops = drops + 1
    BY <1>7, <2>1, Zenon DEF StreamRows
  <2>3. FramesCount'
    BY <1>3, <2>1, Zenon DEF AccountInv, FramesCount
  <2>4. CountersAgree' /\ ReaderHasStream'
    BY <1>2, <1>3, <1>4, <2>1, <2>2, Zenon DEF CountersAgree, ReaderHasStream
  <2>5. NothingMissing'
    BY <1>1, <1>2, <1>3, <1>4, <1>5, <2>1 DEF NothingMissing
  <2> QED BY <2>3, <2>4, <2>5, Zenon DEF AccountInv
<1> QED BY <1>8, <1>9, Zenon DEF StreamData

\* A frame the pump does not forward has no reader, or a muted stream.
LEMMA UnreadAccount ==
  ASSUME AccountInv, CreditInv', NEW class \in Classes, NEW more \in BOOLEAN, NEW dropped \in Nat,
         StreamDataMuted(class, more, dropped) \/ StreamDataClosed(class, more, dropped)
  PROVE  AccountInv'
<1>1. /\ stream \in StreamRows /\ CreditInv
      /\ channel' = channel /\ received' = received /\ consumer' = consumer
      /\ drops \in Nat
  BY Zenon DEF AccountInv, CreditInv, Typed, StreamDataMuted, StreamDataClosed
<1>2. PICK c : c = Received(class, more, dropped)
  BY Zenon
<1>3. c \in CallRows /\ c.live = call.live /\ c.stream_muted = call.stream_muted
  BY <1>1, <1>2, ReceivedSeq, ReceivedCall DEF StreamDataMuted, StreamDataClosed
<1>4. FramesCount'
  BY <1>1, Zenon DEF AccountInv, FramesCount
<1>5. CASE StreamDataMuted(class, more, dropped)
  <2>1. /\ call' = c /\ stream' = stream
        /\ drops' = drops /\ Live /\ (call.stream_muted \/ ~Streaming)
    BY <1>2, <1>5, Zenon DEF StreamDataMuted, Admits
  <2>2. CountersAgree' /\ NothingMissing' /\ ReaderHasStream'
    BY <1>1, <1>3, <2>1, Zenon DEF AccountInv, CountersAgree, NothingMissing, ReaderHasStream
  <2> QED BY <1>4, <2>2, Zenon DEF AccountInv
<1>6. CASE StreamDataClosed(class, more, dropped)
  <2>1. ~consumer.items /\ Streaming
    BY <1>6, Zenon DEF StreamDataClosed
  <2>2. NothingMissing' /\ ReaderHasStream'
    BY <1>1, <2>1, Zenon DEF NothingMissing, ReaderHasStream
  <2>3. CountersAgree'
    <3>1. CASE HasSlot(class)
      <4>1. stream' = NoStream
        BY <1>6, <3>1, Zenon DEF StreamDataClosed
      <4> QED BY <4>1, Zenon DEF CountersAgree, NoStream
    <3>2. CASE ~HasSlot(class)
      <4>1. stream' = [stream EXCEPT !.local_drops = @ + 1] /\ drops' = drops + 1
        BY <1>6, <3>2, Zenon DEF StreamDataClosed
      <4>2. stream'.local_drops = drops + 1
        BY <1>1, <2>1, <4>1, Zenon DEF StreamRows, AccountInv, CountersAgree
      <4> QED BY <4>1, <4>2, Zenon DEF CountersAgree
    <3> QED BY <3>1, <3>2, Zenon
  <2> QED BY <1>4, <2>2, <2>3, Zenon DEF AccountInv
<1> QED BY <1>5, <1>6, Zenon

\* What the consumer takes it counts; what it throws away it no longer reads.
LEMMA ConsumerAccount ==
  ASSUME AccountInv, CreditInv', NextItem \/ IntoPending \/ DropCall
  PROVE  AccountInv'
<1>1. /\ call \in CallRows /\ channel \in Seq(FrameRows) /\ drops \in Nat /\ received \in Nat
      /\ consumer \in [items : BOOLEAN, terminal : BOOLEAN]
      /\ UNCHANGED <<call, stream, drops>>
  BY Zenon DEF AccountInv, CreditInv, Typed, NextItem, IntoPending, DropCall
<1>2. CountersAgree'
  BY <1>1, Zenon DEF AccountInv, CountersAgree
<1>3. CASE NextItem
  <2>1. /\ channel # <<>> /\ channel' = Tail(channel)
        /\ received' = received + 1 /\ consumer' = consumer
    BY <1>3, Zenon DEF NextItem
  <2>2. Len(channel) \in Nat /\ Len(channel) > 0 /\ Len(channel') = Len(channel) - 1
    BY <1>1, <2>1
  <2>3. FramesCount'
    <3> SUFFICES ASSUME NEW i \in 1..Len(channel')
                 PROVE  channel'[i].seq = received' + (i - 1) + channel'[i].dropped - channel'[i].wire
      BY Zenon DEF FramesCount
    <3>1. i + 1 \in 1..Len(channel) /\ channel'[i] = channel[i + 1] /\ i \in Int
      BY <1>1, <2>1, <2>2
    <3>2. PICK f \in FrameRows : f = channel[i + 1]
      BY <1>1, <3>1
    <3>3. f.seq = received + ((i + 1) - 1) + f.dropped - f.wire
      BY <3>1, <3>2, Zenon DEF AccountInv, FramesCount
    <3>4. f.dropped \in Nat /\ f.wire \in Nat
      BY <3>2, Zenon DEF FrameRows
    <3> QED BY <1>1, <2>1, <3>1, <3>2, <3>3, <3>4
  <2>4. NothingMissing'
    BY <1>1, <2>1, <2>2 DEF AccountInv, NothingMissing
  <2>5. ReaderHasStream'
    BY <1>1, <2>1, Zenon DEF AccountInv, ReaderHasStream
  <2> QED BY <1>2, <2>3, <2>4, <2>5, Zenon DEF AccountInv
<1>4. CASE IntoPending \/ DropCall
  <2>1. channel' = <<>> /\ Len(channel') = 0
    BY <1>4, Zenon DEF IntoPending, DropCall
  <2>2. consumer'.items = FALSE
    BY <1>1, <1>4 DEF IntoPending, DropCall
  <2>3. FramesCount'
    BY <2>1 DEF FramesCount
  <2>4. NothingMissing' /\ ReaderHasStream'
    BY <2>2, Zenon DEF NothingMissing, ReaderHasStream
  <2> QED BY <1>2, <2>3, <2>4, Zenon DEF AccountInv
<1> QED BY <1>3, <1>4, Zenon

\* Every step preserves the accounts.
LEMMA NextAccount == AccountInv /\ [CreditNext]_creditVars => AccountInv'
<1> SUFFICES ASSUME AccountInv, [CreditNext]_creditVars PROVE AccountInv'
  BY Zenon
<1>1. CreditInv'
  BY NextCreditInv, Zenon DEF AccountInv
<1>2. CASE Worker
  <2>1. CASE StreamOpen
    BY <1>1, <2>1, QuietAccount, Zenon
  <2>2. ASSUME NEW class \in Classes, NEW more \in BOOLEAN, NEW dropped \in 0..MaxWireDrops,
               \/ StreamData(class, more, dropped)
               \/ StreamDataMuted(class, more, dropped)
               \/ StreamDataClosed(class, more, dropped)
        PROVE  AccountInv'
    <3>1. dropped \in Nat
      OBVIOUS
    <3> QED BY <1>1, <2>2, <3>1, DataAccount, UnreadAccount, Zenon
  <2> QED BY <1>2, <2>1, <2>2, Zenon DEF Worker
<1>3. CASE Tick \/ RetireDroppedWaiter \/ Settle
  BY <1>1, <1>3, QuietAccount, Zenon DEF Tick
<1>4. CASE Consumer
  BY <1>1, <1>4, ConsumerAccount, QuietAccount, Zenon DEF Consumer
<1>5. CASE UNCHANGED creditVars
  BY <1>1, <1>5, Zenon
    DEF creditVars, AccountInv, FramesCount, CountersAgree, NothingMissing, ReaderHasStream
<1> QED BY <1>2, <1>3, <1>4, <1>5, Zenon DEF CreditNext

\* A consumer can account for every frame that reached the host, whatever the
\* order of frames, grants, reads, drops and the end of the call.
THEOREM FramesAlwaysAccounted == CreditSpec => []EveryFrameAccounted
<1>1. CreditInit => AccountInv
  <2> SUFFICES ASSUME CreditInit PROVE AccountInv
    BY Zenon
  <2>1. Len(channel) = 0 /\ drops = 0 /\ received = 0
    BY Zenon DEF CreditInit
  <2>2. FramesCount
    BY <2>1 DEF FramesCount
  <2>3. CountersAgree /\ ReaderHasStream
    BY <2>1, Zenon DEF CreditInit, CountersAgree, ReaderHasStream, NewStream
  <2>4. NothingMissing
    BY <2>1 DEF CreditInit, NothingMissing
  <2> QED BY <2>2, <2>3, <2>4, InitCreditInv, Zenon DEF AccountInv
<1>2. AccountInv => EveryFrameAccounted
  BY Zenon DEF AccountInv, FramesCount, NothingMissing, EveryFrameAccounted
<1> QED BY <1>1, <1>2, NextAccount, PTL DEF CreditSpec

=============================================================================
