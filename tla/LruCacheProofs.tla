--------------------------- MODULE LruCacheProofs ---------------------------
(***************************************************************************)
(* Proofs about LruCache, for any header values, endpoints, capacity and   *)
(* addresses: map and list agree, and together they implement LruSpec.     *)
(***************************************************************************)
EXTENDS LruCache, FiniteSetTheorems, SequenceTheorems, WellFoundedInduction, TLAPS

-----------------------------------------------------------------------------
(***************************************************************************)
(* The inductive invariant.  There is a sequence of different nodes that   *)
(* head, tail and the links of the list agree with; the map leads to the   *)
(* nodes of it and to no other, each under its own key; and links of a     *)
(* node that is not in it, which is garbage, are nil.                      *)
(***************************************************************************)
Lists == [head : Nodes \cup {Nil}, tail : Nodes \cup {Nil},
          prev : [Nodes -> Nodes \cup {Nil}], next : [Nodes -> Nodes \cup {Nil}]]

Members(s) == {s[i] : i \in 1..Len(s)}

Chain(s, l) ==
    /\ s \in Seq(Nodes)
    /\ \A i, j \in 1..Len(s) : s[i] = s[j] => i = j
    /\ l.head = IF Len(s) = 0 THEN Nil ELSE s[1]
    /\ l.tail = IF Len(s) = 0 THEN Nil ELSE s[Len(s)]
    /\ \A i \in 1..Len(s) : /\ l.prev[s[i]] = IF i = 1 THEN Nil ELSE s[i - 1]
                            /\ l.next[s[i]] = IF i = Len(s) THEN Nil ELSE s[i + 1]

Loose(s, l) == \A n \in Nodes \ Members(s) : l.prev[n] = Nil /\ l.next[n] = Nil

Holds(s, b, contents) ==
    /\ Members(s) = {b[k] : k \in Keys} \ {Nil}
    /\ \A k \in Keys : b[k] # Nil => contents[b[k]].key = k

CacheInv(s) == /\ TypeOK
               /\ Chain(s, list) /\ Loose(s, list) /\ Holds(s, buf, node)
               /\ Len(s) <= Capacity
LruInv == \E s : CacheInv(s)

(* A sequence without its place j, and one with a new first element. *)
Less(s, j) == [i \in 1..(Len(s) - 1) |-> IF i < j THEN s[i] ELSE s[i + 1]]
More(e, s) == [i \in 1..(Len(s) + 1) |-> IF i = 1 THEN e ELSE s[i - 1]]

-----------------------------------------------------------------------------
(* A nonempty set of numbers has a least one. *)
LEMMA LeastNumber ==
    ASSUME NEW T, T \subseteq Nat, T # {}
    PROVE  \E x \in T : \A y \in T : x <= y
<1> DEFINE D == {1..x : x \in T}
<1>1. D \subseteq FiniteSubsetsOf(Nat) /\ D # {}
  <2>1. \A x \in Nat : IsFiniteSet(1..x) /\ 1..x \subseteq Nat
    BY FS_Interval
  <2>2. QED
    BY <2>1 DEF FiniteSubsetsOf
<1>2. PICK d \in D : \A e \in D : ~(<<e, d>> \in StrictSubsetOrdering(Nat))
  <2>1. IsWellFoundedOn(StrictSubsetOrdering(Nat), FiniteSubsetsOf(Nat))
    BY FS_StrictSubsetOrderingWellFounded
  <2> HIDE DEF D
  <2>2. QED
    BY <1>1, <2>1, WFMin
<1>3. PICK x \in T : d = 1..x
  OBVIOUS
<1>4. \A y \in T : x <= y
  <2> SUFFICES ASSUME NEW y \in T, y < x PROVE FALSE
    OBVIOUS
  <2>1. 1..y \subseteq 1..x /\ 1..y # 1..x
    <3>1. x \in 1..x /\ x \notin 1..y
      OBVIOUS
    <3>2. QED
      BY <3>1
  <2>2. 1..y \in SUBSET Nat /\ 1..x \in SUBSET Nat
    OBVIOUS
  <2>3. <<1..y, 1..x>> \in StrictSubsetOrdering(Nat)
    BY <2>1, <2>2 DEF StrictSubsetOrdering
  <2>4. QED
    BY <1>2, <1>3, <2>3
<1>5. QED
  BY <1>4

LEMMA LessFacts ==
    ASSUME NEW S, NEW s \in Seq(S), NEW j \in 1..Len(s)
    PROVE  /\ Less(s, j) \in Seq(S) /\ Len(Less(s, j)) = Len(s) - 1 /\ Len(s) - 1 \in Nat
           /\ \A i \in 1..(Len(s) - 1) :
                Less(s, j)[i] = (IF i < j THEN s[i] ELSE s[i + 1])
<1>1. Len(s) \in Nat /\ Len(s) - 1 \in Nat
  OBVIOUS
<1>2. \A i \in 1..(Len(s) - 1) : s[i] \in S /\ s[i + 1] \in S
  BY <1>1
<1>3. Less(s, j) \in [1..(Len(s) - 1) -> S]
  BY <1>2 DEF Less
<1>4. Less(s, j) \in Seq(S) /\ Len(Less(s, j)) = Len(s) - 1
  BY <1>1, <1>3
<1>5. \A i \in 1..(Len(s) - 1) : Less(s, j)[i] = (IF i < j THEN s[i] ELSE s[i + 1])
  BY <1>1 DEF Less
<1>6. QED
  BY <1>1, <1>4, <1>5

LEMMA MoreFacts ==
    ASSUME NEW S, NEW s \in Seq(S), NEW e \in S
    PROVE  /\ More(e, s) \in Seq(S) /\ Len(More(e, s)) = Len(s) + 1 /\ Len(s) \in Nat
           /\ \A i \in 1..(Len(s) + 1) :
                More(e, s)[i] = (IF i = 1 THEN e ELSE s[i - 1])
<1>1. Len(s) \in Nat /\ Len(s) + 1 \in Nat
  OBVIOUS
<1>2. \A i \in 1..(Len(s) + 1) : i # 1 => s[i - 1] \in S
  BY <1>1
<1>3. More(e, s) \in [1..(Len(s) + 1) -> S]
  BY <1>2 DEF More
<1>4. More(e, s) \in Seq(S) /\ Len(More(e, s)) = Len(s) + 1
  BY <1>1, <1>3
<1>5. \A i \in 1..(Len(s) + 1) : More(e, s)[i] = (IF i = 1 THEN e ELSE s[i - 1])
  BY <1>1 DEF More
<1>6. QED
  BY <1>1, <1>4, <1>5

(* What becomes of the pointers. *)
LEMMA RemoveShape ==
    ASSUME NEW l \in Lists, NEW n \in Nodes
    PROVE  LET r == remove(l, n) IN
           /\ r \in Lists
           /\ r.head = IF l.head = n THEN l.next[n] ELSE l.head
           /\ r.tail = IF l.tail = n THEN l.prev[n] ELSE l.tail
           /\ \A m \in Nodes :
                /\ r.next[m] = IF m = l.prev[n] THEN l.next[n] ELSE l.next[m]
                /\ r.prev[m] = IF m = l.next[n] THEN l.prev[n] ELSE l.prev[m]
<1> DEFINE p == l.prev[n]
           x == l.next[n]
           newNext == IF p # Nil THEN [l.next EXCEPT ![p] = x] ELSE l.next
           newPrev == IF x # Nil THEN [l.prev EXCEPT ![x] = p] ELSE l.prev
           r == remove(l, n)
<1>1. /\ p \in Nodes \cup {Nil} /\ x \in Nodes \cup {Nil} /\ Nil \notin Nodes
      /\ l.head \in Nodes \cup {Nil} /\ l.tail \in Nodes \cup {Nil}
      /\ l.next \in [Nodes -> Nodes \cup {Nil}] /\ l.prev \in [Nodes -> Nodes \cup {Nil}]
  BY NodesAssumption DEF Lists
<1>2. r = [head |-> IF l.head = n THEN x ELSE l.head, tail |-> IF l.tail = n THEN p ELSE l.tail,
           next |-> newNext, prev |-> newPrev]
  BY DEF remove
<1>3. /\ newNext \in [Nodes -> Nodes \cup {Nil}]
      /\ \A m \in Nodes : newNext[m] = IF m = p THEN x ELSE l.next[m]
  <2> HIDE DEF p, x
  <2>1. QED
    BY <1>1
<1>4. /\ newPrev \in [Nodes -> Nodes \cup {Nil}]
      /\ \A m \in Nodes : newPrev[m] = IF m = x THEN p ELSE l.prev[m]
  <2> HIDE DEF p, x
  <2>1. QED
    BY <1>1
<1> HIDE DEF newNext, newPrev, r
<1>5. r \in Lists
  BY <1>1, <1>2, <1>3, <1>4 DEF Lists
<1>6. /\ r.head = IF l.head = n THEN x ELSE l.head
      /\ r.tail = IF l.tail = n THEN p ELSE l.tail
      /\ r.next = newNext /\ r.prev = newPrev
  BY <1>2
<1>7. QED
  BY <1>3, <1>4, <1>5, <1>6 DEF r

LEMMA MoveShape ==
    ASSUME NEW l \in Lists, NEW n \in Nodes, l.head # n
    PROVE  LET r == remove(l, n)
               q == moveToHead(l, n) IN
           /\ q \in Lists
           /\ q.head = n
           /\ q.tail = IF r.tail = Nil THEN n ELSE r.tail
           /\ \A m \in Nodes :
                /\ q.next[m] = IF m = n THEN r.head ELSE r.next[m]
                /\ q.prev[m] = IF m = r.head THEN n ELSE IF m = n THEN Nil ELSE r.prev[m]
<1> DEFINE r == remove(l, n)
           cleared == [r.prev EXCEPT ![n] = Nil]
           newNext == [r.next EXCEPT ![n] = r.head]
           newPrev == IF r.head # Nil THEN [cleared EXCEPT ![r.head] = n] ELSE cleared
           newTail == IF r.tail = Nil THEN n ELSE r.tail
           q == moveToHead(l, n)
<1>1. r \in Lists
  BY RemoveShape
<1>2. q = [head |-> n, tail |-> newTail, next |-> newNext, prev |-> newPrev]
  BY DEF moveToHead
<1> HIDE DEF r
<1>3. /\ r.head \in Nodes \cup {Nil} /\ r.tail \in Nodes \cup {Nil} /\ Nil \notin Nodes
      /\ r.next \in [Nodes -> Nodes \cup {Nil}] /\ r.prev \in [Nodes -> Nodes \cup {Nil}]
  BY <1>1, NodesAssumption DEF Lists
<1>4. /\ newNext \in [Nodes -> Nodes \cup {Nil}]
      /\ \A m \in Nodes : newNext[m] = IF m = n THEN r.head ELSE r.next[m]
  BY <1>3
<1>5. /\ cleared \in [Nodes -> Nodes \cup {Nil}]
      /\ \A m \in Nodes : cleared[m] = IF m = n THEN Nil ELSE r.prev[m]
  BY <1>3
<1> HIDE DEF cleared
<1>6. /\ newPrev \in [Nodes -> Nodes \cup {Nil}]
      /\ \A m \in Nodes : newPrev[m] = IF m = r.head THEN n ELSE cleared[m]
  BY <1>3, <1>5
<1>7. newTail \in Nodes \cup {Nil}
  BY <1>3
<1> HIDE DEF newNext, newPrev, newTail, q
<1>8. q \in Lists
  BY <1>2, <1>4, <1>6, <1>7 DEF Lists
<1>9. q.head = n /\ q.tail = newTail /\ q.next = newNext /\ q.prev = newPrev
  BY <1>2
<1>10. QED
  BY <1>4, <1>5, <1>6, <1>8, <1>9 DEF q, newTail, r

(* A node of the list leaves it, and no link of the others is touched. *)
LEMMA RemoveChain ==
    ASSUME NEW l \in Lists, NEW s, Chain(s, l), NEW j \in 1..Len(s)
    PROVE  /\ Chain(Less(s, j), remove(l, s[j]))
           /\ Members(Less(s, j)) = Members(s) \ {s[j]}
           /\ \A m \in Nodes \ Members(s) : /\ remove(l, s[j]).prev[m] = l.prev[m]
                                            /\ remove(l, s[j]).next[m] = l.next[m]
<1> DEFINE n == Len(s)
           t == Less(s, j)
           r == remove(l, s[j])
           p == l.prev[s[j]]
           x == l.next[s[j]]
<1>1. /\ s \in Seq(Nodes) /\ n \in Nat /\ j \in 1..n
      /\ \A i \in 1..n : s[i] \in Nodes
      /\ \A i, k \in 1..n : s[i] = s[k] => i = k
  BY DEF Chain
<1>2. /\ l.head = s[1] /\ l.tail = s[n]
      /\ \A i \in 1..n : /\ l.prev[s[i]] = IF i = 1 THEN Nil ELSE s[i - 1]
                         /\ l.next[s[i]] = IF i = n THEN Nil ELSE s[i + 1]
  BY <1>1 DEF Chain
<1>3. p = (IF j = 1 THEN Nil ELSE s[j - 1]) /\ x = (IF j = n THEN Nil ELSE s[j + 1])
  BY <1>1, <1>2
<1>4. Nil \notin Nodes
  BY NodesAssumption
<1>5. /\ r.head = IF l.head = s[j] THEN x ELSE l.head
      /\ r.tail = IF l.tail = s[j] THEN p ELSE l.tail
      /\ \A m \in Nodes : /\ r.next[m] = IF m = p THEN x ELSE l.next[m]
                          /\ r.prev[m] = IF m = x THEN p ELSE l.prev[m]
  <2>1. s[j] \in Nodes
    BY <1>1
  <2>2. QED
    BY <2>1, RemoveShape
<1>6. /\ t \in Seq(Nodes) /\ Len(t) = n - 1
      /\ \A i \in 1..(n - 1) : t[i] = IF i < j THEN s[i] ELSE s[i + 1]
  BY <1>1, LessFacts
<1> HIDE DEF n, t, r, p, x
<1>7. \A i, k \in 1..(n - 1) : t[i] = t[k] => i = k
  <2> SUFFICES ASSUME NEW i \in 1..(n - 1), NEW k \in 1..(n - 1), t[i] = t[k] PROVE i = k
    OBVIOUS
  <2>1. i \in 1..n /\ i + 1 \in 1..n /\ k \in 1..n /\ k + 1 \in 1..n
    BY <1>1
  <2>2. t[i] = (IF i < j THEN s[i] ELSE s[i + 1]) /\ t[k] = (IF k < j THEN s[k] ELSE s[k + 1])
    BY <1>6
  <2>3. CASE i < j /\ k < j
    BY <1>1, <2>1, <2>2, <2>3
  <2>4. CASE i < j /\ ~(k < j)
    <3>1. s[i] = s[k + 1]
      BY <2>2, <2>4
    <3>2. i = k + 1
      BY <1>1, <2>1, <3>1
    <3>3. QED
      BY <1>1, <2>4, <3>2
  <2>5. CASE ~(i < j) /\ k < j
    <3>1. s[i + 1] = s[k]
      BY <2>2, <2>5
    <3>2. i + 1 = k
      BY <1>1, <2>1, <3>1
    <3>3. QED
      BY <1>1, <2>5, <3>2
  <2>6. CASE ~(i < j) /\ ~(k < j)
    <3>1. s[i + 1] = s[k + 1]
      BY <2>2, <2>6
    <3>2. i + 1 = k + 1
      BY <1>1, <2>1, <3>1
    <3>3. QED
      BY <3>2
  <2>7. QED
    BY <2>3, <2>4, <2>5, <2>6
<1>8. r.head = IF n - 1 = 0 THEN Nil ELSE t[1]
  <2>1. CASE j = 1
    <3>1. r.head = x
      BY <1>2, <1>5, <2>1
    <3>2. n # 1 => t[1] = s[2]
      BY <1>1, <1>6, <2>1
    <3>3. QED
      BY <1>1, <1>3, <2>1, <3>1, <3>2
  <2>2. CASE j # 1
    <3>1. 1 \in 1..n /\ 1 \in 1..(n - 1) /\ 1 < j
      BY <1>1, <2>2
    <3>2. r.head = s[1] /\ t[1] = s[1]
      BY <1>1, <1>2, <1>5, <1>6, <2>2, <3>1
    <3>3. QED
      BY <3>1, <3>2
  <2>3. QED
    BY <2>1, <2>2
<1>9. r.tail = IF n - 1 = 0 THEN Nil ELSE t[n - 1]
  <2>1. CASE j = n
    <3>1. r.tail = p
      BY <1>2, <1>5, <2>1
    <3>2. n # 1 => t[n - 1] = s[n - 1]
      BY <1>1, <1>6, <2>1
    <3>3. QED
      BY <1>1, <1>3, <2>1, <3>1, <3>2
  <2>2. CASE j # n
    <3>1. n \in 1..n /\ n - 1 \in 1..(n - 1) /\ ~(n - 1 < j) /\ (n - 1) + 1 = n
      BY <1>1, <2>2
    <3>2. r.tail = s[n] /\ t[n - 1] = s[n]
      BY <1>1, <1>2, <1>5, <1>6, <2>2, <3>1
    <3>3. QED
      BY <3>1, <3>2
  <2>3. QED
    BY <2>1, <2>2
<1>10. ASSUME NEW i \in 1..(n - 1)
       PROVE  /\ r.prev[t[i]] = IF i = 1 THEN Nil ELSE t[i - 1]
              /\ r.next[t[i]] = IF i = n - 1 THEN Nil ELSE t[i + 1]
  <2>1. i \in 1..n /\ i + 1 \in 1..n
    BY <1>1
  <2>2. CASE i < j
    <3>1. t[i] = s[i] /\ s[i] \in Nodes
      BY <1>1, <1>6, <2>1, <2>2
    <3>2. s[i] # x
      BY <1>1, <1>3, <1>4, <2>1, <2>2
    <3>3. i # 1 => t[i - 1] = s[i - 1]
      BY <1>1, <1>6, <2>1, <2>2
    <3>4. r.prev[t[i]] = IF i = 1 THEN Nil ELSE t[i - 1]
      BY <1>2, <1>5, <2>1, <3>1, <3>2, <3>3
    <3>5. CASE i = j - 1
      <4>1. s[i] = p
        BY <1>1, <1>3, <2>1, <3>5
      <4>2. r.next[t[i]] = x
        BY <1>5, <3>1, <4>1
      <4>3. i # n - 1 => t[i + 1] = s[j + 1]
        BY <1>1, <1>6, <2>1, <3>5
      <4>4. j = n <=> i = n - 1
        BY <1>1, <3>5
      <4>5. QED
        BY <1>3, <3>4, <4>2, <4>3, <4>4
    <3>6. CASE i # j - 1
      <4>1. s[i] # p
        BY <1>1, <1>3, <1>4, <2>1, <2>2, <3>6
      <4>2. i # n - 1 /\ i # n /\ i + 1 \in 1..(n - 1) /\ i + 1 < j
        BY <1>1, <2>1, <2>2, <3>6
      <4>3. r.next[t[i]] = s[i + 1]
        BY <1>2, <1>5, <2>1, <3>1, <4>1, <4>2
      <4>t. t[i + 1] = s[i + 1]
        BY <1>6, <4>2
      <4>4. QED
        BY <3>4, <4>2, <4>3, <4>t
    <3>7. QED
      BY <3>5, <3>6
  <2>3. CASE ~(i < j)
    <3>1. t[i] = s[i + 1] /\ s[i + 1] \in Nodes
      BY <1>1, <1>6, <2>1, <2>3
    <3>2. s[i + 1] # p
      BY <1>1, <1>3, <1>4, <2>1, <2>3
    <3>3. i # n - 1 => t[i + 1] = s[(i + 1) + 1]
      BY <1>1, <1>6, <2>1, <2>3
    <3>4. i = n - 1 <=> i + 1 = n
      BY <1>1
    <3>5. r.next[t[i]] = IF i = n - 1 THEN Nil ELSE t[i + 1]
      <4>1. r.next[t[i]] = l.next[s[i + 1]]
        BY <1>5, <3>1, <3>2
      <4>2. l.next[s[i + 1]] = IF i + 1 = n THEN Nil ELSE s[(i + 1) + 1]
        BY <1>2, <2>1
      <4>3. QED
        BY ONLY <4>1, <4>2, <3>3, <3>4
    <3>6. CASE i = j
      <4>1. s[i + 1] = x
        BY <1>1, <1>3, <2>1, <3>6
      <4>2. r.prev[t[i]] = p
        BY <1>5, <3>1, <4>1
      <4>3. i # 1 => t[i - 1] = s[i - 1]
        BY <1>1, <1>6, <2>1, <3>6
      <4>4. QED
        BY <1>3, <3>5, <3>6, <4>2, <4>3
    <3>7. CASE i # j
      <4>1. s[i + 1] # x
        BY <1>1, <1>3, <1>4, <2>1, <2>3, <3>7
      <4>2. i # 1 /\ i + 1 # 1 /\ i - 1 \in 1..(n - 1) /\ ~(i - 1 < j)
            /\ (i - 1) + 1 = i /\ (i + 1) - 1 = i
        BY <1>1, <2>1, <2>3, <3>7
      <4>3. t[i - 1] = s[i]
        BY <1>6, <4>2
      <4>4. r.prev[t[i]] = l.prev[s[i + 1]]
        BY <1>5, <3>1, <4>1
      <4>5. l.prev[s[i + 1]] = s[i]
        BY <1>2, <2>1, <4>2
      <4>6. QED
        BY <3>5, <4>2, <4>3, <4>4, <4>5
    <3>8. QED
      BY <3>6, <3>7
  <2>4. QED
    BY <2>2, <2>3
<1>11. Chain(t, r)
  BY <1>6, <1>7, <1>8, <1>9, <1>10 DEF Chain
<1>12. Members(t) = Members(s) \ {s[j]}
  <2>1. ASSUME NEW i \in 1..(n - 1) PROVE \E k \in 1..n : t[i] = s[k] /\ k # j
    <3>1. i \in 1..n /\ i + 1 \in 1..n
      BY <1>1
    <3>2. CASE i < j
      BY <1>1, <1>6, <3>1, <3>2
    <3>3. CASE ~(i < j)
      <4>1. t[i] = s[i + 1] /\ i + 1 # j
        BY <1>1, <1>6, <3>3
      <4>2. QED
        BY <3>1, <4>1
    <3>4. QED
      BY <3>2, <3>3
  <2>2. ASSUME NEW k \in 1..n, k # j PROVE \E i \in 1..(n - 1) : t[i] = s[k]
    <3>1. CASE k < j
      <4>1. k \in 1..(n - 1) /\ t[k] = s[k]
        BY <1>1, <1>6, <3>1
      <4>2. QED
        BY <4>1
    <3>2. CASE ~(k < j)
      <4>1. k - 1 \in 1..(n - 1) /\ ~(k - 1 < j) /\ (k - 1) + 1 = k
        BY <1>1, <2>2, <3>2
      <4>2. t[k - 1] = s[k]
        BY <1>6, <4>1
      <4>3. QED
        BY <4>1, <4>2
    <3>3. QED
      BY <3>1, <3>2
  <2>3. Members(t) = {t[i] : i \in 1..(n - 1)} /\ Members(s) = {s[k] : k \in 1..n}
    BY <1>6 DEF Members, n
  <2>4. ASSUME NEW m \in Members(t) PROVE m \in Members(s) \ {s[j]}
    <3>1. PICK i \in 1..(n - 1) : m = t[i]
      BY <2>3
    <3>2. PICK k \in 1..n : t[i] = s[k] /\ k # j
      BY <2>1
    <3>3. QED
      BY <1>1, <2>3, <3>1, <3>2
  <2>5. ASSUME NEW m \in Members(s) \ {s[j]} PROVE m \in Members(t)
    <3>1. PICK k \in 1..n : m = s[k] /\ k # j
      BY <2>3
    <3>2. PICK i \in 1..(n - 1) : t[i] = s[k]
      BY <2>2, <3>1
    <3>3. QED
      BY <2>3, <3>1, <3>2
  <2>6. QED
    BY <2>4, <2>5
<1>13. \A m \in Nodes \ Members(s) : r.prev[m] = l.prev[m] /\ r.next[m] = l.next[m]
  <2> SUFFICES ASSUME NEW m \in Nodes \ Members(s)
               PROVE  r.prev[m] = l.prev[m] /\ r.next[m] = l.next[m]
    OBVIOUS
  <2>1. \A i \in 1..n : m # s[i]
    BY DEF Members, n
  <2>2. m # p /\ m # x
    BY <1>1, <1>3, <1>4, <2>1
  <2>3. QED
    BY <1>5, <2>2
<1>14. QED
  BY <1>11, <1>12, <1>13 DEF t, r

Pushed(q, r, n) ==
    /\ q.head = n
    /\ q.tail = IF r.tail = Nil THEN n ELSE r.tail
    /\ \A m \in Nodes :
         /\ q.next[m] = IF m = n THEN r.head ELSE r.next[m]
         /\ q.prev[m] = IF m = r.head THEN n ELSE IF m = n THEN Nil ELSE r.prev[m]

(* A node that was not in the list becomes its head. *)
LEMMA PushChain ==
    ASSUME NEW r, NEW s, Chain(s, r), NEW n \in Nodes \ Members(s), NEW q, Pushed(q, r, n)
    PROVE  /\ Chain(More(n, s), q)
           /\ Members(More(n, s)) = Members(s) \cup {n}
           /\ \A m \in Nodes \ (Members(s) \cup {n}) :
                q.prev[m] = r.prev[m] /\ q.next[m] = r.next[m]
<1> DEFINE z == Len(s)
           t == More(n, s)
<1>1. /\ s \in Seq(Nodes) /\ z \in Nat
      /\ \A i \in 1..z : s[i] \in Nodes /\ s[i] # n
      /\ \A i, k \in 1..z : s[i] = s[k] => i = k
  BY DEF Chain, Members
<1>2. /\ r.head = IF z = 0 THEN Nil ELSE s[1]
      /\ r.tail = IF z = 0 THEN Nil ELSE s[z]
      /\ \A i \in 1..z : /\ r.prev[s[i]] = IF i = 1 THEN Nil ELSE s[i - 1]
                         /\ r.next[s[i]] = IF i = z THEN Nil ELSE s[i + 1]
  BY DEF Chain
<1>3. Nil \notin Nodes
  BY NodesAssumption
<1>4. /\ t \in Seq(Nodes) /\ Len(t) = z + 1
      /\ \A i \in 1..(z + 1) : t[i] = IF i = 1 THEN n ELSE s[i - 1]
  BY <1>1, MoreFacts
<1>5. Members(t) = {t[i] : i \in 1..(z + 1)} /\ Members(s) = {s[k] : k \in 1..z}
  BY <1>4 DEF Members
<1>6. /\ q.head = n
      /\ q.tail = IF r.tail = Nil THEN n ELSE r.tail
      /\ \A m \in Nodes :
           /\ q.next[m] = IF m = n THEN r.head ELSE r.next[m]
           /\ q.prev[m] = IF m = r.head THEN n ELSE IF m = n THEN Nil ELSE r.prev[m]
  BY DEF Pushed
<1> HIDE DEF z, t
<1>7. \A i \in 1..(z + 1) : i # 1 => i - 1 \in 1..z /\ t[i] = s[i - 1]
  BY <1>1, <1>4
<1>8. t[1] = n
  BY <1>1, <1>4
<1>9. \A i, k \in 1..(z + 1) : t[i] = t[k] => i = k
  <2> SUFFICES ASSUME NEW i \in 1..(z + 1), NEW k \in 1..(z + 1), t[i] = t[k] PROVE i = k
    OBVIOUS
  <2>1. CASE i = 1 \/ k = 1
    BY <1>1, <1>7, <1>8, <2>1
  <2>2. CASE i # 1 /\ k # 1
    <3>1. s[i - 1] = s[k - 1] /\ i - 1 \in 1..z /\ k - 1 \in 1..z
      BY <1>7, <2>2
    <3>2. i - 1 = k - 1
      BY <1>1, <3>1
    <3>3. QED
      BY <3>2
  <2>3. QED
    BY <2>1, <2>2
<1>10. z + 1 # 0 /\ z + 1 \in 1..(z + 1) /\ q.head = t[1]
  BY <1>1, <1>6, <1>8
<1>11. q.tail = t[z + 1]
  <2>1. CASE z = 0
    BY <1>2, <1>6, <1>8, <2>1
  <2>2. CASE z # 0
    <3>1. z \in 1..z /\ z + 1 # 1 /\ (z + 1) - 1 = z
      BY <1>1, <2>2
    <3>2. t[z + 1] = s[z] /\ s[z] # Nil
      BY <1>1, <1>3, <1>7, <1>10, <3>1
    <3>3. QED
      BY <1>2, <1>6, <2>2, <3>2
  <2>3. QED
    BY <2>1, <2>2
<1>12. ASSUME NEW i \in 1..(z + 1)
       PROVE  /\ q.prev[t[i]] = IF i = 1 THEN Nil ELSE t[i - 1]
              /\ q.next[t[i]] = IF i = z + 1 THEN Nil ELSE t[i + 1]
  <2>1. CASE i = 1
    <3>1. r.head # n /\ n \in Nodes
      BY <1>1, <1>2, <1>3
    <3>2. q.prev[n] = Nil /\ q.next[n] = r.head
      BY <1>6, <3>1
    <3>3. z # 0 => t[2] = s[1]
      BY <1>1, <1>4
    <3>4. i = z + 1 <=> z = 0
      BY <1>1, <2>1
    <3>5. QED
      BY <1>2, <1>8, <2>1, <3>2, <3>3, <3>4
  <2>2. CASE i # 1
    <3>1. /\ i - 1 \in 1..z /\ t[i] = s[i - 1] /\ s[i - 1] \in Nodes /\ s[i - 1] # n
          /\ i - 1 = z <=> i = z + 1
          /\ (i - 1) + 1 = i
      BY <1>1, <1>7, <2>2
    <3>2. q.next[t[i]] = r.next[s[i - 1]]
      BY <1>6, <3>1
    <3>3. i # z + 1 => t[i + 1] = s[i]
      BY <1>1, <1>4
    <3>4. q.next[t[i]] = IF i = z + 1 THEN Nil ELSE t[i + 1]
      BY <1>2, <3>1, <3>2, <3>3
    <3>5. CASE i = 2
      <4>1. s[i - 1] = r.head
        BY <1>1, <1>2, <3>1, <3>5
      <4>2. q.prev[t[i]] = n
        BY <1>6, <3>1, <4>1
      <4>3. QED
        BY <1>8, <3>4, <3>5, <4>2
    <3>6. CASE i # 2
      <4>1. 1 \in 1..z /\ i - 1 # 1 /\ z # 0 /\ i - 1 \in 1..(z + 1) /\ i - 1 \in Int
        BY <1>1, <2>2, <3>1, <3>6
      <4>2. s[i - 1] # r.head
        BY <1>1, <1>2, <3>1, <4>1
      <4>3. q.prev[t[i]] = r.prev[s[i - 1]]
        BY <1>6, <3>1, <4>2
      <4>4. r.prev[s[i - 1]] = s[(i - 1) - 1]
        BY <1>2, <3>1, <4>1
      <4>5. t[i - 1] = s[(i - 1) - 1]
        BY <1>7, <4>1
      <4>6. QED
        BY <2>2, <3>4, <4>3, <4>4, <4>5
    <3>7. QED
      BY <3>5, <3>6
  <2>3. QED
    BY <2>1, <2>2
<1>13. Chain(t, q)
  BY <1>4, <1>9, <1>10, <1>11, <1>12 DEF Chain
<1>14. Members(t) = Members(s) \cup {n}
  <2>1. ASSUME NEW m \in Members(t) PROVE m \in Members(s) \cup {n}
    BY <1>5, <1>7, <1>8
  <2>2. ASSUME NEW m \in Members(s) PROVE m \in Members(t)
    <3>1. PICK k \in 1..z : m = s[k]
      BY <1>5
    <3>2. k + 1 \in 1..(z + 1) /\ k + 1 # 1 /\ (k + 1) - 1 = k
      BY <1>1
    <3>3. t[k + 1] = s[k]
      BY <1>4, <3>2
    <3>4. QED
      BY <1>5, <3>1, <3>2, <3>3
  <2>3. n \in Members(t)
    <3>1. 1 \in 1..(z + 1)
      BY <1>1
    <3>2. QED
      BY <1>5, <1>8, <3>1
  <2>4. QED
    BY <2>1, <2>2, <2>3
<1>15. \A m \in Nodes \ (Members(s) \cup {n}) : q.prev[m] = r.prev[m] /\ q.next[m] = r.next[m]
  <2> SUFFICES ASSUME NEW m \in Nodes \ (Members(s) \cup {n})
               PROVE  q.prev[m] = r.prev[m] /\ q.next[m] = r.next[m]
    OBVIOUS
  <2>1. z # 0 => r.head \in Members(s)
    BY <1>1, <1>2, <1>5
  <2>2. m # n /\ m # r.head
    BY <1>2, <1>3, <2>1
  <2>3. QED
    BY <1>6, <2>2
<1>16. QED
  BY <1>13, <1>14, <1>15 DEF t

(* A new node becomes the head of the list. *)
LEMMA NewChain ==
    ASSUME NEW l \in Lists, NEW s, Chain(s, l), NEW n \in Nodes \ Members(s),
           l.prev[n] = Nil, l.next[n] = Nil
    PROVE  /\ Chain(More(n, s), moveToHead(l, n))
           /\ Members(More(n, s)) = Members(s) \cup {n}
           /\ \A m \in Nodes \ (Members(s) \cup {n}) :
                /\ moveToHead(l, n).prev[m] = l.prev[m]
                /\ moveToHead(l, n).next[m] = l.next[m]
<1> DEFINE r == remove(l, n)
           q == moveToHead(l, n)
<1>1. Nil \notin Nodes /\ n \in Nodes
  BY NodesAssumption
<1>2. l.head # n /\ l.tail # n
  BY <1>1 DEF Chain, Members
<1>3. /\ r.head = l.head /\ r.tail = l.tail
      /\ \A m \in Nodes : r.next[m] = l.next[m] /\ r.prev[m] = l.prev[m]
  <2>1. /\ r.head = IF l.head = n THEN l.next[n] ELSE l.head
        /\ r.tail = IF l.tail = n THEN l.prev[n] ELSE l.tail
        /\ \A m \in Nodes :
             /\ r.next[m] = IF m = l.prev[n] THEN l.next[n] ELSE l.next[m]
             /\ r.prev[m] = IF m = l.next[n] THEN l.prev[n] ELSE l.prev[m]
    BY <1>1, RemoveShape
  <2> HIDE DEF r
  <2>2. QED
    BY <1>1, <1>2, <2>1
<1>4. Pushed(q, r, n)
  BY <1>1, <1>2, MoveShape DEF Pushed
<1> HIDE DEF r, q
<1>5. Chain(s, r)
  <2>1. \A i \in 1..Len(s) : s[i] \in Nodes
    BY DEF Chain
  <2>2. QED
    BY <1>3, <2>1 DEF Chain
<1>6. /\ Chain(More(n, s), q)
      /\ Members(More(n, s)) = Members(s) \cup {n}
      /\ \A m \in Nodes \ (Members(s) \cup {n}) : q.prev[m] = r.prev[m] /\ q.next[m] = r.next[m]
  BY <1>4, <1>5, PushChain
<1>7. QED
  BY <1>3, <1>6 DEF q

(* A node of the list becomes its head. *)
LEMMA MoveChain ==
    ASSUME NEW l \in Lists, NEW s, Chain(s, l), NEW j \in 1..Len(s)
    PROVE  /\ Chain(More(s[j], Less(s, j)), moveToHead(l, s[j]))
           /\ Members(More(s[j], Less(s, j))) = Members(s)
           /\ \A m \in Nodes \ Members(s) : /\ moveToHead(l, s[j]).prev[m] = l.prev[m]
                                            /\ moveToHead(l, s[j]).next[m] = l.next[m]
<1>1. /\ s \in Seq(Nodes) /\ Len(s) \in Nat /\ s[j] \in Nodes /\ s[j] \in Members(s)
      /\ \A i, k \in 1..Len(s) : s[i] = s[k] => i = k
      /\ l.head = s[1]
  BY DEF Chain, Members
<1>2. CASE j = 1
  <2>1. moveToHead(l, s[j]) = l
    BY <1>1, <1>2 DEF moveToHead
  <2>2. More(s[j], Less(s, j)) = s
    <3> DEFINE n == Len(s)
               t == Less(s, j)
               e == s[j]
               u == More(e, t)
    <3>1. /\ t \in Seq(Nodes) /\ Len(t) = n - 1 /\ n - 1 \in Nat
          /\ \A i \in 1..(n - 1) : t[i] = IF i < j THEN s[i] ELSE s[i + 1]
      BY <1>1, LessFacts
    <3> HIDE DEF t
    <3>2. /\ u \in Seq(Nodes) /\ Len(u) = Len(t) + 1
          /\ \A i \in 1..(Len(t) + 1) : u[i] = IF i = 1 THEN e ELSE t[i - 1]
      <4>1. t \in Seq(Nodes) /\ e \in Nodes
        BY <1>1, <3>1
      <4> HIDE DEF e
      <4>2. QED
        BY <4>1, MoreFacts
    <3> HIDE DEF u, n
    <3>3. Len(u) = n /\ n \in Nat
      BY <3>1, <3>2 DEF n
    <3>4. \A i \in 1..n : u[i] = s[i]
      <4> SUFFICES ASSUME NEW i \in 1..n PROVE u[i] = s[i]
        OBVIOUS
      <4>1. i # 1 => i - 1 \in 1..(n - 1) /\ ~(i - 1 < j) /\ (i - 1) + 1 = i
        BY <1>2, <3>3
      <4>2. i # 1 => t[i - 1] = s[i]
        BY <3>1, <4>1
      <4>3. i \in 1..(Len(t) + 1)
        BY <3>1, <3>3
      <4>4. QED
        BY <1>2, <3>2, <4>2, <4>3
    <3>5. u = s
      BY <1>1, <3>2, <3>3, <3>4 DEF n
    <3>6. QED
      BY <3>5 DEF u, t
  <2>3. QED
    BY <2>1, <2>2
<1>3. CASE j # 1
  <2> DEFINE r == remove(l, s[j])
             q == moveToHead(l, s[j])
             t == Less(s, j)
  <2>1. l.head # s[j]
    BY <1>1, <1>3
  <2>2. /\ Chain(t, r) /\ Members(t) = Members(s) \ {s[j]}
        /\ \A m \in Nodes \ Members(s) : r.prev[m] = l.prev[m] /\ r.next[m] = l.next[m]
    BY RemoveChain
  <2>3. Pushed(q, r, s[j])
    BY <1>1, <2>1, MoveShape DEF Pushed
  <2> HIDE DEF r, q, t
  <2>4. s[j] \in Nodes \ Members(t)
    BY <1>1, <2>2
  <2>5. /\ Chain(More(s[j], t), q)
        /\ Members(More(s[j], t)) = Members(t) \cup {s[j]}
        /\ \A m \in Nodes \ (Members(t) \cup {s[j]}) :
             q.prev[m] = r.prev[m] /\ q.next[m] = r.next[m]
    BY <2>2, <2>3, <2>4, PushChain
  <2>6. Members(t) \cup {s[j]} = Members(s)
    BY <1>1, <2>2
  <2>7. QED
    BY <2>2, <2>5, <2>6 DEF q, t
<1>4. QED
  BY <1>2, <1>3

-----------------------------------------------------------------------------
(***************************************************************************)
(* What the recursive functions of LruCache are.  One that satisfies the   *)
(* equation shows that there is one; the least place where two differ,     *)
(* that there are not two.                                                 *)
(***************************************************************************)
LEMMA NodesFacts == /\ IsFiniteSet(Nodes) /\ Cardinality(Nodes) \in Nat
                    /\ Cardinality(Nodes) > Capacity /\ Capacity \in Nat \ {0}
                    /\ Nil \notin Nodes
  BY NodesAssumption, CapacityAssumption, FS_CardinalityType

(* Nodes that only lead to each other are all that can be reached. *)
LEMMA WithinFacts ==
    ASSUME NEW R, R \subseteq Nodes, NEW l,
           \A n \in R : l.prev[n] \in R \cup {Nil} /\ l.next[n] \in R \cup {Nil}
    PROVE  Within(R, l)[Cardinality(Nodes)] = R
<1> DEFINE N == Cardinality(Nodes)
           Linked(S) == (S \cup {l.prev[n] : n \in S} \cup {l.next[n] : n \in S}) \ {Nil}
           w == Within(R, l)
           c == [i \in 0..N |-> R]
<1>1. N \in Nat /\ Nil \notin R
  BY NodesFacts
<1>2. Linked(R) = R
  BY <1>1
<1>3. c = [i \in 0..N |-> IF i = 0 THEN R ELSE Linked(c[i - 1])]
  <2>1. \A i \in 0..N : i # 0 => c[i - 1] = R
    BY <1>1
  <2> HIDE DEF Linked
  <2>2. QED
    BY <1>2, <2>1
<1>4. w = [i \in 0..N |-> IF i = 0 THEN R ELSE Linked(w[i - 1])]
  <2> HIDE DEF c
  <2>1. QED
    BY <1>3 DEF Within
<1> HIDE DEF w, Linked, N
<1>5. w[0] = R /\ \A i \in 0..N : i # 0 => w[i] = Linked(w[i - 1])
  BY <1>1, <1>4
<1>6. w[N] = R
  <2> SUFFICES ASSUME w[N] # R PROVE FALSE
    OBVIOUS
  <2> DEFINE T == {i \in 0..N : w[i] # R}
  <2>1. PICK i \in T : \A k \in T : i <= k
    <3>1. T \subseteq Nat /\ N \in T
      BY <1>1
    <3> HIDE DEF T
    <3>2. QED
      BY <3>1, LeastNumber
  <2>2. i # 0 /\ i - 1 \in 0..N /\ ~(i <= i - 1)
    BY <1>1, <1>5
  <2>3. w[i - 1] = R
    BY <2>1, <2>2
  <2>4. w[i] = R
    BY <1>2, <1>5, <2>2, <2>3
  <2>5. QED
    BY <2>4
<1>7. QED
  BY <1>6 DEF w, N

Leads(s, start, link) ==
    /\ s \in Seq(Nodes) /\ Len(s) <= Capacity
    /\ start = IF Len(s) = 0 THEN Nil ELSE s[1]
    /\ \A i \in 1..Len(s) : link[s[i]] = IF i = Len(s) THEN Nil ELSE s[i + 1]

(* A walk along links that lead through s, and no further, is s. *)
LEMMA WalkFacts ==
    ASSUME NEW s, NEW start, NEW link, Leads(s, start, link)
    PROVE  Walk(start, link) = s
<1> USE DEF Leads
<1> DEFINE N == Cardinality(Nodes)
           n == Len(s)
           at == Steps(start, link)
           c == [i \in 1..N |-> IF i <= n THEN s[i] ELSE Nil]
<1>1. /\ N \in Nat /\ n \in Nat /\ n <= N /\ 1 \in 1..N
      /\ \A i \in 1..n : s[i] \in Nodes /\ s[i] # Nil
  BY NodesFacts
<1>2. c = [i \in 1..N |-> IF i = 1 THEN start ELSE IF c[i - 1] = Nil THEN Nil ELSE link[c[i - 1]]]
  <2> SUFFICES ASSUME NEW i \in 1..N
               PROVE  c[i] = IF i = 1 THEN start ELSE IF c[i - 1] = Nil THEN Nil ELSE link[c[i - 1]]
    OBVIOUS
  <2>1. CASE i = 1
    BY <1>1, <2>1
  <2>2. CASE i # 1
    <3>1. i - 1 \in 1..N /\ (i - 1) + 1 = i
      BY <1>1, <2>2
    <3>2. CASE i - 1 <= n
      <4>1. i - 1 \in 1..n /\ c[i - 1] = s[i - 1] /\ s[i - 1] # Nil
        BY <1>1, <3>1, <3>2
      <4>2. link[s[i - 1]] = IF i - 1 = n THEN Nil ELSE s[i]
        BY <3>1, <4>1
      <4>3. i - 1 = n <=> ~(i <= n)
        BY <1>1, <3>1, <3>2
      <4>4. QED
        BY <2>2, <4>1, <4>2, <4>3
    <3>3. CASE ~(i - 1 <= n)
      <4>1. c[i - 1] = Nil /\ ~(i <= n)
        BY <1>1, <3>1, <3>3
      <4>2. QED
        BY <2>2, <4>1
    <3>4. QED
      BY <3>2, <3>3
  <2>3. QED
    BY <2>1, <2>2
<1>3. at = [i \in 1..N |-> IF i = 1 THEN start
                           ELSE IF at[i - 1] = Nil THEN Nil ELSE link[at[i - 1]]]
  <2> HIDE DEF c
  <2>1. QED
    BY <1>2 DEF Steps
<1> HIDE DEF at, N, n
<1>4. \A i \in 1..N : at[i] = c[i]
  <2>1. /\ at[1] = start
        /\ \A i \in 1..N : i # 1 => at[i] = IF at[i - 1] = Nil THEN Nil ELSE link[at[i - 1]]
    BY <1>1, <1>3
  <2>2. /\ c[1] = start
        /\ \A i \in 1..N : i # 1 => c[i] = IF c[i - 1] = Nil THEN Nil ELSE link[c[i - 1]]
    <3> HIDE DEF c
    <3>1. QED
      BY <1>1, <1>2
  <2> HIDE DEF c
  <2> DEFINE T == {i \in 1..N : at[i] # c[i]}
  <2> SUFFICES ASSUME T # {} PROVE FALSE
    OBVIOUS
  <2>3. PICK i \in T : \A k \in T : i <= k
    <3>1. T \subseteq Nat
      BY <1>1
    <3> HIDE DEF T
    <3>2. QED
      BY <3>1, LeastNumber
  <2>4. i # 1 /\ i - 1 \in 1..N /\ ~(i <= i - 1)
    BY <1>1, <2>1, <2>2
  <2>5. at[i - 1] = c[i - 1]
    BY <2>3, <2>4
  <2>6. at[i] = c[i]
    BY <2>1, <2>2, <2>4, <2>5
  <2>7. QED
    BY <2>6
<1>5. {i \in 1..N : at[i] # Nil} = 1..n
  BY <1>1, <1>4
<1>6. Cardinality(1..n) = n
  BY <1>1, FS_Interval
<1>7. Walk(start, link) = [i \in 1..n |-> at[i]]
  BY <1>5, <1>6 DEF Walk, at, N
<1>8. \A i \in 1..n : at[i] = s[i]
  BY <1>1, <1>4
<1>9. s = [i \in 1..n |-> s[i]]
  BY DEF n
<1>10. QED
  BY <1>7, <1>8, <1>9

(* The list read from its head is s, and from its tail s reversed. *)
LEMMA ListRead ==
    ASSUME NEW s, Chain(s, list), Len(s) <= Capacity
    PROVE  Forward = s /\ Backward = [i \in 1..Len(s) |-> s[Len(s) + 1 - i]]
<1> DEFINE n == Len(s)
           t == [i \in 1..n |-> s[n + 1 - i]]
<1>1. /\ s \in Seq(Nodes) /\ n \in Nat /\ n <= Capacity
      /\ list.head = IF n = 0 THEN Nil ELSE s[1]
      /\ list.tail = IF n = 0 THEN Nil ELSE s[n]
      /\ \A i \in 1..n : /\ list.prev[s[i]] = IF i = 1 THEN Nil ELSE s[i - 1]
                         /\ list.next[s[i]] = IF i = n THEN Nil ELSE s[i + 1]
  BY DEF Chain
<1>2. Forward = s
  <2>1. Leads(s, list.head, list.next)
    BY <1>1 DEF Leads
  <2>2. QED
    BY <2>1, WalkFacts DEF Forward
<1> HIDE DEF n
<1>3. \A i \in 1..n : n + 1 - i \in 1..n /\ s[n + 1 - i] \in Nodes
  BY <1>1 DEF n
<1>4. t \in Seq(Nodes) /\ Len(t) = n
  BY <1>1, <1>3
<1>5. \A i \in 1..n : t[i] = s[n + 1 - i]
  OBVIOUS
<1> HIDE DEF t
<1>6. list.tail = IF n = 0 THEN Nil ELSE t[1]
  <2>1. n # 0 => 1 \in 1..n /\ n + 1 - 1 = n
    BY <1>1
  <2>2. QED
    BY <1>1, <1>5, <2>1
<1>7. ASSUME NEW i \in 1..n PROVE list.prev[t[i]] = IF i = n THEN Nil ELSE t[i + 1]
  <2>1. n + 1 - i \in 1..n /\ (n + 1 - i = 1 <=> i = n)
    BY <1>1
  <2>2. list.prev[t[i]] = IF i = n THEN Nil ELSE s[(n + 1 - i) - 1]
    BY <1>1, <1>5, <2>1
  <2>3. i # n => i + 1 \in 1..n /\ n + 1 - (i + 1) = (n + 1 - i) - 1
    BY <1>1
  <2>4. QED
    BY <1>5, <2>2, <2>3
<1>8. Walk(list.tail, list.prev) = t
  <2>1. Leads(t, list.tail, list.prev)
    BY <1>1, <1>4, <1>6, <1>7 DEF Leads
  <2>2. QED
    BY <2>1, WalkFacts
<1>9. QED
  BY <1>2, <1>8 DEF Backward, t, n

-----------------------------------------------------------------------------
(* The types of the map and of the contents of the nodes. *)
Maps == [Keys -> Nodes \cup {Nil}]
Contents == [Nodes -> [key : Keys \cup {NoValue}, value : Stored]]

LEMMA ReachableFacts ==
    ASSUME NEW b, NEW l, NEW s, Chain(s, l), Members(s) = {b[k] : k \in Keys} \ {Nil}
    PROVE  Reachable(b, l) = Members(s)
<1> DEFINE M == Members(s)
           n == Len(s)
<1>1. /\ n \in Nat /\ Nil \notin Nodes
      /\ \A i \in 1..n : s[i] \in Nodes /\ s[i] \in M
  BY NodesFacts DEF Chain, Members
<1>2. M \subseteq Nodes
  BY <1>1 DEF Members
<1>3. l.head \in M \cup {Nil} /\ l.tail \in M \cup {Nil}
  BY <1>1 DEF Chain
<1>4. ({b[k] : k \in Keys} \cup {l.head, l.tail}) \ {Nil} = M
  BY <1>3
<1>5. ASSUME NEW m \in M PROVE l.prev[m] \in M \cup {Nil} /\ l.next[m] \in M \cup {Nil}
  <2>1. PICK i \in 1..n : m = s[i]
    BY DEF Members
  <2>2. /\ l.prev[m] = IF i = 1 THEN Nil ELSE s[i - 1]
        /\ l.next[m] = IF i = n THEN Nil ELSE s[i + 1]
    BY <2>1 DEF Chain
  <2>3. (i # 1 => i - 1 \in 1..n) /\ (i # n => i + 1 \in 1..n)
    BY <1>1
  <2> HIDE DEF M, n
  <2>4. QED
    BY <1>1, <2>2, <2>3
<1> HIDE DEF M
<1>6. Within(M, l)[Cardinality(Nodes)] = M
  BY <1>2, <1>5, WithinFacts
<1>7. QED
  BY <1>4, <1>6 DEF Reachable, M

(* Collecting garbage leaves the list, the map and the contents alone. *)
LEMMA Collected ==
    ASSUME NEW b \in Maps, NEW l \in Lists, NEW contents \in Contents, NEW s, Chain(s, l),
           Holds(s, b, contents), Len(s) <= Capacity, Heap(b, l, contents), answer' \in Stored
    PROVE  CacheInv(s)' /\ \A n \in Members(s) : node'[n] = contents[n]
<1> DEFINE M == Members(s)
           P == [n \in Nodes |-> IF n \in M THEN l.prev[n] ELSE Nil]
           X == [n \in Nodes |-> IF n \in M THEN l.next[n] ELSE Nil]
           C == [n \in Nodes |-> IF n \in M THEN contents[n] ELSE Blank]
<1>1. Reachable(b, l) = M
  BY ReachableFacts DEF Holds
<1>2. buf' = b /\ list' = [l EXCEPT !.prev = P, !.next = X] /\ node' = C
  <2> HIDE DEF M
  <2>1. QED
    BY <1>1 DEF Heap
<1>3. M \subseteq Nodes
  BY DEF Chain, Members
<1>4. /\ l.prev \in [Nodes -> Nodes \cup {Nil}] /\ l.next \in [Nodes -> Nodes \cup {Nil}]
      /\ l.head \in Nodes \cup {Nil} /\ l.tail \in Nodes \cup {Nil}
  BY DEF Lists
<1> HIDE DEF M
<1>5. /\ P \in [Nodes -> Nodes \cup {Nil}] /\ X \in [Nodes -> Nodes \cup {Nil}]
      /\ \A n \in M : P[n] = l.prev[n] /\ X[n] = l.next[n]
      /\ \A n \in Nodes \ M : P[n] = Nil /\ X[n] = Nil
  BY <1>3, <1>4
<1>6. C \in Contents /\ \A n \in M : C[n] = contents[n]
  <2>1. Blank \in [key : Keys \cup {NoValue}, value : Stored]
    BY DEF Blank, Stored
  <2>2. \A n \in M : contents[n] \in [key : Keys \cup {NoValue}, value : Stored]
    BY <1>3 DEF Contents
  <2> HIDE DEF Blank
  <2>3. QED
    BY <1>3, <2>1, <2>2 DEF Contents
<1> HIDE DEF P, X, C
<1>7. /\ list' \in Lists
      /\ list'.head = l.head /\ list'.tail = l.tail /\ list'.prev = P /\ list'.next = X
  BY <1>2, <1>5 DEF Lists
<1>8. Chain(s, list')
  <2>1. \A i \in 1..Len(s) : s[i] \in M
    BY DEF M, Members
  <2>2. QED
    BY <1>5, <1>7, <2>1 DEF Chain
<1>9. Loose(s, list')
  BY <1>5, <1>7 DEF Loose, M
<1>10. Holds(s, b, node')
  <2>1. \A k \in Keys : b[k] # Nil => b[k] \in M
    BY DEF Holds, M
  <2>2. QED
    BY <1>2, <1>6, <2>1 DEF Holds
<1>11. TypeOK'
  BY <1>2, <1>6, <1>7 DEF TypeOK, Maps, Contents, Lists
<1>12. Chain(s, list)' /\ Loose(s, list)' /\ Holds(s, buf, node)'
  BY <1>2, <1>8, <1>9, <1>10 DEF Chain, Loose, Holds
<1>13. CacheInv(s)'
  BY <1>11, <1>12 DEF CacheInv
<1>14. QED
  BY <1>2, <1>6, <1>13 DEF M

(* As many nodes as the list is long are in use, and as many keys. *)
LEMMA MembersCount ==
    ASSUME NEW l, NEW s, Chain(s, l)
    PROVE  IsFiniteSet(Members(s)) /\ Cardinality(Members(s)) = Len(s)
<1> DEFINE n == Len(s)
           f == [i \in 1..n |-> s[i]]
<1>1. n \in Nat /\ \A i, k \in 1..n : s[i] = s[k] => i = k
  BY DEF Chain
<1>2. IsFiniteSet(1..n) /\ Cardinality(1..n) = n
  <2> HIDE DEF n
  <2>1. QED
    BY <1>1, FS_Interval
<1>3. f \in Bijection(1..n, Members(s))
  BY <1>1 DEF Bijection, Injection, Surjection, IsInjective, Members
<1>4. QED
  BY <1>2, <1>3, FS_Bijection DEF ExistsBijection

LEMMA SizeFacts ==
    ASSUME NEW b, NEW l, NEW contents, NEW s, Chain(s, l), Holds(s, b, contents)
    PROVE  Size(b) = Len(s)
<1> DEFINE K == {k \in Keys : b[k] # Nil}
           f == [m \in Members(s) |-> contents[m].key]
<1>1. \A k \in K : b[k] \in Members(s) /\ f[b[k]] = k
  BY DEF Holds
<1>2. \A m \in Members(s) : \E k \in K : b[k] = m
  BY DEF Holds
<1>3. f \in Bijection(Members(s), K)
  <2>1. \A m \in Members(s) : f[m] \in K /\ b[f[m]] = m
    <3> HIDE DEF K, f
    <3>1. QED
      BY <1>1, <1>2
  <2> HIDE DEF K
  <2>2. f \in [Members(s) -> K]
    BY <2>1
  <2> HIDE DEF f
  <2>3. f \in Injection(Members(s), K)
    BY <2>1, <2>2 DEF Injection, IsInjective
  <2>4. f \in Surjection(Members(s), K)
    BY <1>1, <2>2 DEF Surjection
  <2>5. QED
    BY <2>3, <2>4 DEF Bijection
<1>4. QED
  BY <1>3, MembersCount, FS_Bijection DEF ExistsBijection, Size

(* A key that goes with its node. *)
LEMMA DropHolds ==
    ASSUME NEW l \in Lists, NEW s, Chain(s, l), NEW j \in 1..Len(s), NEW b \in Maps, NEW contents,
           Holds(s, b, contents), NEW k \in Keys, b[k] = s[j]
    PROVE  /\ Chain(Less(s, j), remove(l, s[j])) /\ remove(l, s[j]) \in Lists
           /\ Holds(Less(s, j), [b EXCEPT ![k] = Nil], contents)
           /\ Len(Less(s, j)) = Len(s) - 1
<1> DEFINE c == [b EXCEPT ![k] = Nil]
<1>1. /\ Chain(Less(s, j), remove(l, s[j]))
      /\ Members(Less(s, j)) = Members(s) \ {s[j]}
  BY RemoveChain
<1>2. s \in Seq(Nodes) /\ s[j] \in Nodes /\ Nil \notin Nodes
  BY NodesFacts DEF Chain
<1>3. remove(l, s[j]) \in Lists
  BY <1>2, RemoveShape
<1>4. Len(Less(s, j)) = Len(s) - 1
  BY <1>2, LessFacts
<1>5. c[k] = Nil /\ \A x \in Keys : x # k => c[x] = b[x] /\ (b[x] # Nil => b[x] # b[k])
  BY <1>2 DEF Holds, Maps
<1> HIDE DEF c
<1>6. Members(s) \ {s[j]} = {c[x] : x \in Keys} \ {Nil}
  <2>1. ASSUME NEW m \in Members(s) \ {s[j]} PROVE m \in {c[x] : x \in Keys} \ {Nil}
    <3>1. PICK x \in Keys : b[x] = m /\ m # Nil
      BY DEF Holds
    <3>2. x # k
      BY <3>1
    <3>3. QED
      BY <1>5, <3>1, <3>2
  <2>2. ASSUME NEW m \in {c[x] : x \in Keys} \ {Nil} PROVE m \in Members(s) \ {s[j]}
    <3>1. PICK x \in Keys : c[x] = m /\ m # Nil
      OBVIOUS
    <3>2. x # k /\ m = b[x] /\ m # s[j]
      BY <1>5, <3>1
    <3>3. QED
      BY <3>1, <3>2 DEF Holds
  <2>3. QED
    BY <2>1, <2>2
<1>7. \A x \in Keys : c[x] # Nil => contents[c[x]].key = x
  BY <1>5 DEF Holds
<1>8. QED
  BY <1>1, <1>3, <1>4, <1>6, <1>7 DEF Holds, c

-----------------------------------------------------------------------------
LEMMA CacheFacts ==
    ASSUME NEW s, CacheInv(s)
    PROVE  /\ buf \in Maps /\ list \in Lists /\ node \in Contents /\ answer \in Stored
           /\ Chain(s, list) /\ Loose(s, list) /\ Holds(s, buf, node)
           /\ s \in Seq(Nodes) /\ Len(s) \in Nat /\ Len(s) <= Capacity
           /\ Members(s) \subseteq Nodes
           /\ \A i, j \in 1..Len(s) : s[i] = s[j] => i = j
<1>1. /\ buf \in Maps /\ list \in Lists /\ node \in Contents /\ answer \in Stored
  BY DEF CacheInv, TypeOK, Maps, Lists, Contents
<1>2. /\ Chain(s, list) /\ Loose(s, list) /\ Holds(s, buf, node) /\ Len(s) <= Capacity
  BY DEF CacheInv
<1>3. s \in Seq(Nodes) /\ \A i, j \in 1..Len(s) : s[i] = s[j] => i = j
  BY <1>2 DEF Chain
<1>4. Members(s) \subseteq Nodes
  BY <1>3 DEF Members
<1>5. Len(s) \in Nat
  BY <1>3
<1>6. QED
  BY <1>1, <1>2, <1>3, <1>4, <1>5

(* A key of the map has a place in the list. *)
LEMMA PlaceOf ==
    ASSUME NEW s, CacheInv(s), NEW k \in Keys, buf[k] # Nil
    PROVE  \E j \in 1..Len(s) : s[j] = buf[k] /\ node[s[j]].key = k /\ s[j] \in Nodes
<1>1. buf[k] \in Members(s) /\ node[buf[k]].key = k
  BY CacheFacts DEF Holds
<1>2. PICK j \in 1..Len(s) : s[j] = buf[k]
  BY <1>1 DEF Members
<1>3. s[j] \in Nodes
  BY <1>1, <1>2, CacheFacts
<1>4. QED
  BY <1>1, <1>2, <1>3

LEMMA HitStep ==
    ASSUME NEW s, CacheInv(s), NEW k \in Keys, GetHit(k)
    PROVE  \E j \in 1..Len(s) :
             /\ s[j] = buf[k] /\ node[s[j]].key = k
             /\ CacheInv(More(s[j], Less(s, j)))'
             /\ \A m \in Members(s) : node'[m] = node[m]
<1>1. PICK j \in 1..Len(s) : s[j] = buf[k] /\ node[s[j]].key = k /\ s[j] \in Nodes
  BY PlaceOf DEF GetHit
<1> DEFINE l == moveToHead(list, s[j])
           t == More(s[j], Less(s, j))
<1>2. Heap(buf, l, node) /\ answer' = node[s[j]].value
  BY <1>1 DEF GetHit
<1>3. Chain(t, l) /\ Members(t) = Members(s)
  BY CacheFacts, MoveChain
<1>4. l \in Lists
  BY <1>1, CacheFacts, MoveShape DEF moveToHead
<1>5. Holds(t, buf, node)
  BY <1>3, CacheFacts DEF Holds
<1>6. Len(t) = Len(s)
  BY <1>3, <1>5, CacheFacts, SizeFacts
<1>7. answer' \in Stored
  BY <1>1, <1>2, CacheFacts DEF Contents
<1> HIDE DEF l, t
<1>8. CacheInv(t)' /\ \A m \in Members(t) : node'[m] = node[m]
  BY <1>2, <1>3, <1>4, <1>5, <1>6, <1>7, CacheFacts, Collected
<1>9. QED
  BY <1>1, <1>3, <1>8 DEF t

(* There is an unused node as long as there are more than the capacity. *)
LEMMA NodeFree ==
    ASSUME NEW s, CacheInv(s)
    PROVE  /\ Reachable(buf, list) = Members(s)
           /\ \E n \in Nodes : n \notin Members(s)
<1>1. Reachable(buf, list) = Members(s)
  BY CacheFacts, ReachableFacts DEF Holds
<1>2. Cardinality(Members(s)) = Len(s)
  BY CacheFacts, MembersCount
<1>3. Members(s) # Nodes
  BY <1>2, CacheFacts, NodesFacts
<1>4. QED
  BY <1>1, <1>3, CacheFacts

LEMMA ClearStep ==
    ASSUME NEW s, CacheInv(s), Clear
    PROVE  CacheInv(<<>>)'
<1> DEFINE b == [k \in Keys |-> Nil]
           l == [list EXCEPT !.head = Nil, !.tail = Nil]
<1>1. Heap(b, l, node) /\ answer' = answer
  BY DEF Clear
<1>2. b \in Maps
  BY DEF Maps
<1>3. l \in Lists /\ l.head = Nil /\ l.tail = Nil
  BY CacheFacts DEF Lists
<1>4. <<>> \in Seq(Nodes) /\ Len(<<>>) = 0 /\ 1..0 = {}
  OBVIOUS
<1>5. Chain(<<>>, l)
  BY <1>3, <1>4 DEF Chain
<1>6. Members(<<>>) = {} /\ {b[k] : k \in Keys} \ {Nil} = {}
  BY <1>4 DEF Members
<1>7. Holds(<<>>, b, node)
  BY <1>6 DEF Holds
<1>8. Len(<<>>) <= Capacity
  BY <1>4, NodesFacts
<1> HIDE DEF b, l
<1>9. QED
  BY <1>1, <1>2, <1>3, <1>5, <1>7, <1>8, CacheFacts, Collected

LEMMA RefreshStep ==
    ASSUME NEW s, CacheInv(s), NEW k \in Keys, NEW stored \in Stored, Refresh(k, stored)
    PROVE  \E j \in 1..Len(s) :
             LET t == IF stored = NoValue THEN Less(s, j) ELSE s IN
             /\ s[j] = buf[k] /\ node[s[j]].key = k
             /\ CacheInv(t)'
             /\ \A m \in Members(t) :
                  node'[m] = IF m = s[j] THEN [key |-> k, value |-> stored] ELSE node[m]
<1>1. PICK j \in 1..Len(s) : s[j] = buf[k] /\ node[s[j]].key = k /\ s[j] \in Nodes
  BY PlaceOf DEF Refresh
<1> DEFINE updated == [node EXCEPT ![s[j]].value = stored]
<1>2. /\ updated \in Contents
      /\ \A m \in Nodes : updated[m] = IF m = s[j] THEN [key |-> k, value |-> stored] ELSE node[m]
      /\ \A m \in Nodes : updated[m].key = node[m].key
  <2>1. node \in Contents /\ node[s[j]] \in [key : Keys \cup {NoValue}, value : Stored]
    BY <1>1, CacheFacts DEF Contents
  <2>2. [node[s[j]] EXCEPT !.value = stored] = [key |-> k, value |-> stored]
    BY <1>1, <2>1
  <2>3. updated = [m \in Nodes |-> IF m = s[j] THEN [key |-> k, value |-> stored] ELSE node[m]]
    BY <2>1, <2>2 DEF Contents
  <2>4. [key |-> k, value |-> stored] \in [key : Keys \cup {NoValue}, value : Stored]
    OBVIOUS
  <2> HIDE DEF updated
  <2>5. \A m \in Nodes : updated[m] = IF m = s[j] THEN [key |-> k, value |-> stored] ELSE node[m]
    BY <2>3
  <2>6. updated \in Contents
    BY <2>1, <2>3, <2>4 DEF Contents
  <2>7. \A m \in Nodes : updated[m].key = node[m].key
    BY <1>1, <2>5
  <2>8. QED
    BY <2>5, <2>6, <2>7
<1>3. /\ answer' \in Stored
      /\ IF stored = NoValue
         THEN Heap([buf EXCEPT ![k] = Nil], remove(list, s[j]), updated)
         ELSE Heap(buf, list, updated)
  BY <1>1, CacheFacts DEF Refresh
<1> HIDE DEF updated
<1>4. Holds(s, buf, updated)
  <2>1. \A x \in Keys : buf[x] # Nil => buf[x] \in Nodes
    BY CacheFacts DEF Maps
  <2>2. QED
    BY <1>2, <2>1, CacheFacts DEF Holds
<1>5. CASE stored = NoValue
  <2> DEFINE t == Less(s, j)
             b == [buf EXCEPT ![k] = Nil]
             l == remove(list, s[j])
  <2>1. Chain(t, l) /\ l \in Lists /\ Holds(t, b, updated) /\ Len(t) = Len(s) - 1
    BY <1>1, <1>4, CacheFacts, DropHolds
  <2>2. b \in Maps
    BY CacheFacts DEF Maps
  <2>3. Heap(b, l, updated)
    BY <1>3, <1>5
  <2> HIDE DEF t, b, l
  <2>4. Len(t) <= Capacity
    BY <2>1, CacheFacts, NodesFacts
  <2>5. CacheInv(t)' /\ \A m \in Members(t) : node'[m] = updated[m]
    BY <1>2, <1>3, <2>1, <2>2, <2>3, <2>4, Collected
  <2>6. Members(t) \subseteq Nodes
    BY <2>1 DEF Chain, Members
  <2>7. QED
    BY <1>1, <1>2, <1>5, <2>5, <2>6 DEF t
<1>6. CASE stored # NoValue
  <2>1. Heap(buf, list, updated)
    BY <1>3, <1>6
  <2>2. CacheInv(s)' /\ \A m \in Members(s) : node'[m] = updated[m]
    BY <1>2, <1>3, <1>4, <2>1, CacheFacts, Collected
  <2>3. QED
    BY <1>1, <1>2, <1>6, <2>2, CacheFacts
<1>7. QED
  BY <1>5, <1>6

(* A new entry: the new list, and the last of it gone if it is too long. *)
Fresh(n, s) == LET t == More(n, s) IN IF Len(t) > Capacity THEN Less(t, Len(t)) ELSE t

LEMMA MissStep ==
    ASSUME NEW s, CacheInv(s), NEW k \in Keys, NEW stored \in Values, GetMiss(k, stored)
    PROVE  \E n \in Nodes \ Members(s) :
             /\ CacheInv(Fresh(n, s))'
             /\ \A m \in Members(Fresh(n, s)) :
                  node'[m] = IF m = n THEN [key |-> k, value |-> stored] ELSE node[m]
<1>0. PICK n \in Nodes \ Members(s) : n = CHOOSE x \in Nodes \ Reachable(buf, list) : TRUE
  <2>1. \E x \in Nodes \ Reachable(buf, list) : TRUE
    BY NodeFree
  <2>2. QED
    BY <2>1, NodeFree
<1>1. n \in Nodes /\ n \notin Members(s)
  OBVIOUS
<1> DEFINE named == [node EXCEPT ![n] = [key |-> k, value |-> stored]]
           b == [buf EXCEPT ![k] = n]
           l == moveToHead(list, n)
           keyOf == [x \in Nodes |-> named[x].key]
           after == resize(b, l, keyOf)
           t == More(n, s)
<1>2. /\ Heap(after.buf, after.list, named) /\ answer' = stored
      /\ buf[k] = Nil
  BY <1>0 DEF GetMiss
<1>3. /\ stored \in Stored
      /\ [key |-> k, value |-> stored] \in [key : Keys \cup {NoValue}, value : Stored]
  BY DEF Stored
<1>4. /\ named \in Contents
      /\ \A m \in Nodes : named[m] = IF m = n THEN [key |-> k, value |-> stored] ELSE node[m]
  BY <1>1, <1>3, CacheFacts DEF Contents
<1> HIDE DEF named
<1>5. /\ b \in Maps /\ b[k] = n
      /\ \A x \in Keys : x # k => b[x] = buf[x] /\ b[x] # n
  <2>1. \A x \in Keys : buf[x] # n
    BY <1>1, NodesFacts, CacheFacts DEF Holds
  <2>2. QED
    BY <1>1, <2>1, CacheFacts DEF Maps
<1> HIDE DEF b
<1>6. /\ Chain(t, l) /\ Members(t) = Members(s) \cup {n}
  <2>1. list.prev[n] = Nil /\ list.next[n] = Nil
    BY <1>1, CacheFacts DEF Loose
  <2>2. QED
    BY <1>1, <2>1, CacheFacts, NewChain
<1>7. l \in Lists
  BY <1>1, CacheFacts, MoveShape DEF moveToHead
<1>8. Len(t) = Len(s) + 1 /\ t \in Seq(Nodes)
  BY <1>1, CacheFacts, MoreFacts
<1> HIDE DEF l, t
<1>9. Members(t) \subseteq Nodes
  BY <1>1, <1>6, CacheFacts
<1>10. Holds(t, b, named)
  <2>1. ASSUME NEW m \in Members(t) PROVE m \in {b[x] : x \in Keys} \ {Nil}
    <3>1. CASE m = n
      BY <1>1, <1>5, <3>1, NodesFacts
    <3>2. CASE m # n
      <4>1. PICK x \in Keys : buf[x] = m /\ m # Nil
        BY <1>6, <3>2, CacheFacts DEF Holds
      <4>2. x # k
        BY <1>2, <4>1
      <4>3. QED
        BY <1>5, <4>1, <4>2
    <3>3. QED
      BY <3>1, <3>2
  <2>2. ASSUME NEW x \in Keys, b[x] # Nil PROVE b[x] \in Members(t) /\ named[b[x]].key = x
    <3>1. CASE x = k
      BY <1>1, <1>4, <1>5, <1>6, <3>1
    <3>2. CASE x # k
      <4>1. b[x] = buf[x] /\ b[x] # n /\ buf[x] \in Members(s) /\ node[buf[x]].key = x
        BY <1>5, <2>2, <3>2, CacheFacts DEF Holds
      <4>2. QED
        BY <1>4, <1>6, <1>9, <4>1
    <3>3. QED
      BY <3>1, <3>2
  <2>3. QED
    BY <2>1, <2>2 DEF Holds
<1>11. Size(b) = Len(t)
  BY <1>6, <1>10, SizeFacts
<1> DEFINE Outcome(q) == /\ CacheInv(q)'
                         /\ \A m \in Members(q) :
                              node'[m] = IF m = n THEN [key |-> k, value |-> stored] ELSE node[m]
<1>12. ASSUME Len(t) > Capacity PROVE Outcome(Fresh(n, s))
  <2> DEFINE j == Len(t)
             x == keyOf[t[j]]
  <2>1. j \in 1..Len(t) /\ l.tail = t[j] /\ t[j] \in Nodes /\ t[j] \in Members(t)
    BY <1>6, <1>8, CacheFacts DEF Chain, Members
  <2>2. x \in Keys /\ b[x] = t[j]
    <3>1. PICK y \in Keys : b[y] = t[j] /\ b[y] # Nil
      BY <1>10, <2>1 DEF Holds
    <3>2. named[t[j]].key = y
      BY <1>10, <3>1 DEF Holds
    <3>3. x = y
      BY <2>1, <3>2
    <3>4. QED
      BY <3>1, <3>3
  <2> DEFINE c == [b EXCEPT ![x] = Nil]
             r == remove(l, t[j])
             u == Less(t, j)
  <2>3. after = [buf |-> c, list |-> r]
    BY <1>11, <1>12, <2>1 DEF resize
  <2>4. c \in Maps
    BY <1>5 DEF Maps
  <2>5. Heap(c, r, named)
    <3>1. after.buf = c /\ after.list = r
      <4> HIDE DEF after, c, r
      <4>1. QED
        BY <2>3
    <3> HIDE DEF after, c, r
    <3>2. QED
      BY <1>2, <3>1
  <2> HIDE DEF x
  <2>6. Chain(u, r) /\ r \in Lists /\ Holds(u, c, named) /\ Len(u) = Len(t) - 1
    BY <1>5, <1>6, <1>7, <1>10, <2>1, <2>2, DropHolds
  <2>7. Fresh(n, s) = u
    BY <1>12 DEF Fresh, t
  <2> HIDE DEF c, r, u, j
  <2>8. Len(u) <= Capacity
    BY <1>8, <2>6, CacheFacts, NodesFacts
  <2>9. answer' \in Stored /\ named \in Contents
    BY <1>2, <1>3, <1>4
  <2>10. CacheInv(u)' /\ \A m \in Members(u) : node'[m] = named[m]
    BY <2>4, <2>5, <2>6, <2>8, <2>9, Collected
  <2>11. Members(u) \subseteq Nodes
    BY <2>6 DEF Chain, Members
  <2>12. Outcome(u)
    BY <1>4, <2>10, <2>11
  <2>13. QED
    BY <2>7, <2>12
<1>13. ASSUME ~(Len(t) > Capacity) PROVE Outcome(Fresh(n, s))
  <2>1. after = [buf |-> b, list |-> l]
    BY <1>11, <1>13 DEF resize
  <2>2. Heap(b, l, named)
    BY <1>2, <2>1
  <2>3. Len(t) <= Capacity
    BY <1>8, <1>13, CacheFacts, NodesFacts
  <2>4. answer' \in Stored /\ named \in Contents /\ b \in Maps
    BY <1>2, <1>3, <1>4, <1>5
  <2>5. CacheInv(t)' /\ \A m \in Members(t) : node'[m] = named[m]
    BY <1>6, <1>7, <1>10, <2>2, <2>3, <2>4, Collected
  <2>6. Fresh(n, s) = t
    BY <1>13 DEF Fresh, t
  <2>7. Outcome(t)
    BY <1>4, <1>9, <2>5
  <2>8. QED
    BY <2>6, <2>7
<1>14. Outcome(Fresh(n, s))
  BY <1>12, <1>13
<1>15. QED
  BY <1>1, <1>14

(* A step that leaves the memory alone. *)
LEMMA QuietStep ==
    ASSUME NEW s, CacheInv(s), UNCHANGED <<buf, list, node>>, answer' \in Stored
    PROVE  CacheInv(s)'
<1>1. TypeOK'
  BY DEF CacheInv, TypeOK
<1>2. Chain(s, list)' /\ Loose(s, list)' /\ Holds(s, buf, node)'
  BY DEF CacheInv, Chain, Loose, Holds
<1>3. QED
  BY <1>1, <1>2 DEF CacheInv

LEMMA EmptyCache == Init => CacheInv(<<>>)
<1> SUFFICES ASSUME Init PROVE CacheInv(<<>>)
  OBVIOUS
<1>1. <<>> \in Seq(Nodes) /\ Len(<<>>) = 0 /\ 1..0 = {}
  OBVIOUS
<1>2. /\ list.head = Nil /\ list.tail = Nil
      /\ \A n \in Nodes : list.prev[n] = Nil /\ list.next[n] = Nil
  BY DEF Init
<1>3. Members(<<>>) = {} /\ \A k \in Keys : buf[k] = Nil
  BY <1>1 DEF Members, Init
<1>4. Chain(<<>>, list)
  BY <1>1, <1>2 DEF Chain
<1>5. Loose(<<>>, list)
  BY <1>2 DEF Loose
<1>6. Holds(<<>>, buf, node)
  BY <1>3 DEF Holds
<1>7. TypeOK
  BY DEF Init, TypeOK, Blank, Stored
<1>8. QED
  BY <1>1, <1>4, <1>5, <1>6, <1>7, NodesFacts DEF CacheInv

LEMMA CacheStep == LruInv /\ [Next]_vars => LruInv'
<1> SUFFICES ASSUME LruInv, [Next]_vars PROVE \E t : CacheInv(t)'
  BY DEF LruInv
<1>1. PICK s : CacheInv(s)
  BY DEF LruInv
<1>2. CASE \E k \in Keys : GetHit(k)
  BY <1>1, <1>2, HitStep
<1>3. CASE \E k \in Keys : GetError(k)
  <2>1. UNCHANGED <<buf, list, node>> /\ answer' \in Stored
    BY <1>3 DEF GetError, Stored
  <2>2. QED
    BY <1>1, <2>1, QuietStep
<1>4. CASE \E k \in Keys, stored \in Values : GetMiss(k, stored)
  <2>1. PICK k \in Keys, stored \in Values : GetMiss(k, stored)
    BY <1>4
  <2>2. QED
    BY <1>1, <2>1, MissStep
<1>5. CASE \E k \in Keys, stored \in Stored : Refresh(k, stored)
  <2>1. PICK k \in Keys, stored \in Stored : Refresh(k, stored)
    BY <1>5
  <2>2. QED
    BY <1>1, <2>1, RefreshStep
<1>6. CASE Clear
  BY <1>1, <1>6, ClearStep
<1>7. CASE UNCHANGED vars
  <2>1. UNCHANGED <<buf, list, node>> /\ answer' \in Stored
    BY <1>1, <1>7, CacheFacts DEF vars
  <2>2. QED
    BY <1>1, <2>1, QuietStep
<1>8. QED
  BY <1>2, <1>3, <1>4, <1>5, <1>6, <1>7 DEF Next

LEMMA CacheSound == Spec => []LruInv
<1>1. Init => LruInv
  BY EmptyCache DEF LruInv
<1>2. QED
  BY <1>1, CacheStep, PTL DEF Spec

LEMMA ListFacts ==
    ASSUME NEW s, CacheInv(s)
    PROVE  Forward = s /\ ListMatchesMap
<1>1. Forward = s /\ Backward = [i \in 1..Len(s) |-> s[Len(s) + 1 - i]]
  BY CacheFacts, ListRead
<1>2. Len(s) \in Nat /\ Len(s) <= Capacity
  BY CacheFacts
<1>3. Len(Backward) = Len(s)
  BY <1>1, <1>2
<1>4. \A i \in 1..Len(s) : s[i] = Backward[Len(s) + 1 - i]
  <2>1. ASSUME NEW i \in 1..Len(s) PROVE s[i] = Backward[Len(s) + 1 - i]
    <3>1. Len(s) + 1 - i \in 1..Len(s) /\ Len(s) + 1 - (Len(s) + 1 - i) = i
      BY <1>2
    <3>2. QED
      BY <1>1, <3>1
  <2>2. QED
    BY <2>1
<1>5. {s[i] : i \in 1..Len(s)} = {buf[k] : k \in Keys} \ {Nil}
  BY CacheFacts DEF Holds, Members
<1>6. \A k \in Keys : buf[k] # Nil => node[buf[k]].key = k
  BY CacheFacts DEF Holds
<1>7. QED
  BY <1>1, <1>2, <1>3, <1>4, <1>5, <1>6 DEF ListMatchesMap

(***************************************************************************)
(* After any sequence of lookups, evictions, refreshes and clears (lru.go: *)
(* 41-133) the list read from its tail is the list read from its head      *)
(* reversed, and holds what the map holds and no more than the capacity.   *)
(***************************************************************************)
THEOREM ListAndMapAgree == Spec => []ListMatchesMap
<1>1. LruInv => ListMatchesMap
  BY ListFacts DEF LruInv
<1>2. QED
  BY <1>1, CacheSound, PTL

-----------------------------------------------------------------------------
(* The contents of the nodes of a sequence, which are the abstract items. *)
Held(s, contents) == [i \in 1..Len(s) |-> contents[s[i]]]

LEMMA ItemsFacts ==
    ASSUME NEW s
    PROVE  /\ CacheInv(s) => Forward = s
           /\ (CacheInv(s) => Forward = s)'
<1>1. CacheInv(s) => Forward = s
  BY ListFacts
<1>2. QED
  BY <1>1, PTL

LEMMA HeldLess ==
    ASSUME NEW S, NEW s \in Seq(S), NEW j \in 1..Len(s), NEW contents
    PROVE  Held(Less(s, j), contents) = Less(Held(s, contents), j)
<1>1. /\ Len(Less(s, j)) = Len(s) - 1 /\ Len(s) - 1 \in Nat
      /\ \A i \in 1..(Len(s) - 1) : Less(s, j)[i] = (IF i < j THEN s[i] ELSE s[i + 1])
  BY LessFacts
<1>2. Len(Held(s, contents)) = Len(s) /\ \A i \in 1..Len(s) : Held(s, contents)[i] = contents[s[i]]
  BY DEF Held
<1> DEFINE p == Held(Less(s, j), contents)
           q == Less(Held(s, contents), j)
<1>3. p = [i \in 1..(Len(s) - 1) |-> contents[IF i < j THEN s[i] ELSE s[i + 1]]]
  BY <1>1 DEF Held
<1>4. q = [i \in 1..(Len(s) - 1) |-> contents[IF i < j THEN s[i] ELSE s[i + 1]]]
  <2>1. \A i \in 1..(Len(s) - 1) : i \in 1..Len(s) /\ i + 1 \in 1..Len(s)
    BY <1>1
  <2>2. \A i \in 1..(Len(s) - 1) :
          (IF i < j THEN Held(s, contents)[i] ELSE Held(s, contents)[i + 1])
            = contents[IF i < j THEN s[i] ELSE s[i + 1]]
    BY <1>2, <2>1
  <2>3. QED
    BY <1>2, <2>2 DEF Less
<1>5. QED
  BY <1>3, <1>4

LEMMA HeldMore ==
    ASSUME NEW S, NEW s \in Seq(S), NEW e \in S, NEW contents
    PROVE  Held(More(e, s), contents) = More(contents[e], Held(s, contents))
<1>1. /\ Len(More(e, s)) = Len(s) + 1 /\ Len(s) \in Nat
      /\ \A i \in 1..(Len(s) + 1) : More(e, s)[i] = (IF i = 1 THEN e ELSE s[i - 1])
  BY MoreFacts
<1>2. Len(Held(s, contents)) = Len(s) /\ \A i \in 1..Len(s) : Held(s, contents)[i] = contents[s[i]]
  BY DEF Held
<1> DEFINE p == Held(More(e, s), contents)
           q == More(contents[e], Held(s, contents))
<1>3. p = [i \in 1..(Len(s) + 1) |-> contents[IF i = 1 THEN e ELSE s[i - 1]]]
  BY <1>1 DEF Held
<1>4. q = [i \in 1..(Len(s) + 1) |-> contents[IF i = 1 THEN e ELSE s[i - 1]]]
  <2>1. \A i \in 1..(Len(s) + 1) : i # 1 => i - 1 \in 1..Len(s)
    BY <1>1
  <2>2. \A i \in 1..(Len(s) + 1) :
          (IF i = 1 THEN contents[e] ELSE Held(s, contents)[i - 1])
            = contents[IF i = 1 THEN e ELSE s[i - 1]]
    BY <1>2, <2>1
  <2>3. QED
    BY <1>2, <2>2 DEF More
<1>5. QED
  BY <1>3, <1>4

LEMMA HeldSame ==
    ASSUME NEW s, NEW c, NEW d, \A m \in Members(s) : c[m] = d[m]
    PROVE  Held(s, c) = Held(s, d)
BY DEF Held, Members

(* Less and More are what LruSpec writes with SubSeq and concatenation. *)
LEMMA SplitLess ==
    ASSUME NEW S, NEW q \in Seq(S), NEW j \in 1..Len(q)
    PROVE  SubSeq(q, 1, j - 1) \o SubSeq(q, j + 1, Len(q)) = Less(q, j)
<1> DEFINE n == Len(q)
           a == SubSeq(q, 1, j - 1)
           b == SubSeq(q, j + 1, n)
<1>1. n \in Nat /\ \A i \in 1..n : q[i] \in S
  OBVIOUS
<1> HIDE DEF n
<1>2. /\ a \in Seq(S) /\ Len(a) = j - 1
      /\ \A i \in 1..(j - 1) : a[i] = q[i]
  BY <1>1, SubSeqProperties DEF n
<1>3. /\ b \in Seq(S) /\ Len(b) = n - j
      /\ \A i \in 1..(n - j) : b[i] = q[j + i]
  BY <1>1, SubSeqProperties DEF n
<1> HIDE DEF a, b
<1>4. /\ a \o b \in Seq(S) /\ Len(a \o b) = n - 1
      /\ \A i \in 1..(n - 1) : (a \o b)[i] = IF i <= j - 1 THEN a[i] ELSE b[i - (j - 1)]
  BY <1>1, <1>2, <1>3, ConcatProperties DEF n
<1>5. /\ Less(q, j) \in Seq(S) /\ Len(Less(q, j)) = n - 1
      /\ \A i \in 1..(n - 1) : Less(q, j)[i] = IF i < j THEN q[i] ELSE q[i + 1]
  BY LessFacts DEF n
<1>6. ASSUME NEW i \in 1..(n - 1) PROVE (a \o b)[i] = Less(q, j)[i]
  <2>1. CASE i < j
    BY <1>1, <1>2, <1>4, <1>5, <2>1 DEF n
  <2>2. CASE ~(i < j)
    <3>1. i - (j - 1) \in 1..(n - j) /\ j + (i - (j - 1)) = i + 1 /\ ~(i <= j - 1)
      BY <1>1, <2>2 DEF n
    <3>2. QED
      BY <1>3, <1>4, <1>5, <2>2, <3>1
  <2>3. QED
    BY <2>1, <2>2
<1>7. a \o b = Less(q, j)
  BY <1>4, <1>5, <1>6, SeqEqual
<1>8. QED
  BY <1>7 DEF a, b, n

LEMMA JoinMore ==
    ASSUME NEW S, NEW q \in Seq(S), NEW e \in S
    PROVE  <<e>> \o q = More(e, q)
BY DEF More

LEMMA CutLess ==
    ASSUME NEW S, NEW q \in Seq(S), Len(q) > 0
    PROVE  SubSeq(q, 1, Len(q) - 1) = Less(q, Len(q))
BY DEF Less

(* What LruSpec's operators read from the list. *)
LEMMA HeldItems ==
    ASSUME NEW s, CacheInv(s)
    PROVE  /\ [i \in 1..Len(Forward) |-> node[Forward[i]]] = Held(s, node)
           /\ Held(s, node) \in Seq([key : Keys \cup {NoValue}, value : Stored])
           /\ Len(Held(s, node)) = Len(s)
           /\ \A i \in 1..Len(s) : Held(s, node)[i] = node[s[i]]
           /\ \A i \in 1..Len(s), k \in Keys : node[s[i]].key = k <=> s[i] = buf[k]
<1>1. [i \in 1..Len(Forward) |-> node[Forward[i]]] = Held(s, node)
  BY ListFacts DEF Held
<1>2. /\ Held(s, node) \in Seq([key : Keys \cup {NoValue}, value : Stored])
      /\ Len(Held(s, node)) = Len(s)
      /\ \A i \in 1..Len(s) : Held(s, node)[i] = node[s[i]]
  <2>1. \A e \in Nodes : node[e] \in [key : Keys \cup {NoValue}, value : Stored]
    BY CacheFacts DEF Contents
  <2>2. s \in Seq(Nodes)
    BY CacheFacts
  <2>3. QED
    <3> DEFINE T == [key : Keys \cup {NoValue}, value : Stored]
    <3> HIDE DEF T
    <3>1. \A e \in Nodes : node[e] \in T
      BY <2>1 DEF T
    <3>2. Len(s) \in Nat /\ \A i \in 1..Len(s) : node[s[i]] \in T
      BY <2>2, <3>1
    <3>3. Held(s, node) \in [1..Len(s) -> T] /\ \A i \in 1..Len(s) : Held(s, node)[i] = node[s[i]]
      BY <3>2 DEF Held
    <3>4. Held(s, node) \in Seq(T) /\ Len(Held(s, node)) = Len(s)
      BY <3>2, <3>3
    <3>5. QED
      BY <3>3, <3>4 DEF T
<1>3. ASSUME NEW i \in 1..Len(s), NEW k \in Keys PROVE node[s[i]].key = k <=> s[i] = buf[k]
  <2>1. s[i] \in Members(s)
    BY DEF Members
  <2>2. PICK x \in Keys : s[i] = buf[x] /\ buf[x] # Nil
    BY <2>1, CacheFacts DEF Holds
  <2>3. node[s[i]].key = x
    BY <2>2, CacheFacts DEF Holds
  <2>4. s[i] = buf[k] => node[s[i]].key = k
    BY <2>2, CacheFacts DEF Holds
  <2>5. QED
    BY <2>2, <2>3, <2>4
<1>4. QED
  BY <1>1, <1>2, <1>3

LEMMA AbstractHit ==
    ASSUME NEW s, CacheInv(s), NEW k \in Keys, NEW j \in 1..Len(s), s[j] = buf[k]
    PROVE  /\ Abstract!Has(k)
           /\ Abstract!Lookup(k) = node[s[j]]
           /\ Abstract!Without(k) = Held(Less(s, j), node)
<1> DEFINE q == Held(s, node)
           items == [i \in 1..Len(Forward) |-> node[Forward[i]]]
<1>1. /\ items = q /\ q \in Seq([key : Keys \cup {NoValue}, value : Stored])
      /\ Len(q) = Len(s) /\ q[j] = node[s[j]]
      /\ \A i \in 1..Len(q) : q[i].key = k <=> i = j
  <2>1. \A i \in 1..Len(s) : s[i] = s[j] => i = j
    BY CacheFacts
  <2>2. \A i \in 1..Len(s) : q[i] = node[s[i]] /\ (node[s[i]].key = k <=> s[i] = buf[k])
    BY HeldItems
  <2>3. items = q /\ Len(q) = Len(s) /\ q \in Seq([key : Keys \cup {NoValue}, value : Stored])
    BY HeldItems
  <2> HIDE DEF q, items
  <2>4. QED
    BY <2>1, <2>2, <2>3
<1>2. Abstract!Has(k) <=> \E i \in 1..Len(items) : items[i].key = k
  BY DEF Abstract!Has
<1>3. Abstract!Place(k) = CHOOSE i \in 1..Len(items) : items[i].key = k
  BY DEF Abstract!Place
<1>4. Abstract!Lookup(k) = items[Abstract!Place(k)]
  BY DEF Abstract!Lookup
<1>5. Abstract!Has(k) =>
        Abstract!Without(k) = SubSeq(items, 1, Abstract!Place(k) - 1)
                                \o SubSeq(items, Abstract!Place(k) + 1, Len(items))
  BY DEF Abstract!Without
<1> HIDE DEF items, q
<1>6. Abstract!Has(k)
  BY <1>1, <1>2
<1>7. Abstract!Place(k) = j
  BY <1>1, <1>3
<1>8. Abstract!Without(k) = Less(q, j)
  BY <1>1, <1>5, <1>6, <1>7, SplitLess
<1>9. Less(q, j) = Held(Less(s, j), node)
  BY CacheFacts, HeldLess DEF q
<1>10. QED
  BY <1>1, <1>4, <1>6, <1>7, <1>8, <1>9

LEMMA AbstractMiss ==
    ASSUME NEW s, CacheInv(s), NEW k \in Keys, buf[k] = Nil
    PROVE  ~Abstract!Has(k)
<1>1. \A i \in 1..Len(s) : s[i] # Nil
  BY CacheFacts, NodesFacts
<1>2. \A i \in 1..Len(s) : Held(s, node)[i].key # k
  BY <1>1, HeldItems
<1>3. [i \in 1..Len(Forward) |-> node[Forward[i]]] = Held(s, node) /\ Len(Held(s, node)) = Len(s)
  BY HeldItems
<1> DEFINE items == [i \in 1..Len(Forward) |-> node[Forward[i]]]
<1>4. Abstract!Has(k) <=> \E i \in 1..Len(items) : items[i].key = k
  BY DEF Abstract!Has
<1> HIDE DEF items
<1>5. items = Held(s, node)
  BY <1>3 DEF items
<1>6. QED
  BY <1>2, <1>3, <1>4, <1>5

(* The items after a step that the list t comes of. *)
LEMMA ItemsAfter ==
    ASSUME NEW t, CacheInv(t)'
    PROVE  [i \in 1..Len(Forward) |-> node[Forward[i]]]' = Held(t, node')
<1>1. Forward' = t
  BY ItemsFacts
<1>2. QED
  BY <1>1 DEF Held

LEMMA HitRefines ==
    ASSUME NEW s, CacheInv(s), NEW k \in Keys, GetHit(k)
    PROVE  Abstract!Get(k, NoValue)
<1>1. PICK j \in 1..Len(s) :
             /\ s[j] = buf[k] /\ node[s[j]].key = k
             /\ CacheInv(More(s[j], Less(s, j)))'
             /\ \A m \in Members(s) : node'[m] = node[m]
  BY HitStep
<1> DEFINE u == Less(s, j)
           t == More(s[j], u)
<1>2. s \in Seq(Nodes) /\ s[j] \in Nodes /\ u \in Seq(Nodes)
  BY CacheFacts, LessFacts
<1>3. Members(t) = Members(s)
  BY CacheFacts, MoveChain
<1>4. Held(t, node') = Held(t, node)
  <2> HIDE DEF t
  <2>1. \A m \in Members(t) : node'[m] = node[m]
    BY <1>1, <1>3
  <2>2. QED
    BY <2>1, HeldSame
<1>5. Held(t, node) = More(node[s[j]], Held(u, node))
  <2> HIDE DEF u
  <2>1. QED
    BY <1>2, HeldMore
<1> DEFINE q == Held(u, node)
<1>6. <<node[s[j]]>> \o q = More(node[s[j]], q)
  <2> DEFINE T == [key : Keys \cup {NoValue}, value : Stored]
  <2>1. node[s[j]] \in T /\ \A i \in 1..Len(u) : node[u[i]] \in T
    BY <1>2, CacheFacts DEF Contents
  <2>2. Len(u) \in Nat
    BY <1>2
  <2> HIDE DEF u, T
  <2>3. q \in Seq(T)
    BY <2>1, <2>2 DEF Held
  <2> HIDE DEF q
  <2>4. QED
    BY <2>1, <2>3, JoinMore
<1>7. /\ Abstract!Has(k)
      /\ Abstract!Lookup(k) = node[s[j]]
      /\ Abstract!Without(k) = q
  BY <1>1, AbstractHit
<1>8. [i \in 1..Len(Forward) |-> node[Forward[i]]]' = Held(t, node')
  BY <1>1, ItemsAfter
<1>9. answer' = node[s[j]].value
  BY <1>1 DEF GetHit
<1> HIDE DEF u, t, q
<1>10. [i \in 1..Len(Forward) |-> node[Forward[i]]]' = <<node[s[j]]>> \o q
  BY <1>4, <1>5, <1>6, <1>8 DEF q
<1>11. QED
  BY <1>7, <1>9, <1>10 DEF Abstract!Get

LEMMA ErrorRefines ==
    ASSUME NEW s, CacheInv(s), NEW k \in Keys, GetError(k)
    PROVE  Abstract!Get(k, NoValue)
<1>1. buf[k] = Nil /\ UNCHANGED <<buf, list, node>> /\ answer' = NoValue
  BY DEF GetError
<1>2. ~Abstract!Has(k)
  BY <1>1, AbstractMiss
<1>3. CacheInv(s)'
  <2>1. answer' \in Stored
    BY <1>1 DEF Stored
  <2>2. QED
    BY <1>1, <2>1, QuietStep
<1>4. [i \in 1..Len(Forward) |-> node[Forward[i]]]' = [i \in 1..Len(Forward) |-> node[Forward[i]]]
  BY <1>1, <1>3, HeldItems, ItemsAfter
<1>5. QED
  BY <1>1, <1>2, <1>4 DEF Abstract!Get

LEMMA ClearRefines ==
    ASSUME NEW s, CacheInv(s), Clear
    PROVE  Abstract!Clear
<1>1. CacheInv(<<>>)' /\ answer' = answer
  BY ClearStep DEF Clear
<1>2. [i \in 1..Len(Forward) |-> node[Forward[i]]]' = Held(<<>>, node')
  BY <1>1, ItemsAfter
<1>3. Held(<<>>, node') = <<>>
  BY DEF Held
<1>4. QED
  BY <1>1, <1>2, <1>3 DEF Abstract!Clear

LEMMA MissRefines ==
    ASSUME NEW s, CacheInv(s), NEW k \in Keys, NEW stored \in Values, GetMiss(k, stored)
    PROVE  stored # NoValue /\ Abstract!Get(k, stored)
<1>1. PICK n \in Nodes \ Members(s) :
             /\ CacheInv(Fresh(n, s))'
             /\ \A m \in Members(Fresh(n, s)) :
                  node'[m] = IF m = n THEN [key |-> k, value |-> stored] ELSE node[m]
  BY MissStep
<1> DEFINE T == [key : Keys \cup {NoValue}, value : Stored]
           e == [key |-> k, value |-> stored]
           d == [m \in Nodes |-> IF m = n THEN e ELSE node[m]]
           t == More(n, s)
           q == Held(s, node)
<1>2. /\ s \in Seq(Nodes) /\ n \in Nodes /\ Len(s) \in Nat /\ Len(s) <= Capacity
      /\ t \in Seq(Nodes) /\ Len(t) = Len(s) + 1 /\ Capacity \in Nat /\ Capacity > 0
  BY CacheFacts, MoreFacts, NodesFacts, CapacityAssumption
<1>3. e \in T /\ q \in Seq(T) /\ Len(q) = Len(s)
  BY HeldItems DEF Stored
<1>4. ~Abstract!Has(k) /\ answer' = stored /\ stored # NoValue
  BY AbstractMiss DEF GetMiss
<1>5. Held(t, d) = More(e, q)
  <2>1. d[n] = e
    BY <1>2
  <2>2. \A m \in Members(s) : d[m] = node[m]
    BY CacheFacts
  <2> HIDE DEF e, d
  <2>3. Held(s, d) = q
    BY <2>2, HeldSame
  <2> HIDE DEF q
  <2>4. QED
    BY <1>2, <2>1, <2>3, HeldMore
<1>6. <<e>> \o q = More(e, q) /\ More(e, q) \in Seq(T) /\ Len(More(e, q)) = Len(s) + 1
  <2> HIDE DEF e, q, T
  <2>1. <<e>> \o q = More(e, q)
    BY <1>3, JoinMore
  <2>2. More(e, q) \in Seq(T) /\ Len(More(e, q)) = Len(q) + 1
    BY <1>3, MoreFacts
  <2>3. QED
    BY <1>3, <2>1, <2>2
<1>7. [i \in 1..Len(Forward) |-> node[Forward[i]]]' = Held(Fresh(n, s), d)
  <2> DEFINE f == Fresh(n, s)
  <2>1. Members(f) \subseteq Nodes
    <3>1. f \in Seq(Nodes)
      BY <1>2, LessFacts DEF Fresh
    <3> HIDE DEF f
    <3>2. QED
      BY <3>1 DEF Members
  <2>2. \A m \in Members(f) : node'[m] = d[m]
    <3> HIDE DEF f
    <3>1. \A m \in Members(f) : node'[m] = IF m = n THEN e ELSE node[m]
      BY <1>1 DEF f
    <3>2. QED
      BY <2>1, <3>1
  <2>3. [i \in 1..Len(Forward) |-> node[Forward[i]]]' = Held(f, node')
    BY <1>1, ItemsAfter
  <2> HIDE DEF f, d
  <2>4. Held(f, node') = Held(f, d)
    BY <2>2, HeldSame
  <2>5. QED
    BY <2>3, <2>4 DEF f
<1>8. Held(Fresh(n, s), d) = Abstract!Cut(<<e>> \o q)
  <2> HIDE DEF d, e, q, T
  <2>1. CASE Len(t) > Capacity
    <3>1. Fresh(n, s) = Less(t, Len(t))
      BY <2>1 DEF Fresh
    <3>2. Held(Less(t, Len(t)), d) = Less(Held(t, d), Len(t))
      BY <1>2, HeldLess
    <3>3. Capacity = Len(More(e, q)) - 1 /\ Len(More(e, q)) = Len(t)
      BY <1>2, <1>6, <2>1
    <3>4. SubSeq(More(e, q), 1, Capacity) = Less(More(e, q), Len(t))
      <4> DEFINE m == More(e, q)
      <4>1. m \in Seq(T) /\ Len(m) = Len(t) /\ Capacity = Len(m) - 1
        BY <1>6, <3>3
      <4>2. Len(m) > 0
        BY <2>1, <4>1, CapacityAssumption
      <4> HIDE DEF m
      <4>3. SubSeq(m, 1, Len(m) - 1) = Less(m, Len(m))
        BY <4>1, <4>2, CutLess
      <4>4. QED
        BY <4>1, <4>3 DEF m
    <3>5. Abstract!Cut(More(e, q)) = SubSeq(More(e, q), 1, Capacity)
      BY <2>1, <3>3 DEF Abstract!Cut
    <3>6. QED
      BY <1>5, <1>6, <3>1, <3>2, <3>4, <3>5
  <2>2. CASE ~(Len(t) > Capacity)
    <3>1. Fresh(n, s) = t
      BY <2>2 DEF Fresh
    <3>2. Abstract!Cut(More(e, q)) = More(e, q)
      BY <1>2, <1>6, <2>2 DEF Abstract!Cut
    <3>3. QED
      BY <1>5, <1>6, <3>1, <3>2
  <2>3. QED
    BY <2>1, <2>2
<1>9. [i \in 1..Len(Forward) |-> node[Forward[i]]] = q
  BY HeldItems
<1> HIDE DEF q, d
<1>10. [i \in 1..Len(Forward) |-> node[Forward[i]]]'
         = Abstract!Cut(<<e>> \o [i \in 1..Len(Forward) |-> node[Forward[i]]])
  BY <1>7, <1>8, <1>9
<1> HIDE DEF Abstract!Cut
<1>11. QED
  BY <1>4, <1>10 DEF Abstract!Get

LEMMA RefreshRefines ==
    ASSUME NEW s, CacheInv(s), NEW k \in Keys, NEW stored \in Stored, Refresh(k, stored)
    PROVE  Abstract!Refresh(k, stored)
<1>1. PICK j \in 1..Len(s) :
             LET t == IF stored = NoValue THEN Less(s, j) ELSE s IN
             /\ s[j] = buf[k] /\ node[s[j]].key = k
             /\ CacheInv(t)'
             /\ \A m \in Members(t) :
                  node'[m] = IF m = s[j] THEN [key |-> k, value |-> stored] ELSE node[m]
  BY RefreshStep
<1>2. answer' = answer
  BY DEF Refresh
<1>3. CASE stored = NoValue
  <2> DEFINE u == Less(s, j)
  <2>1. CacheInv(u)' /\ \A m \in Members(u) : m # s[j] => node'[m] = node[m]
    BY <1>1, <1>3
  <2>2. Members(u) = Members(s) \ {s[j]}
    BY CacheFacts, RemoveChain
  <2>3. Abstract!Without(k) = Held(u, node)
    BY <1>1, AbstractHit
  <2> HIDE DEF u
  <2>4. \A m \in Members(u) : node'[m] = node[m]
    BY <2>1, <2>2
  <2>5. Held(u, node') = Held(u, node)
    BY <2>4, HeldSame
  <2>6. [i \in 1..Len(Forward) |-> node[Forward[i]]]' = Held(u, node')
    BY <2>1, ItemsAfter
  <2>7. QED
    BY <1>2, <1>3, <2>3, <2>5, <2>6 DEF Abstract!Refresh
<1>4. CASE stored # NoValue
  <2> DEFINE e == [key |-> k, value |-> stored]
             items == [i \in 1..Len(Forward) |-> node[Forward[i]]]
  <2>1. CacheInv(s)' /\ \A m \in Members(s) : node'[m] = IF m = s[j] THEN e ELSE node[m]
    BY <1>1, <1>4
  <2>2. items' = Held(s, node')
    BY <2>1, ItemsAfter
  <2>3. /\ Len(items) = Len(s) /\ Len(s) \in Nat
        /\ \A i \in 1..Len(s) : items[i] = node[s[i]] /\ s[i] \in Members(s)
    BY HeldItems, CacheFacts DEF Members
  <2>4. \A i \in 1..Len(s) : s[i] = s[j] <=> node[s[i]].key = k
    BY <1>1, HeldItems
  <2>5. [node[s[j]] EXCEPT !.value = stored] = e
    <3>1. node[s[j]] \in [key : Keys \cup {NoValue}, value : Stored]
      BY CacheFacts DEF Contents, Members
    <3>2. QED
      BY <1>1, <3>1
  <2> HIDE DEF e
  <2>6. Held(s, node') = [i \in 1..Len(s) |-> IF node[s[i]].key = k THEN e ELSE node[s[i]]]
    BY <2>1, <2>3, <2>4 DEF Held
  <2>7. ASSUME NEW i \in 1..Len(s)
        PROVE  (IF items[i].key = k THEN [items[i] EXCEPT !.value = stored] ELSE items[i])
                 = IF node[s[i]].key = k THEN e ELSE node[s[i]]
    <3> HIDE DEF items
    <3>1. CASE node[s[i]].key = k
      <4>1. items[i] = node[s[j]]
        BY <2>3, <2>4, <3>1
      <4>2. QED
        BY <2>3, <2>5, <3>1, <4>1
    <3>2. CASE node[s[i]].key # k
      BY <2>3, <3>2
    <3>3. QED
      BY <3>1, <3>2
  <2>8. Abstract!Refresh(k, stored)
          <=> /\ items' = [i \in 1..Len(items) |-> IF items[i].key = k
                             THEN [items[i] EXCEPT !.value = stored] ELSE items[i]]
              /\ UNCHANGED answer
    BY <1>4 DEF Abstract!Refresh
  <2> HIDE DEF items
  <2>9. items' = [i \in 1..Len(items) |-> IF items[i].key = k
                    THEN [items[i] EXCEPT !.value = stored] ELSE items[i]]
    BY <2>2, <2>3, <2>6, <2>7
  <2>10. QED
    BY <1>2, <2>8, <2>9
<1>5. QED
  BY <1>3, <1>4

LEMMA StepRefines ==
    LruInv /\ [Next]_vars
      => [Abstract!Next]_<<[i \in 1..Len(Forward) |-> node[Forward[i]]], answer>>
<1> DEFINE items == [i \in 1..Len(Forward) |-> node[Forward[i]]]
<1> SUFFICES ASSUME LruInv, [Next]_vars PROVE Abstract!Next \/ UNCHANGED <<items, answer>>
  OBVIOUS
<1>1. PICK s : CacheInv(s)
  BY DEF LruInv
<1> HIDE DEF items
<1>2. CASE \E k \in Keys : GetHit(k)
  BY <1>1, <1>2, HitRefines DEF Abstract!Next
<1>3. CASE \E k \in Keys : GetError(k)
  BY <1>1, <1>3, ErrorRefines DEF Abstract!Next
<1>4. CASE \E k \in Keys, stored \in Values : GetMiss(k, stored)
  BY <1>1, <1>4, MissRefines DEF Abstract!Next
<1>5. CASE \E k \in Keys, stored \in Stored : Refresh(k, stored)
  BY <1>1, <1>5, RefreshRefines DEF Abstract!Next, Stored
<1>6. CASE Clear
  BY <1>1, <1>6, ClearRefines DEF Abstract!Next
<1>7. CASE UNCHANGED vars
  <2>1. UNCHANGED <<buf, list, node>> /\ answer' = answer /\ answer' \in Stored
    BY <1>1, <1>7, CacheFacts DEF vars
  <2>2. CacheInv(s)'
    BY <1>1, <2>1, QuietStep
  <2>3. items' = items
    BY <1>1, <2>1, <2>2, HeldItems, ItemsAfter DEF items
  <2>4. QED
    BY <2>1, <2>3
<1>8. QED
  BY <1>2, <1>3, <1>4, <1>5, <1>6, <1>7 DEF Next

(***************************************************************************)
(* Map, links and nodes (lru.go:20-133) implement the abstract cache: a    *)
(* hit moves its entry to the front, a miss drops the least recently used  *)
(* one, a refresh moves nothing, and each answers what LruSpec answers.    *)
(***************************************************************************)
THEOREM CacheImplementsLru == Spec => ImplementsLru
<1>1. Init => Abstract!Init
  <2> SUFFICES ASSUME Init PROVE Abstract!Init
    OBVIOUS
  <2>1. [i \in 1..Len(Forward) |-> node[Forward[i]]] = Held(<<>>, node)
    BY EmptyCache, HeldItems
  <2>2. Held(<<>>, node) = <<>>
    BY DEF Held
  <2>3. QED
    BY <2>1, <2>2 DEF Abstract!Init, Init
<1>2. QED
  BY <1>1, StepRefines, CacheSound, PTL DEF Spec, ImplementsLru, Abstract!Spec
=============================================================================
