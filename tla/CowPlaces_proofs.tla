------------------------- MODULE CowPlaces_proofs -------------------------
(***************************************************************************)
(* Proofs about CowPlaces, for any symbols, places and sizes: the heap     *)
(* keeps its shape, no list is ever part of itself, a program sees the     *)
(* values of Places, as if lists were never shared, and swap exchanges     *)
(* places apart.                                                           *)
(***************************************************************************)
EXTENDS CowPlaces, StackLemmas

(* Memories. *)

\* What a slot, an element or a hand may hold when there are n lists.
Ref(n) == Atoms \cup (1..n)

\* What a list may be then.
Lists(n) == {l \in Seq(Ref(n)) : Len(l) <= MaxList}

Memories(n) ==
  [heap : {h \in Seq(Lists(n)) : Len(h) = n}, globals : [Symbols -> Ref(n)], hands : Seq(Ref(n))]

WellFormed(m) == Len(m.heap) \in Nat /\ m \in Memories(Len(m.heap))

\* A number for each list, less than that of every list it is an element of.
Ranks(h, f) ==
  /\ f \in [1..Len(h) -> Nat]
  /\ \A n \in 1..Len(h) : \A i \in 1..Len(h[n]) : h[n][i] \in 1..Len(h) => f[h[n][i]] < f[n]

Ranked(h) == \E f : Ranks(h, f)

Sound(m) == WellFormed(m) /\ Ranked(m.heap)

\* Lists that no other list has as an element, and nobody has in hand.
Own(m, P) ==
  /\ P \subseteq 1..Len(m.heap)
  /\ \A k \in 1..Len(m.hands) : m.hands[k] \notin P
  /\ \A n \in 1..Len(m.heap) : \A i \in 1..Len(m.heap[n]) : m.heap[n][i] \in P => n \in P

\* A location is a slot, or an element of a list in P.
Within(m, loc, P) ==
  \/ \E s \in Symbols : loc = SlotOf(s)
  \/ \E n \in P : \E i \in 1..Len(m.heap[n]) : loc = ElementOf(n, i)

\* What is in hand, atoms, and the elements of the lists in hand.
InHand(m) ==
  Atoms \cup {m.hands[k] : k \in 1..Len(m.hands)}
  \cup UNION {{m.heap[n][i] : i \in 1..Len(m.heap[n])} :
                n \in {m.hands[k] : k \in 1..Len(m.hands)} \ Atoms}

\* References are to atoms or to lists there are, and stay so when lists are added.
LEMMA RefsAre ==
  ASSUME NEW n \in Nat
  PROVE  /\ \A r \in Ref(n) : IsNode(r) <=> r \in 1..n
         /\ \A r \in Ref(n) : r # Missing
         /\ Atoms \subseteq Ref(n) /\ Nil \in Ref(n)
         /\ \A l : l \in Nat /\ n <= l => Ref(n) \subseteq Ref(l)
<1>1. 1..n \subseteq Nat
  OBVIOUS
<1>2. (Atoms \cup {Missing}) \cap Nat = {} /\ Missing \notin Atoms /\ Nil \in Atoms
  BY CowAssumption, PlaceAssumption
<1>3. \A l : l \in Nat /\ n <= l => 1..n \subseteq 1..l
  OBVIOUS
<1>4. QED
  BY <1>1, <1>2, <1>3 DEF Ref, IsNode

\* A list that fits a small heap fits a larger one.
LEMMA ListsGrow ==
  ASSUME NEW n \in Nat, NEW l \in Nat, n <= l
  PROVE  /\ Lists(n) \subseteq Lists(l)
         /\ \A list \in Lists(n) : /\ Len(list) \in Nat /\ Len(list) <= MaxList
                                   /\ list \in Seq(Ref(n))
                                   /\ \A i \in 1..Len(list) : list[i] \in Ref(n)
<1>1. Ref(n) \subseteq Ref(l)
  BY RefsAre
<1>2. \A list : list \in Seq(Ref(n)) => list \in Seq(Ref(l))
  BY <1>1, SeqMonotonic
<1>3. QED
  BY <1>2 DEF Lists

\* The parts of a memory.
LEMMA MemoryParts ==
  ASSUME NEW m, WellFormed(m)
  PROVE  LET n == Len(m.heap) IN
         /\ n \in Nat /\ m.heap \in Seq(Lists(n))
         /\ m.globals \in [Symbols -> Ref(n)] /\ m.hands \in Seq(Ref(n))
         /\ DOMAIN m.heap = 1..n
         /\ \A k \in 1..n : /\ m.heap[k] \in Lists(n) /\ Len(m.heap[k]) \in Nat
                            /\ Len(m.heap[k]) <= MaxList /\ DOMAIN m.heap[k] = 1..Len(m.heap[k])
         /\ \A k \in 1..n : \A i \in 1..Len(m.heap[k]) : m.heap[k][i] \in Ref(n)
         /\ \A s \in Symbols : m.globals[s] \in Ref(n)
         /\ \A k \in 1..Len(m.hands) : m.hands[k] \in Ref(n)
         /\ Len(m.hands) \in Nat
<1> DEFINE n == Len(m.heap)
<1>1. n \in Nat /\ m \in Memories(n)
  BY DEF WellFormed
<1> HIDE DEF n
<1>2. /\ m.heap \in Seq(Lists(n)) /\ Len(m.heap) = n
      /\ m.globals \in [Symbols -> Ref(n)] /\ m.hands \in Seq(Ref(n))
  BY <1>1 DEF Memories
<1> DEFINE Ls == Lists(n)
           R == Ref(n)
<1>3. m.heap \in Seq(Ls) /\ m.hands \in Seq(R)
  BY <1>2
<1>4. \A l \in Ls : Len(l) \in Nat /\ Len(l) <= MaxList /\ DOMAIN l = 1..Len(l)
                    /\ \A i \in 1..Len(l) : l[i] \in R
  BY DEF Lists
<1> HIDE DEF Ls, R
<1>5. /\ \A k \in 1..n : m.heap[k] \in Ls
      /\ DOMAIN m.heap = 1..n /\ Len(m.hands) \in Nat
      /\ \A k \in 1..Len(m.hands) : m.hands[k] \in R
  BY <1>2, <1>3
<1>6. QED
  BY <1>1, <1>2, <1>4, <1>5 DEF Ls, R, n

\* Made of such parts, a record is a memory.
LEMMA MemoryMade ==
  ASSUME NEW n \in Nat, NEW h \in Seq(Lists(n)), Len(h) = n,
         NEW g \in [Symbols -> Ref(n)], NEW a \in Seq(Ref(n)),
         NEW m, m = [heap |-> h, globals |-> g, hands |-> a]
  PROVE  WellFormed(m) /\ m.heap = h /\ m.globals = g /\ m.hands = a
<1>1. m.heap = h /\ m.globals = g /\ m.hands = a
  OBVIOUS
<1>2. QED
  BY <1>1 DEF WellFormed, Memories

\* A memory is its three fields.
LEMMA MemoryIs ==
  ASSUME NEW m, WellFormed(m)
  PROVE  m = [heap |-> m.heap, globals |-> m.globals, hands |-> m.hands]
BY DEF WellFormed, Memories

\* What is in hand is in no list's own.
LEMMA HandsApart ==
  ASSUME NEW m, WellFormed(m), NEW P, Own(m, P)
  PROVE  InHand(m) \cap P = {} /\ InHand(m) \subseteq Ref(Len(m.heap))
<1> DEFINE n == Len(m.heap)
           hand == {m.hands[k] : k \in 1..Len(m.hands)}
<1>1. n \in Nat /\ P \subseteq 1..n /\ P \cap Atoms = {} /\ Atoms \subseteq Ref(n)
  <2>1. n \in Nat /\ P \subseteq 1..n
    BY MemoryParts DEF Own
  <2>2. 1..n \subseteq Nat /\ Atoms \cap Nat = {}
    BY CowAssumption
  <2>3. QED
    BY <2>1, <2>2 DEF Ref
<1>2. \A r \in hand : r \notin P /\ r \in Ref(n)
  BY MemoryParts DEF Own
<1>3. \A r \in hand \ Atoms : r \in 1..n
  BY <1>2 DEF Ref
<1>4. ASSUME NEW r \in hand \ Atoms, NEW i \in 1..Len(m.heap[r])
      PROVE  m.heap[r][i] \notin P /\ m.heap[r][i] \in Ref(n)
  BY <1>2, <1>3, <1>4, MemoryParts DEF Own
<1> HIDE DEF hand, n
<1>5. QED
  BY <1>1, <1>2, <1>4 DEF InHand, hand, n

\* All ranks are below some number.
LEMMA RankBound ==
  ASSUME NEW n \in Nat, NEW f \in [1..n -> Nat]
  PROVE  \E b \in Nat : \A k \in 1..n : f[k] < b
<1> DEFINE S == {l \in 0..n : \E b \in Nat : \A k \in 1..l : f[k] < b}
<1>1. 0 \in S
  OBVIOUS
<1>2. ASSUME NEW l \in 1..n, l - 1 \in S
      PROVE  l \in S
  <2>1. PICK b \in Nat : \A k \in 1..(l - 1) : f[k] < b
    BY <1>2
  <2> DEFINE c == IF f[l] < b THEN b ELSE f[l] + 1
  <2>2. c \in Nat /\ f[l] < c /\ b <= c
    OBVIOUS
  <2> HIDE DEF c
  <2>3. \A k \in 1..l : k = l \/ k \in 1..(l - 1)
    OBVIOUS
  <2>4. \A k \in 1..l : f[k] \in Nat
    OBVIOUS
  <2>5. \A k \in 1..l : f[k] < c
    BY <2>1, <2>2, <2>3, <2>4
  <2>6. QED
    BY <2>2, <2>5
<1> HIDE DEF S
<1>3. \A l \in 0..n : l \in S
  BY <1>1, <1>2, CountUp
<1>4. n \in S
  BY <1>3
<1>5. QED
  BY <1>4 DEF S

-----------------------------------------------------------------------------
(* Storing at a location, making a list there, making a list there its own.  *)

\* In new, r is at a location of m, and nothing else is different.
Stored(m, loc, r, new) ==
  /\ Len(new.heap) = Len(m.heap) /\ new.hands = m.hands /\ Held(new, loc) = r
  /\ \A n \in 1..Len(m.heap) :
       /\ Len(new.heap[n]) = Len(m.heap[n])
       /\ \A i \in 1..Len(m.heap[n]) :
            new.heap[n][i] = IF loc = ElementOf(n, i) THEN r ELSE m.heap[n][i]
       /\ (\A i : loc # ElementOf(n, i)) => new.heap[n] = m.heap[n]

\* Storing a reference keeps the types, and the own lists lead to where it was stored.
LEMMA StoreParts ==
  ASSUME NEW m, WellFormed(m), NEW P, P \subseteq 1..Len(m.heap), NEW loc, Within(m, loc, P),
         NEW r \in Ref(Len(m.heap)), NEW new, new = Store(m, loc, r)
  PROVE  WellFormed(new) /\ Within(new, loc, P) /\ Stored(m, loc, r, new)
<1> DEFINE n == Len(m.heap)
           h == m.heap
           g == m.globals
           a == m.hands
           Ls == Lists(n)
           R == Ref(n)
<1>1. /\ n \in Nat /\ h \in Seq(Ls) /\ g \in [Symbols -> R] /\ a \in Seq(R)
      /\ m = [heap |-> h, globals |-> g, hands |-> a] /\ n = Len(h) /\ r \in R
      /\ \A k \in 1..n : h[k] \in Ls /\ h[k] \in Seq(R) /\ Len(h[k]) <= MaxList
      /\ P \subseteq 1..n
  BY MemoryParts, MemoryIs DEF Lists
<1>2. CASE \E s \in Symbols : loc = SlotOf(s)
  <2>1. PICK s \in Symbols : loc = SlotOf(s)
    BY <1>2
  <2>2. loc.list = 0 /\ loc.at = s /\ \A k \in 1..n : \A i : loc # ElementOf(k, i)
    BY <1>1, <2>1 DEF SlotOf, ElementOf
  <2> DEFINE gs == [g EXCEPT ![s] = r]
  <2>3. gs \in [Symbols -> R] /\ gs[s] = r
    BY <1>1
  <2>4. new = [m EXCEPT !.globals = gs]
    BY <2>2 DEF Store
  <2> HIDE DEF gs, h, g, a
  <2>5. new = [heap |-> h, globals |-> gs, hands |-> a]
    BY <1>1, <2>4
  <2> HIDE DEF n
  <2>6. WellFormed(new) /\ new.heap = h /\ new.globals = gs /\ new.hands = a
    BY <1>1, <2>3, <2>5, MemoryMade
  <2>7. Held(new, loc) = r
    BY <2>2, <2>3, <2>6 DEF Held
  <2>8. QED
    BY <2>1, <2>2, <2>6, <2>7 DEF Within, Stored, h, a, n
<1>3. CASE \E l \in P : \E i \in 1..Len(m.heap[l]) : loc = ElementOf(l, i)
  <2>1. PICK l \in P : \E i \in 1..Len(h[l]) : loc = ElementOf(l, i)
    BY <1>3
  <2>2. PICK i \in 1..Len(h[l]) : loc = ElementOf(l, i)
    BY <2>1
  <2>3. /\ l \in 1..n /\ loc.list = l /\ loc.at = i /\ l # 0
        /\ \A k, j : loc = ElementOf(k, j) <=> k = l /\ j = i
    BY <1>1, <2>1, <2>2 DEF ElementOf
  <2> DEFINE old == h[l]
             list == [old EXCEPT ![i] = r]
             hs == [h EXCEPT ![l] = list]
  <2>4. old \in Ls /\ old \in Seq(R) /\ Len(old) <= MaxList
    BY <1>1, <2>3
  <2>5. i \in 1..Len(old)
    BY <2>2
  <2> HIDE DEF old
  <2>6. /\ list \in Seq(R) /\ Len(list) = Len(old)
        /\ \A j \in 1..Len(old) : list[j] = IF j = i THEN r ELSE old[j]
    <3> HIDE DEF R
    <3>1. QED
      BY <1>1, <2>4, <2>5, ExceptSeq
  <2>7. list \in Ls
    BY <2>4, <2>6 DEF Lists
  <2>8. new = [m EXCEPT !.heap = hs]
    BY <2>3 DEF Store, old
  <2> HIDE DEF list
  <2>9. /\ hs \in Seq(Ls) /\ Len(hs) = n
        /\ \A k \in 1..n : hs[k] = IF k = l THEN list ELSE h[k]
    <3> HIDE DEF Ls, h
    <3>1. QED
      BY <1>1, <2>3, <2>7, ExceptSeq
  <2> HIDE DEF hs, h, g, a
  <2>10. new = [heap |-> hs, globals |-> g, hands |-> a]
    BY <1>1, <2>8
  <2> HIDE DEF n
  <2>11. WellFormed(new) /\ new.heap = hs /\ new.globals = g /\ new.hands = a
    BY <1>1, <2>9, <2>10, MemoryMade
  <2>12. Held(new, loc) = r
    BY <2>3, <2>5, <2>6, <2>9, <2>11 DEF Held
  <2>13. Within(new, loc, P)
    BY <2>1, <2>2, <2>3, <2>5, <2>6, <2>9, <2>11 DEF Within, old
  <2>14. \A k \in 1..n :
           /\ Len(new.heap[k]) = Len(h[k])
           /\ \A j \in 1..Len(h[k]) :
                new.heap[k][j] = IF loc = ElementOf(k, j) THEN r ELSE h[k][j]
           /\ (\A j : loc # ElementOf(k, j)) => new.heap[k] = h[k]
    BY <2>1, <2>3, <2>6, <2>9, <2>11 DEF old
  <2>15. QED
    BY <1>1, <2>9, <2>11, <2>12, <2>13, <2>14 DEF Stored, h, a, n
<1>4. QED
  BY <1>2, <1>3 DEF Within

\* A list that nothing leads to yet.
Grown(m, elements, new) ==
  LET n == Len(m.heap) IN
  /\ Len(new.heap) = n + 1 /\ new.globals = m.globals /\ new.hands = m.hands
  /\ new.heap[n + 1] = elements /\ \A k \in 1..n : new.heap[k] = m.heap[k]
  /\ \A k \in 1..n + 1 : k = n + 1 \/ k \in 1..n
  /\ n + 1 \in 1..n + 1 /\ n + 1 \notin 1..n /\ n \in Nat

\* So does adding a list.
LEMMA GrownParts ==
  ASSUME NEW m, WellFormed(m), NEW elements \in Lists(Len(m.heap)),
         NEW new, new = [m EXCEPT !.heap = Append(@, elements)]
  PROVE  WellFormed(new) /\ Grown(m, elements, new)
<1> DEFINE n == Len(m.heap)
           h == m.heap
           g == m.globals
           a == m.hands
           Ls == Lists(n + 1)
           R == Ref(n + 1)
<1>1. /\ n \in Nat /\ h \in Seq(Lists(n)) /\ g \in [Symbols -> Ref(n)] /\ a \in Seq(Ref(n))
      /\ m = [heap |-> h, globals |-> g, hands |-> a] /\ n = Len(h)
  BY MemoryParts, MemoryIs
<1>2. n + 1 \in Nat /\ n <= n + 1 /\ n + 1 \in 1..n + 1 /\ n + 1 \notin 1..n
      /\ \A k \in 1..n + 1 : k = n + 1 \/ k \in 1..n
  BY <1>1
<1>3. Lists(n) \subseteq Ls /\ Ref(n) \subseteq R
  BY <1>1, <1>2, ListsGrow, RefsAre
<1> HIDE DEF h, g, a
<1>4. h \in Seq(Ls) /\ g \in [Symbols -> R] /\ a \in Seq(R) /\ elements \in Ls
  <2>1. h \in Seq(Ls)
    BY <1>1, <1>3, SeqMonotonic
  <2>2. a \in Seq(R)
    BY <1>1, <1>3, SeqMonotonic
  <2>3. QED
    BY <1>1, <1>3, <2>1, <2>2
<1> DEFINE hs == Append(h, elements)
<1>0. new = [m EXCEPT !.heap = hs]
  BY DEF h
<1>5. new = [heap |-> hs, globals |-> g, hands |-> a]
  <2> HIDE DEF hs
  <2>1. QED
    BY <1>0, <1>1
<1>6. /\ hs \in Seq(Ls) /\ Len(hs) = n + 1 /\ hs[n + 1] = elements
      /\ \A k \in 1..n : hs[k] = h[k]
  <2> HIDE DEF Ls
  <2>1. QED
    BY <1>1, <1>4, AppendProperties
<1> HIDE DEF hs
<1>7. WellFormed(new) /\ new.heap = hs /\ new.globals = g /\ new.hands = a
  <2> HIDE DEF n
  <2> DEFINE l == n + 1
  <2>1. /\ l \in Nat /\ hs \in Seq(Lists(l)) /\ Len(hs) = l
        /\ g \in [Symbols -> Ref(l)] /\ a \in Seq(Ref(l))
    BY <1>2, <1>4, <1>6
  <2> DEFINE made == [heap |-> hs, globals |-> g, hands |-> a]
  <2> HIDE DEF l
  <2>2. \A x : x = made => WellFormed(x) /\ x.heap = hs /\ x.globals = g /\ x.hands = a
    BY <2>1, MemoryMade
  <2> HIDE DEF made
  <2>3. new = made
    BY <1>5 DEF made
  <2>4. QED
    BY <2>2, <2>3
<1> HIDE DEF n
<1>8. QED
  BY <1>1, <1>2, <1>6, <1>7 DEF Grown, n, h, g, a

\* What a list holds may be changed to refer to anything that does not lead to it.
LEMMA RanksLifted ==
  ASSUME NEW m, Sound(m), NEW P, Own(m, P), NEW h, Len(h) = Len(m.heap),
         \A n \in 1..Len(m.heap) : \A i \in 1..Len(h[n]) : h[n][i] \in 1..Len(h) =>
           \/ \E j \in 1..Len(m.heap[n]) : m.heap[n][j] = h[n][i]
           \/ n \in P /\ h[n][i] \notin P
  PROVE  Ranked(h)
<1> DEFINE l == Len(m.heap)
<1>1. PICK f : Ranks(m.heap, f)
  BY DEF Sound, Ranked
<1>2. l \in Nat /\ f \in [1..l -> Nat]
  BY <1>1, MemoryParts DEF Ranks, Sound
<1>3. PICK b \in Nat : \A k \in 1..l : f[k] < b
  BY <1>2, RankBound
<1> DEFINE new == [k \in 1..l |-> IF k \in P THEN f[k] + b ELSE f[k]]
<1>4. new \in [1..l -> Nat]
  BY <1>2, <1>3
<1>5. \A j, k \in 1..l : (f[j] < f[k] /\ (j \in P => k \in P)) => new[j] < new[k]
  BY <1>2
<1>6. \A j, k \in 1..l : k \in P /\ j \notin P => new[j] < new[k]
  BY <1>2, <1>3
<1> HIDE DEF new, l
<1>7. ASSUME NEW n \in 1..l, NEW i \in 1..Len(h[n]), h[n][i] \in 1..l
      PROVE  new[h[n][i]] < new[n]
  <2>1. CASE \E j \in 1..Len(m.heap[n]) : m.heap[n][j] = h[n][i]
    <3>1. PICK j \in 1..Len(m.heap[n]) : m.heap[n][j] = h[n][i]
      BY <2>1
    <3>2. f[h[n][i]] < f[n]
      BY <1>1, <1>7, <3>1 DEF Ranks, l
    <3>3. h[n][i] \in P => n \in P
      BY <3>1 DEF Own, l
    <3>4. QED
      BY <1>5, <1>7, <3>2, <3>3
  <2>2. CASE n \in P /\ h[n][i] \notin P
    BY <1>6, <1>7, <2>2
  <2>3. QED
    BY <1>7, <2>1, <2>2 DEF l
<1>8. Ranks(h, new)
  BY <1>4, <1>7 DEF Ranks, l
<1>9. QED
  BY <1>8 DEF Ranked

\* A value that does not lead to the place is stored there.
LEMMA StoreSound ==
  ASSUME NEW m, Sound(m), NEW P, Own(m, P), NEW loc, Within(m, loc, P),
         NEW r \in Ref(Len(m.heap)), r \notin P, NEW new, new = Store(m, loc, r)
  PROVE  Sound(new) /\ Own(new, P) /\ Len(new.heap) = Len(m.heap) /\ new.hands = m.hands
<1>1. P \subseteq 1..Len(m.heap) /\ WellFormed(m)
  BY DEF Own, Sound
<1>2. WellFormed(new) /\ Within(new, loc, P) /\ Stored(m, loc, r, new)
  BY <1>1, StoreParts
<1>3. ASSUME NEW n \in 1..Len(m.heap), NEW i, loc = ElementOf(n, i)
      PROVE  n \in P
  <2>1. loc.list = n /\ n # 0
    BY <1>1, <1>3, MemoryParts DEF ElementOf
  <2>2. \A s : SlotOf(s).list = 0
    BY DEF SlotOf
  <2>3. \A k, j : ElementOf(k, j).list = k
    BY DEF ElementOf
  <2>4. QED
    BY <2>1, <2>2, <2>3 DEF Within
<1>4. Ranked(new.heap)
  BY <1>2, <1>3, RanksLifted DEF Stored
<1>5. Own(new, P)
  BY <1>2 DEF Own, Stored
<1>6. QED
  BY <1>2, <1>4, <1>5 DEF Sound, Stored

\* A list made of what does not lead to the place.
LEMMA MakeSound ==
  ASSUME NEW m, Sound(m), NEW P, Own(m, P), NEW loc, Within(m, loc, P),
         NEW elements \in Lists(Len(m.heap)), \A i \in 1..Len(elements) : elements[i] \notin P,
         NEW new, new = Make(m, loc, elements)
  PROVE  Sound(new) /\ new.hands = m.hands /\ Len(m.heap) <= Len(new.heap)
<1> DEFINE n == Len(m.heap)
           grown == [m EXCEPT !.heap = Append(@, elements)]
<1>0. new = Store(grown, loc, n + 1)
  BY DEF Make
<1>1. WellFormed(m) /\ n \in Nat /\ P \subseteq 1..n
  BY MemoryParts DEF Sound, Own
<1>2. \E g : g = grown
  OBVIOUS
<1>3. PICK g : g = grown
  BY <1>2
<1>4. WellFormed(g) /\ Grown(m, elements, g)
  BY <1>1, <1>3, GrownParts
<1>5. new = Store(g, loc, n + 1)
  BY <1>0, <1>3
<1> HIDE DEF grown
<1>6. \A i \in 1..Len(elements) : elements[i] \in Ref(n)
  BY <1>1, ListsGrow
<1>7. Ranked(g.heap)
  <2>1. PICK f : Ranks(m.heap, f)
    BY DEF Sound, Ranked
  <2>2. f \in [1..n -> Nat]
    BY <2>1 DEF Ranks
  <2>3. PICK b \in Nat : \A k \in 1..n : f[k] < b
    BY <1>1, <2>2, RankBound
  <2> DEFINE ranks == [k \in 1..n + 1 |-> IF k = n + 1 THEN b ELSE f[k]]
  <2>4. /\ ranks \in [1..n + 1 -> Nat] /\ ranks[n + 1] = b /\ \A k \in 1..n : ranks[k] = f[k]
    BY <1>1, <2>2, <2>3
  <2> HIDE DEF ranks
  <2>5. Len(g.heap) = n + 1
    BY <1>4 DEF Grown
  <2>6. ASSUME NEW k \in 1..n, NEW i \in 1..Len(g.heap[k]), g.heap[k][i] \in 1..n + 1
        PROVE  ranks[g.heap[k][i]] < ranks[k]
    <3>1. g.heap[k] = m.heap[k]
      BY <1>4 DEF Grown
    <3>2. m.heap[k][i] \in 1..n
      <4>1. m.heap[k][i] \in Ref(n)
        BY <1>1, <2>6, <3>1, MemoryParts
      <4>2. 1..n + 1 \subseteq Nat
        OBVIOUS
      <4>3. QED
        BY <2>6, <3>1, <4>1, <4>2, CowAssumption DEF Ref
    <3>3. f[m.heap[k][i]] < f[k]
      BY <2>1, <2>6, <3>1, <3>2 DEF Ranks
    <3>4. QED
      BY <2>4, <3>1, <3>2, <3>3
  <2>7. ASSUME NEW i \in 1..Len(g.heap[n + 1]), g.heap[n + 1][i] \in 1..n + 1
        PROVE  ranks[g.heap[n + 1][i]] < ranks[n + 1]
    <3>1. g.heap[n + 1] = elements
      BY <1>4 DEF Grown
    <3>2. elements[i] \in 1..n
      <4>1. 1..n + 1 \subseteq Nat
        OBVIOUS
      <4>2. QED
        BY <1>6, <2>7, <3>1, <4>1, CowAssumption DEF Ref
    <3>3. QED
      BY <2>3, <2>4, <3>1, <3>2
  <2>8. Ranks(g.heap, ranks)
    <3>1. \A k \in 1..n + 1 : k = n + 1 \/ k \in 1..n
      BY <1>1
    <3>2. \A k \in 1..n + 1 : \A i \in 1..Len(g.heap[k]) : g.heap[k][i] \in 1..n + 1 =>
            ranks[g.heap[k][i]] < ranks[k]
      BY <2>6, <2>7, <3>1
    <3>3. QED
      BY <2>4, <2>5, <3>2 DEF Ranks
  <2>9. QED
    BY <2>8 DEF Ranked
<1>8. Sound(g)
  BY <1>4, <1>7 DEF Sound
<1>9. Own(g, P)
  <2>1. ASSUME NEW k \in 1..n + 1, NEW i \in 1..Len(g.heap[k]), g.heap[k][i] \in P
        PROVE  k \in P
    BY <1>4, <2>1 DEF Grown, Own
  <2>2. P \subseteq 1..n + 1
    BY <1>1
  <2>3. QED
    BY <1>4, <2>1, <2>2 DEF Grown, Own
<1>10. Within(g, loc, P)
  BY <1>1, <1>4 DEF Within, Grown
<1>11. n + 1 \in Ref(Len(g.heap)) /\ n + 1 \notin P
  BY <1>1, <1>4 DEF Grown, Ref
<1>12. Sound(new) /\ Len(new.heap) = Len(g.heap) /\ new.hands = g.hands
  BY <1>5, <1>8, <1>9, <1>10, <1>11, StoreSound
<1>13. QED
  BY <1>1, <1>4, <1>12 DEF Grown

\* What is at a location is an atom or a list.
LEMMA HeldIsRef ==
  ASSUME NEW m, WellFormed(m), NEW P, P \subseteq 1..Len(m.heap), NEW loc, Within(m, loc, P)
  PROVE  Held(m, loc) \in Ref(Len(m.heap))
<1>1. CASE \E s \in Symbols : loc = SlotOf(s)
  BY <1>1, MemoryParts DEF SlotOf, Held
<1>2. CASE \E n \in P : \E i \in 1..Len(m.heap[n]) : loc = ElementOf(n, i)
  <2>1. PICK n \in P : \E i \in 1..Len(m.heap[n]) : loc = ElementOf(n, i)
    BY <1>2
  <2>2. PICK i \in 1..Len(m.heap[n]) : loc = ElementOf(n, i)
    BY <2>1
  <2>3. n \in 1..Len(m.heap) /\ n # 0 /\ loc.list = n /\ loc.at = i
    BY <2>1, <2>2, MemoryParts DEF ElementOf
  <2>4. QED
    BY <2>2, <2>3, MemoryParts DEF Held
<1>3. QED
  BY <1>1, <1>2 DEF Within

\* The numbers up to n are finitely many.
LEMMA UptoFinite ==
  \A n \in Nat : IsFiniteSet(1..n)
BY FS_Interval

\* Whatever refers to n is at the location from.
Sole(m, n, from) ==
  /\ \A k \in 1..Len(m.hands) : m.hands[k] # n
  /\ \A s \in Symbols : m.globals[s] = n => from = SlotOf(s)
  /\ \A l \in 1..Len(m.heap) : \A i \in 1..Len(m.heap[l]) :
       m.heap[l][i] = n => from = ElementOf(l, i)

\* A list with one reference is nowhere but at the location that has it.
LEMMA ReferredOnce ==
  ASSUME NEW m, WellFormed(m), NEW P, P \subseteq 1..Len(m.heap), NEW loc, Within(m, loc, P),
         References(m, Held(m, loc)) = 1
  PROVE  Sole(m, Held(m, loc), loc)
<1> DEFINE n == Held(m, loc)
           A == {s \in Symbols : m.globals[s] = n}
           B == {k \in DOMAIN m.hands : m.hands[k] = n}
           C == UNION {{<<l, i>> : i \in {j \in DOMAIN m.heap[l] : m.heap[l][j] = n}}
                         : l \in DOMAIN m.heap}
<1>1. /\ Len(m.heap) \in Nat /\ Len(m.hands) \in Nat /\ DOMAIN m.hands = 1..Len(m.hands)
      /\ DOMAIN m.heap = 1..Len(m.heap)
      /\ \A l \in 1..Len(m.heap) : /\ DOMAIN m.heap[l] = 1..Len(m.heap[l])
                                   /\ Len(m.heap[l]) \in Nat /\ Len(m.heap[l]) <= MaxList
  BY MemoryParts
<1>2. Cardinality(A) + Cardinality(B) + Cardinality(C) = 1
  BY DEF References
<1>3. \A x : x \in C <=> \E l \in 1..Len(m.heap) : \E i \in 1..Len(m.heap[l]) :
                           x = <<l, i>> /\ m.heap[l][i] = n
  BY <1>1
<1> HIDE DEF n
<1>4. IsFiniteSet(A)
  BY CowAssumption, FS_Subset
<1>5. IsFiniteSet(B)
  <2>1. IsFiniteSet(1..Len(m.hands))
    BY <1>1, UptoFinite
  <2>2. B \in SUBSET (1..Len(m.hands))
    BY <1>1
  <2> HIDE DEF B
  <2>3. QED
    BY <2>1, <2>2, FS_Subset
<1> HIDE DEF C
<1>6. IsFiniteSet(C)
  <2> DEFINE X == 1..Len(m.heap)
             Y == 1..MaxList
  <2>1. IsFiniteSet(X)
    BY <1>1, UptoFinite
  <2>2. IsFiniteSet(Y)
    BY PlaceAssumption, UptoFinite
  <2>3. C \subseteq X \X Y
    BY <1>1, <1>3, PlaceAssumption
  <2> HIDE DEF X, Y
  <2>4. IsFiniteSet(X \X Y)
    BY <2>1, <2>2, FS_Product
  <2>5. QED
    BY <2>3, <2>4, FS_Subset
<1> HIDE DEF A, B
<1>7. Cardinality(A) \in Nat /\ Cardinality(B) \in Nat /\ Cardinality(C) \in Nat
  BY <1>4, <1>5, <1>6, FS_CardinalityType
<1>8. /\ Cardinality(A) = 0 <=> A = {}
      /\ Cardinality(B) = 0 <=> B = {}
      /\ Cardinality(C) = 0 <=> C = {}
      /\ Cardinality(A) = 1 => \E x : A = {x}
      /\ Cardinality(C) = 1 => \E x : C = {x}
  BY <1>4, <1>5, <1>6, FS_EmptySet, FS_Singleton
<1>9. \A k \in 1..Len(m.hands) : m.hands[k] = n => k \in B
  BY <1>1 DEF B
<1>10. CASE \E s \in Symbols : loc = SlotOf(s)
  <2>0. PICK s \in Symbols : loc = SlotOf(s)
    BY <1>10
  <2>1. s \in A
    BY <2>0 DEF A, n, SlotOf, Held
  <2>2. B = {} /\ C = {} /\ Cardinality(A) = 1
    BY <1>2, <1>7, <1>8, <2>1
  <2>3. \A t \in Symbols : m.globals[t] = n => t = s
    <3>1. \A t \in A : t = s
      BY <1>8, <2>1, <2>2
    <3>2. QED
      BY <3>1 DEF A
  <2>4. QED
    BY <1>3, <1>9, <2>0, <2>2, <2>3 DEF n, Sole
<1>11. CASE \E l \in P : \E i \in 1..Len(m.heap[l]) : loc = ElementOf(l, i)
  <2>0. PICK l \in P : \E i \in 1..Len(m.heap[l]) : loc = ElementOf(l, i)
    BY <1>11
  <2>1. PICK i \in 1..Len(m.heap[l]) : loc = ElementOf(l, i)
    BY <2>0
  <2>2. l \in 1..Len(m.heap) /\ l # 0 /\ loc.list = l /\ loc.at = i
    BY <1>1, <2>1 DEF ElementOf
  <2>3. m.heap[l][i] = n
    BY <2>2 DEF n, Held
  <2>4. <<l, i>> \in C
    BY <1>3, <2>1, <2>2, <2>3
  <2>5. A = {} /\ B = {} /\ Cardinality(C) = 1
    BY <1>2, <1>7, <1>8, <2>4
  <2>6. \A x \in C : x = <<l, i>>
    BY <1>8, <2>4, <2>5
  <2>7. \A k \in 1..Len(m.heap) : \A j \in 1..Len(m.heap[k]) :
          m.heap[k][j] = n => k = l /\ j = i
    <3>1. ASSUME NEW k \in 1..Len(m.heap), NEW j \in 1..Len(m.heap[k]), m.heap[k][j] = n
          PROVE  k = l /\ j = i
      <4>1. <<k, j>> \in C
        BY <1>3, <3>1
      <4>2. <<k, j>> = <<l, i>>
        BY <2>6, <4>1
      <4>3. QED
        BY <4>2
    <3>2. QED
      BY <3>1
  <2>8. \A s \in Symbols : m.globals[s] # n
    BY <2>5 DEF A
  <2>9. QED
    BY <1>9, <2>1, <2>5, <2>7, <2>8 DEF n, Sole
<1>12. QED
  BY <1>10, <1>11 DEF Within

\* What being on the way to a location leaves: m with lists copied.
Kept(m, new) ==
  /\ Sound(new) /\ new.hands = m.hands /\ Len(m.heap) <= Len(new.heap)
  /\ InHand(new) = InHand(m)

\* The list at a location is the location's own, and in Q.
OwnAt(m, loc, new, Q) ==
  /\ Kept(m, new)
  /\ Own(new, Q) /\ Within(new, loc, Q) /\ Held(new, loc) \in Q
  /\ new.heap[Held(new, loc)] = m.heap[Held(m, loc)]

\* What make_mut does to a shared list: the place then holds a copy of its own.
LEMMA CopySound ==
  ASSUME NEW m, Sound(m), NEW P, Own(m, P), NEW loc, Within(m, loc, P),
         Held(m, loc) \in 1..Len(m.heap),
         NEW new, new = Make(m, loc, m.heap[Held(m, loc)])
  PROVE  \E Q : OwnAt(m, loc, new, Q)
<1> DEFINE l == Len(m.heap)
           n == Held(m, loc)
           copy == m.heap[n]
           grown == [m EXCEPT !.heap = Append(@, copy)]
           Q == P \cup {l + 1}
<1>1. /\ WellFormed(m) /\ l \in Nat /\ P \subseteq 1..l /\ n \in 1..l
      /\ copy \in Lists(l) /\ \A i \in 1..Len(copy) : copy[i] \in Ref(l)
  BY MemoryParts DEF Sound, Own
<1>2. \E g : g = grown
  OBVIOUS
<1>3. PICK g : g = grown
  BY <1>2
<1>4. WellFormed(g) /\ Grown(m, copy, g)
  BY <1>1, <1>3, GrownParts
<1>5. new = Store(g, loc, l + 1)
  BY <1>3 DEF Make
<1> HIDE DEF grown
<1>6. Within(g, loc, P) /\ P \subseteq 1..Len(g.heap)
  BY SMTT(30), <1>1, <1>4 DEF Within, Grown
<1>7. l + 1 \in Ref(Len(g.heap)) /\ l + 1 \notin P /\ l + 1 \notin Ref(l)
  <2>1. l + 1 \notin 1..l /\ l + 1 \in Nat
    BY <1>1
  <2>2. QED
    BY <1>1, <1>4, <2>1, CowAssumption DEF Grown, Ref
<1>8. WellFormed(new) /\ Within(new, loc, P) /\ Stored(g, loc, l + 1, new)
  BY <1>4, <1>5, <1>6, <1>7, StoreParts
<1> HIDE DEF l, n, Q
<1>9. /\ Len(new.heap) = l + 1 /\ new.hands = m.hands /\ Held(new, loc) = l + 1
      /\ \A k \in 1..l + 1 : k = l + 1 \/ k \in 1..l
      /\ l + 1 \in 1..l + 1
  BY <1>4, <1>8 DEF Grown, Stored, l
<1>10. \A k, i : loc = ElementOf(k, i) => k \in P \/ k = 0
  <2>1. \A s : SlotOf(s).list = 0
    BY DEF SlotOf
  <2>2. \A k, i : ElementOf(k, i).list = k /\ ElementOf(k, i).at = i
    BY DEF ElementOf
  <2>3. QED
    BY <1>6, <2>1, <2>2 DEF Within
<1>11. 0 \notin 1..l + 1 /\ l + 1 \notin P /\ l + 1 # 0
  BY <1>1, <1>7
<1>12. new.heap[l + 1] = copy
  BY <1>4, <1>8, <1>9, <1>10, <1>11 DEF Grown, Stored, l
<1>13. ASSUME NEW k \in 1..l
       PROVE  /\ Len(new.heap[k]) = Len(m.heap[k])
              /\ \A i \in 1..Len(m.heap[k]) :
                   new.heap[k][i] = IF loc = ElementOf(k, i) THEN l + 1 ELSE m.heap[k][i]
              /\ k \notin P => new.heap[k] = m.heap[k]
  <2>1. g.heap[k] = m.heap[k] /\ k \in 1..Len(g.heap)
    BY <1>4 DEF Grown, l
  <2>2. \A i : k \notin P => loc # ElementOf(k, i)
    BY <1>10, <1>11
  <2>3. QED
    BY <1>8, <2>1, <2>2 DEF Stored
<1>14. \A k \in 1..l : \A i \in 1..Len(m.heap[k]) : loc = ElementOf(k, i) => m.heap[k][i] = n
  <2>1. \A k, i : ElementOf(k, i).list = k /\ ElementOf(k, i).at = i
    BY DEF ElementOf
  <2>2. 0 \notin 1..l
    BY <1>1
  <2>3. QED
    BY <2>1, <2>2 DEF n, Held
<1>15. Ranked(new.heap)
  <2>1. PICK f : Ranks(m.heap, f)
    BY DEF Sound, Ranked
  <2>2. f \in [1..l -> Nat]
    BY <2>1 DEF Ranks, l
  <2> DEFINE ranks == [k \in 1..l + 1 |-> IF k = l + 1 THEN f[n] ELSE f[k]]
  <2>3. /\ ranks \in [1..l + 1 -> Nat] /\ ranks[l + 1] = f[n] /\ \A k \in 1..l : ranks[k] = f[k]
    <3>1. f[n] \in Nat
      BY <1>1, <2>2
    <3>2. \A k \in 1..l + 1 : k = l + 1 \/ k \in 1..l
      BY <1>9
    <3>3. \A k \in 1..l : k # l + 1 /\ k \in 1..l + 1
      BY <1>1, <1>7 DEF Ref
    <3>4. QED
      BY <1>9, <2>2, <3>1, <3>2, <3>3
  <2> HIDE DEF ranks
  <2>4. \A k \in 1..l : \A i \in 1..Len(m.heap[k]) : m.heap[k][i] \in 1..l => f[m.heap[k][i]] < f[k]
    BY <2>1 DEF Ranks, l
  <2>5. \A k \in 1..l : \A i \in 1..Len(m.heap[k]) : m.heap[k][i] \in 1..l + 1 => m.heap[k][i] \in 1..l
    <3>1. \A k \in 1..l : \A i \in 1..Len(m.heap[k]) : m.heap[k][i] \in Ref(l)
      BY <1>1, MemoryParts DEF l
    <3>2. QED
      BY <1>7, <1>9, <3>1
  <2>6. ASSUME NEW k \in 1..l, NEW i \in 1..Len(new.heap[k]), new.heap[k][i] \in 1..l + 1
        PROVE  ranks[new.heap[k][i]] < ranks[k]
    <3>0. i \in 1..Len(m.heap[k])
      BY <1>13
    <3>1. CASE loc = ElementOf(k, i)
      <4>1. m.heap[k][i] = n /\ new.heap[k][i] = l + 1
        BY <1>13, <1>14, <3>0, <3>1
      <4>2. f[n] < f[k]
        BY <1>1, <2>4, <3>0, <4>1
      <4>3. QED
        BY <2>3, <4>1, <4>2
    <3>2. CASE loc # ElementOf(k, i)
      <4>1. new.heap[k][i] = m.heap[k][i]
        BY <1>13, <3>0, <3>2
      <4>2. m.heap[k][i] \in 1..l
        BY <2>5, <2>6, <3>0, <4>1
      <4>3. QED
        BY <2>3, <2>4, <3>0, <4>1, <4>2
    <3>3. QED
      BY <3>1, <3>2
  <2>7. ASSUME NEW i \in 1..Len(new.heap[l + 1]), new.heap[l + 1][i] \in 1..l + 1
        PROVE  ranks[new.heap[l + 1][i]] < ranks[l + 1]
    <3>1. new.heap[l + 1][i] = m.heap[n][i] /\ i \in 1..Len(m.heap[n])
      BY <1>12, <2>7
    <3>2. m.heap[n][i] \in 1..l
      BY <1>1, <2>5, <2>7, <3>1
    <3>3. f[m.heap[n][i]] < f[n]
      BY <1>1, <2>4, <3>1, <3>2
    <3>4. QED
      BY <2>3, <3>1, <3>2, <3>3
  <2>8. \A k \in 1..l + 1 : \A i \in 1..Len(new.heap[k]) : new.heap[k][i] \in 1..l + 1 =>
          ranks[new.heap[k][i]] < ranks[k]
    BY <1>9, <2>6, <2>7
  <2>9. Ranks(new.heap, ranks)
    BY <1>9, <2>3, <2>8 DEF Ranks
  <2>10. QED
    BY <2>9 DEF Ranked
<1>16. Own(new, Q)
  <2>1. Q \subseteq 1..Len(new.heap)
    BY <1>4, <1>6, <1>8, <1>9 DEF Q, Grown, Stored
  <2>2. ASSUME NEW k \in 1..Len(new.hands)
        PROVE  new.hands[k] \notin Q
    <3>1. new.hands[k] = m.hands[k] /\ m.hands[k] \in Ref(l) /\ m.hands[k] \notin P
      BY <1>1, <1>9, MemoryParts DEF Own, l
    <3>2. QED
      BY <1>7, <3>1 DEF Q
  <2>3. ASSUME NEW k \in 1..l, NEW i \in 1..Len(new.heap[k]), new.heap[k][i] \in Q
        PROVE  k \in Q
    <3>0. i \in 1..Len(m.heap[k])
      BY <1>13
    <3>1. CASE loc = ElementOf(k, i)
      BY <1>10, <1>11, <3>1, <1>9, <1>1 DEF Q
    <3>2. CASE loc # ElementOf(k, i)
      <4>1. new.heap[k][i] = m.heap[k][i] /\ m.heap[k][i] \in Ref(l)
        BY <1>1, <1>13, <3>0, <3>2, MemoryParts DEF l
      <4>2. m.heap[k][i] \in P
        BY <1>7, <2>3, <4>1 DEF Q
      <4>3. QED
        BY <3>0, <4>2 DEF Own, Q, l
    <3>3. QED
      BY <3>1, <3>2
  <2>4. \A k \in 1..l + 1 : \A i \in 1..Len(new.heap[k]) : new.heap[k][i] \in Q => k \in Q
    BY <1>9, <2>3 DEF Q
  <2>5. QED
    BY <1>9, <2>1, <2>2, <2>4 DEF Own
<1>17. InHand(new) = InHand(m)
  <2> DEFINE hand == {m.hands[k] : k \in 1..Len(m.hands)} \ Atoms
  <2>1. \A r \in hand : r \in 1..l /\ r \notin P
    <3>1. ASSUME NEW k \in 1..Len(m.hands)
          PROVE  m.hands[k] \in Ref(l) /\ m.hands[k] \notin P
      BY <1>1, MemoryParts DEF Own, l
    <3>2. QED
      BY <3>1 DEF Ref
  <2>2. \A r \in hand : new.heap[r] = m.heap[r]
    BY <1>13, <2>1
  <2>3. {new.hands[k] : k \in 1..Len(new.hands)} = {m.hands[k] : k \in 1..Len(m.hands)}
    BY <1>9
  <2>4. UNION {{new.heap[r][i] : i \in 1..Len(new.heap[r])} : r \in hand}
        = UNION {{m.heap[r][i] : i \in 1..Len(m.heap[r])} : r \in hand}
    BY <2>2
  <2>5. QED
    BY <2>3, <2>4 DEF InHand
<1>18. Within(new, loc, Q) /\ Held(new, loc) \in Q
  BY <1>8, <1>9 DEF Within, Q
<1>19. new.heap[Held(new, loc)] = m.heap[Held(m, loc)]
  BY <1>9, <1>12 DEF n
<1>20. Sound(new) /\ l <= Len(new.heap)
  BY <1>1, <1>8, <1>9, <1>15 DEF Sound
<1>21. OwnAt(m, loc, new, Q)
  BY <1>9, <1>16, <1>17, <1>18, <1>19, <1>20 DEF OwnAt, Kept, l
<1>22. QED
  BY <1>21

\* A list that is one location's already, or is copied to be.
LEMMA MakeMutSound ==
  ASSUME NEW m, Sound(m), NEW P, Own(m, P), NEW loc, Within(m, loc, P),
         Held(m, loc) \in 1..Len(m.heap),
         NEW new, new = MakeMut(m, loc)
  PROVE  \E Q : OwnAt(m, loc, new, Q)
<1>1. CASE References(m, Held(m, loc)) = 1
  <2> DEFINE n == Held(m, loc)
             Q == P \cup {n}
  <2>1. new = m
    BY <1>1 DEF MakeMut
  <2>2. WellFormed(m) /\ P \subseteq 1..Len(m.heap) /\ Len(m.heap) \in Nat
    BY MemoryParts DEF Sound, Own
  <2>3. /\ \A k \in 1..Len(m.hands) : m.hands[k] # n
        /\ \A l \in 1..Len(m.heap) : \A i \in 1..Len(m.heap[l]) :
              m.heap[l][i] = n => loc = ElementOf(l, i)
    BY <1>1, <2>2, ReferredOnce DEF Sole
  <2>4. \A l, i : l # 0 /\ loc = ElementOf(l, i) => l \in P
    <3>1. \A s : SlotOf(s).list = 0
      BY DEF SlotOf
    <3>2. \A k, i : ElementOf(k, i).list = k
      BY DEF ElementOf
    <3>3. QED
      BY <3>1, <3>2 DEF Within
  <2> HIDE DEF n
  <2>5. 0 \notin 1..Len(m.heap)
    OBVIOUS
  <2>6. Own(m, Q)
    BY <2>2, <2>3, <2>4, <2>5 DEF Own, n
  <2>7. Within(m, loc, Q)
    BY DEF Within
  <2>8. OwnAt(m, loc, m, Q)
    BY <2>2, <2>6, <2>7 DEF OwnAt, Kept, n
  <2>9. QED
    BY <2>1, <2>8
<1>2. CASE References(m, Held(m, loc)) # 1
  <2>1. new = Make(m, loc, m.heap[Held(m, loc)])
    BY <1>2 DEF MakeMut
  <2>2. QED
    BY <2>1, CopySound
<1>3. QED
  BY <1>1, <1>2

\* The list at a location is made its own and given other elements.
LEMMA RewriteSound ==
  ASSUME NEW m, Sound(m), NEW P, Own(m, P), NEW loc, Within(m, loc, P),
         Held(m, loc) \in 1..Len(m.heap),
         NEW elements \in Seq(Ref(Len(m.heap))), Len(elements) <= MaxList,
         \A i \in 1..Len(elements) :
           \/ elements[i] \in InHand(m)
           \/ \E j \in 1..Len(m.heap[Held(m, loc)]) : m.heap[Held(m, loc)][j] = elements[i],
         NEW new, new = Rewrite(m, loc, elements)
  PROVE  Sound(new) /\ new.hands = m.hands /\ Len(m.heap) <= Len(new.heap)
<1>1. PICK own : own = MakeMut(m, loc)
  OBVIOUS
<1>2. PICK Q : OwnAt(m, loc, own, Q)
  BY <1>1, MakeMutSound
<1> DEFINE n == Held(own, loc)
           h == own.heap
           l == Len(h)
           hs == [h EXCEPT ![n] = elements]
           Ls == Lists(l)
<1>3. new = [own EXCEPT !.heap = hs]
  BY <1>1 DEF Rewrite
<1>4. /\ WellFormed(own) /\ Sound(own) /\ Own(own, Q) /\ n \in Q
      /\ own.hands = m.hands /\ InHand(own) = InHand(m)
      /\ h[n] = m.heap[Held(m, loc)] /\ Len(m.heap) <= l
  BY <1>2 DEF OwnAt, Kept, Sound
<1>5. /\ l \in Nat /\ n \in 1..l /\ h \in Seq(Ls) /\ Len(m.heap) \in Nat
      /\ own = [heap |-> h, globals |-> own.globals, hands |-> own.hands]
      /\ own.globals \in [Symbols -> Ref(l)] /\ own.hands \in Seq(Ref(l))
  BY <1>4, MemoryParts, MemoryIs DEF Own, Sound
<1>6. elements \in Ls
  <2>1. Ref(Len(m.heap)) \subseteq Ref(l)
    BY <1>4, <1>5, RefsAre
  <2>2. elements \in Seq(Ref(l))
    BY <2>1, SeqMonotonic
  <2>3. QED
    BY <2>2 DEF Lists
<1> HIDE DEF n, h, Ls
<1>7. hs \in Seq(Ls) /\ Len(hs) = l /\ \A k \in 1..l : hs[k] = IF k = n THEN elements ELSE h[k]
  BY <1>5, <1>6, ExceptSeq
<1> HIDE DEF hs, l
<1>8. new = [heap |-> hs, globals |-> own.globals, hands |-> own.hands]
  BY <1>3, <1>5
<1>9. WellFormed(new) /\ new.heap = hs /\ new.hands = own.hands
  BY SMTT(30), <1>5, <1>7, <1>8, MemoryMade DEF Ls
<1>10. InHand(own) \cap Q = {}
  BY <1>4, HandsApart
<1>11. ASSUME NEW k \in 1..l, NEW i \in 1..Len(hs[k])
       PROVE  \/ \E j \in 1..Len(h[k]) : h[k][j] = hs[k][i]
              \/ k \in Q /\ hs[k][i] \notin Q
  BY <1>4, <1>7, <1>10, <1>11
<1>12. Ranked(hs)
  BY <1>4, <1>7, <1>11, RanksLifted DEF h, l
<1>13. QED
  BY <1>4, <1>7, <1>9, <1>12 DEF Sound, l
-----------------------------------------------------------------------------
(* The way to a place. *)

Locations == {SlotOf(s) : s \in Symbols} \cup {ElementOf(n, i) : n \in Nat, i \in Nat}

\* As far as some index of a path.
Steps == [m : UNION {Memories(n) : n \in Nat}, loc : Locations, ok : BOOLEAN]

OnTheWay(mem) ==
  {x \in Steps : Kept(mem, x.m) /\ \E Q : Own(x.m, Q) /\ Within(x.m, x.loc, Q)}

\* One index further.
Further(i, before) ==
  LET n == Held(before.m, before.loc)
  IN  IF before.ok /\ IsNode(n) /\ InRange(i, Len(before.m.heap[n]))
      THEN LET m == MakeMut(before.m, before.loc)
               own == Held(m, before.loc)
           IN  [m |-> m, ok |-> TRUE,
                loc |-> ElementOf(own, Position(i, Len(m.heap[own])))]
      ELSE [before EXCEPT !.ok = FALSE]

\* A step along a path that keeps what there was, and ends at a location of its own.
LEMMA StepIs ==
  ASSUME NEW mem, NEW m, Kept(mem, m), NEW Q, Own(m, Q), NEW loc, Within(m, loc, Q),
         NEW ok \in BOOLEAN, NEW x, x = [m |-> m, ok |-> ok, loc |-> loc]
  PROVE  x \in OnTheWay(mem)
<1>1. x.m = m /\ x.loc = loc /\ x.ok = ok /\ x = [m |-> m, loc |-> loc, ok |-> ok]
  OBVIOUS
<1>2. m \in UNION {Memories(n) : n \in Nat}
  BY DEF Kept, Sound, WellFormed
<1>3. loc \in Locations
  <2>1. CASE \E s \in Symbols : loc = SlotOf(s)
    BY <2>1 DEF Locations
  <2>2. CASE \E n \in Q : \E i \in 1..Len(m.heap[n]) : loc = ElementOf(n, i)
    <3>1. PICK n \in Q : \E i \in 1..Len(m.heap[n]) : loc = ElementOf(n, i)
      BY <2>2
    <3>2. PICK i \in 1..Len(m.heap[n]) : loc = ElementOf(n, i)
      BY <3>1
    <3>3. n \in Nat /\ i \in Nat
      <4>1. n \in 1..Len(m.heap) /\ WellFormed(m)
        BY DEF Own, Kept, Sound
      <4>2. QED
        BY <4>1, MemoryParts
    <3>4. QED
      BY <3>2, <3>3 DEF Locations
  <2>3. QED
    BY <2>1, <2>2 DEF Within
<1>4. x \in Steps
  BY <1>1, <1>2, <1>3 DEF Steps
<1>5. QED
  BY <1>1, <1>4 DEF OnTheWay

\* Two changes that each keep what there was keep it together.
LEMMA KeptTwice ==
  ASSUME NEW m, WellFormed(m), NEW n, Kept(m, n), NEW o, Kept(n, o)
  PROVE  Kept(m, o)
<1>1. Len(m.heap) \in Nat /\ Len(n.heap) \in Nat /\ Len(o.heap) \in Nat
  BY DEF Kept, Sound, WellFormed
<1>2. QED
  BY <1>1 DEF Kept

\* One step along a path (the body of place_navigate's loop) keeps it.
LEMMA FurtherSound ==
  ASSUME NEW mem, WellFormed(mem), NEW x \in OnTheWay(mem), NEW i \in Int
  PROVE  Further(i, x) \in OnTheWay(mem)
<1>1. PICK Q : Own(x.m, Q) /\ Within(x.m, x.loc, Q)
  BY DEF OnTheWay
<1>2. /\ x = [m |-> x.m, loc |-> x.loc, ok |-> x.ok]
      /\ Kept(mem, x.m) /\ Sound(x.m) /\ WellFormed(x.m) /\ Q \subseteq 1..Len(x.m.heap)
  BY <1>1 DEF OnTheWay, Steps, Kept, Sound, Own
<1> DEFINE n == Held(x.m, x.loc)
           go == x.ok /\ IsNode(n) /\ InRange(i, Len(x.m.heap[n]))
<1>3. CASE go
  <2>1. PICK m : m = MakeMut(x.m, x.loc)
    OBVIOUS
  <2>2. n \in 1..Len(x.m.heap)
    <3>1. n \in Ref(Len(x.m.heap)) /\ Len(x.m.heap) \in Nat
      BY <1>1, <1>2, HeldIsRef, MemoryParts
    <3>2. QED
      BY <1>3, <3>1, RefsAre
  <2>3. PICK P : OwnAt(x.m, x.loc, m, P)
    BY <1>1, <1>2, <2>1, <2>2, MakeMutSound
  <2> DEFINE own == Held(m, x.loc)
             loc == ElementOf(own, Position(i, Len(m.heap[own])))
  <2>4. Kept(x.m, m) /\ Own(m, P) /\ own \in P /\ m.heap[own] = x.m.heap[n]
    BY <2>3 DEF OwnAt
  <2>5. Position(i, Len(m.heap[own])) \in 1..Len(m.heap[own])
    BY <1>3, <2>4 DEF InRange
  <2>6. Within(m, loc, P)
    BY <2>4, <2>5 DEF Within
  <2>7. Kept(mem, m)
    BY <1>2, <2>4, KeptTwice
  <2>8. Further(i, x) = [m |-> m, ok |-> TRUE, loc |-> loc]
    BY <1>3, <2>1 DEF Further
  <2> HIDE DEF own, loc
  <2>9. QED
    BY <2>4, <2>6, <2>7, <2>8, StepIs
<1>4. CASE ~ go
  <2>1. Further(i, x) = [x EXCEPT !.ok = FALSE]
    BY <1>4 DEF Further
  <2>2. Further(i, x) = [m |-> x.m, ok |-> FALSE, loc |-> x.loc]
    BY <1>2, <2>1
  <2>3. QED
    BY <1>1, <1>2, <2>2, StepIs
<1>5. QED
  BY <1>3, <1>4

\* The way to a place, index by index.
Way(mem, p, w) ==
  /\ w \in [0..Len(p.path) -> OnTheWay(mem)]
  /\ w[0] = [m |-> mem, loc |-> SlotOf(p.root), ok |-> TRUE]
  /\ \A k \in 1..Len(p.path) : w[k] = Further(p.path[k], w[k - 1])
  /\ Navigate(mem, p) = w[Len(p.path)]

\* The steps along a path, one by one: Navigate ends where the last of them ends.
LEMMA NavigateWay ==
  ASSUME NEW mem, Sound(mem), NEW p \in Place
  PROVE  \E w : Way(mem, p, w)
<1> DEFINE n == Len(p.path)
           first == [m |-> mem, loc |-> SlotOf(p.root), ok |-> TRUE]
           X == OnTheWay(mem)
           at(k) == p.path[k]
<1>1. n \in Nat /\ \A k \in 1..n : at(k) \in Int
  <2>1. p.path \in Seq(Int)
    BY PlaceAssumption DEF Place
  <2>2. QED
    BY <2>1
<1>2. WellFormed(mem)
  BY DEF Sound
<1>3. first \in X
  <2>1. Own(mem, {})
    BY DEF Own
  <2>2. Within(mem, SlotOf(p.root), {})
    BY DEF Within, Place
  <2>3. Kept(mem, mem)
    BY <1>2, MemoryParts DEF Kept
  <2> DEFINE loc == SlotOf(p.root)
             yes == TRUE
  <2>4. first = [m |-> mem, ok |-> yes, loc |-> loc] /\ Within(mem, loc, {}) /\ yes \in BOOLEAN
    BY <2>2
  <2> HIDE DEF first, loc, yes
  <2>5. QED
    BY <2>1, <2>3, <2>4, StepIs
<1> DEFINE step == [k \in 1..n |-> [x \in X |-> Further(at(k), x)]]
<1> HIDE DEF n
<1>4. step \in [1..n -> [X -> X]]
  BY <1>1, <1>2, FurtherSound
<1>5. \A k \in 1..n : \A x \in X : step[k][x] = Further(at(k), x)
  OBVIOUS
<1> HIDE DEF step, X, first
<1>0. \E f : Iterates(f, n, X, first, step)
  BY <1>1, <1>3, <1>4, RecursionExists
<1>6. PICK f \in [0..n -> X] : f[0] = first /\ \A k \in 1..n : f[k] = step[k][f[k - 1]]
  BY <1>0 DEF Iterates
<1>7. ASSUME NEW k \in 0..n, k # 0
      PROVE  k \in 1..n /\ k - 1 \in 0..n /\ f[k] = Further(at(k), f[k - 1])
  <2>1. k \in 1..n /\ k - 1 \in 0..n
    BY <1>1, <1>7
  <2>2. f[k - 1] \in X
    BY <2>1
  <2>3. QED
    BY <1>5, <1>6, <2>1, <2>2
<1>8. f = [k \in 0..n |-> IF k = 0 THEN first ELSE Further(at(k), f[k - 1])]
  BY <1>1, <1>6, <1>7
<1> DEFINE way == CHOOSE g : g = [k \in 0..n |-> IF k = 0 THEN first ELSE Further(at(k), g[k - 1])]
<1>9. way = [k \in 0..n |-> IF k = 0 THEN first ELSE Further(at(k), way[k - 1])]
  BY <1>8
<1>10. Navigate(mem, p) = way[n]
  BY DEF Navigate, Further, n, first
<1> HIDE DEF way
<1>11. \A k \in 0..n : k \in {y \in 0..n : way[y] = f[y]}
  <2> DEFINE S == {y \in 0..n : way[y] = f[y]}
  <2>1. 0 \in S
    BY <1>1, <1>6, <1>9
  <2>2. \A k \in 1..n : k - 1 \in S => k \in S
    BY <1>1, <1>7, <1>9
  <2> HIDE DEF S
  <2>3. \A k \in 0..n : k \in S
    BY <1>1, <2>1, <2>2, CountUp
  <2>4. QED
    BY <2>3 DEF S
<1>12. Navigate(mem, p) = f[n]
  BY <1>1, <1>10, <1>11
<1>13. \A k \in 1..n : f[k] = Further(at(k), f[k - 1])
  BY <1>1, <1>7
<1>14. Way(mem, p, f)
  BY <1>6, <1>12, <1>13 DEF Way, X, n, first
<1>15. QED
  BY <1>14

\* So a whole path keeps what there was, and ends at a location of its own.
LEMMA NavigateSound ==
  ASSUME NEW mem, Sound(mem), NEW p \in Place
  PROVE  Navigate(mem, p) \in OnTheWay(mem)
<1>1. Len(p.path) \in Nat
  BY PlaceAssumption DEF Place
<1>2. PICK w : Way(mem, p, w)
  BY NavigateWay
<1>3. w \in [0..Len(p.path) -> OnTheWay(mem)] /\ Navigate(mem, p) = w[Len(p.path)]
  BY <1>2 DEF Way
<1>4. Len(p.path) \in 0..Len(p.path)
  BY <1>1
<1>5. QED
  BY <1>3, <1>4
-----------------------------------------------------------------------------
(* The state: lists, slots and forms under way; what expressions stand for.  *)

\* What a form under way may be when there are n lists.
Forms(n) ==
  [form : {"setf", "replace"}, place : Place, held : Ref(n)] \cup [form : {"push"}, held : Ref(n)]

Shape ==
  LET n == Len(heap) IN
  /\ n \in Nat /\ n <= MaxNodes
  /\ heap \in Seq(Lists(n)) /\ globals \in [Symbols -> Ref(n)] /\ active \in Seq(Forms(n))

IInv == Shape /\ Ranked(heap)

\* What a form under way refers to is there, and stays there when lists are added.
LEMMA FormsAre ==
  ASSUME NEW n \in Nat
  PROVE  /\ \A f \in Forms(n) : /\ f.held \in Ref(n) /\ f.form \in {"setf", "replace", "push"}
                                /\ f.form # "push" => f.place \in Place
         /\ \A l : l \in Nat /\ n <= l => Forms(n) \subseteq Forms(l)
<1>1. \A l : l \in Nat /\ n <= l => Ref(n) \subseteq Ref(l)
  BY RefsAre
<1>2. ASSUME NEW f \in Forms(n)
      PROVE  /\ f.held \in Ref(n) /\ f.form \in {"setf", "replace", "push"}
             /\ f.form # "push" => f.place \in Place
  BY DEF Forms
<1>3. ASSUME NEW l, l \in Nat /\ n <= l, NEW f \in Forms(n)
      PROVE  f \in Forms(l)
  BY <1>1, <1>3 DEF Forms
<1>4. QED
  BY <1>2, <1>3

\* A value in hand, and its elements, if it is a list.
InOneHand(m, r) ==
  r \in InHand(m) /\ (IsNode(r) => \A i \in 1..Len(m.heap[r]) : m.heap[r][i] \in InHand(m))

\* An operation starts from a sound memory that has every form's value in hand.
LEMMA MemorySound ==
  ASSUME IInv, NEW hands \in Seq(Ref(Len(heap))), NEW mem, mem = Memory(hands)
  PROVE  /\ Sound(mem) /\ mem.heap = heap /\ mem.globals = globals
         /\ \A k \in 1..Len(hands) : InOneHand(mem, hands[k])
         /\ \A k \in 1..Len(active) : InOneHand(mem, active[k].held)
<1> DEFINE n == Len(heap)
           F == Forms(n)
           R == Ref(n)
           held == [k \in 1..Len(active) |-> active[k].held]
           all == held \o hands
<1>1. n \in Nat /\ heap \in Seq(Lists(n)) /\ globals \in [Symbols -> R] /\ active \in Seq(F)
  BY DEF IInv, Shape
<1>2. hands \in Seq(R) /\ Len(active) \in Nat /\ \A k \in 1..Len(active) : active[k] \in F
  <2> HIDE DEF F
  <2>1. QED
    BY <1>1
<1>3. \A f \in F : f.held \in R
  BY <1>1, FormsAre
<1> HIDE DEF F, R
<1>4. /\ held \in Seq(R) /\ Len(held) = Len(active)
      /\ \A k \in 1..Len(active) : held[k] = active[k].held
  BY <1>2, <1>3
<1> HIDE DEF held
<1>5. /\ all \in Seq(R) /\ Len(all) = Len(held) + Len(hands)
      /\ \A i \in 1 .. Len(held) + Len(hands) :
           all[i] = IF i <= Len(held) THEN held[i] ELSE hands[i - Len(held)]
  BY <1>2, <1>4, ConcatProperties
<1> HIDE DEF all
<1>6. mem = [heap |-> heap, globals |-> globals, hands |-> all]
  BY DEF Memory, all, held
<1> HIDE DEF n
<1>7. WellFormed(mem) /\ mem.heap = heap /\ mem.globals = globals /\ mem.hands = all
  BY SMTT(30), <1>1, <1>5, <1>6, MemoryMade DEF n, R
<1>8. Sound(mem)
  BY <1>7 DEF Sound, IInv
<1>9. \A i \in 1..Len(all) : InOneHand(mem, all[i])
  BY <1>7 DEF InHand, InOneHand, IsNode
<1>10. ASSUME NEW k \in 1..Len(hands)
       PROVE  InOneHand(mem, hands[k])
  <2>1. Len(held) \in Nat /\ Len(hands) \in Nat
    BY <1>2, <1>4
  <2> DEFINE i == Len(held) + k
  <2>2. i \in 1..Len(held) + Len(hands) /\ ~ (i <= Len(held)) /\ i - Len(held) = k
    BY <2>1
  <2>3. all[i] = hands[k]
    BY <1>5, <2>2
  <2>4. QED
    BY <1>5, <1>9, <2>2, <2>3
<1>11. ASSUME NEW k \in 1..Len(active)
       PROVE  InOneHand(mem, active[k].held)
  <2>1. Len(hands) \in Nat
    BY <1>2
  <2>2. k \in 1..Len(held) + Len(hands) /\ k <= Len(held)
    BY <1>2, <1>4, <2>1
  <2>3. QED
    BY <1>4, <1>5, <1>9, <2>2
<1>12. QED
  BY <1>7, <1>8, <1>10, <1>11

\* What an expression finds on its way.
Finds(m, p, n, r) ==
  /\ r \in [0..Len(p.path) -> Ref(n) \cup {Missing}] /\ r[0] = m.globals[p.root]
  /\ \A k \in 1..Len(p.path) :
       r[k] = IF IsNode(r[k - 1]) /\ InRange(p.path[k], Len(m.heap[r[k - 1]]))
                THEN m.heap[r[k - 1]][Position(p.path[k], Len(m.heap[r[k - 1]]))]
                ELSE Missing
  /\ Reached(m, p) = r[Len(p.path)]

\* What a path finds in lists whose references are good: a reference, or nothing.
LEMMA ReachedWay ==
  ASSUME NEW n \in Nat, NEW m, m.globals \in [Symbols -> Ref(n)],
         \A k \in 1..n : \A i \in 1..Len(m.heap[k]) : m.heap[k][i] \in Ref(n),
         NEW p, p.root \in Symbols, p.path \in Seq(Int)
  PROVE  \E r : Finds(m, p, n, r)
<1> DEFINE l == Len(p.path)
           X == Ref(n) \cup {Missing}
           first == m.globals[p.root]
           on(k, r) == IF IsNode(r) /\ InRange(p.path[k], Len(m.heap[r]))
                         THEN m.heap[r][Position(p.path[k], Len(m.heap[r]))]
                         ELSE Missing
           step == [k \in 1..l |-> [r \in X |-> on(k, r)]]
<1>1. l \in Nat /\ first \in X
  OBVIOUS
<1>2. \A k \in 1..l : \A r \in X : on(k, r) \in X
  <2>1. \A r \in Ref(n) : IsNode(r) <=> r \in 1..n
    BY RefsAre
  <2>2. ~ IsNode(Missing)
    BY DEF IsNode
  <2>3. QED
    BY <2>1, <2>2 DEF InRange
<1> HIDE DEF l, X, first, on
<1>3. step \in [1..l -> [X -> X]]
  BY <1>2
<1>4. \A k \in 1..l : \A r \in X : step[k][r] = on(k, r)
  OBVIOUS
<1> HIDE DEF step
<1>5. \E f : Iterates(f, l, X, first, step)
  BY <1>1, <1>3, RecursionExists
<1>6. PICK f \in [0..l -> X] : f[0] = first /\ \A k \in 1..l : f[k] = step[k][f[k - 1]]
  BY <1>5 DEF Iterates
<1>7. ASSUME NEW k \in 0..l, k # 0
      PROVE  k \in 1..l /\ k - 1 \in 0..l /\ f[k] = on(k, f[k - 1])
  <2>1. k \in 1..l /\ k - 1 \in 0..l
    BY <1>1, <1>7
  <2>2. f[k - 1] \in X
    BY <2>1
  <2>3. QED
    BY <1>4, <1>6, <2>1, <2>2
<1>8. f = [k \in 0..l |-> IF k = 0 THEN first ELSE on(k, f[k - 1])]
  BY <1>1, <1>6, <1>7
<1> DEFINE part == CHOOSE g : g = [k \in 0..l |-> IF k = 0 THEN first ELSE on(k, g[k - 1])]
<1>9. part = [k \in 0..l |-> IF k = 0 THEN first ELSE on(k, part[k - 1])]
  BY <1>8
<1>10. Reached(m, p) = part[l]
  BY DEF Reached, l, first, on
<1> HIDE DEF part
<1>11. \A k \in 0..l : k \in {y \in 0..l : part[y] = f[y]}
  <2> DEFINE S == {y \in 0..l : part[y] = f[y]}
  <2>1. 0 \in S
    BY <1>1, <1>6, <1>9
  <2>2. \A k \in 1..l : k - 1 \in S => k \in S
    BY <1>1, <1>7, <1>9
  <2> HIDE DEF S
  <2>3. \A k \in 0..l : k \in S
    BY <1>1, <2>1, <2>2, CountUp
  <2>4. QED
    BY <2>3 DEF S
<1>12. Reached(m, p) = f[l]
  BY <1>1, <1>10, <1>11
<1>13. \A k \in 1..l : f[k] = on(k, f[k - 1])
  BY <1>1, <1>7
<1>14. Finds(m, p, n, f)
  BY <1>6, <1>12, <1>13 DEF Finds, X, l, first, on
<1>15. QED
  BY <1>14

\* Reading a place yields a reference, or Missing.
LEMMA ReachedIsRef ==
  ASSUME NEW n \in Nat, NEW m, m.globals \in [Symbols -> Ref(n)],
         \A k \in 1..n : \A i \in 1..Len(m.heap[k]) : m.heap[k][i] \in Ref(n),
         NEW p \in Place
  PROVE  Reached(m, p) \in Ref(n) \cup {Missing}
<1>1. p.root \in Symbols /\ p.path \in Seq(Int) /\ Len(p.path) \in Nat
  BY PlaceAssumption DEF Place
<1>2. \E r : Finds(m, p, n, r)
  BY <1>1, ReachedWay
<1>3. QED
  BY <1>1, <1>2 DEF Finds

\* So does an expression.
LEMMA ValueIsRef ==
  ASSUME IInv, NEW e \in Expressions
  PROVE  ValueOf(e) \in Ref(Len(heap))
<1> DEFINE n == Len(heap)
<1>1. /\ n \in Nat /\ heap \in Seq(Lists(n)) /\ globals \in [Symbols -> Ref(n)]
      /\ active \in Seq(Forms(n))
  BY DEF IInv, Shape
<1>2. Nil \in Ref(n) /\ Atoms \subseteq Ref(n)
  BY <1>1, RefsAre
<1>3. ItValue \in Ref(n)
  <2>1. CASE Setfs = {}
    BY <1>2, <2>1 DEF ItValue
  <2>2. CASE Setfs # {}
    <3> DEFINE F == Forms(n)
               b == Len(active)
    <3>1. active \in Seq(F)
      BY <1>1
    <3> HIDE DEF F
    <3>2. b \in Nat /\ \A k \in 1..b : active[k] \in F
      BY <3>1
    <3>3. Setfs \in SUBSET (0..b) /\ Setfs \subseteq 1..b
      BY <3>2 DEF Setfs
    <3>4. PICK x \in Setfs : \A y \in Setfs : y <= x
      <4> HIDE DEF b
      <4>1. QED
        BY <2>2, <3>2, <3>3, GreatestElement
    <3>5. \A y \in Setfs : x >= y
      BY <3>2, <3>3, <3>4
    <3>6. Max(Setfs) \in Setfs
      BY <3>5 DEF Max
    <3>7. active[Max(Setfs)] \in F
      BY <3>2, <3>3, <3>6
    <3>8. active[Max(Setfs)].held \in Ref(n)
      <4>1. \A f \in F : f.held \in Ref(n)
        BY <1>1, FormsAre DEF F
      <4>2. QED
        BY <3>7, <4>1
    <3>9. QED
      BY <2>2, <3>8 DEF ItValue
  <2>3. QED
    BY <2>1, <2>2
<1>4. ASSUME NEW p \in Place
      PROVE  At(p) \in Ref(n) \cup {Missing}
  <2> DEFINE m == [heap |-> heap, globals |-> globals]
             Ls == Lists(n)
  <2>1. m.heap = heap /\ m.globals = globals
    OBVIOUS
  <2>2. At(p) = Reached(m, p)
    BY DEF At
  <2>3. \A k \in 1..n : \A i \in 1..Len(heap[k]) : heap[k][i] \in Ref(n)
    <3>1. heap \in Seq(Ls) /\ \A l \in Ls : \A i \in 1..Len(l) : l[i] \in Ref(n)
      BY <1>1, ListsGrow
    <3> HIDE DEF Ls
    <3>2. \A k \in 1..n : heap[k] \in Ls
      BY <3>1
    <3>3. QED
      BY <3>1, <3>2
  <2> HIDE DEF m, n
  <2>4. QED
    BY <1>1, <2>1, <2>2, <2>3, ReachedIsRef
<1>5. QED
  <2>1. CASE e \in Atoms
    BY <1>2, <2>1 DEF ValueOf
  <2>2. CASE e \notin Atoms /\ e = It
    BY <1>3, <2>2 DEF ValueOf
  <2>3. CASE e \notin Atoms /\ e # It
    <3>1. e \in Place
      BY <2>3 DEF Expressions
    <3>2. QED
      BY <1>2, <1>4, <2>3, <3>1 DEF ValueOf
  <2>4. QED
    BY <2>1, <2>2, <2>3
-----------------------------------------------------------------------------
(* What is dropped: nothing that something leads to. *)

\* What can be reached is a set that holds the nodes it starts from and the elements of
\* its lists, and is ranked no higher than where it starts.
LEMMA BelowIs ==
  ASSUME NEW h, Len(h) \in Nat, \A n \in 1..Len(h) : Children(h, n) \subseteq 1..Len(h),
         NEW S, S \subseteq 1..Len(h)
  PROVE  LET used == Below(h, S) IN
         /\ used \subseteq 1..Len(h) /\ S \subseteq used
         /\ \A n \in used : Children(h, n) \subseteq used
         /\ \A f \in [1..Len(h) -> Nat] :
              (\A n \in 1..Len(h) : \A c \in Children(h, n) : f[c] < f[n]) =>
                \A x \in used : \E s \in S : f[x] <= f[s]
<1> DEFINE l == Len(h)
           A == 1..l
           X == SUBSET A
           on(R) == R \cup UNION {Children(h, n) : n \in R}
           step == [k \in 1..l |-> [R \in X |-> on(R)]]
<1>1. l \in Nat /\ S \in X /\ \A n \in A : Children(h, n) \subseteq A
  OBVIOUS
<1>2. \A R \in X : on(R) \in X
  OBVIOUS
<1>3. step \in [1..l -> [X -> X]] /\ \A k \in 1..l : \A R \in X : step[k][R] = on(R)
  BY <1>2
<1> HIDE DEF step, on
<1>4. \E f : Iterates(f, l, X, S, step)
  <2> HIDE DEF X, l
  <2>1. QED
    BY <1>1, <1>3, RecursionExists
<1>5. PICK f \in [0..l -> X] : f[0] = S /\ \A k \in 1..l : f[k] = step[k][f[k - 1]]
  BY <1>4 DEF Iterates
<1> HIDE DEF l, X
<1>6. ASSUME NEW k \in 0..l, k # 0
      PROVE  k \in 1..l /\ k - 1 \in 0..l /\ f[k] = on(f[k - 1])
  <2>1. k \in 1..l /\ k - 1 \in 0..l
    BY <1>1, <1>6
  <2>2. f[k - 1] \in X
    BY <1>5, <2>1
  <2>3. QED
    BY <1>3, <1>5, <2>1, <2>2
<1>7. f = [k \in 0..l |-> IF k = 0 THEN S ELSE on(f[k - 1])]
  BY <1>1, <1>5, <1>6
<1> DEFINE reach == CHOOSE g : g = [k \in 0..l |-> IF k = 0 THEN S ELSE on(g[k - 1])]
<1>8. reach = [k \in 0..l |-> IF k = 0 THEN S ELSE on(reach[k - 1])]
  BY <1>7
<1>9. Below(h, S) = reach[l]
  BY DEF Below, l, on
<1> HIDE DEF reach
<1>10. /\ reach[0] = S /\ \A k \in 1..l : k - 1 \in 0..l /\ reach[k] = on(reach[k - 1])
       /\ 0 \in 0..l /\ l \in 0..l /\ \A k \in 1..l : k \in 0..l
  BY <1>1, <1>8
<1>11. \A k \in 0..l : reach[k] \in X
  <2> DEFINE T == {k \in 0..l : reach[k] \in X}
  <2>1. 0 \in T
    BY <1>1, <1>10
  <2>2. \A k \in 1..l : k - 1 \in T => k \in T
    BY <1>2, <1>10
  <2> HIDE DEF T
  <2>3. \A k \in 0..l : k \in T
    BY <1>1, <2>1, <2>2, CountUp
  <2>4. QED
    BY <2>3 DEF T
<1>12. S \subseteq reach[l]
  <2> DEFINE T == {k \in 0..l : S \subseteq reach[k]}
  <2>1. 0 \in T
    BY <1>10
  <2>2. \A k \in 1..l : k - 1 \in T => k \in T
    BY <1>10 DEF on
  <2> HIDE DEF T
  <2>3. \A k \in 0..l : k \in T
    BY <1>1, <2>1, <2>2, CountUp
  <2>4. QED
    BY <1>10, <2>3 DEF T
<1> DEFINE Closed(R) == \A n \in R : Children(h, n) \subseteq R
<1>13. \A R \in X : IsFiniteSet(R) /\ Cardinality(R) \in Nat /\ Cardinality(R) <= l
  <2>1. IsFiniteSet(A) /\ Cardinality(A) = l
    <3>1. \A n \in Nat : IsFiniteSet(1..n) /\ Cardinality(1..n) = n
      <4>1. \A n \in Nat : IsFiniteSet(1..n) /\ Cardinality(1..n) = IF 1 > n THEN 0 ELSE n - 1 + 1
        BY FS_Interval
      <4>2. QED
        BY <4>1
    <3>2. QED
      BY <1>1, <3>1
  <2> HIDE DEF A
  <2>2. \A R : R \in SUBSET A => IsFiniteSet(R) /\ Cardinality(R) <= Cardinality(A)
    BY <2>1, FS_Subset
  <2>3. QED
    BY <2>1, <2>2, FS_CardinalityType DEF X
<1> DEFINE T == {k \in 0..l : Closed(reach[k]) \/ k <= Cardinality(reach[k])}
<1>14. 0 \in T
  BY <1>10, <1>11, <1>13
<1>15. ASSUME NEW k \in 1..l, k - 1 \in T
       PROVE  k \in T
  <2>1. reach[k] = on(reach[k - 1]) /\ reach[k - 1] \in X /\ reach[k] \in X
    BY <1>10, <1>11
  <2>2. CASE Closed(reach[k - 1])
    <3>1. reach[k] = reach[k - 1]
      BY <2>1, <2>2 DEF on
    <3>2. QED
      BY <1>10, <2>2, <3>1
  <2>3. CASE ~ Closed(reach[k - 1])
    <3>1. k - 1 <= Cardinality(reach[k - 1])
      BY <1>15, <2>3
    <3>2. PICK c : c \in reach[k] /\ c \notin reach[k - 1]
      BY <2>1, <2>3 DEF on
    <3>3. reach[k - 1] \cup {c} \in X
      BY <2>1, <3>2 DEF X, on
    <3> DEFINE more == reach[k - 1] \cup {c}
    <3>4. Cardinality(more) = Cardinality(reach[k - 1]) + 1
      BY <1>13, <2>1, <3>2, FS_AddElement
    <3>5. more \subseteq reach[k]
      BY <2>1, <3>2 DEF on
    <3> HIDE DEF more
    <3>6. Cardinality(more) <= Cardinality(reach[k])
      BY <1>13, <2>1, <3>5, FS_Subset
    <3>7. k <= Cardinality(reach[k])
      <4>1. Cardinality(reach[k - 1]) \in Nat /\ Cardinality(reach[k]) \in Nat
        BY <1>13, <2>1
      <4>2. QED
        BY <3>1, <3>4, <3>6, <4>1
    <3>8. QED
      BY <1>10, <3>7
  <2>4. QED
    BY <2>2, <2>3
<1> HIDE DEF T
<1>16. \A k \in 0..l : k \in T
  BY <1>1, <1>14, <1>15, CountUp
<1>17. Closed(reach[l])
  <2>1. CASE l <= Cardinality(reach[l])
    <3>1. reach[l] \in SUBSET A /\ Cardinality(reach[l]) = l
      BY <1>1, <1>10, <1>11, <1>13, <2>1 DEF X
    <3>2. IsFiniteSet(A) /\ Cardinality(A) = l /\ A \in X
      <4>1. \A n \in Nat : IsFiniteSet(1..n) /\ Cardinality(1..n) = IF 1 > n THEN 0 ELSE n - 1 + 1
        BY FS_Interval
      <4>2. QED
        BY <1>1, <4>1 DEF X
    <3> HIDE DEF A
    <3>3. reach[l] = A
      BY <3>1, <3>2, FS_Subset
    <3>4. QED
      BY <1>1, <3>3
  <2>2. QED
    BY <1>10, <1>16, <2>1 DEF T
<1>18. ASSUME NEW g \in [A -> Nat], \A n \in A : \A c \in Children(h, n) : g[c] < g[n]
       PROVE  \A x \in reach[l] : \E s \in S : g[x] <= g[s]
  <2> DEFINE U == {k \in 0..l : \A x \in reach[k] : \E s \in S : g[x] <= g[s]}
  <2>0. S \subseteq A /\ \A y \in A : g[y] \in Nat
    BY <1>1 DEF X
  <2>1. 0 \in U
    <3>1. \A x \in S : g[x] <= g[x]
      BY <2>0
    <3>2. \A x \in reach[0] : \E s \in S : g[x] <= g[s]
      BY <1>10, <3>1
    <3>3. QED
      BY <1>10, <3>2
  <2>2. ASSUME NEW k \in 1..l, k - 1 \in U, NEW x \in reach[k]
        PROVE  \E s \in S : g[x] <= g[s]
    <3>1. CASE x \in reach[k - 1]
      BY <2>2, <3>1
    <3>2. CASE x \notin reach[k - 1]
      <4>1. PICK n \in reach[k - 1] : x \in Children(h, n)
        BY <1>10, <3>2 DEF on
      <4>2. n \in A /\ x \in A
        BY <1>1, <1>10, <1>11, <4>1 DEF X
      <4>3. g[x] < g[n]
        BY <1>18, <4>1, <4>2
      <4>4. PICK s \in S : g[n] <= g[s]
        BY <2>2, <4>1
      <4>5. g[x] <= g[s]
        BY <2>0, <4>2, <4>3, <4>4
      <4>6. QED
        BY <4>5
    <3>3. QED
      BY <3>1, <3>2
  <2>3. \A k \in 1..l : k - 1 \in U => k \in U
    BY <1>10, <2>2
  <2> HIDE DEF U
  <2>4. \A k \in 0..l : k \in U
    BY <1>1, <2>1, <2>3, CountUp
  <2>5. QED
    BY <1>10, <2>4 DEF U
<1>19. QED
  BY <1>9, <1>10, <1>11, <1>12, <1>17, <1>18 DEF X, l

\* The nodes of a set, in order.
LEMMA InOrderIs ==
  ASSUME NEW n \in Nat, NEW S
  PROVE  /\ InOrder(S, n) \in Seq(1..n)
         /\ \A k \in 1..Len(InOrder(S, n)) : InOrder(S, n)[k] \in S
         /\ \A x \in 1..n : x \in S => \E k \in 1..Len(InOrder(S, n)) : InOrder(S, n)[k] = x
<1> DEFINE B == 1..n
           X == Seq(B)
           first == <<>>
           on(k, q) == IF k \in S THEN Append(q, k) ELSE q
           step == [k \in 1..n |-> [q \in X |-> on(k, q)]]
<1>1. first \in X /\ \A k \in B : \A q \in X : on(k, q) \in X
  <2> HIDE DEF B
  <2>1. QED
    BY AppendProperties
<1>2. step \in [1..n -> [X -> X]] /\ \A k \in 1..n : \A q \in X : step[k][q] = on(k, q)
  BY <1>1
<1> HIDE DEF step, on, X, first
<1>3. \E f : Iterates(f, n, X, first, step)
  BY <1>1, <1>2, RecursionExists
<1>4. PICK f \in [0..n -> X] : f[0] = first /\ \A k \in 1..n : f[k] = step[k][f[k - 1]]
  BY <1>3 DEF Iterates
<1>5. ASSUME NEW k \in 0..n, k # 0
      PROVE  k \in 1..n /\ k - 1 \in 0..n /\ f[k] = on(k, f[k - 1])
  <2>1. k \in 1..n /\ k - 1 \in 0..n
    BY <1>5
  <2>2. f[k - 1] \in X
    BY <1>4, <2>1
  <2>3. QED
    BY <1>2, <1>4, <2>1, <2>2
<1>6. f = [k \in 0..n |-> IF k = 0 THEN first ELSE on(k, f[k - 1])]
  BY <1>4, <1>5
<1> DEFINE upto == CHOOSE g : g = [k \in 0..n |-> IF k = 0 THEN first ELSE on(k, g[k - 1])]
<1>7. upto = [k \in 0..n |-> IF k = 0 THEN first ELSE on(k, upto[k - 1])]
  BY <1>6
<1>8. InOrder(S, n) = upto[n]
  BY DEF InOrder, first, on
<1> HIDE DEF upto
<1>9. /\ upto[0] = first /\ \A k \in 1..n : k - 1 \in 0..n /\ upto[k] = on(k, upto[k - 1])
      /\ 0 \in 0..n /\ n \in 0..n /\ \A k \in 1..n : k \in 0..n
  BY <1>7
<1> DEFINE Listed(k, q) ==
             /\ q \in X /\ \A i \in 1..Len(q) : q[i] \in S
             /\ \A x \in 1..k : x \in S => \E i \in 1..Len(q) : q[i] = x
           T == {k \in 0..n : Listed(k, upto[k])}
<1>10. 0 \in T
  BY <1>1, <1>9 DEF first
<1>11. ASSUME NEW k \in 1..n, k - 1 \in T
       PROVE  k \in T
  <2> DEFINE q == upto[k - 1]
             r == upto[k]
  <2>0. r = on(k, q) /\ Listed(k - 1, q) /\ k \in B
    BY <1>9, <1>11
  <2> HIDE DEF q, r
  <2>1. CASE k \in S
    <3> HIDE DEF B
    <3>1. /\ r \in X /\ Len(r) = Len(q) + 1 /\ Len(q) \in Nat
          /\ r[Len(q) + 1] = k /\ \A i \in 1..Len(q) : r[i] = q[i]
      BY <2>0, <2>1, AppendProperties DEF on, X
    <3>2. \A i \in 1..Len(r) : r[i] \in S
      <4>1. \A i \in 1..Len(r) : i = Len(q) + 1 \/ i \in 1..Len(q)
        BY <3>1
      <4>2. QED
        BY <2>0, <2>1, <3>1, <4>1
    <3>3. ASSUME NEW x \in 1..k, x \in S
          PROVE  \E i \in 1..Len(r) : r[i] = x
      <4>1. CASE x = k
        BY <3>1, <4>1
      <4>2. CASE x \in 1..(k - 1)
        <5>1. PICK i \in 1..Len(q) : q[i] = x
          BY <2>0, <3>3, <4>2
        <5>2. i \in 1..Len(r) /\ r[i] = x
          BY <3>1, <5>1
        <5>3. QED
          BY <5>2
      <4>3. QED
        BY <4>1, <4>2
    <3>4. Listed(k, r)
      BY <3>1, <3>2, <3>3
    <3>5. QED
      BY <1>9, <3>4 DEF r
  <2>2. CASE k \notin S
    <3>1. r = q
      BY <2>0, <2>2 DEF on
    <3>2. \A x \in 1..k : x \in S => x \in 1..(k - 1)
      BY <2>2
    <3>3. Listed(k, r)
      BY <2>0, <3>1, <3>2
    <3>4. QED
      BY <1>9, <3>3 DEF r
  <2>3. QED
    BY <2>1, <2>2
<1> HIDE DEF T
<1>12. \A k \in 0..n : k \in T
  BY <1>10, <1>11, CountUp
<1>13. Listed(n, upto[n])
  BY <1>9, <1>12 DEF T
<1>14. QED
  BY <1>8, <1>13 DEF X

\* Part of the lists of k are lists of h, which e says.
Image(h, k, A, e) ==
  /\ A \subseteq 1..Len(k) /\ e \in [A -> 1..Len(h)]
  /\ \A n \in A :
       /\ Len(k[n]) = Len(h[e[n]])
       /\ \A i \in 1..Len(k[n]) : \/ k[n][i] \in A /\ h[e[n]][i] = e[k[n][i]]
                                  \/ k[n][i] \in Atoms /\ h[e[n]][i] = k[n][i]

\* A slot has been renumbered, and e says what it was, if it is a list's.
Refers(e, n, new, old) == (new \in 1..n /\ old = e[new]) \/ (new \in Atoms /\ new = old)

\* What has been tidied is as it was, but for the numbers of the lists.
Renumbers(m, forms, after) ==
  LET n == Len(after.heap) IN
  \E e :
    /\ Image(m.heap, after.heap, 1..n, e)
    /\ \A s \in Symbols : Refers(e, n, after.globals[s], m.globals[s])
    /\ Len(after.active) = Len(forms)
    /\ \A k \in 1..Len(forms) :
         /\ after.active[k] = [forms[k] EXCEPT !.held = after.active[k].held]
         /\ Refers(e, n, after.active[k].held, forms[k].held)

\* What is left has its shape, and is ranked as it was.
LEMMA TidiedSound ==
  ASSUME NEW m, Sound(m), NEW forms, forms \in Seq(Forms(Len(m.heap))),
         NEW after, after = Tidied(m, forms)
  PROVE  LET n == Len(after.heap) IN
         /\ n \in Nat /\ after.heap \in Seq(Lists(n)) /\ after.globals \in [Symbols -> Ref(n)]
         /\ after.active \in Seq(Forms(n)) /\ Ranked(after.heap)
         /\ Renumbers(m, forms, after)
<1> DEFINE l == Len(m.heap)
           roots == {m.globals[s] : s \in Symbols} \cup {forms[k].held : k \in 1..Len(forms)}
           used == Below(m.heap, roots \ Atoms)
           kept == InOrder(used, l)
           Renumbered(r) == IF IsNode(r) THEN CHOOSE k \in 1..Len(kept) : kept[k] = r ELSE r
           hs == [k \in 1..Len(kept) |->
                   [i \in 1..Len(m.heap[kept[k]]) |-> Renumbered(m.heap[kept[k]][i])]]
           gs == [s \in Symbols |-> Renumbered(m.globals[s])]
           as == [k \in 1..Len(forms) |-> [forms[k] EXCEPT !.held = Renumbered(@)]]
<1>1. after.heap = hs /\ after.globals = gs /\ after.active = as
  BY DEF Tidied
<1>2. /\ WellFormed(m) /\ l \in Nat
      /\ \A k \in 1..l : /\ Len(m.heap[k]) \in Nat /\ Len(m.heap[k]) <= MaxList
                         /\ DOMAIN m.heap[k] = 1..Len(m.heap[k])
      /\ \A k \in 1..l : \A i \in 1..Len(m.heap[k]) : m.heap[k][i] \in Ref(l)
      /\ \A s \in Symbols : m.globals[s] \in Ref(l)
  BY MemoryParts DEF Sound
<1>3. /\ Len(forms) \in Nat /\ \A k \in 1..Len(forms) : forms[k] \in Forms(l)
      /\ \A k \in 1..Len(forms) : forms[k].held \in Ref(l)
  <2> DEFINE F == Forms(l)
  <2>1. forms \in Seq(F) /\ \A f \in F : f.held \in Ref(l)
    BY <1>2, FormsAre
  <2> HIDE DEF F
  <2>2. Len(forms) \in Nat /\ \A k \in 1..Len(forms) : forms[k] \in F
    BY <2>1
  <2>3. QED
    BY <2>1, <2>2 DEF F
<1>4. roots \ Atoms \subseteq 1..l
  BY <1>2, <1>3 DEF Ref
<1>5. \A n \in 1..l : Children(m.heap, n) \subseteq 1..l
  BY <1>2 DEF Children, Ref
<1>6. /\ used \subseteq 1..l /\ roots \ Atoms \subseteq used
      /\ \A n \in used : Children(m.heap, n) \subseteq used
  BY <1>2, <1>4, <1>5, BelowIs
<1> HIDE DEF used
<1>7. /\ kept \in Seq(1..l)
      /\ \A k \in 1..Len(kept) : kept[k] \in used
      /\ \A x \in 1..l : x \in used => \E k \in 1..Len(kept) : kept[k] = x
  BY <1>2, InOrderIs
<1> HIDE DEF kept
<1> DEFINE n == Len(kept)
<1>8. n \in Nat
  BY <1>7
<1>9. \A r \in Atoms \cup used : /\ Renumbered(r) \in Ref(n)
                                 /\ Renumbered(r) \in 1..n => r \in used /\ kept[Renumbered(r)] = r
                                 /\ Refers(kept, n, Renumbered(r), r)
  <2> TAKE r \in Atoms \cup used
  <2>1. CASE r \in Atoms
    <3>1. Renumbered(r) = r
      BY <2>1 DEF IsNode
    <3>2. 1..n \subseteq Nat
      BY <1>8
    <3>3. r \notin 1..n
      BY <2>1, <3>2, CowAssumption
    <3>4. QED
      BY <2>1, <3>1, <3>3 DEF Ref, Refers
  <2>2. CASE r \notin Atoms
    <3>1. r \in used /\ r \in 1..l
      BY <1>6, <2>2
    <3>2. IsNode(r)
      <4>1. r \in Ref(l)
        BY <3>1 DEF Ref
      <4>2. QED
        BY <1>2, <3>1, <4>1, RefsAre
    <3>3. \E k \in 1..n : kept[k] = r
      BY <1>7, <3>1
    <3>4. Renumbered(r) \in 1..n /\ kept[Renumbered(r)] = r
      BY <3>2, <3>3
    <3>5. QED
      BY <3>1, <3>4 DEF Ref, Refers
  <2>3. QED
    BY <2>1, <2>2
<1>10. \A k \in 1..n : kept[k] \in used /\ kept[k] \in 1..l
  BY <1>6, <1>7
<1>11. \A k \in 1..n : \A i \in 1..Len(m.heap[kept[k]]) : m.heap[kept[k]][i] \in Atoms \cup used
  BY <1>2, <1>6, <1>10 DEF Children
<1>12. \A s \in Symbols : m.globals[s] \in Atoms \cup used
  BY <1>6
<1>13. \A k \in 1..Len(forms) : forms[k].held \in Atoms \cup used
  BY <1>6
<1> HIDE DEF Renumbered, n, roots, l
<1>14. hs \in Seq(Lists(n)) /\ Len(hs) = n
  <2>1. ASSUME NEW k \in 1..n
        PROVE  [i \in 1..Len(m.heap[kept[k]]) |-> Renumbered(m.heap[kept[k]][i])] \in Lists(n)
    <3> DEFINE b == Len(m.heap[kept[k]])
               at(i) == Renumbered(m.heap[kept[k]][i])
               R == Ref(n)
    <3>1. b \in Nat /\ b <= MaxList /\ \A i \in 1..b : at(i) \in R
      BY <1>2, <1>9, <1>10, <1>11
    <3> HIDE DEF b, at, R
    <3>2. [i \in 1..b |-> at(i)] \in Seq(R) /\ Len([i \in 1..b |-> at(i)]) = b
      BY <3>1
    <3>3. [i \in 1..b |-> at(i)] \in Lists(n)
      BY <3>1, <3>2 DEF Lists, R
    <3>4. QED
      BY <3>3 DEF b, at
  <2> DEFINE list(k) == [i \in 1..Len(m.heap[kept[k]]) |-> Renumbered(m.heap[kept[k]][i])]
             Ls == Lists(n)
  <2>2. \A k \in 1..n : list(k) \in Ls
    BY <2>1
  <2>3. hs = [k \in 1..n |-> list(k)]
    BY DEF n
  <2> HIDE DEF list, Ls, hs
  <2>4. QED
    BY <1>8, <2>2, <2>3 DEF Ls
<1>15. gs \in [Symbols -> Ref(n)]
  BY <1>9, <1>12
<1>16. as \in Seq(Forms(n))
  <2>1. ASSUME NEW k \in 1..Len(forms)
        PROVE  [forms[k] EXCEPT !.held = Renumbered(@)] \in Forms(n)
    <3>1. Renumbered(forms[k].held) \in Ref(n)
      BY <1>9, <1>13
    <3>2. forms[k] \in Forms(l)
      BY <1>3
    <3>3. QED
      BY <3>1, <3>2 DEF Forms
  <2> DEFINE at(k) == [forms[k] EXCEPT !.held = Renumbered(@)]
             F == Forms(n)
             b == Len(forms)
  <2>2. b \in Nat /\ \A k \in 1..b : at(k) \in F
    BY <1>3, <2>1
  <2> HIDE DEF at, F, b
  <2>3. [k \in 1..b |-> at(k)] \in Seq(F)
    BY <2>2
  <2>4. QED
    BY <2>3 DEF at, F, b
<1>17. ASSUME NEW k \in 1..n
       PROVE  /\ Len(hs[k]) = Len(m.heap[kept[k]])
              /\ \A i \in 1..Len(hs[k]) : hs[k][i] = Renumbered(m.heap[kept[k]][i])
  <2> DEFINE old == m.heap[kept[k]]
  <2>1. hs[k] = [j \in 1..Len(old) |-> Renumbered(old[j])]
    BY DEF n
  <2>2. Len(old) \in Nat
    BY <1>2, <1>10
  <2> HIDE DEF old, hs
  <2>3. \A g : g = [j \in 1..Len(old) |-> Renumbered(old[j])] =>
          Len(g) = Len(old) /\ \A j \in 1..Len(old) : g[j] = Renumbered(old[j])
    BY <2>2
  <2>4. QED
    BY <2>1, <2>3 DEF old
<1>18. Ranked(hs)
  <2>1. PICK f : Ranks(m.heap, f)
    BY DEF Sound, Ranked
  <2>2. /\ f \in [1..l -> Nat]
        /\ \A k \in 1..l : \A i \in 1..Len(m.heap[k]) : m.heap[k][i] \in 1..l =>
             f[m.heap[k][i]] < f[k]
    BY <2>1 DEF Ranks, l
  <2> DEFINE ranks == [k \in 1..n |-> f[kept[k]]]
  <2>3. ranks \in [1..n -> Nat] /\ \A k \in 1..n : ranks[k] = f[kept[k]]
    BY <1>10, <2>2
  <2> HIDE DEF ranks
  <2>4. ASSUME NEW k \in 1..n, NEW i \in 1..Len(hs[k]), hs[k][i] \in 1..n
        PROVE  ranks[hs[k][i]] < ranks[k]
    <3> DEFINE old == m.heap[kept[k]]
    <3>3. i \in 1..Len(old) /\ hs[k][i] = Renumbered(old[i])
      <4> HIDE DEF hs
      <4>1. QED
        BY <1>17
    <3> HIDE DEF hs, old
    <3>4. old[i] \in Atoms \cup used
      BY <1>11, <3>3 DEF old
    <3>5. old[i] \in used /\ kept[hs[k][i]] = old[i]
      BY <1>9, <2>4, <3>3, <3>4
    <3>6. f[old[i]] < f[kept[k]]
      BY <1>6, <1>10, <2>2, <3>3, <3>5 DEF old
    <3>7. QED
      BY <2>3, <2>4, <3>5, <3>6
  <2> HIDE DEF hs
  <2>5. Ranks(hs, ranks)
    BY <1>14, <2>3, <2>4 DEF Ranks
  <2>6. QED
    BY <2>5 DEF Ranked
<1>19. Image(m.heap, hs, 1..n, kept)
  <2> DEFINE T == 1..l
  <2>1. kept \in Seq(T)
    BY <1>7
  <2> HIDE DEF T
  <2>2. kept \in [1..Len(kept) -> T]
    BY <2>1
  <2>3. kept \in [1..n -> 1..l]
    BY <2>2 DEF n, T
  <2> HIDE DEF hs
  <2>4. ASSUME NEW k \in 1..n, NEW i \in 1..Len(hs[k])
        PROVE  \/ hs[k][i] \in 1..n /\ m.heap[kept[k]][i] = kept[hs[k][i]]
               \/ hs[k][i] \in Atoms /\ m.heap[kept[k]][i] = hs[k][i]
    <3>1. i \in 1..Len(m.heap[kept[k]]) /\ hs[k][i] = Renumbered(m.heap[kept[k]][i])
      BY <1>17
    <3>2. m.heap[kept[k]][i] \in Atoms \cup used
      BY <1>11, <3>1
    <3>3. QED
      BY <1>9, <3>1, <3>2 DEF Refers
  <2>5. QED
    BY <1>14, <1>17, <2>3, <2>4 DEF Image, l
<1>20. /\ Len(as) = Len(forms)
       /\ \A k \in 1..Len(forms) :
            /\ as[k] = [forms[k] EXCEPT !.held = as[k].held]
            /\ Refers(kept, n, as[k].held, forms[k].held)
  <2>1. Len(as) = Len(forms)
    BY <1>3
  <2>2. ASSUME NEW k \in 1..Len(forms)
        PROVE  /\ as[k] = [forms[k] EXCEPT !.held = as[k].held]
               /\ Refers(kept, n, as[k].held, forms[k].held)
    <3>1. as[k] = [forms[k] EXCEPT !.held = Renumbered(@)]
      OBVIOUS
    <3>2. forms[k] \in Forms(l)
      BY <1>3
    <3> HIDE DEF as
    <3>3. as[k].held = Renumbered(forms[k].held)
      BY <3>1, <3>2 DEF Forms
    <3>4. QED
      BY <1>9, <1>13, <3>1, <3>3
  <2>3. QED
    BY <2>1, <2>2
<1>21. \A s \in Symbols : Refers(kept, n, gs[s], m.globals[s])
  BY <1>9, <1>12
<1> HIDE DEF hs, gs, as
<1>22. Renumbers(m, forms, after)
  BY <1>1, <1>14, <1>19, <1>20, <1>21 DEF Renumbers
<1>23. QED
  BY <1>1, <1>8, <1>14, <1>15, <1>16, <1>18, <1>22

\* Every operation ends in a state of this shape.
LEMMA BecomesSound ==
  ASSUME NEW m, Sound(m), NEW forms, forms \in Seq(Forms(Len(m.heap))), Becomes(m, forms)
  PROVE  IInv'
<1>1. PICK after : /\ after = Tidied(m, forms) /\ Len(after.heap) <= MaxNodes
                   /\ heap' = after.heap /\ globals' = after.globals /\ active' = after.active
  BY DEF Becomes
<1> DEFINE n == Len(after.heap)
<1>2. /\ n \in Nat /\ after.heap \in Seq(Lists(n)) /\ after.globals \in [Symbols -> Ref(n)]
      /\ after.active \in Seq(Forms(n)) /\ Ranked(after.heap)
  BY <1>1, TidiedSound
<1>3. QED
  BY <1>1, <1>2 DEF IInv, Shape
-----------------------------------------------------------------------------
(* What the operations do at the end of the way. *)

\* A location the way from mem leads to, in m.
There(mem, m, loc) == Kept(mem, m) /\ \E Q : Own(m, Q) /\ Within(m, loc, Q)

\* After a visit the place is a location of its own in a sound memory.
LEMMA VisitSound ==
  ASSUME IInv, NEW hands \in Seq(Ref(Len(heap))), NEW p \in Place,
         NEW there \in Visits(hands, p)
  PROVE  There(Memory(hands), there.m, there.loc)
<1>1. Sound(Memory(hands))
  BY MemorySound
<1>2. there = Navigate(Memory(hands), p)
  BY DEF Visits
<1>3. there \in OnTheWay(Memory(hands))
  BY <1>1, <1>2, NavigateSound
<1>4. QED
  BY <1>3 DEF There, OnTheWay

\* The value at the end of the way.
LEMMA FoundIsRef ==
  ASSUME NEW mem, NEW m, NEW loc, There(mem, m, loc)
  PROVE  /\ Held(m, loc) \in Ref(Len(m.heap)) /\ Len(m.heap) \in Nat
         /\ IsNode(Held(m, loc)) <=> Held(m, loc) \in 1..Len(m.heap)
<1>1. PICK Q : Own(m, Q) /\ Within(m, loc, Q)
  BY DEF There
<1>2. WellFormed(m) /\ Q \subseteq 1..Len(m.heap)
  BY <1>1 DEF There, Kept, Sound, Own
<1>3. Held(m, loc) \in Ref(Len(m.heap)) /\ Len(m.heap) \in Nat
  BY <1>1, <1>2, HeldIsRef, MemoryParts
<1>4. QED
  BY <1>3, RefsAre

\* What is in hand can be stored there,
LEMMA StoreThere ==
  ASSUME NEW mem, NEW m, NEW loc, There(mem, m, loc), NEW r \in InHand(mem),
         NEW new, new = Store(m, loc, r)
  PROVE  Sound(new) /\ new.hands = mem.hands /\ Len(mem.heap) <= Len(new.heap)
<1>1. PICK Q : Own(m, Q) /\ Within(m, loc, Q)
  BY DEF There
<1>2. Sound(m) /\ WellFormed(m) /\ m.hands = mem.hands /\ Len(mem.heap) <= Len(m.heap)
      /\ InHand(m) = InHand(mem)
  BY DEF There, Kept, Sound
<1>3. r \in Ref(Len(m.heap)) /\ r \notin Q
  BY <1>1, <1>2, HandsApart
<1>4. QED
  BY <1>1, <1>2, <1>3, StoreSound

\* a list be made of it there,
LEMMA MakeThere ==
  ASSUME NEW mem, Sound(mem), NEW m, NEW loc, There(mem, m, loc),
         NEW elements \in Seq(InHand(mem)), Len(elements) <= MaxList,
         NEW new, new = Make(m, loc, elements)
  PROVE  Sound(new) /\ new.hands = mem.hands /\ Len(mem.heap) <= Len(new.heap)
<1>1. PICK Q : Own(m, Q) /\ Within(m, loc, Q)
  BY DEF There
<1>2. Sound(m) /\ WellFormed(m) /\ m.hands = mem.hands /\ Len(mem.heap) <= Len(m.heap)
      /\ InHand(m) = InHand(mem)
  BY DEF There, Kept, Sound
<1>3. InHand(mem) \subseteq Ref(Len(m.heap)) /\ InHand(mem) \cap Q = {}
  BY <1>1, <1>2, HandsApart
<1> DEFINE H == InHand(mem)
           R == Ref(Len(m.heap))
<1>4. H \subseteq R /\ elements \in Seq(H) /\ \A i \in 1..Len(elements) : elements[i] \in H
  <2>1. H \subseteq R /\ elements \in Seq(H)
    BY <1>3
  <2> HIDE DEF H, R
  <2>2. QED
    BY <2>1
<1>5. elements \in Seq(R)
  <2> HIDE DEF H, R
  <2>1. QED
    BY <1>4, SeqMonotonic
<1>6. elements \in Lists(Len(m.heap)) /\ \A i \in 1..Len(elements) : elements[i] \notin Q
  BY <1>3, <1>4, <1>5 DEF Lists
<1>7. Sound(new) /\ new.hands = m.hands /\ Len(m.heap) <= Len(new.heap)
  BY <1>1, <1>2, <1>6, MakeSound
<1>8. Len(mem.heap) \in Nat /\ Len(m.heap) \in Nat /\ Len(new.heap) \in Nat
  BY <1>2, <1>7 DEF Sound, WellFormed
<1>9. QED
  BY <1>2, <1>7, <1>8

\* and the list there be given it, beside what it has.
Among(mem, list) == InHand(mem) \cup {list[i] : i \in 1..Len(list)}

\* A list rewritten there, from its elements and what is in hand, leaves the memory sound.
LEMMA RewriteThere ==
  ASSUME NEW mem, Sound(mem), NEW m, NEW loc, There(mem, m, loc), IsNode(Held(m, loc)),
         NEW old, old = m.heap[Held(m, loc)],
         NEW elements \in Seq(Among(mem, old)), Len(elements) <= MaxList,
         NEW new, new = Rewrite(m, loc, elements)
  PROVE  Sound(new) /\ new.hands = mem.hands /\ Len(mem.heap) <= Len(new.heap)
<1>1. PICK Q : Own(m, Q) /\ Within(m, loc, Q)
  BY DEF There
<1>2. Sound(m) /\ WellFormed(m) /\ m.hands = mem.hands /\ Len(mem.heap) <= Len(m.heap)
      /\ InHand(m) = InHand(mem)
  BY DEF There, Kept, Sound
<1>3. Held(m, loc) \in 1..Len(m.heap)
  BY FoundIsRef
<1> DEFINE E == Among(mem, old)
           R == Ref(Len(m.heap))
<1>4. E \subseteq R
  <2>1. InHand(mem) \subseteq R
    BY <1>1, <1>2, HandsApart
  <2>2. \A i \in 1..Len(old) : old[i] \in R
    BY <1>2, <1>3, MemoryParts
  <2>3. QED
    BY <2>1, <2>2 DEF Among
<1>5. elements \in Seq(R) /\ \A i \in 1..Len(elements) : elements[i] \in E
  <2>1. elements \in Seq(E)
    OBVIOUS
  <2> HIDE DEF E, R
  <2>2. QED
    BY <1>4, <2>1, SeqMonotonic
<1>6. \A i \in 1..Len(elements) :
        elements[i] \in InHand(m) \/ \E j \in 1..Len(old) : old[j] = elements[i]
  BY <1>2, <1>5 DEF Among
<1>7. Sound(new) /\ new.hands = m.hands /\ Len(m.heap) <= Len(new.heap)
  BY <1>1, <1>2, <1>3, <1>5, <1>6, RewriteSound
<1>8. Len(mem.heap) \in Nat /\ Len(m.heap) \in Nat /\ Len(new.heap) \in Nat
  BY <1>2, <1>7 DEF Sound, WellFormed
<1>9. QED
  BY <1>2, <1>7, <1>8

\* The forms under way, when lists are added.
LEMMA FormsKept ==
  ASSUME IInv, NEW l \in Nat, Len(heap) <= l
  PROVE  /\ active \in Seq(Forms(l))
         /\ \A f \in Forms(l) : Append(active, f) \in Seq(Forms(l))
         /\ active # <<>> => /\ Front(active) \in Seq(Forms(l))
                             /\ Len(active) \in 1..Len(active)
                             /\ Innermost.held \in Ref(Len(heap))
                             /\ Innermost.form # "push" => Innermost.place \in Place
<1> DEFINE F == Forms(l)
           G == Forms(Len(heap))
<1>1. active \in Seq(G) /\ Len(heap) \in Nat
  BY DEF IInv, Shape
<1>2. /\ G \subseteq F
      /\ \A f \in G : f.held \in Ref(Len(heap)) /\ (f.form # "push" => f.place \in Place)
  BY <1>1, FormsAre
<1> HIDE DEF F, G
<1>3. active \in Seq(F)
  BY <1>1, <1>2, SeqMonotonic
<1>4. \A f \in F : Append(active, f) \in Seq(F)
  BY <1>3, AppendProperties
<1>5. ASSUME active # <<>>
      PROVE  Front(active) \in Seq(F) /\ Len(active) \in 1..Len(active) /\ Innermost \in G
  <2>1. Front(active) \in Seq(F)
    BY <1>3, <1>5, PopFacts DEF Front
  <2>2. Len(active) \in 1..Len(active)
    BY <1>1, <1>5
  <2>3. QED
    BY <1>1, <2>1, <2>2 DEF Innermost
<1>6. QED
  BY <1>2, <1>3, <1>4, <1>5 DEF F
-----------------------------------------------------------------------------
(* The operations. *)

LEMMA NoHands ==
  ASSUME IInv
  PROVE  <<>> \in Seq(Ref(Len(heap))) /\ Sound(Memory(<<>>)) /\ Memory(<<>>).heap = heap
<1>1. <<>> \in Seq(Ref(Len(heap)))
  OBVIOUS
<1>2. QED
  BY <1>1, MemorySound

\* What is left of the memory of an operation is the next state.
LEMMA Ends ==
  ASSUME IInv, NEW m, Sound(m), Len(heap) <= Len(m.heap), Becomes(m, active)
  PROVE  IInv'
<1>1. Len(m.heap) \in Nat
  BY DEF Sound, WellFormed
<1>2. QED
  BY <1>1, FormsKept, BecomesSound

\* A form that ends in a sound memory keeps the invariant.
LEMMA EndsForm ==
  ASSUME IInv, NEW m, Sound(m), Len(heap) <= Len(m.heap), active # <<>>, Becomes(m, Front(active))
  PROVE  IInv'
<1>1. Len(m.heap) \in Nat
  BY DEF Sound, WellFormed
<1>2. QED
  BY <1>1, FormsKept, BecomesSound

\* set and define keep the invariant: the slot shares a list that is there.
LEMMA AssignKeeps ==
  ASSUME IInv, NEW s \in Symbols, NEW e \in Expressions, Assign(s, e)
  PROVE  IInv'
<1> DEFINE mem == Memory(<<>>)
           loc == SlotOf(s)
           r == ValueOf(e)
<1>1. Sound(mem) /\ mem.heap = heap
  BY NoHands
<1>2. Own(mem, {}) /\ Within(mem, loc, {})
  BY DEF Own, Within
<1>3. r \in Ref(Len(mem.heap)) /\ r \notin {}
  BY <1>1, ValueIsRef
<1>4. PICK new : new = Store(mem, loc, r)
  OBVIOUS
<1>5. Becomes(new, active)
  BY <1>4 DEF Assign
<1> HIDE DEF mem, loc, r
<1>6. Sound(new) /\ Len(new.heap) = Len(heap)
  BY <1>1, <1>2, <1>3, <1>4, StoreSound
<1>7. Len(heap) <= Len(new.heap)
  BY <1>6 DEF IInv, Shape
<1>8. QED
  BY <1>5, <1>6, <1>7, Ends

\* So do setf and replace when they read their place,
LEMMA BeginReadingKeeps ==
  ASSUME IInv, NEW form \in {"setf", "replace"}, NEW p \in Place, BeginReading(form, p)
  PROVE  IInv'
<1>1. PICK there \in Visits(<<>>, p) :
        Becomes(there.m, Append(active, Resolved(form, p, Found(there))))
  BY DEF BeginReading
<1>2. There(Memory(<<>>), there.m, there.loc) /\ Memory(<<>>).heap = heap
  BY NoHands, VisitSound
<1> DEFINE l == Len(there.m.heap)
<1>3. Sound(there.m) /\ Len(heap) <= l /\ l \in Nat
  BY <1>2 DEF There, Kept, Sound, WellFormed
<1>4. Found(there) \in Ref(l)
  BY <1>2, FoundIsRef DEF Found
<1>5. Resolved(form, p, Found(there)) \in Forms(l)
  BY <1>4 DEF Resolved, Forms
<1> HIDE DEF l
<1>6. Append(active, Resolved(form, p, Found(there))) \in Seq(Forms(l))
  BY <1>3, <1>5, FormsKept
<1>7. QED
  BY <1>1, <1>3, <1>6, BecomesSound DEF l

\* push when it has its value,
LEMMA BeginPushKeeps ==
  ASSUME IInv, NEW e \in Expressions, BeginPush(e)
  PROVE  IInv'
<1> DEFINE n == Len(heap)
           f == Holding("push", ValueOf(e))
<1>1. n \in Nat /\ n <= n
  BY DEF IInv, Shape
<1>2. f \in Forms(n)
  BY ValueIsRef DEF Holding, Forms
<1> HIDE DEF f, n
<1>3. Append(active, f) \in Seq(Forms(n))
  BY <1>1, <1>2, FormsKept DEF n
<1>4. heap' = heap /\ globals' = globals /\ active' = Append(active, f)
  BY DEF BeginPush, f
<1>5. QED
  BY <1>3, <1>4 DEF IInv, Shape, n

\* A value in hand for an operation.
LEMMA OneHand ==
  ASSUME IInv, NEW e \in Expressions
  PROVE  LET hands == <<ValueOf(e)>> IN
         /\ hands \in Seq(Ref(Len(heap)))
         /\ Sound(Memory(hands)) /\ Memory(hands).heap = heap
         /\ InOneHand(Memory(hands), ValueOf(e))
<1> DEFINE hands == <<ValueOf(e)>>
<1>1. hands \in Seq(Ref(Len(heap))) /\ Len(hands) = 1 /\ hands[1] = ValueOf(e) /\ 1 \in 1..1
  BY ValueIsRef
<1> HIDE DEF hands
<1>2. QED
  BY <1>1, MemorySound DEF hands

\* setf when it writes,
LEMMA EndSetfKeeps ==
  ASSUME IInv, NEW e \in Expressions, EndSetf(e)
  PROVE  IInv'
<1>1. active # <<>> /\ Innermost.form = "setf"
  BY DEF EndSetf, Finishing
<1>2. Innermost.place \in Place
  <2>1. Len(heap) \in Nat /\ Len(heap) <= Len(heap)
    BY DEF IInv, Shape
  <2>2. QED
    BY <1>1, <2>1, FormsKept
<1>3. PICK there \in Visits(<<ValueOf(e)>>, Innermost.place) :
        Becomes(Store(there.m, there.loc, ValueOf(e)), Front(active))
  BY DEF EndSetf
<1> DEFINE mem == Memory(<<ValueOf(e)>>)
<1>4. Sound(mem) /\ mem.heap = heap /\ ValueOf(e) \in InHand(mem)
  BY OneHand DEF InOneHand
<1>5. There(mem, there.m, there.loc)
  BY <1>2, OneHand, VisitSound
<1> HIDE DEF mem
<1>6. PICK new : new = Store(there.m, there.loc, ValueOf(e))
  OBVIOUS
<1>7. Sound(new) /\ Len(heap) <= Len(new.heap)
  BY <1>4, <1>5, <1>6, StoreThere
<1>8. QED
  BY <1>1, <1>3, <1>6, <1>7, EndsForm

\* and replace when it writes its result back whole.
LEMMA EndReplaceKeeps ==
  ASSUME IInv, NEW e \in Expressions, NEW key \in Atoms, EndReplace(key, e)
  PROVE  IInv'
<1>1. active # <<>> /\ Innermost.form = "replace"
  BY DEF EndReplace, Finishing
<1>2. /\ Innermost.place \in Place /\ Innermost.held \in Ref(Len(heap))
      /\ Len(active) \in 1..Len(active)
  <2>1. Len(heap) \in Nat /\ Len(heap) <= Len(heap)
    BY DEF IInv, Shape
  <2>2. QED
    BY <1>1, <2>1, FormsKept
<1> DEFINE v == ValueOf(e)
           r == Innermost.held
           mem == Memory(<<v>>)
<1>3. PICK there \in Visits(<<v>>, Innermost.place) :
        Becomes(IF IsNode(r) THEN Make(there.m, there.loc, Replaced(heap[r], key, v))
                ELSE Store(there.m, there.loc, r),
                Front(active))
  BY DEF EndReplace
<1>4. Sound(mem) /\ mem.heap = heap /\ InOneHand(mem, v) /\ InOneHand(mem, r)
  <2>1. <<v>> \in Seq(Ref(Len(heap)))
    BY OneHand
  <2>2. InOneHand(mem, r)
    BY <1>2, <2>1, MemorySound DEF Innermost
  <2>3. QED
    BY <2>2, OneHand
<1>5. There(mem, there.m, there.loc)
  BY <1>2, OneHand, VisitSound
<1> HIDE DEF mem, r, v
<1>6. CASE IsNode(r)
  <2> DEFINE elements == Replaced(heap[r], key, v)
             H == InHand(mem)
             list == heap[r]
  <2>1. r \in 1..Len(heap) /\ Len(heap) \in Nat
    <3>1. Len(heap) \in Nat
      BY DEF IInv, Shape
    <3>2. QED
      BY <1>2, <1>6, <3>1, RefsAre DEF r
  <2>2. Len(list) \in Nat /\ Len(list) <= MaxList
    BY <1>4, <2>1, MemoryParts DEF Sound
  <2>3. v \in H /\ \A i \in 1..Len(list) : list[i] \in H
    BY <1>4, <1>6 DEF InOneHand
  <2> HIDE DEF list, H
  <2>4. elements \in Seq(H) /\ Len(elements) = Len(list)
    BY <2>2, <2>3 DEF Replaced, list
  <2> HIDE DEF elements
  <2>5. PICK new : new = Make(there.m, there.loc, elements)
    OBVIOUS
  <2>6. Sound(new) /\ Len(heap) <= Len(new.heap)
    BY <1>4, <1>5, <2>2, <2>4, <2>5, MakeThere DEF H
  <2>7. Becomes(new, Front(active))
    BY <1>3, <1>6, <2>5 DEF elements
  <2>8. QED
    BY <1>1, <2>6, <2>7, EndsForm
<1>7. CASE ~ IsNode(r)
  <2>1. PICK new : new = Store(there.m, there.loc, r)
    OBVIOUS
  <2>2. Sound(new) /\ Len(heap) <= Len(new.heap)
    BY <1>4, <1>5, <2>1, StoreThere DEF InOneHand
  <2>3. Becomes(new, Front(active))
    BY <1>3, <1>7, <2>1
  <2>4. QED
    BY <1>1, <2>2, <2>3, EndsForm
<1>8. QED
  BY <1>6, <1>7

\* A sequence is made of its own elements.
LEMMA OwnElements ==
  ASSUME NEW S, NEW s \in Seq(S), NEW H
  PROVE  s \in Seq(H \cup {s[i] : i \in 1..Len(s)})
<1> DEFINE E == H \cup {s[i] : i \in 1..Len(s)}
           n == Len(s)
<1>1. n \in Nat /\ s = [i \in 1..n |-> s[i]] /\ \A i \in 1..n : s[i] \in E
  OBVIOUS
<1> HIDE DEF E, n
<1>2. QED
  BY <1>1 DEF E

\* The greater and the lesser of two numbers.
LEMMA Extremes ==
  \A i, j \in Int : /\ Max({i, j}) = IF i >= j THEN i ELSE j
                    /\ Min({i, j}) = IF i <= j THEN i ELSE j
BY DEF Max, Min

\* push and pop clamp an index into the list.
LEMMA PositionsIn ==
  ASSUME NEW i \in Int, NEW len \in Nat
  PROVE  PushPosition(i, len) \in 1..len + 1 /\ (len > 0 => PopPosition(i, len) \in 1..len)
<1>1. Max({len + 1 + i, 0}) = IF len + 1 + i >= 0 THEN len + 1 + i ELSE 0
  BY Extremes
<1>2. Max({len + i, 0}) = IF len + i >= 0 THEN len + i ELSE 0
  BY Extremes
<1>3. Min({i, len}) = IF i <= len THEN i ELSE len
  BY Extremes
<1>4. Min({i, len - 1}) = IF i <= len - 1 THEN i ELSE len - 1
  <2>1. len - 1 \in Int
    OBVIOUS
  <2>2. QED
    BY <2>1, Extremes
<1>5. PushPosition(i, len) \in 1..len + 1
  BY <1>1, <1>3 DEF PushPosition
<1>6. len > 0 => PopPosition(i, len) \in 1..len
  BY <1>2, <1>4 DEF PopPosition
<1>7. QED
  BY <1>5, <1>6

\* Inserting, removing and reversing keep the kind of the elements.
LEMMA ListChanges ==
  ASSUME NEW S, NEW s \in Seq(S)
  PROVE  /\ \A x \in S : \A i \in 1..Len(s) + 1 :
              InsertAt(s, i, x) \in Seq(S) /\ Len(InsertAt(s, i, x)) = Len(s) + 1
         /\ \A i \in 1..Len(s) : RemoveAt(s, i) \in Seq(S) /\ Len(RemoveAt(s, i)) = Len(s) - 1
         /\ Reverse(s) \in Seq(S) /\ Len(Reverse(s)) = Len(s)
<1>0. Len(s) \in Nat /\ \A i \in 1..Len(s) : s[i] \in S
  OBVIOUS
<1>1. ASSUME NEW a \in Int, NEW b \in Int, 1 <= a, b <= Len(s)
      PROVE  SubSeq(s, a, b) \in Seq(S) /\ Len(SubSeq(s, a, b)) = IF a <= b THEN b - a + 1 ELSE 0
  <2>1. \A i \in a..b : s[i] \in S
    BY <1>0, <1>1
  <2>2. QED
    BY <2>1, SubSeqProperties
<1>2. ASSUME NEW x \in S, NEW i \in 1..Len(s) + 1
      PROVE  InsertAt(s, i, x) \in Seq(S) /\ Len(InsertAt(s, i, x)) = Len(s) + 1
  <2> DEFINE front == SubSeq(s, 1, i - 1)
             back == SubSeq(s, i, Len(s))
             one == <<x>>
  <2>1. front \in Seq(S) /\ Len(front) = i - 1
    BY <1>0, <1>1
  <2>2. back \in Seq(S) /\ Len(back) = Len(s) - i + 1
    BY <1>0, <1>1
  <2>3. one \in Seq(S) /\ Len(one) = 1
    OBVIOUS
  <2> HIDE DEF front, back, one
  <2>4. front \o one \in Seq(S) /\ Len(front \o one) = i
    BY SMTT(30), <2>1, <2>3, ConcatProperties
  <2> DEFINE most == front \o one
  <2>5. most \in Seq(S) /\ Len(most) = i
    BY <2>4
  <2> HIDE DEF most
  <2>6. most \o back \in Seq(S) /\ Len(most \o back) = Len(most) + Len(back)
    BY <2>2, <2>5, ConcatProperties
  <2>7. Len(most) + Len(back) = Len(s) + 1
    BY <1>0, <2>2, <2>5
  <2>8. QED
    BY <2>6, <2>7 DEF InsertAt, front, back, one, most
<1>3. ASSUME NEW i \in 1..Len(s)
      PROVE  RemoveAt(s, i) \in Seq(S) /\ Len(RemoveAt(s, i)) = Len(s) - 1
  <2> DEFINE front == SubSeq(s, 1, i - 1)
             back == SubSeq(s, i + 1, Len(s))
  <2>1. front \in Seq(S) /\ Len(front) = i - 1
    BY <1>0, <1>1
  <2>2. back \in Seq(S) /\ Len(back) = Len(s) - i
    BY <1>0, <1>1
  <2> HIDE DEF front, back
  <2>3. front \o back \in Seq(S) /\ Len(front \o back) = Len(front) + Len(back)
    BY <2>1, <2>2, ConcatProperties
  <2>4. Len(front) + Len(back) = Len(s) - 1
    BY <1>0, <2>1, <2>2
  <2>5. QED
    BY <2>3, <2>4 DEF RemoveAt, front, back
<1>4. Reverse(s) \in Seq(S) /\ Len(Reverse(s)) = Len(s)
  <2> DEFINE n == Len(s)
             at(i) == s[(n - i) + 1]
  <2>1. \A i \in 1..n : (n - i) + 1 \in 1..n
    BY <1>0
  <2>2. \A i \in 1..n : at(i) \in S
    BY <1>0, <2>1
  <2>3. Reverse(s) = [i \in 1..n |-> at(i)]
    BY DEF Reverse
  <2> HIDE DEF at, n
  <2>4. QED
    BY <1>0, <2>2, <2>3 DEF n
<1>5. QED
  BY <1>2, <1>3, <1>4

\* The list at the end of the way, as one of its own elements and of what is in hand.
LEMMA FoundList ==
  ASSUME NEW mem, NEW m, NEW loc, There(mem, m, loc), IsNode(Held(m, loc)),
         NEW old, old = m.heap[Held(m, loc)]
  PROVE  /\ Len(old) \in Nat /\ Len(old) <= MaxList
         /\ old \in Seq(Among(mem, old))
<1>1. Held(m, loc) \in 1..Len(m.heap) /\ WellFormed(m)
  BY FoundIsRef DEF There, Kept, Sound
<1>2. old \in Lists(Len(m.heap)) /\ Len(old) \in Nat /\ Len(old) <= MaxList
  BY <1>1, MemoryParts
<1>3. old \in Seq(Ref(Len(m.heap)))
  BY <1>2 DEF Lists
<1>4. QED
  BY <1>2, <1>3, OwnElements DEF Among

\* push, pop, inc and the like keep the invariant too: push when it inserts,
LEMMA EndPushKeeps ==
  ASSUME IInv, NEW p \in Place, NEW i \in Indices, EndPush(p, i)
  PROVE  IInv'
<1> DEFINE r == Innermost.held
           mem == Memory(<<>>)
           H == InHand(mem)
<1>1. active # <<>> /\ Len(active) \in 1..Len(active)
  <2>1. active # <<>> /\ Len(heap) \in Nat /\ Len(heap) <= Len(heap)
    BY DEF EndPush, Finishing, IInv, Shape
  <2>2. QED
    BY <2>1, FormsKept
<1>2. PICK there \in Visits(<<>>, p) :
       \/ /\ Found(there) = Nil
          /\ Becomes(Make(there.m, there.loc, <<r>>), Front(active))
       \/ /\ IsNode(Found(there))
          /\ Len(Elements(there)) < MaxList
          /\ LET at == PushPosition(i, Len(Elements(there)))
             IN  Becomes(Rewrite(there.m, there.loc, InsertAt(Elements(there), at, r)),
                         Front(active))
  BY DEF EndPush
<1>3. Sound(mem) /\ mem.heap = heap /\ r \in H
  <2>1. <<>> \in Seq(Ref(Len(heap)))
    BY NoHands
  <2>2. Sound(mem) /\ mem.heap = heap /\ InOneHand(mem, r)
    BY <1>1, <2>1, MemorySound DEF Innermost
  <2>3. QED
    BY <2>2 DEF InOneHand
<1>4. There(mem, there.m, there.loc)
  BY NoHands, VisitSound
<1> HIDE DEF mem, r, H
<1>5. CASE Found(there) = Nil /\ Becomes(Make(there.m, there.loc, <<r>>), Front(active))
  <2> DEFINE elements == <<r>>
  <2>1. elements \in Seq(H) /\ Len(elements) <= MaxList
    BY <1>3, PlaceAssumption
  <2> HIDE DEF elements
  <2>2. PICK new : new = Make(there.m, there.loc, elements)
    OBVIOUS
  <2>3. Sound(new) /\ Len(heap) <= Len(new.heap)
    BY <1>3, <1>4, <2>1, <2>2, MakeThere DEF H
  <2>4. QED
    BY <1>1, <1>5, <2>2, <2>3, EndsForm DEF elements
<1>6. CASE /\ IsNode(Found(there)) /\ Len(Elements(there)) < MaxList
           /\ LET at == PushPosition(i, Len(Elements(there)))
              IN  Becomes(Rewrite(there.m, there.loc, InsertAt(Elements(there), at, r)),
                          Front(active))
  <2> DEFINE old == there.m.heap[Held(there.m, there.loc)]
             S == Among(mem, old)
             at == PushPosition(i, Len(old))
             elements == InsertAt(old, at, r)
  <2>0. Elements(there) = old /\ Found(there) = Held(there.m, there.loc)
    BY DEF Elements, Found
  <2>1. Len(old) \in Nat /\ old \in Seq(S)
    BY <1>4, <1>6, <2>0, FoundList DEF H
  <2>2. r \in S
    BY <1>3 DEF Among, H
  <2> HIDE DEF old, S
  <2>3. at \in 1..Len(old) + 1
    BY <2>1, PositionsIn, PlaceAssumption
  <2> HIDE DEF at
  <2>4. elements \in Seq(S) /\ Len(elements) = Len(old) + 1
    BY ZenonT(30), <2>1, <2>2, <2>3, ListChanges
  <2>5. Len(elements) <= MaxList
    BY <1>6, <2>0, <2>1, <2>4, PlaceAssumption
  <2> HIDE DEF elements
  <2>6. PICK new : new = Rewrite(there.m, there.loc, elements)
    OBVIOUS
  <2>7. Sound(new) /\ Len(heap) <= Len(new.heap)
    BY <1>3, <1>4, <1>6, <2>0, <2>4, <2>5, <2>6, RewriteThere DEF H, S, old
  <2>8. Becomes(new, Front(active))
    BY <1>6, <2>0, <2>6 DEF elements, at
  <2>9. QED
    BY <1>1, <2>7, <2>8, EndsForm
<1>7. QED
  BY <1>2, <1>5, <1>6

\* inc and dec,
LEMMA IncrKeeps ==
  ASSUME IInv, NEW p \in Place, NEW n \in Atoms, Incr(p, n)
  PROVE  IInv'
<1> DEFINE mem == Memory(<<>>)
<1>1. PICK there \in Visits(<<>>, p) : Becomes(Store(there.m, there.loc, n), active)
  BY DEF Incr
<1>2. Sound(mem) /\ mem.heap = heap /\ n \in InHand(mem)
  BY NoHands DEF InHand
<1>3. There(mem, there.m, there.loc)
  BY NoHands, VisitSound
<1> HIDE DEF mem
<1>4. PICK new : new = Store(there.m, there.loc, n)
  OBVIOUS
<1>5. Sound(new) /\ Len(heap) <= Len(new.heap)
  BY <1>2, <1>3, <1>4, StoreThere
<1>6. QED
  BY <1>1, <1>4, <1>5, Ends

\* pop and reverse: the list at a place, with no more than its own elements.
LEMMA RewriteKeeps ==
  ASSUME IInv, NEW p \in Place, NEW there \in Visits(<<>>, p), IsNode(Found(there)),
         NEW elements \in Seq(Among(Memory(<<>>), Elements(there))),
         Len(elements) <= MaxList, Becomes(Rewrite(there.m, there.loc, elements), active)
  PROVE  IInv'
<1> DEFINE mem == Memory(<<>>)
           old == Elements(there)
<1>1. Sound(mem) /\ mem.heap = heap /\ There(mem, there.m, there.loc)
  BY NoHands, VisitSound
<1>2. old = there.m.heap[Held(there.m, there.loc)] /\ IsNode(Held(there.m, there.loc))
  BY DEF Elements, Found
<1> HIDE DEF mem, old
<1>3. elements \in Seq(Among(mem, old))
  BY DEF mem, old
<1>4. PICK new : new = Rewrite(there.m, there.loc, elements)
  OBVIOUS
<1>5. Sound(new) /\ Len(heap) <= Len(new.heap)
  BY <1>1, <1>2, <1>3, <1>4, RewriteThere
<1>6. QED
  BY <1>4, <1>5, Ends

\* pop,
LEMMA PopKeeps ==
  ASSUME IInv, NEW p \in Place, NEW i \in Indices, Pop(p, i)
  PROVE  IInv'
<1>1. PICK there \in Visits(<<>>, p) :
        IsNode(Found(there)) /\ Becomes(Rewrite(there.m, there.loc, Popped(Elements(there), i)), active)
  BY DEF Pop
<1> DEFINE mem == Memory(<<>>)
           old == Elements(there)
           S == Among(mem, old)
           elements == Popped(old, i)
<1>2. Len(old) \in Nat /\ Len(old) <= MaxList /\ old \in Seq(S)
  <2>1. There(mem, there.m, there.loc)
    BY NoHands, VisitSound
  <2>2. old = there.m.heap[Held(there.m, there.loc)] /\ IsNode(Held(there.m, there.loc))
    BY <1>1 DEF Elements, Found
  <2> HIDE DEF old, mem
  <2>3. QED
    BY <2>1, <2>2, FoundList
<1> HIDE DEF old, S
<1>3. elements \in Seq(S) /\ Len(elements) <= MaxList
  <2>1. CASE old = <<>>
    BY <1>2, <2>1 DEF Popped
  <2>2. CASE old # <<>>
    <3> DEFINE at == PopPosition(i, Len(old))
    <3>1. Len(old) > 0
      BY <1>2, <2>2
    <3>2. at \in 1..Len(old)
      BY <1>2, <3>1, PositionsIn, PlaceAssumption
    <3> HIDE DEF at
    <3>3. RemoveAt(old, at) \in Seq(S) /\ Len(RemoveAt(old, at)) = Len(old) - 1
      BY <1>2, <3>2, ListChanges
    <3>4. elements = RemoveAt(old, at)
      BY <2>2 DEF Popped, at
    <3>5. QED
      BY <1>2, <3>3, <3>4, PlaceAssumption
  <2>3. QED
    BY <2>1, <2>2
<1> HIDE DEF elements
<1>4. QED
  BY <1>1, <1>3, RewriteKeeps DEF S, mem, old, elements

\* reverse, rotate and sort,
LEMMA ReverseAtKeeps ==
  ASSUME IInv, NEW p \in Place, ReverseAt(p)
  PROVE  IInv'
<1>1. PICK there \in Visits(<<>>, p) :
        IsNode(Found(there)) /\ Becomes(Rewrite(there.m, there.loc, Reverse(Elements(there))), active)
  BY DEF ReverseAt
<1> DEFINE mem == Memory(<<>>)
           old == Elements(there)
           S == Among(mem, old)
           elements == Reverse(old)
<1>2. Len(old) \in Nat /\ Len(old) <= MaxList /\ old \in Seq(S)
  <2>1. There(mem, there.m, there.loc)
    BY NoHands, VisitSound
  <2>2. old = there.m.heap[Held(there.m, there.loc)] /\ IsNode(Held(there.m, there.loc))
    BY <1>1 DEF Elements, Found
  <2> HIDE DEF old, mem
  <2>3. QED
    BY <2>1, <2>2, FoundList
<1> HIDE DEF old, S
<1>3. elements \in Seq(S) /\ Len(elements) = Len(old)
  BY <1>2, ListChanges
<1> HIDE DEF elements
<1>4. QED
  BY <1>1, <1>2, <1>3, RewriteKeeps DEF S, mem, old, elements

\* and extend.
LEMMA ExtendKeeps ==
  ASSUME IInv, NEW p \in Place, NEW e \in Expressions, Extend(p, e)
  PROVE  IInv'
<1> DEFINE v == ValueOf(e)
           mem == Memory(<<v>>)
           more == Spliced(v)
           H == InHand(mem)
<1>1. PICK there \in Visits(<<v>>, p) :
       \/ /\ Found(there) = Nil
          /\ Len(more) <= MaxList
          /\ Becomes(Make(there.m, there.loc, more), active)
       \/ /\ IsNode(Found(there))
          /\ Len(Elements(there)) + Len(more) <= MaxList
          /\ Becomes(Rewrite(there.m, there.loc, Elements(there) \o more), active)
  BY DEF Extend
<1>2. /\ Sound(mem) /\ mem.heap = heap /\ InOneHand(mem, v) /\ v \in Ref(Len(heap))
      /\ There(mem, there.m, there.loc)
  BY OneHand, ValueIsRef, VisitSound
<1> HIDE DEF mem, v
<1>3. more \in Seq(H)
  <2>1. CASE IsNode(v)
    <3> DEFINE list == heap[v]
    <3>1. Len(heap) \in Nat
      BY DEF IInv, Shape
    <3>2. v \in 1..Len(heap)
      BY <1>2, <2>1, <3>1, RefsAre
    <3>3. Len(list) \in Nat /\ DOMAIN list = 1..Len(list) /\ list \in Lists(Len(heap))
      BY <1>2, <3>2, MemoryParts DEF Sound
    <3>4. \A i \in 1..Len(list) : list[i] \in H
      BY <1>2, <2>1 DEF InOneHand
    <3>5. list \in Seq(Ref(Len(heap)))
      BY <3>3 DEF Lists
    <3> HIDE DEF list, H
    <3>6. list \in Seq(H)
      BY <3>4, <3>5
    <3>7. QED
      BY <2>1, <3>6 DEF Spliced, list
  <2>2. CASE ~ IsNode(v)
    BY <1>2, <2>2 DEF Spliced, InOneHand
  <2>3. QED
    BY <2>1, <2>2
<1> HIDE DEF more
<1>4. CASE /\ Found(there) = Nil /\ Len(more) <= MaxList
           /\ Becomes(Make(there.m, there.loc, more), active)
  <2>1. PICK new : new = Make(there.m, there.loc, more)
    OBVIOUS
  <2>2. Sound(new) /\ Len(heap) <= Len(new.heap)
    BY <1>2, <1>3, <1>4, <2>1, MakeThere
  <2>3. QED
    BY <1>4, <2>1, <2>2, Ends
<1>5. CASE /\ IsNode(Found(there)) /\ Len(Elements(there)) + Len(more) <= MaxList
           /\ Becomes(Rewrite(there.m, there.loc, Elements(there) \o more), active)
  <2> DEFINE old == Elements(there)
             S == Among(mem, old)
             elements == old \o more
  <2>1. old = there.m.heap[Held(there.m, there.loc)] /\ IsNode(Held(there.m, there.loc))
    BY <1>5 DEF Elements, Found
  <2> HIDE DEF old, H
  <2>2. Len(old) \in Nat /\ old \in Seq(S)
    BY <1>2, <2>1, FoundList
  <2>3. H \subseteq S
    BY DEF Among, H
  <2> HIDE DEF S
  <2>4. more \in Seq(S)
    BY <1>3, <2>3, SeqMonotonic
  <2>5. elements \in Seq(S) /\ Len(elements) = Len(old) + Len(more)
    BY <2>2, <2>4, ConcatProperties
  <2>6. Len(elements) <= MaxList
    BY <1>5, <2>5 DEF old
  <2>7. PICK new : new = Rewrite(there.m, there.loc, elements)
    OBVIOUS
  <2> HIDE DEF elements
  <2>8. Sound(new) /\ Len(heap) <= Len(new.heap)
    BY <1>2, <2>1, <2>5, <2>6, <2>7, RewriteThere DEF S
  <2>9. QED
    BY <1>5, <2>7, <2>8, Ends DEF elements, old
<1>6. QED
  BY <1>1, <1>4, <1>5

(* The visits of a swap. *)

SwapVisit(p, q, k, before) ==
  LET there == Navigate(before.m, IF k \in {1, 3} THEN p ELSE q)
  IN  IF ~ (before.ok /\ there.ok)
        THEN [m |-> there.m, ok |-> before.ok /\ k > 2]
      ELSE IF k <= 2
        THEN [m |-> [there.m EXCEPT !.hands = Append(@, Found(there))], ok |-> TRUE]
      ELSE [m |-> Store(there.m, there.loc, Exchanged(there.m.hands, k)), ok |-> TRUE]

\* After k visits with all well, as many values are in hand as were read.
Swapping(k, v) ==
  /\ Sound(v.m) /\ Len(heap) <= Len(v.m.heap) /\ v.ok \in BOOLEAN
  /\ v.ok => (k = 1 => Len(v.m.hands) >= 1) /\ (k >= 2 => Len(v.m.hands) >= 2)

\* A value found is taken in hand.
InHandToo(m, r) == [m EXCEPT !.hands = Append(@, r)]

\* Taking one more value in hand keeps a memory sound.
LEMMA HandTaken ==
  ASSUME NEW m, Sound(m), NEW r \in Ref(Len(m.heap)),
         NEW new, new = InHandToo(m, r)
  PROVE  Sound(new) /\ new.heap = m.heap /\ Len(new.hands) = Len(m.hands) + 1
<1> DEFINE n == Len(m.heap)
           h == m.heap
           g == m.globals
           a == m.hands
           R == Ref(n)
           all == Append(a, r)
<1>1. /\ n \in Nat /\ h \in Seq(Lists(n)) /\ Len(h) = n /\ g \in [Symbols -> R] /\ a \in Seq(R)
      /\ m = [heap |-> h, globals |-> g, hands |-> a] /\ r \in R
  BY MemoryParts, MemoryIs DEF Sound
<1>2. all \in Seq(R) /\ Len(all) = Len(a) + 1
  <2> HIDE DEF R, a
  <2>1. QED
    BY <1>1, AppendProperties
<1>3. new = [m EXCEPT !.hands = all]
  BY DEF InHandToo
<1> HIDE DEF all, n, h, g, a, R
<1>4. PICK x : x = [heap |-> h, globals |-> g, hands |-> all]
  OBVIOUS
<1>5. WellFormed(new) /\ new.heap = h /\ new.hands = all
  <2>1. x.heap = h /\ x.hands = all /\ Len(h) = n /\ n \in Nat
    BY <1>1, <1>4
  <2>2. x \in Memories(n)
    BY <1>1, <1>2, <1>4 DEF Memories, R
  <2>3. new = x
    BY <1>1, <1>3, <1>4
  <2>4. QED
    BY <2>1, <2>2, <2>3 DEF WellFormed
<1>6. QED
  BY <1>2, <1>5 DEF Sound, h, a

\* Each of the four visits of swap keeps it sound, wherever the other place leads by then.
LEMMA SwapVisitSound ==
  ASSUME IInv, NEW p \in Place, NEW q \in Place, NEW k \in 1..4,
         NEW before, Swapping(k - 1, before)
  PROVE  Swapping(k, SwapVisit(p, q, k, before))
<1> DEFINE mem == before.m
           to == IF k \in {1, 3} THEN p ELSE q
<1>1. PICK there : there = Navigate(mem, to)
  OBVIOUS
<1>2. Sound(mem) /\ Len(heap) <= Len(mem.heap) /\ Len(heap) \in Nat /\ Len(mem.heap) \in Nat
  BY DEF Swapping, Sound, WellFormed, IInv, Shape
<1>3. to \in Place
  OBVIOUS
<1>4. There(mem, there.m, there.loc) /\ there.ok \in BOOLEAN
  <2> HIDE DEF mem, to
  <2>1. there \in OnTheWay(mem)
    BY <1>1, <1>2, <1>3, NavigateSound
  <2>2. QED
    BY <2>1 DEF OnTheWay, Steps, There
<1>5. /\ Sound(there.m) /\ there.m.hands = mem.hands /\ Len(mem.heap) <= Len(there.m.heap)
      /\ Len(there.m.heap) \in Nat /\ Len(mem.hands) \in Nat
      /\ \A i \in 1..Len(mem.hands) : mem.hands[i] \in InHand(mem)
  <2>1. WellFormed(mem)
    BY <1>2 DEF Sound
  <2>2. Len(mem.hands) \in Nat
    BY <2>1, MemoryParts
  <2>3. \A i \in 1..Len(mem.hands) : mem.hands[i] \in InHand(mem)
    BY DEF InHand
  <2>4. QED
    BY <1>4, <2>2, <2>3 DEF There, Kept, Sound, WellFormed
<1>6. Len(heap) <= Len(there.m.heap)
  BY <1>2, <1>5
<1>7. CASE ~ (before.ok /\ there.ok)
  <2>1. SwapVisit(p, q, k, before) = [m |-> there.m, ok |-> before.ok /\ k > 2]
    BY <1>1, <1>7 DEF SwapVisit
  <2>2. before.ok /\ k > 2 => Len(there.m.hands) >= 2
    BY <1>5 DEF Swapping
  <2> DEFINE ok == before.ok /\ k > 2
  <2>3. ok \in BOOLEAN /\ (ok => Len(there.m.hands) >= 2) /\ (ok => k # 1)
    BY <2>2
  <2> HIDE DEF ok
  <2>4. \A v : v = [m |-> there.m, ok |-> ok] => Swapping(k, v)
    BY <1>5, <1>6, <2>3 DEF Swapping
  <2>5. QED
    BY <2>1, <2>4 DEF ok
<1>8. CASE before.ok /\ there.ok /\ k <= 2
  <2> DEFINE m == there.m
             r == Found(there)
  <2>1. PICK new : new = InHandToo(m, r)
    OBVIOUS
  <2>2. SwapVisit(p, q, k, before) = [m |-> new, ok |-> TRUE]
    BY <1>1, <1>8, <2>1 DEF SwapVisit, InHandToo
  <2>3. r \in Ref(Len(m.heap)) /\ Sound(m)
    BY <1>4, <1>5, FoundIsRef DEF Found
  <2> HIDE DEF m, r
  <2>0. Sound(new) /\ new.heap = m.heap /\ Len(new.hands) = Len(m.hands) + 1
    BY <2>1, <2>3, HandTaken
  <2>4. Sound(new) /\ new.heap = there.m.heap /\ Len(new.hands) = Len(mem.hands) + 1
    BY <1>5, <2>0 DEF m
  <2>5. k = 2 => Len(mem.hands) >= 1
    BY <1>8 DEF Swapping
  <2>6. \A v : v = [m |-> new, ok |-> TRUE] => Swapping(k, v)
    BY <1>5, <1>6, <1>8, <2>4, <2>5 DEF Swapping
  <2>7. QED
    BY <2>2, <2>6
<1>9. CASE before.ok /\ there.ok /\ k > 2
  <2> DEFINE r == Exchanged(there.m.hands, k)
  <2>1. PICK new : new = Store(there.m, there.loc, r)
    OBVIOUS
  <2>2. SwapVisit(p, q, k, before) = [m |-> new, ok |-> TRUE]
    BY <1>1, <1>9, <2>1 DEF SwapVisit
  <2>3. Len(mem.hands) >= 2
    BY <1>9 DEF Swapping
  <2>4. r \in InHand(mem)
    <3>1. Len(mem.hands) - (k - 3) \in 1..Len(mem.hands)
      BY <1>5, <1>9, <2>3
    <3>2. QED
      BY <1>5, <3>1 DEF Exchanged
  <2> HIDE DEF r, mem
  <2>5. Sound(new) /\ new.hands = mem.hands /\ Len(mem.heap) <= Len(new.heap)
    BY <1>4, <2>1, <2>4, StoreThere
  <2>6. Len(heap) <= Len(new.heap)
    <3>1. Len(new.heap) \in Nat
      BY <2>5 DEF Sound, WellFormed
    <3>2. QED
      BY <1>2, <2>5, <3>1
  <2>7. \A v : v = [m |-> new, ok |-> TRUE] => Swapping(k, v)
    BY <2>3, <2>5, <2>6, <1>9 DEF Swapping
  <2>8. QED
    BY <2>2, <2>7
<1>10. QED
  BY <1>7, <1>8, <1>9

\* swap is its four visits in order.
LEMMA SwappedIs ==
  ASSUME NEW p, NEW q
  PROVE  LET v0 == [m |-> Memory(<<>>), ok |-> TRUE]
             v1 == SwapVisit(p, q, 1, v0)
             v2 == SwapVisit(p, q, 2, v1)
             v3 == SwapVisit(p, q, 3, v2)
         IN  Swapped(p, q) = SwapVisit(p, q, 4, v3)
<1> DEFINE v0 == [m |-> Memory(<<>>), ok |-> TRUE]
           on(k, v) == SwapVisit(p, q, k, v)
           v1 == on(1, v0)
           v2 == on(2, v1)
           v3 == on(3, v2)
           v4 == on(4, v3)
           f == [k \in 0..4 |-> IF k = 0 THEN v0 ELSE IF k = 1 THEN v1 ELSE IF k = 2 THEN v2
                                ELSE IF k = 3 THEN v3 ELSE v4]
<1>0. v4 = SwapVisit(p, q, 4, SwapVisit(p, q, 3, SwapVisit(p, q, 2, SwapVisit(p, q, 1, v0))))
  OBVIOUS
<1> HIDE DEF v0, on
<1>1. f = [k \in 0..4 |-> IF k = 0 THEN v0 ELSE on(k, f[k - 1])]
  <2>1. v1 = on(1, v0) /\ v2 = on(2, v1) /\ v3 = on(3, v2) /\ v4 = on(4, v3)
    OBVIOUS
  <2> HIDE DEF v1, v2, v3, v4
  <2>2. f[0] = v0 /\ f[1] = v1 /\ f[2] = v2 /\ f[3] = v3 /\ f[4] = v4
    OBVIOUS
  <2>3. \A k \in 0..4 : k = 0 \/ k = 1 \/ k = 2 \/ k = 3 \/ k = 4
    OBVIOUS
  <2>4. 1 - 1 = 0 /\ 2 - 1 = 1 /\ 3 - 1 = 2 /\ 4 - 1 = 3
    OBVIOUS
  <2>5. \A k \in 0..4 : f[k] = IF k = 0 THEN v0 ELSE on(k, f[k - 1])
    BY <2>1, <2>2, <2>3, <2>4
  <2>6. QED
    BY <2>5
<1> DEFINE visit == CHOOSE g : g = [k \in 0..4 |-> IF k = 0 THEN v0 ELSE on(k, g[k - 1])]
<1> HIDE DEF f
<1>2. visit = [k \in 0..4 |-> IF k = 0 THEN v0 ELSE on(k, visit[k - 1])]
  BY <1>1
<1>3. Swapped(p, q) = visit[4]
  BY DEF Swapped, SwapVisit, v0, on
<1> HIDE DEF visit
<1>4. visit[4] = v4
  <2>1. visit[0] = v0
    BY <1>2
  <2>2. visit[1] = v1
    BY <1>2, <2>1
  <2>3. visit[2] = v2
    BY <1>2, <2>2
  <2>4. visit[3] = v3
    BY <1>2, <2>3
  <2>5. QED
    BY <1>2, <2>4
<1>5. QED
  BY <1>0, <1>3, <1>4 DEF v0

\* So swap ends in a sound memory,
LEMMA SwappedSound ==
  ASSUME IInv, NEW p \in Place, NEW q \in Place
  PROVE  Swapping(4, Swapped(p, q))
<1> DEFINE v0 == [m |-> Memory(<<>>), ok |-> TRUE]
           v1 == SwapVisit(p, q, 1, v0)
           v2 == SwapVisit(p, q, 2, v1)
           v3 == SwapVisit(p, q, 3, v2)
<1>1. Swapping(0, v0)
  <2>1. v0.m = Memory(<<>>) /\ v0.ok \in BOOLEAN
    OBVIOUS
  <2>2. Len(heap) <= Len(heap)
    BY DEF IInv, Shape
  <2> HIDE DEF v0
  <2>3. QED
    BY <2>1, <2>2, NoHands DEF Swapping
<1>2. ASSUME NEW k \in 1..4, NEW v, Swapping(k - 1, v)
      PROVE  Swapping(k, SwapVisit(p, q, k, v))
  BY <1>2, SwapVisitSound
<1>3. Swapped(p, q) = SwapVisit(p, q, 4, v3)
  BY SwappedIs
<1> HIDE DEF v0, v1, v2, v3
<1>4. Swapping(1, v1)
  BY <1>1, <1>2 DEF v1
<1>5. Swapping(2, v2)
  BY <1>2, <1>4 DEF v2
<1>6. Swapping(3, v3)
  BY <1>2, <1>5 DEF v3
<1>7. QED
  BY <1>2, <1>3, <1>6

\* and keeps the invariant.
LEMMA SwapKeeps ==
  ASSUME IInv, NEW p \in Place, NEW q \in Place, Swap(p, q)
  PROVE  IInv'
<1>1. PICK done : done = Swapped(p, q) /\ Becomes(done.m, active)
  BY DEF Swap
<1>2. Sound(done.m) /\ Len(heap) <= Len(done.m.heap)
  BY <1>1, SwappedSound DEF Swapping
<1>3. QED
  BY <1>1, <1>2, Ends

\* A form that fails keeps the invariant, with the copies made on its way.
LEMMA FailKeeps ==
  ASSUME IInv, Fail
  PROVE  IInv'
<1>1. PICK p \in Place, forms \in {active, IF active = <<>> THEN active ELSE Front(active)} :
        Becomes(Navigate(Memory(<<>>), p).m, forms)
  BY DEF Fail
<1>2. PICK m : m = Navigate(Memory(<<>>), p).m
  OBVIOUS
<1>3. Kept(Memory(<<>>), m) /\ Memory(<<>>).heap = heap
  BY <1>2, NoHands, NavigateSound DEF OnTheWay
<1>4. Sound(m) /\ Len(heap) <= Len(m.heap)
  BY <1>3 DEF Kept
<1>5. CASE forms = active
  BY <1>1, <1>2, <1>4, <1>5, Ends
<1>6. CASE active # <<>> /\ forms = Front(active)
  BY <1>1, <1>2, <1>4, <1>6, EndsForm
<1>7. QED
  BY <1>5, <1>6

\* The invariant holds at the start,
LEMMA InitHolds ==
  ASSUME Init
  PROVE  IInv
<1>1. heap = <<>> /\ globals = [s \in Symbols |-> Nil] /\ active = <<>>
  BY DEF Init
<1>2. 0 \in Nat /\ 0 <= MaxNodes
  BY CowAssumption
<1>3. Nil \in Ref(0)
  BY <1>2, RefsAre
<1>4. Shape
  BY <1>1, <1>2, <1>3 DEF Shape
<1>5. Ranked(heap)
  <2> DEFINE f == [k \in 1..0 |-> 0]
  <2>1. Ranks(<<>>, f)
    BY DEF Ranks
  <2>2. QED
    BY <1>1, <2>1 DEF Ranked
<1>6. QED
  BY <1>4, <1>5 DEF IInv

\* is kept by every step,
LEMMA StepKeeps ==
  ASSUME IInv, [Next]_vars
  PROVE  IInv'
<1>1. ASSUME NEW s \in Symbols, NEW e \in Expressions, Assign(s, e) PROVE IInv'
  BY <1>1, AssignKeeps
<1>2. ASSUME NEW form \in {"setf", "replace"}, NEW p \in Place, BeginReading(form, p) PROVE IInv'
  BY <1>2, BeginReadingKeeps
<1>3. ASSUME NEW e \in Expressions, BeginPush(e) PROVE IInv'
  BY <1>3, BeginPushKeeps
<1>4. ASSUME NEW e \in Expressions, EndSetf(e) PROVE IInv'
  BY <1>4, EndSetfKeeps
<1>5. ASSUME NEW e \in Expressions, NEW key \in Atoms, EndReplace(key, e) PROVE IInv'
  BY <1>5, EndReplaceKeeps
<1>6. ASSUME NEW p \in Place, NEW i \in Indices, EndPush(p, i) PROVE IInv'
  BY <1>6, EndPushKeeps
<1>7. ASSUME NEW p \in Place, NEW i \in Indices, Pop(p, i) PROVE IInv'
  BY <1>7, PopKeeps
<1>8. ASSUME NEW p \in Place, NEW n \in Atoms, Incr(p, n) PROVE IInv'
  BY <1>8, IncrKeeps
<1>9. ASSUME NEW p \in Place, NEW e \in Expressions, Extend(p, e) PROVE IInv'
  BY <1>9, ExtendKeeps
<1>10. ASSUME NEW p \in Place, NEW q \in Place, Swap(p, q) PROVE IInv'
  BY <1>10, SwapKeeps
<1>11. ASSUME NEW p \in Place, ReverseAt(p) PROVE IInv'
  BY <1>11, ReverseAtKeeps
<1>12. CASE Fail
  BY <1>12, FailKeeps
<1>13. CASE UNCHANGED vars
  BY <1>13 DEF vars, IInv, Shape
<1>14. QED
  BY <1>1, <1>2, <1>3, <1>4, <1>5, <1>6, <1>7, <1>8, <1>9, <1>10, <1>11, <1>12, <1>13 DEF Next

\* and so always holds.
LEMMA Invariance == Spec => []IInv
<1>1. Init => IInv
  BY InitHolds
<1>2. IInv /\ [Next]_vars => IInv'
  BY StepKeeps
<1>3. QED
  BY <1>1, <1>2, PTL DEF Spec

\* What a list, a slot or a form under way refers to is there, and no list is longer
\* than it may be: renumbering what is left loses nothing (Rc::drop, Rc::make_mut).
THEOREM TypesCorrect == Spec => []TypeOK
<1>1. ASSUME IInv PROVE TypeOK
  <2> DEFINE n == Len(heap)
             Ls == Lists(n)
             F == Forms(n)
             R == Ref(n)
  <2>1. /\ n \in Nat /\ n <= MaxNodes /\ heap \in Seq(Ls) /\ globals \in [Symbols -> R]
        /\ active \in Seq(F)
    BY <1>1 DEF IInv, Shape
  <2>2. \A f \in F : f.form \in {"setf", "replace", "push"} /\ f.held \in R
    BY <2>1, FormsAre
  <2>3. \A l \in Ls : l \in UNION {[1..len -> R] : len \in 0..MaxList}
    <3>1. ASSUME NEW l \in Ls
          PROVE  l \in UNION {[1..len -> R] : len \in 0..MaxList}
      <4>1. l \in Seq(R) /\ Len(l) <= MaxList
        BY DEF Lists
      <4> HIDE DEF R
      <4>2. l \in [1..Len(l) -> R] /\ Len(l) \in 0..MaxList
        BY <4>1, PlaceAssumption
      <4>3. QED
        BY <4>2
    <3>2. QED
      BY <3>1
  <2> HIDE DEF Ls, F, R
  <2>4. DOMAIN heap = 1..n /\ \A k \in 1..n : heap[k] \in Ls
    BY <2>1
  <2>5. \A k \in DOMAIN active : active[k] \in F
    BY <2>1
  <2>6. R = Atoms \cup DOMAIN heap
    BY <2>4 DEF R, Ref
  <2>7. QED
    BY <2>1, <2>2, <2>3, <2>4, <2>5, <2>6 DEF TypeOK
<1>2. QED
  BY <1>1, Invariance, PTL

\* No list is part of itself, however lists are shared and whatever is stored where:
\* a list is copied before it is written while anything else refers to it (make_mut).
THEOREM NoListInItself == Spec => []Acyclic
<1>1. ASSUME IInv PROVE Acyclic
  <2> DEFINE l == Len(heap)
  <2>1. PICK f : Ranks(heap, f)
    BY <1>1 DEF IInv, Ranked
  <2>2. l \in Nat /\ DOMAIN heap = 1..l
    BY <1>1 DEF IInv, Shape
  <2>3. \A n \in 1..l : /\ DOMAIN heap[n] = 1..Len(heap[n])
                        /\ \A i \in 1..Len(heap[n]) : heap[n][i] \in Ref(l)
    <3> DEFINE Ls == Lists(l)
    <3>1. \A x \in Ls : DOMAIN x = 1..Len(x)
      BY DEF Lists
    <3>2. \A x \in Ls : \A i \in 1..Len(x) : x[i] \in Ref(l)
      BY <2>2, ListsGrow
    <3>3. heap \in Seq(Ls)
      BY <1>1 DEF IInv, Shape
    <3> HIDE DEF Ls
    <3>4. \A n \in 1..l : heap[n] \in Ls
      BY <3>3
    <3>5. QED
      BY <3>1, <3>2, <3>4
  <2>4. f \in [1..l -> Nat]
    BY <2>1 DEF Ranks
  <2>5. \A n \in 1..l : \A c \in Children(heap, n) : c \in 1..l /\ f[c] < f[n]
    BY <2>1, <2>3 DEF Ranks, Children, Ref
  <2>6. ASSUME NEW n \in 1..l, n \in Below(heap, Children(heap, n))
        PROVE  FALSE
    <3>1. Children(heap, n) \subseteq 1..l /\ \A k \in 1..l : Children(heap, k) \subseteq 1..l
      BY <2>5
    <3> DEFINE S == Children(heap, n)
    <3>2. S \subseteq 1..l
      BY <3>1
    <3>3. \A x \in Below(heap, S) : \E s \in S : f[x] <= f[s]
      <4> HIDE DEF S
      <4>1. QED
        BY <2>2, <2>4, <2>5, <3>1, <3>2, BelowIs
    <3>4. PICK s \in S : f[n] <= f[s]
      BY <2>6, <3>3
    <3>5. f[s] < f[n] /\ s \in 1..l
      BY <2>5
    <3>6. f[s] \in Nat /\ f[n] \in Nat
      BY <2>4, <3>5
    <3>7. QED
      BY <3>4, <3>5, <3>6
  <2>7. QED
    BY <2>2, <2>6 DEF Acyclic
<1>2. QED
  BY <1>1, Invariance, PTL

-----------------------------------------------------------------------------
(* What lists stand for. *)

\* Atoms are no lists, and neither is the mark of a path that leads nowhere.
AtomsAreNoLists == \A a \in Atoms \cup {Missing} : \A S : a \notin Seq(S)

Anything(h) == (1..Len(h)) \cup Atoms \cup {Missing}

\* V is what the lists of h stand for.
Fits(h, V) ==
  /\ \A a \in Atoms \cup {Missing} : V[a] = a
  /\ \A n \in 1..Len(h) : V[n] = [i \in 1..Len(h[n]) |-> V[h[n][i]]]

\* The lists of h, known only as lists.
Shallow(h) == [r \in Anything(h) |-> IF ~ IsNode(r) THEN r ELSE <<>>]

\* A list's rank can be taken to be less than the number of lists.
LEMMA SmallRanks ==
  ASSUME NEW h, Len(h) \in Nat, Ranked(h)
  PROVE  \E f : Ranks(h, f) /\ \A n \in 1..Len(h) : f[n] < Len(h)
<1> DEFINE l == Len(h)
           A == 1..l
<1>1. PICK f : Ranks(h, f)
  BY DEF Ranked
<1>2. f \in [A -> Nat]
  BY <1>1 DEF Ranks
<1> DEFINE lower(n) == {k \in A : f[k] < f[n]}
           g == [n \in A |-> Cardinality(lower(n))]
<1>3. l \in Nat /\ IsFiniteSet(A) /\ Cardinality(A) = l
  <2>1. l \in Nat
    OBVIOUS
  <2> HIDE DEF l
  <2>2. IsFiniteSet(1..l) /\ Cardinality(1..l) = IF 1 > l THEN 0 ELSE l - 1 + 1
    BY <2>1, FS_Interval
  <2>3. QED
    BY <2>1, <2>2
<1>4. \A n \in A : lower(n) \in SUBSET A /\ n \in A \ lower(n)
  BY <1>2
<1>5. \A n \in A : IsFiniteSet(lower(n)) /\ Cardinality(lower(n)) \in Nat
  BY <1>3, <1>4, FS_Subset, FS_CardinalityType
<1>6. \A n \in A : Cardinality(lower(n)) < l
  <2> TAKE n \in A
  <2>1. lower(n) \in SUBSET A /\ lower(n) # A
    BY <1>4
  <2> HIDE DEF lower
  <2>2. Cardinality(lower(n)) <= l /\ (Cardinality(lower(n)) = l => lower(n) = A)
    BY <1>3, <2>1, FS_Subset
  <2>3. QED
    BY <1>3, <1>5, <2>1, <2>2
<1>7. ASSUME NEW n \in A, NEW c \in A, f[c] < f[n]
      PROVE  Cardinality(lower(c)) < Cardinality(lower(n))
  <2>1. lower(c) \in SUBSET lower(n)
    BY <1>2, <1>7
  <2>2. c \in lower(n) /\ c \notin lower(c)
    BY <1>2, <1>7
  <2> HIDE DEF lower
  <2>3. Cardinality(lower(c)) <= Cardinality(lower(n))
        /\ (Cardinality(lower(c)) = Cardinality(lower(n)) => lower(c) = lower(n))
    BY <1>5, <2>1, FS_Subset
  <2>4. QED
    BY <1>5, <2>2, <2>3
<1>8. g \in [A -> Nat] /\ \A n \in A : g[n] < l
  BY <1>5, <1>6
<1>9. \A n \in A : \A i \in 1..Len(h[n]) : h[n][i] \in A => g[h[n][i]] < g[n]
  <2> HIDE DEF lower
  <2>1. \A n, c \in A : f[c] < f[n] => g[c] < g[n]
    BY <1>7
  <2>2. QED
    BY <1>1, <2>1 DEF Ranks
<1> HIDE DEF g
<1>10. Ranks(h, g)
  BY <1>8, <1>9 DEF Ranks
<1>11. QED
  BY <1>8, <1>10

\* A search as deep as there are lists finds all there is to a list.
LEMMA ValuesFit ==
  ASSUME NEW h, Len(h) \in Nat, DOMAIN h = 1..Len(h),
         \A n \in 1..Len(h) : \A i \in 1..Len(h[n]) : h[n][i] \in Ref(Len(h)),
         Ranked(h)
  PROVE  Fits(h, ValuesIn(h))
<1> DEFINE l == Len(h)
           All == Anything(h)
           on(d, T) == [r \in All |-> IF ~ IsNode(r) THEN r ELSE IF d = 0 THEN <<>>
                                      ELSE [i \in 1..Len(h[r]) |-> T[h[r][i]]]]
           S == {m \in 0..l : \E g : g = [d \in 0..m |-> on(d, g[d - 1])]}
<1>1. l \in Nat /\ 1..l \subseteq Nat
  OBVIOUS
<1>2. 0 \in S
  <2> DEFINE g == [d \in 0..0 |-> Shallow(h)]
  <2>1. \A d \in 0..0 : on(d, g[d - 1]) = Shallow(h)
    BY DEF Shallow
  <2>2. g = [d \in 0..0 |-> on(d, g[d - 1])]
    BY <2>1
  <2> HIDE DEF g, on
  <2>3. QED
    BY <1>1, <2>2
<1>3. ASSUME NEW m \in 1..l, m - 1 \in S
      PROVE  m \in S
  <2>1. PICK f : f = [d \in 0..(m - 1) |-> on(d, f[d - 1])]
    BY <1>3
  <2> DEFINE g == [d \in 0..m |-> IF d = m THEN on(m, f[m - 1]) ELSE f[d]]
  <2>2. \A T, U : on(0, T) = on(0, U)
    OBVIOUS
  <2> HIDE DEF on
  <2>3. ASSUME NEW d \in 0..m
        PROVE  g[d] = on(d, g[d - 1])
    <3>1. CASE d = m
      BY <3>1
    <3>2. CASE d # m /\ d # 0
      <4>1. d \in 0..(m - 1) /\ d - 1 \in 0..m /\ d - 1 # m
        BY <3>2
      <4>2. QED
        BY <2>1, <3>2, <4>1
    <3>3. CASE d # m /\ d = 0
      <4>1. g[0] = f[0] /\ f[0] = on(0, f[0 - 1])
        BY <2>1, <3>3
      <4>2. QED
        BY <2>2, <3>3, <4>1
    <3>4. QED
      BY <3>1, <3>2, <3>3
  <2>4. g = [d \in 0..m |-> on(d, g[d - 1])]
    BY <2>3
  <2> HIDE DEF g
  <2>5. QED
    BY <2>4
<1> HIDE DEF S
<1>4. l \in S
  <2>1. \A k \in 0..l : k \in S
    BY <1>1, <1>2, <1>3, CountUp
  <2>2. QED
    BY <1>1, <2>1
<1> DEFINE tree == CHOOSE g : g = [d \in 0..l |-> on(d, g[d - 1])]
<1>5. tree = [d \in 0..l |-> on(d, tree[d - 1])]
  BY <1>4 DEF S
<1>6. ValuesIn(h) = tree[l]
  BY DEF ValuesIn, Anything
<1> HIDE DEF tree
<1>7. \A d \in 0..l : \A a \in Atoms \cup {Missing} : tree[d][a] = a
  BY <1>5 DEF IsNode, Anything
<1>8. \A n \in 1..l : IsNode(n)
  BY <1>1, RefsAre DEF Ref
<1>9. \A d \in 1..l : \A n \in 1..l : tree[d][n] = [i \in 1..Len(h[n]) |-> tree[d - 1][h[n][i]]]
  <2> TAKE d \in 1..l
  <2> TAKE n \in 1..l
  <2>1. d \in 0..l /\ d # 0 /\ n \in All
    BY DEF Anything
  <2>2. tree[d] = on(d, tree[d - 1])
    BY <1>5, <2>1
  <2>3. QED
    BY <1>8, <2>1, <2>2
<1>10. PICK f : Ranks(h, f) /\ \A n \in 1..l : f[n] < l
  BY <1>1, SmallRanks
<1>11. f \in [1..l -> Nat] /\ \A n \in 1..l : \A i \in 1..Len(h[n]) :
         h[n][i] \in 1..l => f[h[n][i]] < f[n]
  BY <1>10 DEF Ranks
<1> DEFINE U == {d \in 0..l : d = 0 \/ \A n \in 1..l : f[n] < d =>
                    \A e \in d..l : tree[e][n] = tree[d][n]}
<1>13. ASSUME NEW d \in 1..l, d - 1 \in U
       PROVE  d \in U
  <2>1. ASSUME NEW n \in 1..l, f[n] < d, NEW e \in d..l
        PROVE  tree[e][n] = tree[d][n]
    <3>1. e \in 1..l /\ e - 1 \in (d - 1)..l
      OBVIOUS
    <3>2. ASSUME NEW i \in 1..Len(h[n])
          PROVE  tree[e - 1][h[n][i]] = tree[d - 1][h[n][i]]
      <4>1. CASE h[n][i] \in Atoms
        <5>1. e - 1 \in 0..l /\ d - 1 \in 0..l
          BY <3>1
        <5>2. QED
          BY <1>7, <4>1, <5>1
      <4>2. CASE h[n][i] \notin Atoms
        <5>1. h[n][i] \in 1..l
          BY <4>2 DEF Ref
        <5>2. f[h[n][i]] < d - 1 /\ d - 1 # 0
          <6>1. f[h[n][i]] \in Nat /\ f[n] \in Nat /\ f[h[n][i]] < f[n]
            BY <1>11, <5>1
          <6>2. QED
            BY <2>1, <6>1
        <5>3. QED
          BY <1>13, <3>1, <5>1, <5>2
      <4>3. QED
        BY <4>1, <4>2
    <3>3. /\ tree[e][n] = [i \in 1..Len(h[n]) |-> tree[e - 1][h[n][i]]]
          /\ tree[d][n] = [i \in 1..Len(h[n]) |-> tree[d - 1][h[n][i]]]
      BY <1>9, <3>1
    <3> HIDE DEF tree
    <3>4. QED
      BY <3>2, <3>3
  <2>2. QED
    BY <2>1
<1>14. \A d \in 0..l : d \in U
  <2>1. 0 \in U
    BY <1>1
  <2> HIDE DEF U
  <2>2. QED
    BY <1>1, <1>13, <2>1, CountUp
<1> HIDE DEF on
<1>15. ASSUME NEW n \in 1..l
       PROVE  tree[l][n] = [i \in 1..Len(h[n]) |-> tree[l][h[n][i]]]
  <2>1. l \in 1..l /\ l - 1 \in 0..l /\ l \in (l - 1)..l
    OBVIOUS
  <2>2. ASSUME NEW i \in 1..Len(h[n])
        PROVE  tree[l][h[n][i]] = tree[l - 1][h[n][i]]
    <3>1. CASE h[n][i] \in Atoms
      BY <1>1, <1>7, <2>1, <3>1
    <3>2. CASE h[n][i] \notin Atoms
      <4>1. h[n][i] \in 1..l
        BY <3>2 DEF Ref
      <4>2. f[h[n][i]] \in Nat /\ f[n] \in Nat /\ f[h[n][i]] < f[n] /\ f[n] < l
        BY <1>10, <1>11, <4>1
      <4>3. f[h[n][i]] < l - 1 /\ l - 1 # 0
        BY <4>2
      <4>4. l - 1 \in U
        BY <1>14, <2>1
      <4>5. QED
        BY <2>1, <4>1, <4>3, <4>4
    <3>3. QED
      BY <3>1, <3>2
  <2>3. QED
    BY <1>9, <2>1, <2>2
<1>16. QED
  BY <1>1, <1>6, <1>7, <1>15 DEF Fits

\* A list stands for the sequence of what its elements stand for.
LEMMA ListValue ==
  ASSUME NEW h, NEW V, Fits(h, V), NEW n \in 1..Len(h), Len(h[n]) \in Nat
  PROVE  /\ Len(V[n]) = Len(h[n]) /\ DOMAIN V[n] = 1..Len(h[n])
         /\ \A i \in 1..Len(h[n]) : V[n][i] = V[h[n][i]]
         /\ \E S : V[n] \in Seq(S)
<1> DEFINE b == Len(h[n])
           at(i) == V[h[n][i]]
           S == {at(i) : i \in 1..b}
           v == [i \in 1..b |-> at(i)]
<1>1. V[n] = v
  BY DEF Fits
<1>2. b \in Nat /\ \A i \in 1..b : at(i) \in S
  OBVIOUS
<1> HIDE DEF b, at, S
<1>3. v \in Seq(S) /\ Len(v) = b /\ DOMAIN v = 1..b /\ \A i \in 1..b : v[i] = at(i)
  BY <1>2
<1>4. QED
  BY <1>1, <1>3 DEF b, at

\* Those stand for the same.
LEMMA SameTrees ==
  ASSUME NEW h, NEW V, Fits(h, V), NEW k, NEW W, Fits(k, W), Ranked(k),
         NEW A, NEW e, Image(h, k, A, e)
  PROVE  \A n \in A : W[n] = V[e[n]]
<1>1. PICK f : Ranks(k, f)
  BY DEF Ranked
<1>2. A \subseteq 1..Len(k) /\ f \in [1..Len(k) -> Nat] /\ \A n \in A : e[n] \in 1..Len(h)
  BY <1>1 DEF Ranks, Image
<1> SUFFICES ASSUME NEW x \in A PROVE W[x] = V[e[x]]
  OBVIOUS
<1> DEFINE b == f[x] + 1
           S == {d \in 0..b : \A n \in A : f[n] < d => W[n] = V[e[n]]}
<1>3. b \in Nat /\ f[x] < b
  BY <1>2
<1> HIDE DEF b
<1>4. 0 \in S
  BY <1>2, <1>3
<1>5. ASSUME NEW d \in 1..b, d - 1 \in S
      PROVE  d \in S
  <2>1. ASSUME NEW n \in A, f[n] < d
        PROVE  W[n] = V[e[n]]
    <3>1. /\ W[n] = [i \in 1..Len(k[n]) |-> W[k[n][i]]]
          /\ V[e[n]] = [i \in 1..Len(h[e[n]]) |-> V[h[e[n]][i]]]
          /\ Len(k[n]) = Len(h[e[n]])
      BY <1>2 DEF Fits, Image
    <3>2. ASSUME NEW i \in 1..Len(k[n])
          PROVE  W[k[n][i]] = V[h[e[n]][i]]
      <4>1. CASE k[n][i] \in Atoms /\ h[e[n]][i] = k[n][i]
        BY <4>1 DEF Fits
      <4>2. CASE k[n][i] \in A /\ h[e[n]][i] = e[k[n][i]]
        <5>1. k[n][i] \in 1..Len(k) /\ n \in 1..Len(k)
          BY <1>2, <4>2
        <5>2. f[k[n][i]] < f[n] /\ f[k[n][i]] \in Nat /\ f[n] \in Nat
          BY <1>1, <1>2, <5>1 DEF Ranks
        <5>3. f[k[n][i]] < d - 1
          BY <2>1, <5>2
        <5>4. QED
          BY <1>5, <4>2, <5>3
      <4>3. QED
        BY <4>1, <4>2 DEF Image
    <3>3. QED
      BY <3>1, <3>2
  <2>2. QED
    BY <2>1
<1>6. \A d \in 0..b : d \in S
  <2> HIDE DEF S
  <2>1. QED
    BY <1>3, <1>4, <1>5, CountUp
<1>7. b \in S
  BY <1>3, <1>6
<1>8. QED
  BY <1>3, <1>7

\* What the lists of a memory stand for.
Val(m) == ValuesIn(m.heap)

\* In a sound memory every list stands for exactly one value: the sequence of its elements' values.
LEMMA ValFits ==
  ASSUME NEW m, Sound(m)
  PROVE  /\ Fits(m.heap, Val(m))
         /\ \A n \in 1..Len(m.heap) :
              /\ Len(Val(m)[n]) = Len(m.heap[n]) /\ DOMAIN Val(m)[n] = 1..Len(m.heap[n])
              /\ \A i \in 1..Len(m.heap[n]) : Val(m)[n][i] = Val(m)[m.heap[n][i]]
              /\ \E S : Val(m)[n] \in Seq(S)
<1>1. /\ Len(m.heap) \in Nat /\ DOMAIN m.heap = 1..Len(m.heap) /\ Ranked(m.heap)
      /\ \A k \in 1..Len(m.heap) : Len(m.heap[k]) \in Nat
      /\ \A n \in 1..Len(m.heap) : \A i \in 1..Len(m.heap[n]) : m.heap[n][i] \in Ref(Len(m.heap))
  BY MemoryParts DEF Sound
<1>2. Fits(m.heap, Val(m))
  BY <1>1, ValuesFit DEF Val
<1>3. QED
  BY <1>1, <1>2, ListValue

-----------------------------------------------------------------------------
(* What a write leaves alone. *)

SameSlots(m, loc, new) ==
  \A s \in Symbols : loc # SlotOf(s) => new.globals[s] = m.globals[s]

\* Slots and elements other than loc, and lists outside D.
SameElsewhere(m, loc, D, new) ==
  /\ Len(m.heap) <= Len(new.heap) /\ new.hands = m.hands
  /\ SameSlots(m, loc, new)
  /\ \A n \in (1..Len(m.heap)) \ D :
       /\ Len(new.heap[n]) = Len(m.heap[n])
       /\ \A i \in 1..Len(m.heap[n]) : loc # ElementOf(n, i) => new.heap[n][i] = m.heap[n][i]

\* Storing at a location changes no other slot,
LEMMA StoreSlots ==
  ASSUME NEW m, WellFormed(m), NEW P, P \subseteq 1..Len(m.heap), NEW loc, Within(m, loc, P),
         NEW r, NEW new, new = Store(m, loc, r)
  PROVE  SameSlots(m, loc, new)
<1>1. m = [heap |-> m.heap, globals |-> m.globals, hands |-> m.hands]
  BY MemoryIs
<1>2. m.globals \in [Symbols -> Ref(Len(m.heap))]
  BY MemoryParts
<1>3. CASE loc.list # 0
  BY <1>1, <1>3 DEF Store, SameSlots
<1>4. CASE loc.list = 0
  <2>1. \A n \in P : \A i : ElementOf(n, i).list # 0
    BY MemoryParts DEF ElementOf
  <2>2. PICK s \in Symbols : loc = SlotOf(s)
    BY <1>4, <2>1 DEF Within
  <2>3. loc.at = s /\ \A t \in Symbols : loc # SlotOf(t) => t # s
    BY <2>2 DEF SlotOf
  <2>4. new = [m EXCEPT !.globals[loc.at] = r]
    BY <1>4 DEF Store
  <2>5. new.globals = [m.globals EXCEPT ![s] = r]
    BY <1>1, <2>3, <2>4
  <2>6. QED
    BY <1>2, <2>3, <2>5 DEF SameSlots
<1>5. QED
  BY <1>3, <1>4

\* and no other list,
LEMMA StoreElsewhere ==
  ASSUME NEW m, WellFormed(m), NEW P, P \subseteq 1..Len(m.heap), NEW loc, Within(m, loc, P),
         NEW r \in Ref(Len(m.heap)), NEW new, new = Store(m, loc, r)
  PROVE  SameElsewhere(m, loc, {}, new) /\ Stored(m, loc, r, new)
<1>1. Len(m.heap) \in Nat
  BY MemoryParts
<1>2. Stored(m, loc, r, new)
  BY StoreParts
<1>3. SameSlots(m, loc, new)
  BY StoreSlots
<1>4. QED
  BY <1>1, <1>2, <1>3 DEF SameElsewhere, Stored

\* A new list at a location is the last one.
MadeAt(m, loc, elements, new) ==
  LET top == Len(m.heap) + 1 IN
  /\ SameElsewhere(m, loc, {}, new) /\ Held(new, loc) = top
  /\ Len(new.heap) = top /\ Len(new.heap[top]) = Len(elements)
  /\ \A i \in 1..Len(elements) : new.heap[top][i] = elements[i]

\* and putting a new list there changes nothing else either.
LEMMA MakeElsewhere ==
  ASSUME NEW m, WellFormed(m), NEW P, P \subseteq 1..Len(m.heap), NEW loc, Within(m, loc, P),
         NEW elements \in Lists(Len(m.heap)), NEW new, new = Make(m, loc, elements)
  PROVE  MadeAt(m, loc, elements, new)
<1> DEFINE l == Len(m.heap)
           grown == [m EXCEPT !.heap = Append(@, elements)]
<1>1. l \in Nat
  BY MemoryParts
<1>2. \E g : g = grown
  OBVIOUS
<1>3. PICK g : g = grown
  BY <1>2
<1>4. WellFormed(g) /\ Grown(m, elements, g)
  BY <1>3, GrownParts
<1>5. new = Store(g, loc, l + 1)
  BY <1>3 DEF Make
<1> HIDE DEF grown
<1>6. Within(g, loc, P) /\ P \subseteq 1..Len(g.heap)
  BY <1>1, <1>4 DEF Within, Grown
<1> DEFINE top == l + 1
<1>7. top \in Ref(Len(g.heap)) /\ new = Store(g, loc, top)
  BY <1>4, <1>5 DEF Grown, Ref
<1>8. SameElsewhere(g, loc, {}, new) /\ Held(new, loc) = top /\ Len(new.heap) = Len(g.heap)
  <2>1. WellFormed(g) /\ top \in Ref(Len(g.heap)) /\ new = Store(g, loc, top)
    BY <1>4, <1>7
  <2> HIDE DEF top, l
  <2>2. SameElsewhere(g, loc, {}, new) /\ Stored(g, loc, top, new)
    BY <1>6, <2>1, StoreElsewhere
  <2>3. QED
    BY <2>2 DEF Stored
<1>9. \A i : loc # ElementOf(l + 1, i)
  <2>1. l + 1 \notin P /\ l + 1 # 0
    BY <1>1
  <2>2. \A s : SlotOf(s).list = 0
    BY DEF SlotOf
  <2>3. \A k, j : ElementOf(k, j).list = k
    BY DEF ElementOf
  <2>4. QED
    BY <2>1, <2>2, <2>3 DEF Within
<1>10. /\ Len(new.heap[l + 1]) = Len(elements)
       /\ \A i \in 1..Len(elements) : new.heap[l + 1][i] = elements[i]
  <2>1. top \in (1..Len(g.heap)) \ {} /\ g.heap[top] = elements
    BY <1>4 DEF Grown
  <2> HIDE DEF top, l
  <2>2. /\ Len(new.heap[top]) = Len(g.heap[top])
        /\ \A i \in 1..Len(g.heap[top]) : new.heap[top][i] = g.heap[top][i]
    BY <1>8, <1>9, <2>1 DEF SameElsewhere, top
  <2>3. QED
    BY <2>1, <2>2 DEF top
<1>11. SameElsewhere(m, loc, {}, new)
  <2>1. /\ Len(m.heap) <= Len(new.heap) /\ new.hands = m.hands /\ SameSlots(m, loc, new)
    BY <1>1, <1>4, <1>8 DEF Grown, SameElsewhere, SameSlots
  <2>2. ASSUME NEW n \in (1..Len(m.heap)) \ {}
        PROVE  /\ Len(new.heap[n]) = Len(m.heap[n])
               /\ \A i \in 1..Len(m.heap[n]) : loc # ElementOf(n, i) => new.heap[n][i] = m.heap[n][i]
    <3>1. n \in (1..Len(g.heap)) \ {} /\ g.heap[n] = m.heap[n]
      BY <1>1, <1>4 DEF Grown
    <3>2. QED
      BY <1>8, <3>1 DEF SameElsewhere
  <2>3. QED
    BY <2>1, <2>2 DEF SameElsewhere
<1>12. QED
  BY <1>4, <1>8, <1>10, <1>11 DEF Grown, MadeAt

-----------------------------------------------------------------------------
(* The locations a place passes, each in the list at the one before.          *)

\* From a location to the element of its list an index names.
Link(m, from, to, i) ==
  LET n == Held(m, from) IN
  /\ InRange(i, Len(m.heap[n]))
  /\ to = ElementOf(n, Position(i, Len(m.heap[n])))

Spine(m, s, path, L, k) ==
  /\ L[0] = SlotOf(s)
  /\ \A i, j \in 0..k : L[i] = L[j] => i = j
  /\ \A j \in 1..k : Link(m, L[j - 1], L[j], path[j])

\* The lists at the first c of them are theirs alone.
Soles(m, L, c) ==
  \A j \in 0..(c - 1) : Held(m, L[j]) \in 1..Len(m.heap) /\ Sole(m, Held(m, L[j]), L[j])

Nodes(m, L, c) == {Held(m, L[j]) : j \in 0..(c - 1)}

On(m, s, path, L, k, c) ==
  /\ k \in Nat /\ c \in {k, k + 1} /\ s \in Symbols
  /\ Spine(m, s, path, L, k) /\ Soles(m, L, c)

Anywhere(m, loc) == Within(m, loc, 1..Len(m.heap))

\* Slots and elements are told apart by their location.
LEMMA LocationsDiffer ==
  /\ \A s, n, i : SlotOf(s) = ElementOf(n, i) => n = 0
  /\ \A s, t : SlotOf(s) = SlotOf(t) => s = t
  /\ \A n, i, l, j : ElementOf(n, i) = ElementOf(l, j) => n = l /\ i = j
  /\ \A s : SlotOf(s).list = 0 /\ SlotOf(s).at = s
  /\ \A n, i : ElementOf(n, i).list = n /\ ElementOf(n, i).at = i
<1>1. \A s : SlotOf(s).list = 0 /\ SlotOf(s).at = s
  BY DEF SlotOf
<1>2. \A n, i : ElementOf(n, i).list = n /\ ElementOf(n, i).at = i
  BY DEF ElementOf
<1>3. QED
  BY <1>1, <1>2

\* A location that holds a list is the only one, if one is.
LEMMA SoleAt ==
  ASSUME NEW m, NEW loc, Anywhere(m, loc), NEW from, Sole(m, Held(m, loc), from)
  PROVE  loc = from
<1>1. CASE \E s \in Symbols : loc = SlotOf(s)
  BY <1>1 DEF Sole, Held, SlotOf
<1>2. CASE \E n \in 1..Len(m.heap) : \E i \in 1..Len(m.heap[n]) : loc = ElementOf(n, i)
  <2>1. PICK n \in 1..Len(m.heap) : \E i \in 1..Len(m.heap[n]) : loc = ElementOf(n, i)
    BY <1>2
  <2>2. PICK i \in 1..Len(m.heap[n]) : loc = ElementOf(n, i)
    BY <2>1
  <2>3. Held(m, loc) = m.heap[n][i]
    <3>1. n # 0 /\ loc.list = n /\ loc.at = i
      BY <2>2, LocationsDiffer
    <3>2. QED
      BY <3>1 DEF Held
  <2>4. QED
    BY <2>2, <2>3 DEF Sole
<1>3. QED
  BY <1>1, <1>2 DEF Anywhere, Within

\* The locations along a place: each is an element of the list the one before holds.
LEMMA SpineSteps ==
  ASSUME NEW m, NEW s, NEW path, NEW L, NEW k, NEW c, On(m, s, path, L, k, c)
  PROVE  /\ \A j \in 0..k : Anywhere(m, L[j])
         /\ \A j \in 1..k : \E i \in 1..Len(m.heap[Held(m, L[j - 1])]) :
              L[j] = ElementOf(Held(m, L[j - 1]), i)
         /\ \A j \in 0..(c - 1) : Held(m, L[j]) # 0 /\ j \in 0..k
<1>1. k \in Nat /\ c \in {k, k + 1} /\ s \in Symbols
  BY DEF On
<1>2. \A j \in 0..(c - 1) : Held(m, L[j]) # 0 /\ j \in 0..k
  BY <1>1 DEF On, Soles
<1>3. ASSUME NEW j \in 1..k
      PROVE  /\ \E i \in 1..Len(m.heap[Held(m, L[j - 1])]) : L[j] = ElementOf(Held(m, L[j - 1]), i)
             /\ Held(m, L[j - 1]) \in 1..Len(m.heap)
  <2>1. j - 1 \in 0..(c - 1)
    BY <1>1
  <2>2. Link(m, L[j - 1], L[j], path[j])
    BY DEF On, Spine
  <2>3. QED
    BY <2>1, <2>2 DEF Link, InRange, On, Soles
<1>4. ASSUME NEW j \in 0..k
      PROVE  Anywhere(m, L[j])
  <2>1. CASE j = 0
    BY <1>1, <2>1 DEF On, Spine, Anywhere, Within
  <2>2. CASE j # 0
    <3>1. j \in 1..k
      BY <1>1, <2>2
    <3>2. QED
      BY <1>3, <3>1 DEF Anywhere, Within
  <2>3. QED
    BY <2>1, <2>2
<1>5. QED
  BY <1>2, <1>3, <1>4

\* An element that is one of those lists is where the next location is.
LeadsOn(m, L, k, c, x, i, q) ==
  /\ q \in 1..k /\ L[q] = ElementOf(x, i) /\ x = Held(m, L[q - 1]) /\ x \in Nodes(m, L, c)
  /\ \A j \in 0..k : Held(m, L[j]) = x => j = q - 1

\* An element that holds a list of the spine is the location the spine goes through.
LEMMA SpineElement ==
  ASSUME NEW m, NEW s, NEW path, NEW L, NEW k, NEW c, On(m, s, path, L, k, c),
         NEW x \in 1..Len(m.heap), NEW i \in 1..Len(m.heap[x]),
         NEW q \in 0..(c - 1), m.heap[x][i] = Held(m, L[q])
  PROVE  LeadsOn(m, L, k, c, x, i, q)
<1>1. k \in Nat /\ c \in {k, k + 1} /\ s \in Symbols /\ q \in 0..k
  BY SpineSteps DEF On
<1>2. L[q] = ElementOf(x, i)
  BY DEF On, Soles, Sole
<1>3. q # 0
  <2>1. x # 0 /\ L[0] = SlotOf(s)
    BY DEF On, Spine
  <2>2. QED
    BY <1>2, <2>1, LocationsDiffer
<1>4. q \in 1..k /\ q - 1 \in 0..(c - 1)
  BY <1>1, <1>3
<1>5. x = Held(m, L[q - 1])
  BY <1>2, <1>4, SpineSteps, LocationsDiffer
<1>6. x \in Nodes(m, L, c)
  BY <1>4, <1>5 DEF Nodes
<1>7. ASSUME NEW j \in 0..k, Held(m, L[j]) = x
      PROVE  j = q - 1
  <2>1. Anywhere(m, L[j]) /\ Sole(m, Held(m, L[j]), L[q - 1])
    BY <1>4, <1>5, <1>7, SpineSteps DEF On, Soles
  <2>2. L[j] = L[q - 1] /\ q - 1 \in 0..k
    BY <1>1, <1>4, <2>1, SoleAt
  <2>3. QED
    BY <2>2 DEF On, Spine
<1>8. QED
  BY <1>2, <1>4, <1>5, <1>6, <1>7 DEF LeadsOn

\* Those lists are the place's own, in no other slot than its root.
LEMMA SpineOwns ==
  ASSUME NEW m, NEW s, NEW path, NEW L, NEW k, NEW c, On(m, s, path, L, k, c)
  PROVE  /\ Own(m, Nodes(m, L, c)) /\ Within(m, L[k], Nodes(m, L, k))
         /\ Nodes(m, L, k) \subseteq Nodes(m, L, c)
         /\ \A t \in Symbols : m.globals[t] \in Nodes(m, L, c) => t = s
<1>1. k \in Nat /\ c \in {k, k + 1} /\ s \in Symbols
  BY DEF On
<1> DEFINE Q == Nodes(m, L, c)
<1>2. \A n \in Q : \E j \in 0..(c - 1) : n = Held(m, L[j])
  BY DEF Nodes
<1>3. Q \subseteq 1..Len(m.heap) /\ \A h \in 1..Len(m.hands) : m.hands[h] \notin Q
  BY <1>2 DEF On, Soles, Sole
<1>4. ASSUME NEW x \in 1..Len(m.heap), NEW i \in 1..Len(m.heap[x]), m.heap[x][i] \in Q
      PROVE  x \in Q
  <2>1. PICK j \in 0..(c - 1) : m.heap[x][i] = Held(m, L[j])
    BY <1>2, <1>4
  <2> HIDE DEF Q
  <2>2. LeadsOn(m, L, k, c, x, i, j)
    BY <2>1, SpineElement
  <2>3. QED
    BY <2>2 DEF LeadsOn, Q
<1>5. ASSUME NEW t \in Symbols, m.globals[t] \in Q
      PROVE  t = s
  <2>1. PICK j \in 0..(c - 1) : m.globals[t] = Held(m, L[j])
    BY <1>2, <1>5
  <2>2. L[j] = SlotOf(t)
    BY <2>1 DEF On, Soles, Sole
  <2>3. CASE j = 0
    <3>1. L[0] = SlotOf(s)
      BY DEF On, Spine
    <3>2. QED
      BY <2>2, <2>3, <3>1, LocationsDiffer
  <2>4. CASE j # 0
    <3>1. j \in 1..k /\ j - 1 \in 0..(c - 1)
      BY <1>1, <2>4
    <3>2. PICK i \in 1..Len(m.heap[Held(m, L[j - 1])]) : L[j] = ElementOf(Held(m, L[j - 1]), i)
      BY <3>1, SpineSteps
    <3>3. Held(m, L[j - 1]) # 0
      BY <3>1, SpineSteps
    <3>4. SlotOf(t) = ElementOf(Held(m, L[j - 1]), i)
      BY <2>2, <3>2
    <3>5. QED
      BY <3>3, <3>4, LocationsDiffer
  <2>5. QED
    BY <2>3, <2>4
<1>6. Nodes(m, L, k) \subseteq Q
  <2>1. 0..(k - 1) \subseteq 0..(c - 1)
    BY <1>1
  <2>2. QED
    BY <2>1 DEF Nodes
<1>7. Within(m, L[k], Nodes(m, L, k))
  <2>1. CASE k = 0
    BY <1>1, <2>1 DEF On, Spine, Within
  <2>2. CASE k # 0
    <3>1. k \in 1..k /\ k - 1 \in 0..(k - 1)
      BY <1>1, <2>2
    <3>2. PICK i \in 1..Len(m.heap[Held(m, L[k - 1])]) : L[k] = ElementOf(Held(m, L[k - 1]), i)
      BY <3>1, SpineSteps
    <3>3. Held(m, L[k - 1]) \in Nodes(m, L, k)
      BY <3>1 DEF Nodes
    <3>4. QED
      BY <3>2, <3>3 DEF Within
  <2>3. QED
    BY <2>1, <2>2
<1> HIDE DEF Q
<1>8. Own(m, Q)
  BY <1>3, <1>4 DEF Own
<1>9. QED
  BY <1>5, <1>6, <1>7, <1>8 DEF Q

\* A write elsewhere leaves what a location holds.
LEMMA HeldSame ==
  ASSUME NEW m, NEW loc, NEW D, NEW new, SameElsewhere(m, loc, D, new),
         NEW at, Anywhere(m, at), at # loc, at.list \notin D
  PROVE  Held(new, at) = Held(m, at)
<1>1. CASE \E s \in Symbols : at = SlotOf(s)
  BY <1>1, LocationsDiffer DEF Held, SameElsewhere, SameSlots
<1>2. CASE \E n \in 1..Len(m.heap) : \E i \in 1..Len(m.heap[n]) : at = ElementOf(n, i)
  <2>1. PICK n \in 1..Len(m.heap) : \E i \in 1..Len(m.heap[n]) : at = ElementOf(n, i)
    BY <1>2
  <2>2. PICK i \in 1..Len(m.heap[n]) : at = ElementOf(n, i)
    BY <2>1
  <2>3. n # 0 /\ at.list = n /\ at.at = i
    BY <2>2, LocationsDiffer
  <2>4. new.heap[n][i] = m.heap[n][i]
    BY <2>2, <2>3 DEF SameElsewhere
  <2>5. QED
    BY <2>3, <2>4 DEF Held
<1>3. QED
  BY <1>1, <1>2 DEF Anywhere, Within

\* A write within the place's own lists leaves what the others stand for.
LEMMA OutsideSame ==
  ASSUME NEW m, Sound(m), NEW new, Sound(new), NEW Q, Own(m, Q), NEW loc, Within(m, loc, Q),
         NEW D, D \subseteq Q, SameElsewhere(m, loc, D, new)
  PROVE  \A r \in Ref(Len(m.heap)) : r \notin Q => Val(new)[r] = Val(m)[r]
<1> DEFINE l == Len(m.heap)
           A == (1..l) \ Q
           e == [n \in A |-> n]
<1>1. /\ WellFormed(m) /\ l \in Nat /\ Len(new.heap) \in Nat /\ l <= Len(new.heap)
      /\ \A n \in 1..l : \A i \in 1..Len(m.heap[n]) : m.heap[n][i] \in Ref(l)
      /\ Ranked(new.heap)
  BY MemoryParts DEF Sound, SameElsewhere
<1>2. Fits(m.heap, Val(m)) /\ Fits(new.heap, Val(new))
  BY ValFits
<1>3. \A n \in A : e[n] = n
  OBVIOUS
<1>4. A \subseteq 1..Len(new.heap) /\ e \in [A -> 1..l]
  BY <1>1
<1>5. ASSUME NEW n \in A
      PROVE  /\ Len(new.heap[n]) = Len(m.heap[n])
             /\ \A i \in 1..Len(m.heap[n]) : new.heap[n][i] = m.heap[n][i] /\ m.heap[n][i] \notin Q
  <2>1. n \in (1..l) \ D /\ n \notin Q
    OBVIOUS
  <2>2. \A i : loc # ElementOf(n, i)
    <3>1. n # 0
      BY <1>1
    <3>2. QED
      BY <2>1, <3>1, LocationsDiffer DEF Within
  <2>3. QED
    BY <2>1, <2>2 DEF SameElsewhere, Own
<1> HIDE DEF e
<1>6. ASSUME NEW n \in A
      PROVE  /\ Len(new.heap[n]) = Len(m.heap[e[n]])
             /\ \A i \in 1..Len(new.heap[n]) :
                  \/ new.heap[n][i] \in A /\ m.heap[e[n]][i] = e[new.heap[n][i]]
                  \/ new.heap[n][i] \in Atoms /\ m.heap[e[n]][i] = new.heap[n][i]
  <2>1. n \in 1..l /\ e[n] = n
    BY <1>3
  <2>2. \A i \in 1..Len(m.heap[n]) : m.heap[n][i] \in Atoms \/ m.heap[n][i] \in A
    BY <1>1, <1>5, <2>1 DEF Ref
  <2>3. QED
    BY <1>3, <1>5, <2>1, <2>2
<1>7. Image(m.heap, new.heap, A, e)
  BY <1>4, <1>6 DEF Image
<1>8. \A n \in A : Val(new)[n] = Val(m)[e[n]]
  BY <1>1, <1>2, <1>7, SameTrees
<1>9. \A a \in Atoms : Val(new)[a] = a /\ Val(m)[a] = a
  BY <1>2 DEF Fits
<1>10. QED
  BY <1>3, <1>8, <1>9 DEF Ref

\* Nothing seen through slots and values known before is different.
SameView(m, new) ==
  /\ \A r \in Ref(Len(m.heap)) : Val(new)[r] = Val(m)[r]
  /\ \A s \in Symbols : Val(new)[new.globals[s]] = Val(m)[m.globals[s]]

\* What the place has come to, if its list is made its own.
OwnTip(m, new, s, path, L, k) ==
  LET n == Held(m, L[k])
      own == Held(new, L[k])
  IN  /\ On(new, s, path, L, k, k + 1) /\ SameView(m, new)
      /\ Val(new)[own] = Val(m)[n] /\ Len(new.heap[own]) = Len(m.heap[n])
      /\ \A i \in 1..Len(m.heap[n]) : new.heap[own][i] = m.heap[n][i]

\* The copy that make_mut makes lengthens the spine by a list, and no value changes.
LEMMA CopyOn ==
  ASSUME NEW m, Sound(m), NEW s, NEW path, NEW L, NEW k, On(m, s, path, L, k, k),
         Held(m, L[k]) \in 1..Len(m.heap),
         NEW new, Sound(new), new = Make(m, L[k], m.heap[Held(m, L[k])])
  PROVE  OwnTip(m, new, s, path, L, k)
<1> DEFINE l == Len(m.heap)
           top == l + 1
           n == Held(m, L[k])
           loc == L[k]
<1>1. /\ WellFormed(m) /\ l \in Nat /\ k \in Nat /\ s \in Symbols /\ m.heap[n] \in Lists(l)
      /\ \A x \in 1..l : Len(m.heap[x]) \in Nat
      /\ \A x \in 1..l : \A i \in 1..Len(m.heap[x]) : m.heap[x][i] \in Ref(l)
      /\ \A t \in Symbols : m.globals[t] \in Ref(l)
      /\ \A h \in 1..Len(m.hands) : m.hands[h] \in Ref(l)
  BY MemoryParts DEF Sound, On
<1>2. top \notin Ref(l) /\ top \notin 1..l /\ top \in 1..top /\ l <= top
      /\ \A x \in 1..top : x = top \/ x \in 1..l
  <2>1. top \notin 1..l /\ top \in Nat
    BY <1>1
  <2>2. QED
    BY <1>1, <2>1, CowAssumption DEF Ref
<1>3. Within(m, loc, Nodes(m, L, k)) /\ Nodes(m, L, k) \subseteq 1..l /\ Anywhere(m, loc)
  BY <1>1, SpineOwns, SpineSteps DEF Own
<1>4. MadeAt(m, loc, m.heap[n], new)
  <2> DEFINE elements == m.heap[n]
             P == Nodes(m, L, k)
  <2>1. elements \in Lists(l) /\ new = Make(m, loc, elements) /\ P \subseteq 1..l
        /\ Within(m, loc, P)
    BY <1>1, <1>3
  <2> HIDE DEF elements, P, loc
  <2>2. QED
    BY <1>1, <2>1, MakeElsewhere DEF elements
<1>5. /\ SameElsewhere(m, loc, {}, new) /\ Held(new, loc) = top /\ new.hands = m.hands
      /\ Len(new.heap) = top /\ Len(new.heap[top]) = Len(m.heap[n])
      /\ \A i \in 1..Len(m.heap[n]) : new.heap[top][i] = m.heap[n][i]
  BY <1>4 DEF MadeAt, SameElsewhere
<1>6. ASSUME NEW t \in Symbols
      PROVE  \/ loc = SlotOf(t) /\ new.globals[t] = top /\ m.globals[t] = n
             \/ loc # SlotOf(t) /\ new.globals[t] = m.globals[t]
  <2>1. CASE loc = SlotOf(t)
    BY ZenonT(30), <1>5, <2>1, LocationsDiffer DEF Held
  <2>2. CASE loc # SlotOf(t)
    BY <1>5, <2>2 DEF SameElsewhere, SameSlots
  <2>3. QED
    BY <2>1, <2>2
<1>7. ASSUME NEW x \in 1..l
      PROVE  /\ Len(new.heap[x]) = Len(m.heap[x])
             /\ \A i \in 1..Len(m.heap[x]) :
                  \/ loc = ElementOf(x, i) /\ new.heap[x][i] = top /\ m.heap[x][i] = n
                  \/ loc # ElementOf(x, i) /\ new.heap[x][i] = m.heap[x][i]
  <2>1. x \in (1..l) \ {} /\ x # 0
    BY <1>1
  <2>2. ASSUME NEW i \in 1..Len(m.heap[x]), loc = ElementOf(x, i)
        PROVE  new.heap[x][i] = top /\ m.heap[x][i] = n
    <3>1. loc.list = x /\ loc.at = i
      BY <2>2, LocationsDiffer
    <3>2. QED
      BY <1>5, <2>1, <3>1 DEF Held
  <2>3. QED
    BY <1>5, <2>1, <2>2 DEF SameElsewhere
<1> HIDE DEF l, top, n
<1>8. ASSUME NEW j \in 0..(k - 1)
      PROVE  /\ Held(new, L[j]) = Held(m, L[j]) /\ Held(m, L[j]) \in 1..l
             /\ Sole(new, Held(m, L[j]), L[j])
  <2> DEFINE x == Held(m, L[j])
  <2>1. x \in 1..l /\ Sole(m, x, L[j])
    BY DEF On, Soles, l
  <2>2. j \in 0..k /\ j # k /\ k \in 0..k
    BY <1>1
  <2>3. L[j] # loc /\ Anywhere(m, L[j])
    BY <2>2, SpineSteps DEF On, Spine
  <2>4. Held(new, L[j]) = x
    BY <1>5, <2>3, HeldSame
  <2>5. \A t \in Symbols : new.globals[t] = x => L[j] = SlotOf(t)
    BY <1>2, <1>6, <2>1 DEF Sole
  <2>6. ASSUME NEW y \in 1..top, NEW i \in 1..Len(new.heap[y]), new.heap[y][i] = x
        PROVE  L[j] = ElementOf(y, i)
    <3>1. CASE y \in 1..l
      BY <1>2, <1>7, <2>1, <2>6, <3>1 DEF Sole, l
    <3>2. CASE y = top
      <4>1. i \in 1..Len(m.heap[n]) /\ m.heap[n][i] = x
        BY <1>5, <2>6, <3>2
      <4>2. LeadsOn(m, L, k, k, n, i, j)
        BY <4>1, SpineElement DEF n
      <4>3. k = j - 1
        BY <2>2, <4>2 DEF LeadsOn, n
      <4>4. QED
        BY <1>1, <4>3
    <3>3. QED
      BY <1>2, <3>1, <3>2
  <2>7. Sole(new, x, L[j])
    BY <1>5, <2>1, <2>5, <2>6 DEF Sole
  <2>8. QED
    BY <2>1, <2>4, <2>7
<1>9. Sole(new, top, loc)
  <2>1. \A h \in 1..Len(new.hands) : new.hands[h] # top
    BY <1>1, <1>2, <1>5 DEF l
  <2>2. \A t \in Symbols : new.globals[t] = top => loc = SlotOf(t)
    BY <1>1, <1>2, <1>6 DEF l
  <2>3. ASSUME NEW y \in 1..top, NEW i \in 1..Len(new.heap[y]), new.heap[y][i] = top
        PROVE  loc = ElementOf(y, i)
    <3>1. CASE y \in 1..l
      BY <1>1, <1>2, <1>7, <2>3, <3>1 DEF l
    <3>2. CASE y = top
      BY <1>1, <1>2, <1>5, <2>3, <3>2 DEF l, n
    <3>3. QED
      BY <1>2, <3>1, <3>2
  <2>4. QED
    BY <1>5, <2>1, <2>2, <2>3 DEF Sole
<1>10. Soles(new, L, k + 1)
  <2>1. \A j \in 0..((k + 1) - 1) : j = k \/ j \in 0..(k - 1)
    BY <1>1
  <2>2. \A j \in 0..(k - 1) : Held(new, L[j]) \in 1..top /\ Sole(new, Held(new, L[j]), L[j])
    <3>1. \A x \in 1..l : x \in 1..top
      BY <1>1 DEF top, l
    <3>2. QED
      BY <1>8, <3>1
  <2>3. QED
    BY <1>2, <1>5, <1>9, <2>1, <2>2 DEF Soles
<1>11. Spine(new, s, path, L, k)
  <2>1. ASSUME NEW j \in 1..k
        PROVE  Link(new, L[j - 1], L[j], path[j])
    <3>1. j - 1 \in 0..(k - 1)
      BY <1>1
    <3>2. Link(m, L[j - 1], L[j], path[j])
      BY DEF On, Spine
    <3>3. QED
      BY <1>7, <1>8, <3>1, <3>2 DEF Link
  <2>2. QED
    BY <2>1 DEF Spine, On
<1>12. On(new, s, path, L, k, k + 1)
  BY <1>1, <1>10, <1>11 DEF On
<1> DEFINE e == [r \in 1..top |-> IF r = top THEN n ELSE r]
<1>13. n \in 1..l
  BY DEF n, l
<1>14. e \in [1..top -> 1..l] /\ e[top] = n /\ \A x \in 1..l : e[x] = x
  <2>1. \A x \in 1..l : x \in 1..top /\ x # top
    BY <1>1 DEF top, l
  <2>2. QED
    BY <1>2, <1>13, <2>1
<1> HIDE DEF e
<1>15. ASSUME NEW y \in 1..top
       PROVE  /\ Len(new.heap[y]) = Len(m.heap[e[y]])
              /\ \A i \in 1..Len(new.heap[y]) :
                   \/ new.heap[y][i] \in 1..top /\ m.heap[e[y]][i] = e[new.heap[y][i]]
                   \/ new.heap[y][i] \in Atoms /\ m.heap[e[y]][i] = new.heap[y][i]
  <2>0. \A x \in 1..l : x \in 1..top
    BY <1>1 DEF top, l
  <2>1. CASE y \in 1..l
    <3>1. \A i \in 1..Len(m.heap[y]) : m.heap[y][i] \in Atoms \/ m.heap[y][i] \in 1..l
      BY <1>1, <2>1 DEF Ref, l
    <3>2. e[y] = y /\ Len(new.heap[y]) = Len(m.heap[y])
      BY <1>7, <1>14, <2>1
    <3>3. ASSUME NEW i \in 1..Len(new.heap[y])
          PROVE  \/ new.heap[y][i] \in 1..top /\ m.heap[e[y]][i] = e[new.heap[y][i]]
                 \/ new.heap[y][i] \in Atoms /\ m.heap[e[y]][i] = new.heap[y][i]
      <4>1. i \in 1..Len(m.heap[y]) /\ m.heap[e[y]][i] = m.heap[y][i]
        BY <3>2
      <4>2. \/ new.heap[y][i] = top /\ m.heap[y][i] = n
            \/ new.heap[y][i] = m.heap[y][i]
        BY <1>7, <2>1, <4>1
      <4>3. CASE new.heap[y][i] = top /\ m.heap[y][i] = n
        BY <1>2, <1>14, <4>1, <4>3
      <4>4. CASE new.heap[y][i] = m.heap[y][i]
        BY <1>14, <2>0, <3>1, <4>1, <4>4
      <4>5. QED
        BY <4>2, <4>3, <4>4
    <3>4. QED
      BY <3>2, <3>3
  <2>2. CASE y = top
    <3>1. \A i \in 1..Len(m.heap[n]) : m.heap[n][i] \in Atoms \/ m.heap[n][i] \in 1..l
      BY <1>1, <1>13 DEF Ref, l
    <3>2. Len(new.heap[top]) = Len(m.heap[e[top]])
      BY <1>5, <1>14
    <3>3. ASSUME NEW i \in 1..Len(new.heap[top])
          PROVE  \/ new.heap[top][i] \in 1..top /\ m.heap[e[top]][i] = e[new.heap[top][i]]
                 \/ new.heap[top][i] \in Atoms /\ m.heap[e[top]][i] = new.heap[top][i]
      <4>1. i \in 1..Len(m.heap[n]) /\ new.heap[top][i] = m.heap[n][i] /\ e[top] = n
        BY <1>5, <1>14
      <4>2. QED
        BY <1>14, <2>0, <3>1, <4>1
    <3>4. QED
      BY <2>2, <3>2, <3>3
  <2>3. QED
    BY <1>2, <2>1, <2>2
<1>16. Image(m.heap, new.heap, 1..top, e)
  BY <1>5, <1>14, <1>15 DEF Image, l
<1>17. Fits(m.heap, Val(m)) /\ Fits(new.heap, Val(new)) /\ Ranked(new.heap)
  BY ValFits DEF Sound
<1> DEFINE A == 1..top
<1>18. \A y \in A : Val(new)[y] = Val(m)[e[y]]
  <2>1. Image(m.heap, new.heap, A, e)
    BY <1>16
  <2> HIDE DEF A
  <2>2. QED
    BY <1>17, <2>1, SameTrees
<1>19. Val(new)[top] = Val(m)[n] /\ \A r \in Ref(l) : Val(new)[r] = Val(m)[r]
  <2>1. \A a \in Atoms : Val(new)[a] = a /\ Val(m)[a] = a
    BY <1>17 DEF Fits
  <2>2. \A x \in 1..l : x \in 1..top
    BY <1>1 DEF top, l
  <2>3. QED
    BY <1>2, <1>14, <1>18, <2>1, <2>2 DEF Ref
<1>20. \A t \in Symbols : Val(new)[new.globals[t]] = Val(m)[m.globals[t]]
  BY <1>1, <1>6, <1>19 DEF l
<1>21. SameView(m, new)
  BY <1>19, <1>20 DEF SameView, l
<1>22. QED
  BY <1>5, <1>12, <1>19, <1>21 DEF OwnTip, n

\* The list at the end of the way made the place's own.
LEMMA MakeMutOn ==
  ASSUME NEW m, Sound(m), NEW s, NEW path, NEW L, NEW k, On(m, s, path, L, k, k),
         Held(m, L[k]) \in 1..Len(m.heap), NEW new, new = MakeMut(m, L[k])
  PROVE  OwnTip(m, new, s, path, L, k) /\ Kept(m, new)
<1>1. Own(m, Nodes(m, L, k)) /\ Within(m, L[k], Nodes(m, L, k)) /\ WellFormed(m)
  BY SpineOwns DEF Sound
<1>2. \E Q : OwnAt(m, L[k], new, Q)
  BY <1>1, MakeMutSound
<1>3. Kept(m, new) /\ Sound(new)
  BY <1>2 DEF OwnAt, Kept
<1>4. CASE References(m, Held(m, L[k])) = 1
  <2>1. new = m
    BY <1>4 DEF MakeMut
  <2>2. Sole(m, Held(m, L[k]), L[k])
    BY <1>1, <1>4, ReferredOnce DEF Own
  <2>3. k \in Nat /\ \A j \in 0..((k + 1) - 1) : j = k \/ j \in 0..(k - 1)
    <3>1. k \in Nat
      BY DEF On
    <3>2. QED
      BY <3>1
  <2>4. On(m, s, path, L, k, k + 1)
    BY <2>2, <2>3 DEF On, Soles
  <2>5. QED
    BY <1>3, <2>1, <2>4 DEF OwnTip, SameView
<1>5. CASE References(m, Held(m, L[k])) # 1
  <2>1. new = Make(m, L[k], m.heap[Held(m, L[k])])
    BY <1>5 DEF MakeMut
  <2>2. QED
    BY <1>3, <2>1, CopyOn
<1>6. QED
  BY <1>4, <1>5

-----------------------------------------------------------------------------
(* Values along a path. *)

\* The element of a value an index names, if there is one.
Inner(v, i) ==
  IF Values!IsList(v) /\ InRange(i, Len(v)) THEN v[Position(i, Len(v))] ELSE Missing

Along(v, path, n, a) ==
  a = [k \in 0..n |-> IF k = 0 THEN v ELSE Inner(a[k - 1], path[k])]

\* The parts of a value along a path, one for each index,
LEMMA AlongExists ==
  ASSUME NEW v, NEW path, NEW n \in Nat
  PROVE  \E a : Along(v, path, n, a)
<1> DEFINE on(k, u) == IF k = 0 THEN v ELSE Inner(u, path[k])
           S == {b \in 0..n : \E a : a = [k \in 0..b |-> on(k, a[k - 1])]}
<1>1. 0 \in S
  <2> DEFINE a == [k \in 0..0 |-> v]
  <2>1. a = [k \in 0..0 |-> on(k, a[k - 1])]
    OBVIOUS
  <2> HIDE DEF a
  <2>2. QED
    BY <2>1
<1>2. ASSUME NEW b \in 1..n, b - 1 \in S
      PROVE  b \in S
  <2>1. PICK f : f = [k \in 0..(b - 1) |-> on(k, f[k - 1])]
    BY <1>2
  <2> DEFINE g == [k \in 0..b |-> IF k = b THEN on(b, f[b - 1]) ELSE f[k]]
  <2>2. \A t, u : on(0, t) = on(0, u)
    OBVIOUS
  <2> HIDE DEF on
  <2>3. ASSUME NEW k \in 0..b
        PROVE  g[k] = on(k, g[k - 1])
    <3>1. CASE k = b
      BY <3>1
    <3>2. CASE k # b /\ k # 0
      <4>1. k \in 0..(b - 1) /\ k - 1 \in 0..b /\ k - 1 # b
        BY <3>2
      <4>2. QED
        BY <2>1, <3>2, <4>1
    <3>3. CASE k # b /\ k = 0
      <4>1. g[0] = f[0] /\ f[0] = on(0, f[0 - 1])
        BY <2>1, <3>3
      <4>2. QED
        BY <2>2, <3>3, <4>1
    <3>4. QED
      BY <3>1, <3>2, <3>3
  <2>4. g = [k \in 0..b |-> on(k, g[k - 1])]
    BY <2>3
  <2> HIDE DEF g
  <2>5. QED
    BY <2>4
<1> HIDE DEF S
<1>3. n \in S
  <2>1. \A k \in 0..n : k \in S
    BY <1>1, <1>2, CountUp
  <2>2. QED
    BY <2>1
<1>4. QED
  BY <1>3 DEF S, Along

\* the last of which is the part the path leads to.
LEMMA PartAlong ==
  ASSUME NEW v, NEW path, Len(path) \in Nat, NEW a, Along(v, path, Len(path), a)
  PROVE  Values!Part(v, path) = a[Len(path)]
<1> DEFINE n == Len(path)
           part == CHOOSE f : Along(v, path, n, f)
<1>1. Along(v, path, n, part)
  OBVIOUS
<1>2. Values!Part(v, path) = part[n]
  BY DEF Values!Part, Along, Inner, InRange, Position, Values!InRange, Values!Position
<1> HIDE DEF part
<1> DEFINE S == {k \in 0..n : part[k] = a[k]}
<1>3. 0 \in S
  BY <1>1 DEF Along
<1>4. ASSUME NEW k \in 1..n, k - 1 \in S
      PROVE  k \in S
  <2>1. k \in 0..n /\ k # 0
    OBVIOUS
  <2>2. QED
    BY <1>1, <1>4, <2>1 DEF Along
<1> HIDE DEF S
<1>5. \A k \in 0..n : k \in S
  BY <1>3, <1>4, CountUp
<1>6. QED
  BY <1>2, <1>5 DEF S

\* What the first k indices of a path lead to.
Above(v, path, k) == Values!Part(v, SubSeq(path, 1, k))

\* The beginning of a path is a path.
LEMMA Prefix ==
  ASSUME NEW path \in Seq(Int), NEW k \in 0..Len(path)
  PROVE  /\ SubSeq(path, 1, k) \in Seq(Int) /\ Len(SubSeq(path, 1, k)) = k
         /\ \A i \in 1..k : SubSeq(path, 1, k)[i] = path[i]
         /\ SubSeq(path, 1, Len(path)) = path
OBVIOUS

\* The part at each index comes out of the part before it.
LEMMA AboveSteps ==
  ASSUME NEW v, NEW path \in Seq(Int)
  PROVE  /\ Above(v, path, 0) = v /\ Above(v, path, Len(path)) = Values!Part(v, path)
         /\ \A k \in 1..Len(path) : Above(v, path, k) = Inner(Above(v, path, k - 1), path[k])
<1> DEFINE n == Len(path)
<1>1. n \in Nat
  OBVIOUS
<1>2. PICK a : Along(v, path, n, a)
  BY <1>1, AlongExists
<1>3. ASSUME NEW k \in 0..n
      PROVE  Above(v, path, k) = a[k]
  <2> DEFINE start == SubSeq(path, 1, k)
             b == [j \in 0..k |-> a[j]]
  <2>1. Len(start) = k /\ \A i \in 1..k : start[i] = path[i]
    BY Prefix
  <2> HIDE DEF start
  <2>2. ASSUME NEW j \in 0..k
        PROVE  b[j] = IF j = 0 THEN v ELSE Inner(b[j - 1], start[j])
    <3>1. j \in 0..n /\ (j # 0 => j \in 1..k /\ j - 1 \in 0..k)
      OBVIOUS
    <3>2. QED
      BY <1>2, <2>1, <3>1 DEF Along
  <2>3. Along(v, start, k, b)
    BY <2>2 DEF Along
  <2>4. Values!Part(v, start) = b[k]
    <3> HIDE DEF b
    <3>1. QED
      BY <1>1, <2>1, <2>3, PartAlong
  <2>5. QED
    BY <2>4 DEF Above, start
<1>4. Above(v, path, n) = Values!Part(v, path)
  <2>1. SubSeq(path, 1, Len(path)) = path
    OBVIOUS
  <2>2. QED
    BY <2>1 DEF Above
<1>5. ASSUME NEW k \in 1..n
      PROVE  a[k] = Inner(a[k - 1], path[k])
  <2>1. k \in 0..n /\ k # 0
    OBVIOUS
  <2>2. QED
    BY <1>2, <2>1 DEF Along
<1>6. \A k \in 1..n : k \in 0..n /\ k - 1 \in 0..n
  OBVIOUS
<1>7. a[0] = v /\ 0 \in 0..n
  BY <1>2 DEF Along
<1>8. QED
  BY <1>3, <1>4, <1>5, <1>6, <1>7

\* A value is rebuilt from the part written upwards.
Rebuilt(v, path, new, w) ==
  /\ w[Len(path)] = new
  /\ \A k \in 0..Len(path) - 1 :
       w[k] = [Above(v, path, k) EXCEPT
                 ![Position(path[k + 1], Len(Above(v, path, k)))] = w[k + 1]]

\* A value with a new part is rebuilt from the part outwards.
LEMMA WithPartIs ==
  ASSUME NEW v, NEW path \in Seq(Int), NEW new, NEW w, Rebuilt(v, path, new, w)
  PROVE  Values!WithPart(v, path, new) = w[0]
<1> DEFINE n == Len(path)
           on(k, u) == [Above(v, path, k) EXCEPT ![Position(path[k + 1], Len(Above(v, path, k)))] = u]
           whole == CHOOSE f : f = [k \in 0..n |-> IF k = n THEN new ELSE on(k, f[k + 1])]
           g == [k \in 0..n |-> w[k]]
<1>1. n \in Nat
  OBVIOUS
<1>2. Values!WithPart(v, path, new) = whole[0]
  BY DEF Values!WithPart, Above, Position, Values!Position
<1> HIDE DEF on
<1>3. \A k \in 0..n - 1 : w[k] = on(k, w[k + 1])
  BY DEF Rebuilt, on
<1>4. ASSUME NEW k \in 0..n
      PROVE  g[k] = IF k = n THEN new ELSE on(k, g[k + 1])
  <2>1. k # n => k \in 0..n - 1 /\ k + 1 \in 0..n
    BY <1>1
  <2>2. QED
    BY <1>3, <2>1 DEF Rebuilt
<1>5. g = [k \in 0..n |-> IF k = n THEN new ELSE on(k, g[k + 1])]
  BY <1>4
<1> HIDE DEF g
<1>6. whole = [k \in 0..n |-> IF k = n THEN new ELSE on(k, whole[k + 1])]
  BY <1>5
<1> HIDE DEF whole
<1> DEFINE S == {d \in 0..n : whole[n - d] = w[n - d]}
<1>7. 0 \in S
  <2>1. n \in 0..n /\ n - 0 = n
    BY <1>1
  <2>2. whole[n] = new /\ w[n] = new
    BY <1>6, <2>1 DEF Rebuilt
  <2>3. QED
    BY <1>1, <2>1, <2>2
<1>8. ASSUME NEW d \in 1..n, d - 1 \in S
      PROVE  d \in S
  <2>1. n - d \in 0..n - 1 /\ n - d \in 0..n /\ n - d # n /\ (n - d) + 1 = n - (d - 1)
    BY <1>1
  <2>2. whole[n - d] = on(n - d, whole[(n - d) + 1]) /\ w[n - d] = on(n - d, w[(n - d) + 1])
    BY <1>3, <1>6, <2>1
  <2>3. QED
    BY <1>8, <2>1, <2>2
<1> HIDE DEF S
<1>9. \A d \in 0..n : d \in S
  BY <1>1, <1>7, <1>8, CountUp
<1>10. n \in S /\ n - n = 0
  BY <1>1, <1>9
<1>11. QED
  BY <1>2, <1>10 DEF S

\* A reference is to a list exactly when what it stands for is one: no atom passes for a list.
LEMMA ValueKinds ==
  ASSUME AtomsAreNoLists, NEW m, Sound(m), NEW r \in Ref(Len(m.heap))
  PROVE  /\ IsNode(r) <=> r \in 1..Len(m.heap)
         /\ IsNode(r) <=> Values!IsList(Val(m)[r])
         /\ IsNode(r) <=> r \notin Atoms
         /\ Val(m)[r] # Missing
         /\ ~ IsNode(r) => Val(m)[r] = r
         /\ \A a \in Atoms : Val(m)[r] = a <=> r = a
<1>1. Len(m.heap) \in Nat
  BY MemoryParts DEF Sound
<1>2. (IsNode(r) <=> r \in 1..Len(m.heap)) /\ r # Missing
  BY <1>1, RefsAre
<1>3. IsNode(r) <=> r \notin Atoms
  BY <1>2 DEF IsNode
<1>4. Fits(m.heap, Val(m))
  BY ValFits
<1>5. CASE r \in Atoms
  <2>1. Val(m)[r] = r
    BY <1>4, <1>5 DEF Fits
  <2>2. QED
    BY <1>2, <1>3, <1>5, <2>1 DEF Values!IsList
<1>6. CASE r \notin Atoms
  <2>1. r \in 1..Len(m.heap)
    BY <1>2, <1>3, <1>6
  <2>2. PICK S : Val(m)[r] \in Seq(S)
    BY <2>1, ValFits
  <2>3. Val(m)[r] \notin Atoms \cup {Missing}
    BY <2>2 DEF AtomsAreNoLists
  <2>4. QED
    BY <1>2, <1>3, <1>6, <2>3 DEF Values!IsList
<1>7. QED
  BY <1>5, <1>6

\* What k locations hold is what the indices lead to.
Follow(m, s, path, L, k) ==
  \A j \in 0..k : Above(Val(m)[m.globals[s]], path, j) = Val(m)[Held(m, L[j])]

\* What the locations of a spine hold stands for the parts along the path.
LEMMA SpineParts ==
  ASSUME AtomsAreNoLists, NEW m, Sound(m), NEW s, NEW path \in Seq(Int), NEW L, NEW k, NEW c,
         On(m, s, path, L, k, c), k <= Len(path)
  PROVE  Follow(m, s, path, L, k)
<1> DEFINE v == Val(m)[m.globals[s]]
           S == {j \in 0..k : Above(v, path, j) = Val(m)[Held(m, L[j])]}
<1>1. k \in Nat /\ c \in {k, k + 1} /\ s \in Symbols /\ Len(path) \in Nat
  BY DEF On
<1>2. 0 \in S
  <2>1. Held(m, L[0]) = m.globals[s]
    BY LocationsDiffer DEF Held, On, Spine
  <2>2. Above(v, path, 0) = v
    BY AboveSteps
  <2>3. QED
    BY <1>1, <2>1, <2>2
<1>3. ASSUME NEW j \in 1..k, j - 1 \in S
      PROVE  j \in S
  <2> DEFINE n == Held(m, L[j - 1])
             pos == Position(path[j], Len(m.heap[n]))
  <2>1. j - 1 \in 0..(c - 1) /\ j \in 1..Len(path) /\ j \in 0..k
    BY <1>1
  <2>2. n \in 1..Len(m.heap) /\ n # 0
    BY <2>1, SpineSteps DEF On, Soles
  <2>3. pos \in 1..Len(m.heap[n]) /\ L[j] = ElementOf(n, pos)
    BY DEF On, Spine, Link, InRange
  <2>4. Held(m, L[j]) = m.heap[n][pos]
    <3> HIDE DEF n, pos
    <3>1. L[j].list = n /\ L[j].at = pos
      BY <2>3, LocationsDiffer
    <3>2. QED
      BY <2>2, <3>1 DEF Held
  <2>5. /\ Len(Val(m)[n]) = Len(m.heap[n])
        /\ Val(m)[n][pos] = Val(m)[m.heap[n][pos]]
    BY <2>2, <2>3, ValFits
  <2>6. Values!IsList(Val(m)[n])
    <3>1. n \in Ref(Len(m.heap))
      BY <2>2 DEF Ref
    <3>2. IsNode(n)
      BY <2>2, <3>1, ValueKinds
    <3>3. QED
      BY <3>1, <3>2, ValueKinds
  <2>7. Above(v, path, j) = Inner(Above(v, path, j - 1), path[j])
    BY <2>1, AboveSteps
  <2>8. Above(v, path, j - 1) = Val(m)[n]
    BY <1>3
  <2> HIDE DEF v
  <2>9. Above(v, path, j) = Val(m)[n][pos]
    BY <2>3, <2>5, <2>6, <2>7, <2>8 DEF Inner, InRange
  <2>10. QED
    BY <2>1, <2>4, <2>5, <2>9
<1> HIDE DEF S
<1>4. \A j \in 0..k : j \in S
  BY <1>1, <1>2, <1>3, CountUp
<1>5. QED
  BY <1>4 DEF S, Follow

\* A way of k steps to a location, with every list on it the place's own.
Leads(m, s, path, k, loc) == \E L : On(m, s, path, L, k, k) /\ L[k] = loc

\* An index in range takes the spine one location further.
LEMMA OnExtend ==
  ASSUME NEW m, Sound(m), NEW s, NEW path, NEW L, NEW k, On(m, s, path, L, k, k + 1),
         InRange(path[k + 1], Len(m.heap[Held(m, L[k])])), NEW loc,
         loc = ElementOf(Held(m, L[k]), Position(path[k + 1], Len(m.heap[Held(m, L[k])])))
  PROVE  Leads(m, s, path, k + 1, loc)
<1> DEFINE own == Held(m, L[k])
           pos == Position(path[k + 1], Len(m.heap[own]))
           M == [j \in 0..(k + 1) |-> IF j = k + 1 THEN loc ELSE L[j]]
<1>1. k \in Nat /\ s \in Symbols /\ pos \in 1..Len(m.heap[own]) /\ loc = ElementOf(own, pos)
  BY DEF On, InRange
<1>2. \A j \in 0..k : M[j] = L[j] /\ j \in 0..(k + 1) /\ j # k + 1
  BY <1>1
<1>3. M[k + 1] = loc /\ k + 1 \in Nat /\ k \in 0..((k + 1) - 1)
  BY <1>1
<1>4. own \in 1..Len(m.heap) /\ Sole(m, own, L[k]) /\ own # 0
  BY <1>3, SpineSteps DEF On, Soles
<1> HIDE DEF M, own, pos
<1>5. \A j \in 0..k : L[j] # loc
  <2> SUFFICES ASSUME NEW j \in 0..k, L[j] = loc PROVE FALSE
    OBVIOUS
  <2>0. L[j] = loc
    OBVIOUS
  <2>1. j # 0
    BY <1>1, <1>4, <2>0, LocationsDiffer DEF On, Spine
  <2>2. j \in 1..k /\ j - 1 \in 0..k
    BY <1>1, <2>1
  <2>3. Held(m, L[j - 1]) = own
    <3>1. PICK i \in 1..Len(m.heap[Held(m, L[j - 1])]) : L[j] = ElementOf(Held(m, L[j - 1]), i)
      BY <2>2, SpineSteps
    <3>2. ElementOf(own, pos) = ElementOf(Held(m, L[j - 1]), i)
      BY <1>1, <2>0, <3>1
    <3>3. QED
      BY <3>2, LocationsDiffer
  <2>4. L[j - 1] = L[k]
    <3>1. Anywhere(m, L[j - 1])
      BY <2>2, SpineSteps
    <3>2. QED
      BY <1>4, <2>3, <3>1, SoleAt
  <2>5. k \in 0..k
    BY <1>1
  <2>6. j - 1 = k
    BY <2>2, <2>4, <2>5 DEF On, Spine
  <2>7. QED
    BY <1>1, <2>2, <2>6
<1>6. \A j \in 0..(k + 1) : j \in 0..k \/ j = k + 1
  BY <1>1
<1>7. Spine(m, s, path, M, k + 1)
  <2>1. M[0] = SlotOf(s)
    BY <1>1, <1>2 DEF On, Spine
  <2>2. \A i, j \in 0..(k + 1) : M[i] = M[j] => i = j
    BY <1>2, <1>3, <1>5, <1>6 DEF On, Spine
  <2>3. ASSUME NEW j \in 1..(k + 1)
        PROVE  Link(m, M[j - 1], M[j], path[j])
    <3>1. CASE j = k + 1
      <4>1. M[j - 1] = L[k] /\ M[j] = loc
        BY <1>1, <1>2, <1>3, <3>1
      <4>2. QED
        BY <3>1, <4>1 DEF Link
    <3>2. CASE j # k + 1
      <4>1. j \in 1..k /\ j \in 0..k /\ j - 1 \in 0..k
        BY <1>1, <3>2
      <4>2. M[j - 1] = L[j - 1] /\ M[j] = L[j]
        BY <1>2, <4>1
      <4>3. QED
        BY <4>1, <4>2 DEF On, Spine
    <3>3. QED
      BY <3>1, <3>2
  <2>4. QED
    BY <2>1, <2>2, <2>3 DEF Spine
<1>8. Soles(m, M, k + 1)
  <2>1. \A j \in 0..((k + 1) - 1) : j \in 0..k /\ M[j] = L[j]
    BY <1>1, <1>2
  <2>2. QED
    BY <2>1 DEF On, Soles
<1>9. On(m, s, path, M, k + 1, k + 1)
  BY <1>1, <1>3, <1>7, <1>8 DEF On
<1>10. QED
  BY <1>3, <1>9 DEF Leads

\* What a walk along a place has come to after k steps.
Seen(mem, s, path, k, x) ==
  /\ Kept(mem, x.m) /\ SameView(mem, x.m) /\ x.ok \in BOOLEAN
  /\ x.ok => Leads(x.m, s, path, k, x.loc)
  /\ ~ x.ok => Above(Val(mem)[mem.globals[s]], path, k) = Missing

\* Two changes that nobody sees are one that nobody sees.
LEMMA ViewTwice ==
  ASSUME NEW m, NEW n, NEW o, SameView(m, n), SameView(n, o), Len(m.heap) <= Len(n.heap),
         Len(m.heap) \in Nat, Len(n.heap) \in Nat
  PROVE  SameView(m, o)
<1>1. Ref(Len(m.heap)) \subseteq Ref(Len(n.heap))
  BY RefsAre
<1>2. QED
  BY <1>1 DEF SameView

\* One step along a path shows nothing to a program, and is at the part the path leads to.
LEMMA FurtherSeen ==
  ASSUME AtomsAreNoLists, NEW mem, Sound(mem), NEW s \in Symbols, NEW path \in Seq(Int),
         NEW k \in 1..Len(path), NEW x, x \in OnTheWay(mem), Seen(mem, s, path, k - 1, x),
         NEW y, y = Further(path[k], x)
  PROVE  Seen(mem, s, path, k, y)
<1> DEFINE v == Val(mem)[mem.globals[s]]
           n == Held(x.m, x.loc)
           i == path[k]
<1>1. /\ Len(path) \in Nat /\ k - 1 \in Nat /\ k - 1 \in 0..(k - 1) /\ k - 1 <= Len(path)
      /\ (k - 1) + 1 = k
  OBVIOUS
<1>2. Above(v, path, k) = Inner(Above(v, path, k - 1), i)
  BY AboveSteps
<1>3. /\ WellFormed(mem) /\ Sound(x.m) /\ WellFormed(x.m) /\ Kept(mem, x.m) /\ SameView(mem, x.m)
      /\ Len(mem.heap) \in Nat /\ Len(x.m.heap) \in Nat /\ Len(mem.heap) <= Len(x.m.heap)
      /\ Val(x.m)[x.m.globals[s]] = v
  <2>1. WellFormed(mem) /\ Sound(x.m) /\ WellFormed(x.m) /\ Kept(mem, x.m) /\ SameView(mem, x.m)
        /\ Len(mem.heap) <= Len(x.m.heap)
    BY DEF Seen, Kept, Sound
  <2>2. QED
    BY <2>1, MemoryParts DEF SameView
<1> HIDE DEF v
<1>4. CASE x.ok
  <2>1. Leads(x.m, s, path, k - 1, x.loc)
    BY <1>4 DEF Seen
  <2>2. PICK L : On(x.m, s, path, L, k - 1, k - 1) /\ L[k - 1] = x.loc
    BY <2>1 DEF Leads
  <2>3. Above(v, path, k - 1) = Val(x.m)[n]
    <3>1. \A j \in 0..(k - 1) : Above(v, path, j) = Val(x.m)[Held(x.m, L[j])]
      <4> DEFINE d == k - 1
                 m == x.m
      <4>1. Sound(m) /\ On(m, s, path, L, d, d) /\ d <= Len(path) /\ Val(m)[m.globals[s]] = v
        BY <1>1, <1>3, <2>2
      <4> HIDE DEF d, m
      <4>2. Follow(m, s, path, L, d)
        BY <4>1, SpineParts
      <4>3. QED
        BY <4>1, <4>2 DEF d, m, Follow
    <3>2. QED
      BY <1>1, <2>2, <3>1
  <2>4. n \in Ref(Len(x.m.heap))
    <3> DEFINE P == Nodes(x.m, L, k - 1)
    <3>1. P \subseteq 1..Len(x.m.heap) /\ Within(x.m, L[k - 1], P)
      BY <2>2, SpineOwns DEF Own
    <3> HIDE DEF P
    <3>2. QED
      BY <1>3, <2>2, <3>1, HeldIsRef
  <2>5. CASE IsNode(n) /\ InRange(i, Len(x.m.heap[n]))
    <3> DEFINE m == MakeMut(x.m, x.loc)
    <3>1. n \in 1..Len(x.m.heap)
      BY <1>3, <2>4, <2>5, ValueKinds
    <3>2. \E new : new = m
      OBVIOUS
    <3>3. PICK new : new = m
      BY <3>2
    <3> DEFINE own == Held(new, x.loc)
    <3>4. /\ y = [m |-> new, ok |-> TRUE,
                  loc |-> ElementOf(own, Position(i, Len(new.heap[own])))]
      BY <1>4, <2>5, <3>3 DEF Further
    <3> HIDE DEF m
    <3>5. OwnTip(x.m, new, s, path, L, k - 1) /\ Kept(x.m, new)
      <4>1. new = MakeMut(x.m, L[k - 1]) /\ Held(x.m, L[k - 1]) \in 1..Len(x.m.heap)
        BY <2>2, <3>1, <3>3 DEF m
      <4>2. QED
        BY <1>3, <2>2, <4>1, MakeMutOn
    <3>6. /\ On(new, s, path, L, k - 1, (k - 1) + 1) /\ SameView(x.m, new)
          /\ Len(new.heap[own]) = Len(x.m.heap[n])
      BY <2>2, <3>5 DEF OwnTip
    <3>7. Kept(mem, new) /\ Sound(new)
      BY <1>3, <3>5, KeptTwice DEF Kept
    <3>8. SameView(mem, new)
      <4>1. Len(new.heap) \in Nat
        BY <3>7, MemoryParts DEF Sound
      <4>2. QED
        BY <1>3, <3>6, ViewTwice
    <3>9. Leads(new, s, path, (k - 1) + 1, y.loc)
      <4>1. InRange(path[(k - 1) + 1], Len(new.heap[Held(new, L[k - 1])]))
        BY <1>1, <2>2, <2>5, <3>6
      <4>2. y.loc = ElementOf(Held(new, L[k - 1]),
                              Position(path[(k - 1) + 1], Len(new.heap[Held(new, L[k - 1])])))
        BY <1>1, <2>2, <3>4
      <4>3. QED
        BY <3>6, <3>7, <4>1, <4>2, OnExtend
    <3>10. QED
      BY <1>1, <3>4, <3>7, <3>8, <3>9 DEF Seen
  <2>6. CASE ~ (IsNode(n) /\ InRange(i, Len(x.m.heap[n])))
    <3>1. y = [x EXCEPT !.ok = FALSE]
      BY <2>6 DEF Further
    <3>2. y.m = x.m /\ y.ok = FALSE
      BY <3>1 DEF OnTheWay, Steps
    <3>3. Inner(Val(x.m)[n], i) = Missing
      <4>1. IsNode(n) <=> Values!IsList(Val(x.m)[n])
        BY <1>3, <2>4, ValueKinds
      <4>2. IsNode(n) => Len(Val(x.m)[n]) = Len(x.m.heap[n])
        BY <1>3, <2>4, ValueKinds, ValFits
      <4>3. QED
        BY <2>6, <4>1, <4>2 DEF Inner
    <3>4. QED
      BY <1>2, <1>3, <2>3, <3>2, <3>3 DEF Seen, v
  <2>7. QED
    BY <2>5, <2>6
<1>5. CASE ~ x.ok
  <2>1. y = [x EXCEPT !.ok = FALSE]
    BY <1>5 DEF Further
  <2>2. y.m = x.m /\ y.ok = FALSE
    BY <2>1 DEF OnTheWay, Steps
  <2>3. Above(v, path, k - 1) = Missing
    BY <1>5 DEF Seen, v
  <2>4. Inner(Missing, i) = Missing
    BY DEF Inner, Values!IsList
  <2>5. QED
    BY <1>2, <1>3, <2>2, <2>3, <2>4 DEF Seen, v
<1>6. QED
  BY <1>4, <1>5 DEF Seen

\* So a whole path, with all the copies it makes, shows nothing either.
LEMMA NavigateSeen ==
  ASSUME AtomsAreNoLists, NEW mem, Sound(mem), NEW p \in Place
  PROVE  Seen(mem, p.root, p.path, Len(p.path), Navigate(mem, p))
<1> DEFINE path == p.path
           n == Len(path)
<1>1. path \in Seq(Int) /\ n \in Nat /\ p.root \in Symbols
  BY PlaceAssumption DEF Place
<1>2. PICK w : Way(mem, p, w)
  BY NavigateWay
<1> DEFINE S == {k \in 0..n : Seen(mem, p.root, path, k, w[k])}
<1>3. 0 \in S
  <2> DEFINE L == [j \in 0..0 |-> SlotOf(p.root)]
  <2>1. w[0].m = mem /\ w[0].ok = TRUE /\ w[0].loc = SlotOf(p.root)
    BY <1>2 DEF Way
  <2>2. On(mem, p.root, path, L, 0, 0) /\ L[0] = SlotOf(p.root)
    <3>1. L[0] = SlotOf(p.root) /\ \A i, j \in 0..0 : i = j
      OBVIOUS
    <3>2. 0..(0 - 1) = {} /\ 1..0 = {}
      OBVIOUS
    <3> HIDE DEF L
    <3>3. Spine(mem, p.root, path, L, 0)
      BY <3>1, <3>2 DEF Spine
    <3>4. Soles(mem, L, 0)
      BY <3>2 DEF Soles
    <3>5. QED
      BY <1>1, <3>1, <3>3, <3>4 DEF On
  <2> HIDE DEF L
  <2>3. Leads(mem, p.root, path, 0, SlotOf(p.root))
    BY <2>2 DEF Leads
  <2>4. Kept(mem, mem) /\ SameView(mem, mem)
    <3>1. Len(mem.heap) \in Nat
      BY MemoryParts DEF Sound
    <3>2. QED
      BY <3>1 DEF Kept, SameView
  <2>5. Seen(mem, p.root, path, 0, w[0])
    BY <2>1, <2>3, <2>4 DEF Seen
  <2>6. QED
    BY <1>1, <2>5
<1>4. ASSUME NEW k \in 1..n, k - 1 \in S
      PROVE  k \in S
  <2>1. w[k - 1] \in OnTheWay(mem) /\ w[k] = Further(path[k], w[k - 1])
    <3>1. k - 1 \in 0..Len(p.path)
      BY <1>1
    <3>2. QED
      BY <1>2, <3>1 DEF Way
  <2>2. Seen(mem, p.root, path, k - 1, w[k - 1])
    BY <1>4
  <2> HIDE DEF path
  <2>3. Seen(mem, p.root, path, k, w[k])
    BY <1>1, <2>1, <2>2, FurtherSeen
  <2>4. QED
    BY <2>3
<1> HIDE DEF S
<1>5. \A k \in 0..n : k \in S
  BY <1>1, <1>3, <1>4, CountUp
<1>6. n \in 0..n /\ Navigate(mem, p) = w[n]
  BY <1>1, <1>2 DEF Way
<1>7. QED
  BY <1>5, <1>6 DEF S

-----------------------------------------------------------------------------
(* What a write at the end of a way changes: the value of its symbol there.   *)

LEMMA SpineAt ==
  ASSUME NEW m, NEW s, NEW path, NEW L, NEW k, NEW c, On(m, s, path, L, k, c),
         NEW j \in 0..(k - 1), NEW q \in 1..k, NEW i, L[q] = ElementOf(Held(m, L[j]), i)
  PROVE  q = j + 1
<1>1. k \in Nat /\ c \in {k, k + 1}
  BY DEF On
<1>2. j \in 0..(c - 1) /\ j \in 0..k /\ q - 1 \in 0..k
  BY <1>1
<1>3. PICK o \in 1..Len(m.heap[Held(m, L[q - 1])]) : L[q] = ElementOf(Held(m, L[q - 1]), o)
  BY SpineSteps
<1>4. ElementOf(Held(m, L[q - 1]), o) = ElementOf(Held(m, L[j]), i)
  BY <1>3
<1>5. Held(m, L[q - 1]) = Held(m, L[j])
  BY <1>4, LocationsDiffer
<1>6. Anywhere(m, L[q - 1]) /\ Sole(m, Held(m, L[q - 1]), L[j])
  BY <1>2, <1>5, SpineSteps DEF On, Soles
<1>7. L[q - 1] = L[j]
  BY <1>6, SoleAt
<1>8. q - 1 = j
  BY <1>2, <1>7 DEF On, Spine
<1>9. QED
  BY <1>1, <1>8

\* A write at the end of a spine leaves the references along it,
LEMMA HeldOnTheWay ==
  ASSUME NEW m, Sound(m), NEW s, NEW path, NEW L, NEW k, NEW c, On(m, s, path, L, k, c),
         NEW D, D \subseteq Nodes(m, L, c), D \cap Nodes(m, L, k) = {},
         NEW new, SameElsewhere(m, L[k], D, new), NEW j \in 0..(k - 1)
  PROVE  Held(new, L[j]) = Held(m, L[j])
<1>1. k \in Nat /\ c \in {k, k + 1}
  BY DEF On
<1>2. j \in 0..k /\ k \in 0..k /\ j # k
  BY <1>1
<1>3. Anywhere(m, L[j]) /\ L[j] # L[k]
  BY <1>2, SpineSteps DEF On, Spine
<1>4. L[j].list \notin D
  <2>1. CASE j = 0
    <3>1. L[j].list = 0
      BY <2>1, LocationsDiffer DEF On, Spine
    <3>2. D \subseteq 1..Len(m.heap) /\ Len(m.heap) \in Nat
      BY SpineOwns, MemoryParts DEF Own, Sound
    <3>3. QED
      BY <3>1, <3>2
  <2>2. CASE j # 0
    <3>1. j \in 1..k /\ j - 1 \in 0..(k - 1)
      BY <1>1, <2>2
    <3>2. PICK o : L[j] = ElementOf(Held(m, L[j - 1]), o)
      BY <3>1, SpineSteps
    <3>3. L[j].list = Held(m, L[j - 1])
      BY <3>2, LocationsDiffer
    <3>4. Held(m, L[j - 1]) \in Nodes(m, L, k)
      BY <3>1 DEF Nodes
    <3>5. QED
      BY <3>3, <3>4
  <2>3. QED
    BY <2>1, <2>2
<1>5. QED
  BY <1>3, <1>4, HeldSame

\* The list at a location passed: as it was, but for the element where the way goes on.
Rebuilds(m, new, path, L, j) ==
  LET n == Held(m, L[j])
      pos == Position(path[j + 1], Len(m.heap[n]))
  IN  /\ pos \in 1..Len(m.heap[n])
      /\ Val(new)[Held(new, L[j])] = [Val(m)[n] EXCEPT ![pos] = Val(new)[Held(new, L[j + 1])]]

\* so each list along it stands for its old value with a new part,
LEMMA SpineRebuilds ==
  ASSUME NEW m, Sound(m), NEW s, NEW path, NEW L, NEW k, NEW c, On(m, s, path, L, k, c),
         NEW D, D \subseteq Nodes(m, L, c), D \cap Nodes(m, L, k) = {},
         NEW new, Sound(new), SameElsewhere(m, L[k], D, new), NEW j \in 0..(k - 1)
  PROVE  Rebuilds(m, new, path, L, j)
<1> DEFINE n == Held(m, L[j])
           b == Len(m.heap[n])
           pos == Position(path[j + 1], b)
           Q == Nodes(m, L, c)
           u == Val(new)[Held(new, L[j + 1])]
<1>1. k \in Nat /\ c \in {k, k + 1} /\ j + 1 \in 1..k /\ (j + 1) - 1 = j /\ j \in 0..(c - 1) /\ j \in 0..k
  BY DEF On
<1>2. Held(new, L[j]) = n /\ n \in 1..Len(m.heap) /\ n # 0 /\ n \notin D /\ n \in 1..Len(new.heap)
  <2>1. n \in 1..Len(m.heap) /\ n # 0
    BY <1>1, SpineSteps DEF On, Soles
  <2>2. n \in Nodes(m, L, k)
    BY DEF Nodes
  <2>3. Len(m.heap) \in Nat /\ Len(new.heap) \in Nat /\ Len(m.heap) <= Len(new.heap)
    BY MemoryParts DEF Sound, SameElsewhere
  <2>4. Held(new, L[j]) = Held(m, L[j])
    BY HeldOnTheWay
  <2>5. n \in 1..Len(new.heap) /\ n \notin D
    BY <2>1, <2>2, <2>3
  <2>6. QED
    BY <2>1, <2>4, <2>5
<1>3. pos \in 1..b /\ L[j + 1] = ElementOf(n, pos)
  BY <1>1 DEF On, Spine, Link, InRange
<1>4. b \in Nat /\ Len(new.heap[n]) = b /\ Fits(m.heap, Val(m)) /\ Fits(new.heap, Val(new))
  BY <1>2, ValFits, MemoryParts DEF Sound, SameElsewhere
<1> HIDE DEF pos, n, b
<1>5. Held(new, L[j + 1]) = new.heap[n][pos]
  BY <1>2, <1>3, LocationsDiffer DEF Held
<1>6. ASSUME NEW i \in 1..b, i # pos
      PROVE  Val(new)[new.heap[n][i]] = Val(m)[m.heap[n][i]]
  <2>1. L[k] # ElementOf(n, i)
    <3> SUFFICES ASSUME L[k] = ElementOf(n, i) PROVE FALSE
      OBVIOUS
    <3>1. k \in 1..k
      BY <1>1
    <3>2. k = j + 1
      BY <3>1, SpineAt DEF n
    <3>3. ElementOf(n, i) = ElementOf(n, pos)
      BY <1>3, <3>2
    <3>4. QED
      BY <1>6, <3>3, LocationsDiffer
  <2>2. new.heap[n][i] = m.heap[n][i]
    BY <1>2, <2>1 DEF SameElsewhere, b
  <2>3. m.heap[n][i] \notin Q
    <3> SUFFICES ASSUME m.heap[n][i] \in Q PROVE FALSE
      OBVIOUS
    <3>1. PICK q \in 0..(c - 1) : m.heap[n][i] = Held(m, L[q])
      BY DEF Nodes
    <3>2. LeadsOn(m, L, k, c, n, i, q)
      BY <1>2, <3>1, SpineElement DEF b
    <3>3. L[q] = ElementOf(n, i) /\ j = q - 1 /\ q \in 1..k
      BY <1>1, <3>2 DEF LeadsOn, n
    <3>4. q = j + 1
      BY <1>1, <3>3
    <3>5. ElementOf(n, i) = ElementOf(n, pos)
      BY <1>3, <3>3, <3>4
    <3>6. QED
      BY <1>6, <3>5, LocationsDiffer
  <2>4. m.heap[n][i] \in Ref(Len(m.heap))
    BY <1>2, MemoryParts DEF Sound, b
  <2>5. Own(m, Q) /\ Within(m, L[k], Q)
    BY SpineOwns DEF Within
  <2> HIDE DEF Q
  <2>6. Val(new)[m.heap[n][i]] = Val(m)[m.heap[n][i]]
    <3>1. D \subseteq Q
      BY DEF Q
    <3>2. QED
      BY <2>3, <2>4, <2>5, <3>1, OutsideSame
  <2>7. QED
    BY <2>2, <2>6
<1>7. /\ Val(new)[n] = [i \in 1..b |-> Val(new)[new.heap[n][i]]]
      /\ Val(m)[n] = [i \in 1..b |-> Val(m)[m.heap[n][i]]]
  BY <1>2, <1>4 DEF Fits, b
<1> HIDE DEF Q, u
<1>8. Val(new)[new.heap[n][pos]] = u
  BY <1>5 DEF u
<1>9. [Val(m)[n] EXCEPT ![pos] = u] = [i \in 1..b |-> IF i = pos THEN u ELSE Val(m)[m.heap[n][i]]]
  BY <1>3, <1>7
<1>10. \A i \in 1..b :
         Val(new)[new.heap[n][i]] = IF i = pos THEN u ELSE Val(m)[m.heap[n][i]]
  BY <1>6, <1>8
<1>11. Val(new)[n] = [Val(m)[n] EXCEPT ![pos] = u]
  BY <1>7, <1>9, <1>10
<1>12. QED
  BY <1>2, <1>3, <1>11 DEF Rebuilds, n, pos, b, u

\* Only the symbol has another value, and only at the end of the path.
Rewritten(m, s, path, v, new) ==
  \A t \in Symbols : Val(new)[new.globals[t]] =
    IF t = s THEN Values!WithPart(Val(m)[m.globals[s]], path, v) ELSE Val(m)[m.globals[t]]

\* What is outside Q stands for what it did.
Untouched(m, Q, new) == \A r \in Ref(Len(m.heap)) : r \notin Q => Val(new)[r] = Val(m)[r]

\* and the root for its old value with a new part at the path; other lists keep theirs.
LEMMA SpineWrite ==
  ASSUME AtomsAreNoLists, NEW m, Sound(m), NEW s, NEW path \in Seq(Int), NEW L, NEW k, NEW c,
         On(m, s, path, L, k, c), k = Len(path),
         NEW D, D \subseteq Nodes(m, L, c), D \cap Nodes(m, L, k) = {},
         NEW new, Sound(new), SameElsewhere(m, L[k], D, new)
  PROVE  /\ Rewritten(m, s, path, Val(new)[Held(new, L[k])], new)
         /\ Untouched(m, Nodes(m, L, c), new)
<1> DEFINE v == Val(m)[m.globals[s]]
           Q == Nodes(m, L, c)
           w == [j \in 0..k |-> Val(new)[Held(new, L[j])]]
<1>1. k \in Nat /\ c \in {k, k + 1} /\ s \in Symbols /\ k \in 0..k /\ 0 \in 0..k
  BY DEF On
<1>2. /\ Own(m, Q) /\ Within(m, L[k], Q) /\ D \subseteq Q
      /\ \A t \in Symbols : m.globals[t] \in Q => t = s
  BY SpineOwns DEF Within
<1> HIDE DEF Q
<1>3. \A r \in Ref(Len(m.heap)) : r \notin Q => Val(new)[r] = Val(m)[r]
  BY <1>2, OutsideSame
<1>4. Follow(m, s, path, L, k)
  BY <1>1, SpineParts
<1>5. ASSUME NEW j \in 0..k - 1
      PROVE  w[j] = [Above(v, path, j) EXCEPT
                       ![Position(path[j + 1], Len(Above(v, path, j)))] = w[j + 1]]
  <2>1. Rebuilds(m, new, path, L, j)
    BY SpineRebuilds
  <2>2. j \in 0..k /\ j + 1 \in 0..k /\ j \in 0..(c - 1)
    BY <1>1
  <2>3. Above(v, path, j) = Val(m)[Held(m, L[j])]
    BY <1>4, <2>2 DEF Follow
  <2>4. Held(m, L[j]) \in 1..Len(m.heap)
    BY <2>2 DEF On, Soles
  <2>5. Len(Val(m)[Held(m, L[j])]) = Len(m.heap[Held(m, L[j])])
    BY <2>4, ValFits
  <2>6. QED
    BY <2>1, <2>2, <2>3, <2>5 DEF Rebuilds
<1>6. w[Len(path)] = Val(new)[Held(new, L[k])] /\ w[0] = Val(new)[Held(new, L[0])]
  BY <1>1
<1> HIDE DEF w, v
<1>7. Rebuilt(v, path, Val(new)[Held(new, L[k])], w)
  BY <1>5, <1>6 DEF Rebuilt
<1>8. Values!WithPart(v, path, Val(new)[Held(new, L[k])]) = w[0]
  BY <1>7, WithPartIs
<1>9. Held(new, L[0]) = new.globals[s]
  BY LocationsDiffer DEF Held, On, Spine
<1>10. ASSUME NEW t \in Symbols, t # s
       PROVE  Val(new)[new.globals[t]] = Val(m)[m.globals[t]]
  <2>1. L[k] # SlotOf(t)
    <3>1. CASE k = 0
      BY <1>10, <3>1, LocationsDiffer DEF On, Spine
    <3>2. CASE k # 0
      <4>1. k \in 1..k /\ k - 1 \in 0..(c - 1)
        BY <1>1, <3>2
      <4>2. PICK o : L[k] = ElementOf(Held(m, L[k - 1]), o)
        BY <4>1, SpineSteps
      <4>3. Held(m, L[k - 1]) # 0
        BY <4>1, SpineSteps
      <4>4. QED
        BY <4>2, <4>3, LocationsDiffer
    <3>3. QED
      BY <3>1, <3>2
  <2>2. new.globals[t] = m.globals[t]
    BY <2>1 DEF SameElsewhere, SameSlots
  <2>3. m.globals[t] \in Ref(Len(m.heap))
    BY MemoryParts DEF Sound
  <2>4. QED
    BY <1>2, <1>3, <1>10, <2>2, <2>3
<1>11. Rewritten(m, s, path, Val(new)[Held(new, L[k])], new)
  BY <1>6, <1>8, <1>9, <1>10 DEF Rewritten, v
<1>12. QED
  BY <1>3, <1>11 DEF Q, Untouched

-----------------------------------------------------------------------------
(* Writes where a place leads. *)

Visiting(mem, p, m, loc) ==
  /\ Kept(mem, m) /\ SameView(mem, m)
  /\ Leads(m, p.root, p.path, Len(p.path), loc)

ValueAt(mem, p) == Values!Part(Val(mem)[mem.globals[p.root]], p.path)

\* A visit is at the value that reading the place would find.
LEMMA VisitingIs ==
  ASSUME AtomsAreNoLists, NEW mem, Sound(mem), NEW p \in Place,
         NEW m, NEW loc, Visiting(mem, p, m, loc)
  PROVE  /\ There(mem, m, loc) /\ Held(m, loc) \in Ref(Len(m.heap))
         /\ Val(m)[Held(m, loc)] = ValueAt(mem, p) /\ ValueAt(mem, p) # Missing
<1> DEFINE path == p.path
           k == Len(path)
<1>1. path \in Seq(Int) /\ k \in Nat /\ p.root \in Symbols /\ k <= Len(path) /\ k \in 0..k
  BY PlaceAssumption DEF Place
<1>2. Sound(m) /\ WellFormed(m)
  BY DEF Visiting, Kept, Sound
<1>3. Leads(m, p.root, path, k, loc)
  BY DEF Visiting
<1>4. PICK L : On(m, p.root, path, L, k, k) /\ L[k] = loc
  BY <1>3 DEF Leads
<1> HIDE DEF k, path
<1>5. Own(m, Nodes(m, L, k)) /\ Within(m, loc, Nodes(m, L, k))
  BY <1>4, SpineOwns
<1>6. There(mem, m, loc)
  BY <1>5 DEF There, Visiting
<1>7. Held(m, loc) \in Ref(Len(m.heap))
  BY <1>6, FoundIsRef
<1>8. Follow(m, p.root, path, L, k)
  BY <1>1, <1>2, <1>4, SpineParts
<1>9. Above(Val(m)[m.globals[p.root]], path, k) = Val(m)[Held(m, loc)]
  BY <1>1, <1>4, <1>8 DEF Follow
<1>10. Val(m)[m.globals[p.root]] = Val(mem)[mem.globals[p.root]]
  BY <1>1 DEF Visiting, SameView
<1>11. Val(m)[Held(m, loc)] = ValueAt(mem, p)
  BY <1>1, <1>9, <1>10, AboveSteps DEF ValueAt, path, k
<1>12. QED
  BY <1>2, <1>6, <1>7, <1>11, ValueKinds

\* A value written at a place: nothing else is seen to change.
Written(mem, p, v, new) ==
  /\ Sound(new) /\ Len(mem.heap) <= Len(new.heap) /\ new.hands = mem.hands
  /\ Rewritten(mem, p.root, p.path, v, new)
  /\ \A r \in InHand(mem) : Val(new)[r] = Val(mem)[r]

\* A write where navigation ended, seen from before the copies: the place changes and nothing else.
LEMMA WriteAt ==
  ASSUME AtomsAreNoLists, NEW mem, Sound(mem), NEW p \in Place,
         NEW m, Kept(mem, m), SameView(mem, m), NEW L, NEW c,
         On(m, p.root, p.path, L, Len(p.path), c),
         NEW D, D \subseteq Nodes(m, L, c), D \cap Nodes(m, L, Len(p.path)) = {},
         NEW new, Sound(new), SameElsewhere(m, L[Len(p.path)], D, new),
         NEW v, v = Val(new)[Held(new, L[Len(p.path)])]
  PROVE  Written(mem, p, v, new) /\ Untouched(m, Nodes(m, L, c), new)
<1> DEFINE path == p.path
           k == Len(path)
           Q == Nodes(m, L, c)
<1>1. path \in Seq(Int) /\ k \in Nat /\ p.root \in Symbols
  BY PlaceAssumption DEF Place
<1>2. Sound(m) /\ WellFormed(m) /\ WellFormed(mem)
  BY DEF Kept, Sound
<1>3. /\ On(m, p.root, path, L, k, c) /\ D \subseteq Nodes(m, L, c) /\ D \cap Nodes(m, L, k) = {}
      /\ SameElsewhere(m, L[k], D, new) /\ v = Val(new)[Held(new, L[k])] /\ k = Len(path)
  OBVIOUS
<1> HIDE DEF path, k
<1>4. Rewritten(m, p.root, path, v, new) /\ Untouched(m, Q, new)
  BY <1>1, <1>2, <1>3, SpineWrite
<1>5. Own(m, Q)
  BY <1>3, SpineOwns
<1> HIDE DEF Q
<1>6. InHand(m) \cap Q = {} /\ InHand(m) \subseteq Ref(Len(m.heap)) /\ InHand(m) = InHand(mem)
  BY <1>2, <1>5, HandsApart DEF Kept
<1>7. InHand(mem) \subseteq Ref(Len(mem.heap))
  <2>1. Own(mem, {})
    BY DEF Own
  <2>2. QED
    BY <1>2, <2>1, HandsApart
<1>8. \A r \in InHand(mem) : Val(new)[r] = Val(mem)[r]
  BY <1>4, <1>6, <1>7 DEF SameView, Untouched
<1>9. Rewritten(mem, p.root, path, v, new)
  BY <1>1, <1>4 DEF Rewritten, SameView
<1>10. Len(mem.heap) <= Len(new.heap) /\ new.hands = mem.hands
  <2>1. Len(mem.heap) \in Nat /\ Len(m.heap) \in Nat /\ Len(new.heap) \in Nat
    BY <1>2 DEF Sound, WellFormed
  <2>2. QED
    BY <1>3, <2>1 DEF SameElsewhere, Kept
<1>11. QED
  BY <1>4, <1>8, <1>9, <1>10 DEF Written, path, Q

\* Storing a value in hand writes that value at the place.
LEMMA StoreWrites ==
  ASSUME AtomsAreNoLists, NEW mem, Sound(mem), NEW p \in Place,
         NEW m, NEW loc, Visiting(mem, p, m, loc), NEW r \in InHand(mem),
         NEW new, new = Store(m, loc, r)
  PROVE  Written(mem, p, Val(mem)[r], new)
<1> DEFINE path == p.path
           k == Len(path)
<1>1. Kept(mem, m) /\ SameView(mem, m) /\ WellFormed(m) /\ WellFormed(mem)
  BY DEF Visiting, Kept, Sound
<1>2. PICK L : On(m, p.root, path, L, k, k) /\ L[k] = loc
  BY DEF Visiting, Leads
<1>3. Sound(new)
  BY VisitingIs, StoreThere
<1> DEFINE P == Nodes(m, L, k)
<1>4. P \subseteq 1..Len(m.heap) /\ Within(m, loc, P) /\ Own(m, P)
  BY <1>2, SpineOwns DEF Own
<1>5. r \in Ref(Len(m.heap))
  BY <1>1, <1>4, HandsApart DEF Kept
<1>6. SameElsewhere(m, loc, {}, new) /\ Held(new, loc) = r
  <2> HIDE DEF P
  <2>1. SameElsewhere(m, loc, {}, new) /\ Stored(m, loc, r, new)
    BY <1>1, <1>4, <1>5, StoreElsewhere
  <2>2. QED
    BY <2>1 DEF Stored
<1> HIDE DEF P
<1> DEFINE v == Val(new)[Held(new, L[k])]
           D == {}
<1>7. On(m, p.root, path, L, k, k) /\ D \subseteq Nodes(m, L, k) /\ D \cap Nodes(m, L, k) = {}
      /\ SameElsewhere(m, L[k], D, new)
  BY <1>2, <1>6
<1> HIDE DEF D, v
<1>8. Written(mem, p, v, new)
  BY <1>1, <1>3, <1>7, WriteAt DEF v
<1>9. v = Val(mem)[r]
  BY <1>2, <1>6, <1>8 DEF Written, v
<1>10. QED
  BY <1>8, <1>9

\* What a sequence of slots stands for.
Mapped(V, list) == [i \in 1..Len(list) |-> V[list[i]]]

\* Putting a new list of values in hand there writes the list of those values.
LEMMA MakeWrites ==
  ASSUME AtomsAreNoLists, NEW mem, Sound(mem), NEW p \in Place,
         NEW m, NEW loc, Visiting(mem, p, m, loc),
         NEW elements \in Seq(InHand(mem)), Len(elements) <= MaxList,
         NEW new, new = Make(m, loc, elements)
  PROVE  Written(mem, p, Mapped(Val(mem), elements), new)
<1> DEFINE path == p.path
           k == Len(path)
           top == Len(m.heap) + 1
<1>1. Kept(mem, m) /\ SameView(mem, m) /\ WellFormed(m) /\ WellFormed(mem)
  BY DEF Visiting, Kept, Sound
<1>2. PICK L : On(m, p.root, path, L, k, k) /\ L[k] = loc
  BY DEF Visiting, Leads
<1>3. Sound(new)
  BY VisitingIs, MakeThere
<1> DEFINE P == Nodes(m, L, k)
<1>4. P \subseteq 1..Len(m.heap) /\ Within(m, loc, P) /\ Own(m, P)
  BY <1>2, SpineOwns DEF Own
<1>5. elements \in Lists(Len(m.heap))
  <2>1. InHand(mem) \subseteq Ref(Len(m.heap))
    BY <1>1, <1>4, HandsApart DEF Kept
  <2>2. elements \in Seq(Ref(Len(m.heap)))
    BY <2>1, SeqMonotonic
  <2>3. QED
    BY <2>2 DEF Lists
<1>6. MadeAt(m, loc, elements, new)
  <2> HIDE DEF P
  <2>1. QED
    BY <1>1, <1>4, <1>5, MakeElsewhere
<1>7. /\ SameElsewhere(m, loc, {}, new) /\ Held(new, loc) = top /\ Len(new.heap) = top
      /\ Len(new.heap[top]) = Len(elements) /\ Len(m.heap) \in Nat
      /\ \A i \in 1..Len(elements) : new.heap[top][i] = elements[i]
  BY <1>1, <1>6 DEF MadeAt, WellFormed
<1> HIDE DEF P
<1> DEFINE v == Val(new)[Held(new, L[k])]
           D == {}
<1>8. On(m, p.root, path, L, k, k) /\ D \subseteq Nodes(m, L, k) /\ D \cap Nodes(m, L, k) = {}
      /\ SameElsewhere(m, L[k], D, new)
  BY <1>2, <1>7
<1> HIDE DEF D, v
<1>9. Written(mem, p, v, new)
  BY <1>1, <1>3, <1>8, WriteAt DEF v
<1>10. top \in 1..Len(new.heap)
  BY <1>7
<1> HIDE DEF top
<1>11. Val(new)[top] = [i \in 1..Len(elements) |-> Val(new)[new.heap[top][i]]]
  <2>1. Fits(new.heap, Val(new))
    BY <1>3, ValFits
  <2>2. QED
    BY <1>7, <1>10, <2>1 DEF Fits
<1>12. \A i \in 1..Len(elements) : Val(new)[new.heap[top][i]] = Val(mem)[elements[i]]
  BY <1>7, <1>9 DEF Written
<1>13. Val(new)[top] = Mapped(Val(mem), elements)
  BY <1>11, <1>12 DEF Mapped
<1>14. v = Mapped(Val(mem), elements)
  BY <1>2, <1>7, <1>13 DEF v
<1>15. QED
  BY <1>9, <1>14

\* A list has been given other elements, and nothing else is different.
OnlyList(m, n, elements, new) ==
  /\ \A loc : SameElsewhere(m, loc, {n}, new)
  /\ new.heap[n] = elements /\ Len(new.heap) = Len(m.heap)

\* Rewriting a list changes that list only.
LEMMA OwnRewritten ==
  ASSUME NEW m, Sound(m), NEW n \in 1..Len(m.heap), NEW elements,
         NEW new, new = [m EXCEPT !.heap[n] = elements]
  PROVE  OnlyList(m, n, elements, new)
<1> DEFINE h == m.heap
           l == Len(h)
           hs == [h EXCEPT ![n] = elements]
<1>1. /\ WellFormed(m) /\ l \in Nat /\ DOMAIN h = 1..l
      /\ m = [heap |-> h, globals |-> m.globals, hands |-> m.hands]
  BY MemoryParts, MemoryIs DEF Sound
<1>2. new.heap = hs /\ new.globals = m.globals /\ new.hands = m.hands
  BY <1>1
<1>3. Len(hs) = l /\ \A k \in 1..l : hs[k] = IF k = n THEN elements ELSE h[k]
  <2>1. h \in Seq(Lists(l))
    BY <1>1, MemoryParts
  <2> DEFINE T == Lists(l) \cup {elements}
  <2>2. h \in Seq(T)
    BY <2>1, SeqMonotonic
  <2>3. elements \in T
    OBVIOUS
  <2> HIDE DEF T, h
  <2>4. QED
    BY <2>2, <2>3, ExceptSeq
<1> HIDE DEF hs
<1>4. ASSUME NEW loc
      PROVE  SameElsewhere(m, loc, {n}, new)
  BY <1>1, <1>2, <1>3 DEF SameElsewhere, SameSlots
<1>5. QED
  BY <1>2, <1>3, <1>4 DEF OnlyList

\* Rewriting the list at the place writes the list of the new elements' values.
LEMMA RewriteWrites ==
  ASSUME AtomsAreNoLists, NEW mem, Sound(mem), NEW p \in Place,
         NEW m, NEW loc, Visiting(mem, p, m, loc), IsNode(Held(m, loc)),
         NEW old, old = m.heap[Held(m, loc)],
         NEW elements \in Seq(Among(mem, old)), Len(elements) <= MaxList,
         NEW new, new = Rewrite(m, loc, elements)
  PROVE  Written(mem, p, Mapped(Val(m), elements), new)
<1> DEFINE path == p.path
           k == Len(path)
           s == p.root
<1>1. /\ Kept(mem, m) /\ SameView(mem, m) /\ WellFormed(m) /\ Sound(m) /\ WellFormed(mem)
      /\ path \in Seq(Int) /\ k \in Nat /\ k \in 0..k /\ k \in 0..((k + 1) - 1)
  BY PlaceAssumption DEF Visiting, Kept, Sound, Place
<1>2. PICK L : On(m, s, path, L, k, k) /\ L[k] = loc
  BY DEF Visiting, Leads
<1>3. Sound(new)
  BY VisitingIs, RewriteThere
<1>4. Held(m, loc) \in 1..Len(m.heap)
  BY VisitingIs, FoundIsRef
<1>5. \E o : o = MakeMut(m, loc)
  OBVIOUS
<1>6. PICK o : o = MakeMut(m, loc)
  BY <1>5
<1>7. new = [o EXCEPT !.heap[Held(o, loc)] = elements]
  BY <1>6 DEF Rewrite
<1> HIDE DEF k, path, s
<1>8. OwnTip(m, o, s, path, L, k) /\ Kept(m, o)
  BY <1>1, <1>2, <1>4, <1>6, MakeMutOn
<1> DEFINE n == Held(o, loc)
<1>9. /\ On(o, s, path, L, k, k + 1) /\ SameView(m, o) /\ Len(o.heap[n]) = Len(old)
      /\ \A i \in 1..Len(old) : o.heap[n][i] = old[i]
  BY <1>2, <1>8 DEF OwnTip
<1>10. Sound(o) /\ WellFormed(o) /\ Kept(mem, o)
  BY <1>1, <1>8, KeptTwice DEF Kept, Sound
<1>11. SameView(mem, o)
  <2>1. Len(mem.heap) \in Nat /\ Len(m.heap) \in Nat /\ Len(mem.heap) <= Len(m.heap)
    BY <1>1 DEF Kept, WellFormed
  <2>2. QED
    BY <1>1, <1>9, <2>1, ViewTwice
<1>12. n \in 1..Len(o.heap) /\ Sole(o, n, loc) /\ n \in Nodes(o, L, k + 1)
  BY <1>1, <1>2, <1>9 DEF On, Soles, Nodes
<1>13. n \notin Nodes(o, L, k)
  <2> SUFFICES ASSUME NEW j \in 0..(k - 1), n = Held(o, L[j]) PROVE FALSE
    BY DEF Nodes
  <2>1. j \in 0..k /\ j # k
    BY <1>1
  <2>2. Anywhere(o, L[j])
    BY <1>9, <2>1, SpineSteps
  <2>3. L[j] = loc
    BY <1>12, <2>2, SoleAt
  <2>4. QED
    BY <1>1, <1>2, <1>9, <2>1, <2>3 DEF On, Spine
<1> DEFINE D == {n}
<1>14. (\A at : SameElsewhere(o, at, D, new)) /\ new.heap[n] = elements /\ Len(new.heap) = Len(o.heap)
  <2>1. new = [o EXCEPT !.heap[n] = elements]
    BY <1>7
  <2> HIDE DEF n
  <2>2. OnlyList(o, n, elements, new)
    BY <1>10, <1>12, <2>1, OwnRewritten
  <2>3. QED
    BY <2>2 DEF OnlyList
<1>15. D \subseteq Nodes(o, L, k + 1) /\ D \cap Nodes(o, L, k) = {}
  BY <1>12, <1>13
<1>16. Held(new, loc) = n
  <2>1. Anywhere(o, loc)
    BY <1>1, <1>2, <1>9, SpineSteps
  <2>2. loc.list \notin D
    <3>1. CASE k = 0
      <4>1. loc.list = 0
        BY <1>2, <1>9, <3>1, LocationsDiffer DEF On, Spine
      <4>2. n # 0
        BY <1>1, <1>2, <1>9, SpineSteps
      <4>3. QED
        BY <4>1, <4>2
    <3>2. CASE k # 0
      <4>1. k \in 1..k /\ k - 1 \in 0..(k - 1)
        BY <1>1, <3>2
      <4>2. PICK i \in 1..Len(o.heap[Held(o, L[k - 1])]) : L[k] = ElementOf(Held(o, L[k - 1]), i)
        BY <1>9, <4>1, SpineSteps
      <4>3. loc.list = Held(o, L[k - 1]) /\ Held(o, L[k - 1]) \in Nodes(o, L, k)
        BY <1>2, <4>1, <4>2, LocationsDiffer DEF Nodes
      <4>4. QED
        BY <1>13, <4>3
    <3>3. QED
      BY <3>1, <3>2
  <2> DEFINE at == ElementOf(n, 0)
  <2>3. at # loc
    BY <2>2, LocationsDiffer
  <2> HIDE DEF D, at
  <2>4. SameElsewhere(o, at, D, new)
    BY <1>14
  <2>5. Held(new, loc) = Held(o, loc)
    BY <2>1, <2>2, <2>3, <2>4, HeldSame
  <2>6. QED
    BY <2>5
<1> DEFINE v == Val(new)[Held(new, L[k])]
           c == k + 1
<1>17. /\ On(o, s, path, L, k, c) /\ D \subseteq Nodes(o, L, c) /\ D \cap Nodes(o, L, k) = {}
       /\ SameElsewhere(o, L[k], D, new)
  BY <1>9, <1>14, <1>15
<1> HIDE DEF D, v, c
<1>18. Written(mem, p, v, new) /\ Untouched(o, Nodes(o, L, c), new)
  BY <1>3, <1>10, <1>11, <1>17, WriteAt DEF v, k, path, s
<1>19. v = Val(new)[n]
  BY <1>2, <1>16 DEF v
<1> HIDE DEF n
<1>20. Val(new)[n] = [i \in 1..Len(elements) |-> Val(new)[elements[i]]]
  <2>1. Fits(new.heap, Val(new)) /\ n \in 1..Len(new.heap)
    BY <1>3, <1>12, <1>14, ValFits
  <2>2. QED
    BY <1>14, <2>1 DEF Fits
<1>21. ASSUME NEW i \in 1..Len(old)
       PROVE  Val(new)[old[i]] = Val(m)[old[i]]
  <2>1. i \in 1..Len(o.heap[n]) /\ o.heap[n][i] = old[i]
    BY <1>9
  <2>2. o.heap[n][i] \in Ref(Len(o.heap)) /\ old[i] \in Ref(Len(m.heap))
    <3>1. old[i] \in Ref(Len(m.heap))
      BY <1>1, <1>4, MemoryParts
    <3>2. o.heap[n][i] \in Ref(Len(o.heap))
      BY <1>10, <1>12, <2>1, MemoryParts
    <3>3. QED
      BY <3>1, <3>2
  <2>3. o.heap[n][i] \notin Nodes(o, L, c)
    <3> SUFFICES ASSUME o.heap[n][i] \in Nodes(o, L, c) PROVE FALSE
      OBVIOUS
    <3>1. PICK q \in 0..(c - 1) : o.heap[n][i] = Held(o, L[q])
      BY DEF Nodes
    <3>2. LeadsOn(o, L, k, c, n, i, q)
      BY <1>12, <1>17, <2>1, <3>1, SpineElement
    <3>3. q \in 1..k /\ k = q - 1
      BY <1>1, <1>2, <3>2 DEF LeadsOn, n
    <3>4. QED
      BY <1>1, <3>3
  <2>4. QED
    BY <1>9, <1>18, <2>1, <2>2, <2>3 DEF Untouched, SameView
<1>22. ASSUME NEW r \in InHand(mem)
       PROVE  Val(new)[r] = Val(m)[r]
  <2>1. r \in Ref(Len(mem.heap))
    <3>1. Own(mem, {})
      BY DEF Own
    <3>2. QED
      BY <1>1, <3>1, HandsApart
  <2>2. QED
    BY <1>1, <1>18, <2>1 DEF Written, SameView
<1>23. \A i \in 1..Len(elements) : Val(new)[elements[i]] = Val(m)[elements[i]]
  <2>1. \A i \in 1..Len(elements) : elements[i] \in Among(mem, old)
    OBVIOUS
  <2>2. QED
    BY <1>21, <1>22, <2>1 DEF Among
<1>24. v = Mapped(Val(m), elements)
  BY <1>19, <1>20, <1>23 DEF Mapped
<1>25. QED
  BY <1>18, <1>24

-----------------------------------------------------------------------------
(* What a program sees, before and after an operation. *)

Vals == [s \in Symbols |-> ValuesIn(heap)[globals[s]]]
Acts == [k \in 1..Len(active) |-> [active[k] EXCEPT !.held = ValuesIn(heap)[@]]]

\* The slots and the forms under way, as seen in m.
SlotsSeen(m) == [s \in Symbols |-> Val(m)[m.globals[s]]]
FormsSeen(m, forms) == [k \in 1..Len(forms) |-> [forms[k] EXCEPT !.held = Val(m)[@]]]

\* Dropping and renumbering lists is not seen.
LEMMA TidiedSeen ==
  ASSUME NEW m, Sound(m), NEW forms, forms \in Seq(Forms(Len(m.heap))),
         NEW after, after = Tidied(m, forms)
  PROVE  /\ [s \in Symbols |-> ValuesIn(after.heap)[after.globals[s]]] = SlotsSeen(m)
         /\ [k \in 1..Len(after.active) |->
               [after.active[k] EXCEPT !.held = ValuesIn(after.heap)[@]]] = FormsSeen(m, forms)
<1> DEFINE n == Len(after.heap)
           h == after.heap
           W == ValuesIn(h)
           V == Val(m)
           F == Forms(Len(m.heap))
           G == Forms(n)
<1>1. /\ n \in Nat /\ h \in Seq(Lists(n)) /\ Ranked(h) /\ Renumbers(m, forms, after)
      /\ after.active \in Seq(G)
  BY TidiedSound
<1>2. Fits(h, W)
  <2> DEFINE Ls == Lists(n)
  <2>1. h \in Seq(Ls) /\ \A list \in Ls : \A i \in 1..Len(list) : list[i] \in Ref(n)
    BY <1>1, ListsGrow
  <2> HIDE DEF Ls, h
  <2>2. \A k \in 1..Len(h) : h[k] \in Ls
    BY <2>1
  <2>3. Len(h) \in Nat /\ DOMAIN h = 1..Len(h)
    BY <2>1
  <2>4. \A k \in 1..Len(h) : \A i \in 1..Len(h[k]) : h[k][i] \in Ref(Len(h))
    BY <2>1, <2>2 DEF h
  <2>5. Ranked(h)
    BY <1>1
  <2>6. QED
    BY <2>3, <2>4, <2>5, ValuesFit
<1>3. PICK e : /\ Image(m.heap, h, 1..n, e)
               /\ \A s \in Symbols : Refers(e, n, after.globals[s], m.globals[s])
               /\ Len(after.active) = Len(forms)
               /\ \A k \in 1..Len(forms) :
                    /\ after.active[k] = [forms[k] EXCEPT !.held = after.active[k].held]
                    /\ Refers(e, n, after.active[k].held, forms[k].held)
  BY <1>1 DEF Renumbers
<1>4. Fits(m.heap, V)
  BY ValFits
<1>5. \A a \in Atoms : W[a] = a /\ V[a] = a
  BY <1>2, <1>4 DEF Fits
<1> HIDE DEF h, W, V, n
<1>6. \A k \in 1..n : W[k] = V[e[k]]
  <2> DEFINE A == 1..n
  <2>1. Image(m.heap, h, A, e)
    BY <1>3
  <2> HIDE DEF A
  <2>2. \A k \in A : W[k] = V[e[k]]
    BY <1>1, <1>2, <1>4, <2>1, SameTrees
  <2>3. QED
    BY <2>2 DEF A
<1>7. \A s \in Symbols : W[after.globals[s]] = V[m.globals[s]]
  BY <1>3, <1>5, <1>6 DEF Refers
<1>8. ASSUME NEW k \in 1..Len(forms)
      PROVE  [after.active[k] EXCEPT !.held = W[@]] = [forms[k] EXCEPT !.held = V[@]]
  <2>1. W[after.active[k].held] = V[forms[k].held]
    <3>1. Refers(e, n, after.active[k].held, forms[k].held)
      BY <1>3
    <3>2. QED
      BY <1>5, <1>6, <3>1 DEF Refers
  <2>2. forms[k] \in F
    <3> HIDE DEF F
    <3>1. forms \in Seq(F)
      BY DEF F
    <3>2. QED
      BY <3>1
  <2> DEFINE new == after.active[k]
             old == forms[k]
  <2>3. new = [old EXCEPT !.held = new.held]
    BY <1>3
  <2>4. W[new.held] = V[old.held] /\ old \in F
    BY <2>1, <2>2
  <2> HIDE DEF new, old
  <2>5. [new EXCEPT !.held = W[@]] = [old EXCEPT !.held = V[@]]
    BY <2>3, <2>4 DEF F, Forms
  <2>6. QED
    BY <2>5 DEF new, old
<1>9. [s \in Symbols |-> W[after.globals[s]]] = SlotsSeen(m)
  BY <1>7 DEF SlotsSeen, V
<1>10. [k \in 1..Len(after.active) |-> [after.active[k] EXCEPT !.held = W[@]]] = FormsSeen(m, forms)
  BY <1>3, <1>8 DEF FormsSeen, V
<1>11. QED
  BY <1>9, <1>10 DEF W, h

\* Dropping what nothing refers to, and renumbering the rest, shows nothing to a program.
LEMMA BecomesSeen ==
  ASSUME NEW m, Sound(m), NEW forms, forms \in Seq(Forms(Len(m.heap))), Becomes(m, forms)
  PROVE  Vals' = SlotsSeen(m) /\ Acts' = FormsSeen(m, forms)
<1>1. PICK after : /\ after = Tidied(m, forms) /\ Len(after.heap) <= MaxNodes
                   /\ heap' = after.heap /\ globals' = after.globals /\ active' = after.active
  BY DEF Becomes
<1>2. /\ [s \in Symbols |-> ValuesIn(after.heap)[after.globals[s]]] = SlotsSeen(m)
      /\ [k \in 1..Len(after.active) |->
            [after.active[k] EXCEPT !.held = ValuesIn(after.heap)[@]]] = FormsSeen(m, forms)
  BY <1>1, TidiedSeen
<1>3. QED
  BY <1>1, <1>2 DEF Vals, Acts

\* What an expression finds at a place.
LEMMA ReachedSeen ==
  ASSUME AtomsAreNoLists, NEW m, Sound(m), NEW p, p.root \in Symbols, p.path \in Seq(Int)
  PROVE  /\ Reached(m, p) \in Ref(Len(m.heap)) \cup {Missing}
         /\ Val(m)[Reached(m, p)] = ValueAt(m, p)
         /\ ValueAt(m, p) = Missing <=> Reached(m, p) = Missing
<1> DEFINE path == p.path
           k == Len(path)
           n == Len(m.heap)
           v == Val(m)[m.globals[p.root]]
<1>1. path \in Seq(Int) /\ k \in Nat /\ p.root \in Symbols
  OBVIOUS
<1>2. /\ n \in Nat /\ m.globals \in [Symbols -> Ref(n)]
      /\ \A l \in 1..n : \A i \in 1..Len(m.heap[l]) : m.heap[l][i] \in Ref(n)
  BY MemoryParts DEF Sound
<1>3. PICK r : Finds(m, p, n, r)
  BY <1>1, <1>2, ReachedWay
<1>4. /\ r \in [0..k -> Ref(n) \cup {Missing}] /\ r[0] = m.globals[p.root]
      /\ Reached(m, p) = r[k]
  BY <1>3 DEF Finds
<1>5. Fits(m.heap, Val(m))
  BY ValFits
<1> DEFINE S == {j \in 0..k : Above(v, path, j) = Val(m)[r[j]]}
<1>6. 0 \in S
  BY <1>1, <1>4, AboveSteps
<1>7. ASSUME NEW j \in 1..k, j - 1 \in S
      PROVE  j \in S
  <2> DEFINE x == r[j - 1]
             pos == Position(path[j], Len(m.heap[x]))
  <2>1. Above(v, path, j) = Inner(Val(m)[x], path[j])
    <3>1. Above(v, path, j - 1) = Val(m)[x] /\ j \in 1..Len(path) /\ path \in Seq(Int)
      BY <1>1, <1>7
    <3> HIDE DEF v, path, x
    <3>2. Above(v, path, j) = Inner(Above(v, path, j - 1), path[j])
      BY <3>1, AboveSteps
    <3>3. QED
      BY <3>1, <3>2
  <2>2. r[j] = IF IsNode(x) /\ InRange(path[j], Len(m.heap[x])) THEN m.heap[x][pos] ELSE Missing
    BY <1>3 DEF Finds
  <2>3. x \in Ref(n) \cup {Missing} /\ j \in 0..k
    BY <1>1, <1>4
  <2>4. Val(m)[Missing] = Missing
    BY <1>5 DEF Fits
  <2> HIDE DEF x, v, path
  <2>5. CASE IsNode(x)
    <3>1. x \in Ref(n)
      BY <2>3, <2>5 DEF IsNode
    <3>2. x \in 1..Len(m.heap) /\ Values!IsList(Val(m)[x])
      BY <2>5, <3>1, ValueKinds
    <3>3. /\ Len(Val(m)[x]) = Len(m.heap[x])
          /\ \A i \in 1..Len(m.heap[x]) : Val(m)[x][i] = Val(m)[m.heap[x][i]]
      BY <3>2, ValFits
    <3>4. Inner(Val(m)[x], path[j]) = Val(m)[r[j]]
      BY <2>2, <2>4, <2>5, <3>2, <3>3 DEF Inner, InRange
    <3>5. QED
      BY <2>1, <2>3, <3>4
  <2>6. CASE ~ IsNode(x)
    <3>1. Val(m)[x] = x
      BY <1>5, <2>6 DEF Fits, IsNode
    <3>2. ~ Values!IsList(x)
      BY <2>6 DEF IsNode, Values!IsList
    <3>3. Inner(Val(m)[x], path[j]) = Missing /\ r[j] = Missing
      BY <2>2, <2>6, <3>1, <3>2 DEF Inner
    <3>4. QED
      BY <2>1, <2>3, <2>4, <3>3
  <2>7. QED
    BY <2>5, <2>6
<1> HIDE DEF S
<1>8. \A j \in 0..k : j \in S
  BY <1>1, <1>6, <1>7, CountUp
<1>9. k \in 0..k
  BY <1>1
<1>10. Val(m)[Reached(m, p)] = ValueAt(m, p) /\ Reached(m, p) \in Ref(n) \cup {Missing}
  BY <1>1, <1>4, <1>8, <1>9, AboveSteps DEF S, ValueAt
<1>11. Val(m)[Missing] = Missing
  BY <1>5 DEF Fits
<1>12. Reached(m, p) \in Ref(n) => ValueAt(m, p) # Missing /\ Reached(m, p) # Missing
  BY <1>2, <1>10, ValueKinds, RefsAre
<1>13. QED
  BY <1>10, <1>11, <1>12

\* What an operation starts from shows a program the state there is.
LEMMA MemoryHas ==
  ASSUME IInv, NEW hands \in Seq(Ref(Len(heap))), NEW mem, mem = Memory(hands)
  PROVE  /\ Sound(mem) /\ mem.heap = heap /\ mem.globals = globals /\ Val(mem) = ValuesIn(heap)
         /\ Len(mem.heap) \in Nat
         /\ \A k \in 1..Len(hands) : hands[k] \in InHand(mem)
         /\ \A k \in 1..Len(active) : active[k].held \in InHand(mem)
<1>1. /\ Sound(mem) /\ mem.heap = heap /\ mem.globals = globals
      /\ \A k \in 1..Len(hands) : InOneHand(mem, hands[k])
      /\ \A k \in 1..Len(active) : InOneHand(mem, active[k].held)
  BY MemorySound
<1>2. QED
  BY <1>1 DEF InOneHand, Val, Sound, WellFormed

\* Reading a place finds the part of its root's value.
LEMMA AtSeen ==
  ASSUME IInv, NEW hands \in Seq(Ref(Len(heap))), NEW p \in Place
  PROVE  Values!At(p) = ValueAt(Memory(hands), p) /\ Values!At(p) = Values!Part(Vals[p.root], p.path)
<1>1. \E mem : mem = Memory(hands)
  OBVIOUS
<1>2. PICK mem : mem = Memory(hands)
  BY <1>1
<1>3. mem.globals = globals /\ Val(mem) = ValuesIn(heap) /\ p.root \in Symbols
  BY <1>2, MemoryHas, PlaceAssumption DEF Place
<1>4. ValueAt(mem, p) = Values!Part(ValuesIn(heap)[globals[p.root]], p.path)
  BY <1>3 DEF ValueAt
<1>5. Vals[p.root] = ValuesIn(heap)[globals[p.root]]
  BY <1>3 DEF Vals
<1>6. Values!At(p) = Values!Part(Vals[p.root], p.path)
  BY DEF Values!At, Vals
<1>7. QED
  BY <1>2, <1>4, <1>5, <1>6

\* So a visit finds what Places reads there.
LEMMA VisitSeen ==
  ASSUME AtomsAreNoLists, IInv, NEW hands \in Seq(Ref(Len(heap))), NEW p \in Place,
         NEW there \in Visits(hands, p)
  PROVE  /\ Visiting(Memory(hands), p, there.m, there.loc)
         /\ There(Memory(hands), there.m, there.loc)
         /\ Found(there) \in Ref(Len(there.m.heap))
         /\ Val(there.m)[Found(there)] = Values!At(p) /\ Values!At(p) # Missing
<1>1. \E mem : mem = Memory(hands)
  OBVIOUS
<1>2. PICK mem : mem = Memory(hands)
  BY <1>1
<1>3. Sound(mem)
  BY <1>2, MemoryHas
<1>4. there = Navigate(mem, p) /\ there.ok
  BY <1>2 DEF Visits
<1>5. Seen(mem, p.root, p.path, Len(p.path), there)
  BY <1>3, <1>4, NavigateSeen
<1>6. Visiting(mem, p, there.m, there.loc)
  BY <1>4, <1>5 DEF Seen, Visiting
<1>7. /\ There(mem, there.m, there.loc) /\ Found(there) \in Ref(Len(there.m.heap))
      /\ Val(there.m)[Found(there)] = ValueAt(mem, p) /\ ValueAt(mem, p) # Missing
  BY <1>3, <1>6, VisitingIs DEF Found
<1>8. Values!At(p) = ValueAt(mem, p)
  BY <1>2, AtSeen
<1>9. QED
  BY <1>2, <1>6, <1>7, <1>8

\* The forms under way, as a program sees them.
LEMMA ActiveIs ==
  ASSUME IInv
  PROVE  /\ Len(active) \in Nat /\ Len(Acts) = Len(active) /\ DOMAIN Acts = 1..Len(active)
         /\ \A k \in 1..Len(active) :
              /\ active[k] \in Forms(Len(heap)) /\ active[k].held \in Ref(Len(heap))
              /\ Acts[k] = [active[k] EXCEPT !.held = ValuesIn(heap)[@]]
              /\ Acts[k].held = ValuesIn(heap)[active[k].held]
              /\ Acts[k].form = active[k].form
              /\ active[k].form # "push" => active[k].place \in Place /\ Acts[k].place = active[k].place
<1> DEFINE F == Forms(Len(heap))
<1>1. active \in Seq(F) /\ Len(heap) \in Nat
  BY DEF IInv, Shape
<1> HIDE DEF F
<1>2. Len(active) \in Nat /\ \A k \in 1..Len(active) : active[k] \in F
  BY <1>1
<1>3. Len(Acts) = Len(active) /\ DOMAIN Acts = 1..Len(active)
  BY <1>2 DEF Acts
<1>4. \A f \in F : f.held \in Ref(Len(heap)) /\ f.form \in {"setf", "replace", "push"}
                   /\ (f.form # "push" => f.place \in Place)
  BY <1>1, FormsAre DEF F
<1>5. ASSUME NEW k \in 1..Len(active)
      PROVE  /\ Acts[k] = [active[k] EXCEPT !.held = ValuesIn(heap)[@]]
             /\ Acts[k].held = ValuesIn(heap)[active[k].held]
             /\ Acts[k].form = active[k].form
             /\ active[k].form # "push" => Acts[k].place = active[k].place
  <2>1. Acts[k] = [active[k] EXCEPT !.held = ValuesIn(heap)[@]]
    BY DEF Acts
  <2>2. active[k] \in F
    BY <1>2
  <2> DEFINE f == active[k]
             g == Acts[k]
             V == ValuesIn(heap)
  <2>3. f \in F /\ g = [f EXCEPT !.held = V[f.held]]
    BY <2>1, <2>2
  <2> HIDE DEF f, g, V
  <2>4. CASE f \in [form : {"setf", "replace"}, place : Place, held : Ref(Len(heap))]
    <3>1. g.held = V[f.held] /\ g.form = f.form /\ g.place = f.place
      BY <2>3, <2>4
    <3>2. QED
      BY <2>1, <3>1 DEF f, g, V
  <2>5. CASE f \in [form : {"push"}, held : Ref(Len(heap))]
    <3>1. g.held = V[f.held] /\ g.form = f.form /\ f.form = "push"
      BY <2>3, <2>5
    <3>2. QED
      BY <2>1, <3>1 DEF f, g, V
  <2>6. QED
    BY <2>3, <2>4, <2>5 DEF F, Forms
<1>6. QED
  BY <1>2, <1>3, <1>4, <1>5 DEF F

\* The forms under way are seen as they were.
LEMMA FormsSame ==
  ASSUME IInv, NEW m,
         \A k \in 1..Len(active) : Val(m)[active[k].held] = ValuesIn(heap)[active[k].held]
  PROVE  /\ FormsSeen(m, active) = Acts
         /\ active # <<>> => FormsSeen(m, Front(active)) = Values!Front(Acts)
<1>1. /\ Len(active) \in Nat /\ Len(Acts) = Len(active) /\ DOMAIN Acts = 1..Len(active)
      /\ \A k \in 1..Len(active) : Acts[k] = [active[k] EXCEPT !.held = ValuesIn(heap)[@]]
  BY ActiveIs
<1>2. \A k \in 1..Len(active) :
        [active[k] EXCEPT !.held = Val(m)[@]] = [active[k] EXCEPT !.held = ValuesIn(heap)[@]]
  OBVIOUS
<1>3. FormsSeen(m, active) = Acts
  BY <1>2 DEF FormsSeen, Acts
<1>4. ASSUME active # <<>>
      PROVE  FormsSeen(m, Front(active)) = Values!Front(Acts)
  <2> DEFINE n == Len(active) - 1
             F == Forms(Len(heap))
  <2>1. active \in Seq(F)
    BY DEF IInv, Shape
  <2>2. n \in Nat /\ Len(Front(active)) = n /\ \A k \in 1..n : Front(active)[k] = active[k]
    <3> HIDE DEF F
    <3>1. Len(active) # 0
      BY <1>4, <2>1
    <3>2. QED
      BY <1>1, <1>4, <2>1, <3>1, PopFacts DEF Front
  <2>3. \A k \in 1..n : k \in 1..Len(active)
    BY <1>1
  <2>4. Values!Front(Acts) = [k \in 1..n |-> Acts[k]]
    BY <1>1, <2>2 DEF Values!Front
  <2> HIDE DEF n
  <2>5. FormsSeen(m, Front(active)) = [k \in 1..n |-> [active[k] EXCEPT !.held = Val(m)[@]]]
    BY <2>2 DEF FormsSeen
  <2>6. QED
    BY <1>1, <1>2, <2>3, <2>4, <2>5
<1>5. QED
  BY <1>3, <1>4

\* Lists have been copied, and nothing else.
LEMMA UnchangedSeen ==
  ASSUME IInv, NEW hands \in Seq(Ref(Len(heap))), NEW mem, mem = Memory(hands),
         NEW m, Sound(m), SameView(mem, m)
  PROVE  /\ SlotsSeen(m) = Vals /\ FormsSeen(m, active) = Acts
         /\ active # <<>> => FormsSeen(m, Front(active)) = Values!Front(Acts)
<1>1. mem.heap = heap /\ mem.globals = globals /\ Val(mem) = ValuesIn(heap)
  BY MemoryHas
<1>2. SlotsSeen(m) = Vals
  BY <1>1 DEF SlotsSeen, Vals, SameView
<1>3. \A k \in 1..Len(active) : active[k].held \in Ref(Len(heap))
  BY ActiveIs
<1>4. \A k \in 1..Len(active) : Val(m)[active[k].held] = ValuesIn(heap)[active[k].held]
  BY <1>1, <1>3 DEF SameView
<1>5. QED
  BY <1>2, <1>4, FormsSame

\* A place has been written, and nothing else.
LEMMA WrittenSeen ==
  ASSUME IInv, NEW hands \in Seq(Ref(Len(heap))), NEW mem, mem = Memory(hands), NEW p \in Place,
         NEW v, NEW new, Written(mem, p, v, new)
  PROVE  /\ SlotsSeen(new) = [Vals EXCEPT ![p.root] = Values!WithPart(@, p.path, v)]
         /\ FormsSeen(new, active) = Acts
         /\ active # <<>> => FormsSeen(new, Front(active)) = Values!Front(Acts)
<1>1. /\ mem.heap = heap /\ mem.globals = globals /\ Val(mem) = ValuesIn(heap)
      /\ \A k \in 1..Len(active) : active[k].held \in InHand(mem)
  BY MemoryHas
<1>2. SlotsSeen(new) = [Vals EXCEPT ![p.root] = Values!WithPart(@, p.path, v)]
  BY <1>1 DEF SlotsSeen, Vals, Written, Rewritten
<1>3. \A k \in 1..Len(active) : Val(new)[active[k].held] = ValuesIn(heap)[active[k].held]
  BY <1>1 DEF Written
<1>4. QED
  BY <1>2, <1>3, FormsSame

\* An expression has the value a program sees.
LEMMA ValueSeen ==
  ASSUME AtomsAreNoLists, IInv, NEW e \in Expressions
  PROVE  Values!ValueOf(e) = ValuesIn(heap)[ValueOf(e)]
<1>1. <<>> \in Seq(Ref(Len(heap))) /\ \E mem : mem = Memory(<<>>)
  BY NoHands
<1>2. PICK mem : mem = Memory(<<>>)
  BY <1>1
<1>3. Sound(mem) /\ mem.heap = heap /\ mem.globals = globals /\ Val(mem) = ValuesIn(heap)
  BY <1>1, <1>2, MemoryHas
<1>4. \A a \in Atoms : ValuesIn(heap)[a] = a
  BY <1>3, ValFits DEF Fits
<1>5. ASSUME NEW p \in Place
      PROVE  /\ Values!At(p) = Missing <=> At(p) = Missing
             /\ Values!At(p) = ValuesIn(heap)[At(p)]
  <2>1. Reached(mem, p) = At(p)
    BY <1>3 DEF Reached, At
  <2>2. Values!At(p) = ValueAt(mem, p)
    BY <1>1, <1>2, AtSeen
  <2>3. p.root \in Symbols /\ p.path \in Seq(Int)
    BY PlaceAssumption DEF Place
  <2>4. QED
    BY <1>3, <2>1, <2>2, <2>3, ReachedSeen
<1>6. Values!ItValue = ValuesIn(heap)[ItValue]
  <2>1. /\ Len(active) \in Nat
        /\ \A k \in 1..Len(active) : Acts[k].form = active[k].form
                                     /\ Acts[k].held = ValuesIn(heap)[active[k].held]
        /\ Len(Acts) = Len(active)
    BY ActiveIs
  <2>2. Values!Setfs = Setfs
    <3>1. Values!Setfs = {k \in 1..Len(Acts) : Acts[k].form = "setf"}
      BY DEF Values!Setfs, Acts
    <3>2. QED
      BY <2>1, <3>1 DEF Setfs
  <2>3. Values!ItValue = IF Setfs = {} THEN Nil ELSE Acts[Max(Setfs)].held
    BY <2>2 DEF Values!ItValue, Values!Max, Max, Acts
  <2>4. CASE Setfs = {}
    BY <1>4, <2>3, <2>4, PlaceAssumption DEF ItValue
  <2>5. CASE Setfs # {}
    <3> DEFINE b == Len(active)
    <3>1. b \in Nat /\ Setfs \in SUBSET (0..b) /\ Setfs \subseteq 1..b
      BY <2>1 DEF Setfs
    <3>2. PICK x \in Setfs : \A y \in Setfs : y <= x
      <4> HIDE DEF b
      <4>1. QED
        BY <2>5, <3>1, GreatestElement
    <3>3. \A y \in Setfs : x >= y
      BY <3>1, <3>2
    <3>4. Max(Setfs) \in Setfs
      BY <3>3 DEF Max
    <3>5. Acts[Max(Setfs)].held = ValuesIn(heap)[active[Max(Setfs)].held]
      BY <2>1, <3>1, <3>4
    <3>6. QED
      BY <2>3, <2>5, <3>5 DEF ItValue
  <2>6. QED
    BY <2>4, <2>5
<1>7. CASE e \in Atoms
  BY <1>4, <1>7 DEF ValueOf, Values!ValueOf
<1>8. CASE e \notin Atoms /\ e = It
  BY <1>6, <1>8 DEF ValueOf, Values!ValueOf
<1>9. CASE e \notin Atoms /\ e # It
  <2>1. e \in Place
    BY <1>9 DEF Expressions
  <2>2. ValuesIn(heap)[Nil] = Nil
    BY <1>4, PlaceAssumption
  <2>3. QED
    BY <1>5, <1>9, <2>1, <2>2 DEF ValueOf, Values!ValueOf
<1>10. QED
  BY <1>7, <1>8, <1>9

-----------------------------------------------------------------------------
(* Changing a list and then looking at it, or the other way round. *)

LEMMA MappedIs ==
  ASSUME NEW S, NEW s \in Seq(S), NEW V
  PROVE  LET T == {V[x] : x \in S} IN
         /\ Mapped(V, s) \in Seq(T) /\ Len(Mapped(V, s)) = Len(s)
         /\ \A i \in 1..Len(s) : Mapped(V, s)[i] = V[s[i]]
<1> DEFINE T == {V[x] : x \in S}
           n == Len(s)
           at(i) == V[s[i]]
<1>1. n \in Nat /\ \A i \in 1..n : at(i) \in T
  OBVIOUS
<1>2. Mapped(V, s) = [i \in 1..n |-> at(i)]
  BY DEF Mapped
<1> HIDE DEF n, at, T
<1>3. QED
  BY <1>1, <1>2 DEF n, at, T

\* Two sequences of the same elements.
LEMMA SameSequences ==
  ASSUME NEW T, NEW s \in Seq(T), NEW t \in Seq(T), Len(s) = Len(t),
         \A i \in 1..Len(s) : s[i] = t[i]
  PROVE  s = t
OBVIOUS

\* What a joined list stands for is joined from what its parts stand for;
LEMMA MappedConcat ==
  ASSUME NEW S, NEW s \in Seq(S), NEW t \in Seq(S), NEW V
  PROVE  Mapped(V, s \o t) = Mapped(V, s) \o Mapped(V, t)
<1> DEFINE T == {V[x] : x \in S}
           u == s \o t
           a == Mapped(V, s)
           b == Mapped(V, t)
           c == Mapped(V, u)
<1>1. /\ u \in Seq(S) /\ Len(u) = Len(s) + Len(t) /\ Len(s) \in Nat /\ Len(t) \in Nat
      /\ \A i \in 1 .. Len(s) + Len(t) : u[i] = IF i <= Len(s) THEN s[i] ELSE t[i - Len(s)]
  BY ConcatProperties
<1>2. a \in Seq(T) /\ Len(a) = Len(s) /\ \A i \in 1..Len(s) : a[i] = V[s[i]]
  BY MappedIs
<1>3. b \in Seq(T) /\ Len(b) = Len(t) /\ \A i \in 1..Len(t) : b[i] = V[t[i]]
  BY MappedIs
<1>4. c \in Seq(T) /\ Len(c) = Len(u) /\ \A i \in 1..Len(u) : c[i] = V[u[i]]
  <2>1. u \in Seq(S)
    BY <1>1
  <2> HIDE DEF u, a, b
  <2>2. QED
    BY ZenonT(30), <2>1, MappedIs
<1> HIDE DEF T, a, b, c, u
<1> DEFINE d == a \o b
<1>5. /\ d \in Seq(T) /\ Len(d) = Len(a) + Len(b)
      /\ \A i \in 1 .. Len(a) + Len(b) : d[i] = IF i <= Len(a) THEN a[i] ELSE b[i - Len(a)]
  BY <1>2, <1>3, ConcatProperties
<1> HIDE DEF d
<1>6. ASSUME NEW i \in 1..Len(c)
      PROVE  c[i] = d[i]
  <2>1. c[i] = V[u[i]] /\ i \in 1 .. Len(s) + Len(t)
    BY <1>1, <1>4
  <2>2. CASE i <= Len(s)
    <3>1. i \in 1..Len(s) /\ d[i] = a[i] /\ u[i] = s[i]
      BY <1>1, <1>2, <1>3, <1>5, <2>1, <2>2
    <3>2. QED
      BY <1>2, <2>1, <3>1
  <2>3. CASE ~ (i <= Len(s))
    <3>1. i - Len(s) \in 1..Len(t) /\ d[i] = b[i - Len(s)] /\ u[i] = t[i - Len(s)]
      BY <1>1, <1>2, <1>3, <1>5, <2>1, <2>3
    <3>2. QED
      BY <1>3, <2>1, <3>1
  <2>4. QED
    BY <2>2, <2>3
<1>7. Len(c) = Len(d)
  BY <1>1, <1>2, <1>3, <1>4, <1>5
<1>8. c = d
  BY <1>4, <1>5, <1>6, <1>7, SameSequences
<1>9. QED
  BY <1>8 DEF a, b, c, d, u

\* the same of a part,
LEMMA MappedPart ==
  ASSUME NEW S, NEW s \in Seq(S), NEW V, NEW i \in Int, NEW j \in Int, 1 <= i, j <= Len(s)
  PROVE  /\ Mapped(V, SubSeq(s, i, j)) = SubSeq(Mapped(V, s), i, j)
         /\ SubSeq(s, i, j) \in Seq(S)
<1> DEFINE T == {V[x] : x \in S}
           n == IF i <= j THEN j - i + 1 ELSE 0
           u == SubSeq(s, i, j)
           a == Mapped(V, s)
<1>1. Len(s) \in Nat /\ \A k \in i..j : s[k] \in S
  OBVIOUS
<1>2. u \in Seq(S) /\ Len(u) = n /\ \A k \in 1..n : u[k] = s[i + k - 1]
  BY <1>1, SubSeqProperties
<1>3. a \in Seq(T) /\ Len(a) = Len(s) /\ \A k \in 1..Len(s) : a[k] = V[s[k]]
  BY MappedIs
<1> HIDE DEF u, a, T
<1>4. \A k \in i..j : a[k] \in T
  BY <1>1, <1>3
<1> DEFINE d == SubSeq(a, i, j)
           c == Mapped(V, u)
<1>5. d \in Seq(T) /\ Len(d) = n /\ \A k \in 1..n : d[k] = a[i + k - 1]
  BY <1>3, <1>4, SubSeqProperties
<1>6. c \in Seq(T) /\ Len(c) = Len(u) /\ \A k \in 1..Len(u) : c[k] = V[u[k]]
  BY ZenonT(30), <1>2, MappedIs DEF T
<1> HIDE DEF c, d
<1>7. \A k \in 1..n : i + k - 1 \in 1..Len(s)
  BY <1>1
<1> HIDE DEF n
<1>8. \A k \in 1..n : c[k] = d[k]
  BY ZenonT(30), <1>2, <1>3, <1>5, <1>6, <1>7
<1>9. c = d
  BY <1>2, <1>5, <1>6, <1>8, SameSequences
<1>10. QED
  BY <1>2, <1>9 DEF c, d, u, a

\* of the length,
LEMMA MappedLength ==
  ASSUME NEW S, NEW s \in Seq(S), NEW V
  PROVE  Len(s) \in Nat /\ Len(Mapped(V, s)) = Len(s)
<1> DEFINE n == Len(s)
           at(i) == V[s[i]]
<1>1. n \in Nat /\ Mapped(V, s) = [i \in 1..n |-> at(i)]
  BY DEF Mapped
<1> HIDE DEF n, at
<1>2. Len(Mapped(V, s)) = n
  BY <1>1
<1>3. QED
  BY <1>1, <1>2 DEF n

\* of a single element,
LEMMA MappedOne ==
  ASSUME NEW V, NEW x
  PROVE  Mapped(V, <<x>>) = <<V[x]>>
<1> DEFINE s == <<x>>
           y == V[x]
           c == Mapped(V, s)
           d == <<y>>
<1>1. Len(s) = 1 /\ s[1] = x
  OBVIOUS
<1> HIDE DEF s
<1>2. c = [i \in 1..1 |-> V[s[i]]]
  BY <1>1 DEF Mapped
<1>3. c = [i \in 1..1 |-> y]
  BY <1>1, <1>2
<1> HIDE DEF y, c
<1>4. c = d
  BY <1>3
<1>5. QED
  BY <1>4 DEF c, s, y

\* and of a list with an element inserted or removed, or turned round.
LEMMA MappedChanges ==
  ASSUME NEW S, NEW s \in Seq(S), NEW V
  PROVE  /\ \A x \in S : \A i \in 1..Len(s) + 1 :
              Mapped(V, InsertAt(s, i, x)) = InsertAt(Mapped(V, s), i, V[x])
         /\ \A i \in 1..Len(s) : Mapped(V, RemoveAt(s, i)) = RemoveAt(Mapped(V, s), i)
         /\ Mapped(V, Reverse(s)) = Reverse(Mapped(V, s))
<1> DEFINE a == Mapped(V, s)
<1>0. Len(s) \in Nat /\ Len(a) = Len(s)
  BY MappedLength
<1>1. ASSUME NEW x \in S, NEW i \in 1..Len(s) + 1
      PROVE  Mapped(V, InsertAt(s, i, x)) = InsertAt(Mapped(V, s), i, V[x])
  <2> DEFINE front == SubSeq(s, 1, i - 1)
             back == SubSeq(s, i, Len(s))
             one == <<x>>
  <2>1. front \in Seq(S) /\ Mapped(V, front) = SubSeq(a, 1, i - 1)
    BY <1>0, MappedPart
  <2>2. back \in Seq(S) /\ Mapped(V, back) = SubSeq(a, i, Len(s))
    BY <1>0, MappedPart
  <2>3. one \in Seq(S) /\ Mapped(V, one) = <<V[x]>>
    BY MappedOne
  <2> HIDE DEF front, back, one, a
  <2> DEFINE most == front \o one
  <2>4. most \in Seq(S)
    BY <2>1, <2>3, ConcatProperties
  <2>5. Mapped(V, most) = Mapped(V, front) \o Mapped(V, one)
    BY <2>1, <2>3, MappedConcat
  <2> HIDE DEF most
  <2>6. Mapped(V, most \o back) = Mapped(V, most) \o Mapped(V, back)
    BY <2>2, <2>4, MappedConcat
  <2>7. InsertAt(s, i, x) = most \o back
    BY DEF InsertAt, most, front, one, back
  <2>8. InsertAt(a, i, V[x]) = (SubSeq(a, 1, i - 1) \o <<V[x]>>) \o SubSeq(a, i, Len(s))
    BY <1>0 DEF InsertAt
  <2>9. QED
    BY <2>1, <2>2, <2>3, <2>5, <2>6, <2>7, <2>8 DEF a
<1>2. ASSUME NEW i \in 1..Len(s)
      PROVE  Mapped(V, RemoveAt(s, i)) = RemoveAt(Mapped(V, s), i)
  <2> DEFINE front == SubSeq(s, 1, i - 1)
             back == SubSeq(s, i + 1, Len(s))
  <2>1. front \in Seq(S) /\ Mapped(V, front) = SubSeq(a, 1, i - 1)
    BY <1>0, MappedPart
  <2>2. back \in Seq(S) /\ Mapped(V, back) = SubSeq(a, i + 1, Len(s))
    BY <1>0, MappedPart
  <2> HIDE DEF front, back, a
  <2>3. Mapped(V, front \o back) = Mapped(V, front) \o Mapped(V, back)
    BY <2>1, <2>2, MappedConcat
  <2>4. RemoveAt(s, i) = front \o back
    BY DEF RemoveAt, front, back
  <2>5. RemoveAt(a, i) = SubSeq(a, 1, i - 1) \o SubSeq(a, i + 1, Len(s))
    BY <1>0 DEF RemoveAt
  <2>6. QED
    BY <2>1, <2>2, <2>3, <2>4, <2>5 DEF a
<1>3. Mapped(V, Reverse(s)) = Reverse(Mapped(V, s))
  <2> DEFINE n == Len(s)
  <2>1. \A i \in 1..n : a[i] = V[s[i]]
    BY MappedIs
  <2> HIDE DEF a
  <2>2. \A i \in 1..n : (n - i) + 1 \in 1..n
    BY <1>0
  <2>3. Reverse(a) = [i \in 1..n |-> a[(n - i) + 1]]
    BY <1>0 DEF Reverse
  <2>4. Len(Reverse(s)) = n /\ \A i \in 1..n : Reverse(s)[i] = s[(n - i) + 1]
    BY <1>0 DEF Reverse
  <2>5. Mapped(V, Reverse(s)) = [i \in 1..n |-> V[Reverse(s)[i]]]
    BY <2>4 DEF Mapped
  <2>6. Mapped(V, Reverse(s)) = Reverse(a)
    BY <2>1, <2>2, <2>3, <2>4, <2>5
  <2>7. QED
    BY <2>6 DEF a
<1>4. QED
  BY <1>1, <1>2, <1>3

-----------------------------------------------------------------------------
(* Each step, as a program sees it. *)

\* A form that ends, or one that is over at once, has written its place.
\* The slots, with a place written.
WithWritten(slots, p, v) == [slots EXCEPT ![p.root] = Values!WithPart(@, p.path, v)]

\* A form that ends after a write shows that write, and itself ended.
LEMMA WriteEnds ==
  ASSUME IInv, NEW hands \in Seq(Ref(Len(heap))), NEW p \in Place, NEW v, NEW new,
         Written(Memory(hands), p, v, new)
  PROVE  /\ Becomes(new, active) => Vals' = WithWritten(Vals, p, v) /\ Acts' = Acts
         /\ active # <<>> /\ Becomes(new, Front(active)) =>
              Vals' = WithWritten(Vals, p, v) /\ Acts' = Values!Front(Acts)
<1> DEFINE mem == Memory(hands)
           l == Len(new.heap)
<1>1. Sound(new) /\ Len(mem.heap) <= l /\ mem.heap = heap
  BY MemoryHas DEF Written
<1>2. l \in Nat /\ Len(heap) <= l
  BY <1>1 DEF Sound, WellFormed
<1> HIDE DEF l, mem
<1>3. active \in Seq(Forms(l)) /\ (active # <<>> => Front(active) \in Seq(Forms(l)))
  BY <1>2, FormsKept
<1>4. /\ SlotsSeen(new) = WithWritten(Vals, p, v)
      /\ FormsSeen(new, active) = Acts
      /\ active # <<>> => FormsSeen(new, Front(active)) = Values!Front(Acts)
  BY WrittenSeen DEF WithWritten
<1>5. Becomes(new, active) => Vals' = SlotsSeen(new) /\ Acts' = FormsSeen(new, active)
  BY <1>1, <1>3, BecomesSeen DEF l
<1> DEFINE f == Front(active)
<1>6. active # <<>> /\ Becomes(new, f) => Vals' = SlotsSeen(new) /\ Acts' = FormsSeen(new, f)
  <2> SUFFICES ASSUME active # <<>>, Becomes(new, f)
               PROVE  Vals' = SlotsSeen(new) /\ Acts' = FormsSeen(new, f)
    OBVIOUS
  <2>1. f \in Seq(Forms(Len(new.heap)))
    BY <1>3 DEF l
  <2> HIDE DEF f
  <2>2. QED
    BY <1>1, <2>1, BecomesSeen
<1>7. QED
  BY <1>4, <1>5, <1>6

\* The same when nothing that can be seen has been written.
LEMMA UnseenEnds ==
  ASSUME IInv, NEW hands \in Seq(Ref(Len(heap))), NEW m,
         Sound(m), SameView(Memory(hands), m), Len(heap) <= Len(m.heap)
  PROVE  /\ Becomes(m, active) => Vals' = Vals /\ Acts' = Acts
         /\ active # <<>> /\ Becomes(m, Front(active)) => Vals' = Vals /\ Acts' = Values!Front(Acts)
<1> DEFINE l == Len(m.heap)
<1>2. l \in Nat /\ Len(heap) <= l
  BY DEF Sound, WellFormed
<1> HIDE DEF l
<1>3. active \in Seq(Forms(l)) /\ (active # <<>> => Front(active) \in Seq(Forms(l)))
  BY <1>2, FormsKept
<1>4. /\ SlotsSeen(m) = Vals /\ FormsSeen(m, active) = Acts
      /\ active # <<>> => FormsSeen(m, Front(active)) = Values!Front(Acts)
  BY UnchangedSeen
<1>5. Becomes(m, active) => Vals' = SlotsSeen(m) /\ Acts' = FormsSeen(m, active)
  BY <1>3, BecomesSeen DEF l
<1> DEFINE f == Front(active)
<1>6. active # <<>> /\ Becomes(m, f) => Vals' = SlotsSeen(m) /\ Acts' = FormsSeen(m, f)
  <2> SUFFICES ASSUME active # <<>>, Becomes(m, f)
               PROVE  Vals' = SlotsSeen(m) /\ Acts' = FormsSeen(m, f)
    OBVIOUS
  <2>1. f \in Seq(Forms(Len(m.heap)))
    BY <1>3 DEF l
  <2> HIDE DEF f
  <2>2. QED
    BY <2>1, BecomesSeen
<1>7. QED
  BY <1>4, <1>5, <1>6

\* The innermost form, and that it finishes.
LEMMA FinishingSeen ==
  ASSUME IInv, NEW form, Finishing(form)
  PROVE  /\ active # <<>>
         /\ Acts' = Values!Front(Acts) => Values!Finishes(form)
         /\ Innermost.held \in Ref(Len(heap))
         /\ Values!Innermost.held = ValuesIn(heap)[Innermost.held]
         /\ form # "push" => Innermost.place \in Place /\ Values!Innermost.place = Innermost.place
<1> DEFINE n == Len(active)
<1>1. active # <<>> /\ Innermost.form = form
  BY DEF Finishing
<1>2. n \in Nat /\ active \in Seq(Forms(Len(heap)))
  BY ActiveIs DEF IInv, Shape
<1>3. n \in 1..n
  BY <1>1, <1>2
<1>4. Values!Innermost = Acts[Len(Acts)] /\ Len(Acts) = n /\ Acts # <<>>
  <2>1. Values!Innermost = Acts[Len(Acts)]
    BY DEF Values!Innermost, Acts
  <2>2. Len(Acts) = n
    BY ActiveIs
  <2>3. QED
    BY <1>3, <2>1, <2>2
<1>5. /\ active[n].held \in Ref(Len(heap))
      /\ Acts[n].held = ValuesIn(heap)[active[n].held]
      /\ Acts[n].form = active[n].form
      /\ active[n].form # "push" => active[n].place \in Place /\ Acts[n].place = active[n].place
  BY <1>3, ActiveIs
<1>6. Innermost = active[n]
  BY DEF Innermost
<1>7. Values!Finishes(form) <=>
        Acts # <<>> /\ Values!Innermost.form = form /\ Acts' = Values!Front(Acts)
  BY DEF Values!Finishes, Acts
<1> HIDE DEF n
<1>8. Values!Innermost = Acts[n]
  BY <1>4
<1>9. QED
  BY <1>1, <1>4, <1>5, <1>6, <1>7, <1>8

\* set and define, seen as values, are those of Places: the shared list looks like a copy.
LEMMA AssignSeen ==
  ASSUME AtomsAreNoLists, IInv, NEW s \in Symbols, NEW e \in Expressions, Assign(s, e)
  PROVE  Values!Assign(s, e)
<1> DEFINE mem == Memory(<<>>)
           loc == SlotOf(s)
           r == ValueOf(e)
           none == {}
<1>1. <<>> \in Seq(Ref(Len(heap)))
  BY NoHands
<1>2. Sound(mem) /\ mem.heap = heap /\ mem.globals = globals /\ Val(mem) = ValuesIn(heap)
  BY <1>1, MemoryHas
<1>3. Own(mem, none) /\ Within(mem, loc, none) /\ none \subseteq 1..Len(mem.heap)
  BY DEF Own, Within
<1>4. r \in Ref(Len(mem.heap)) /\ r \notin none
  BY <1>2, ValueIsRef
<1>5. PICK new : new = Store(mem, loc, r)
  OBVIOUS
<1>6. Becomes(new, active)
  BY <1>5 DEF Assign
<1> HIDE DEF mem, r, none
<1>7. Sound(new) /\ Len(new.heap) = Len(heap)
  <2> HIDE DEF loc
  <2>1. QED
    BY <1>2, <1>3, <1>4, <1>5, StoreSound
<1>8. SameElsewhere(mem, loc, none, new) /\ Held(new, loc) = r
  <2> HIDE DEF loc
  <2>1. SameElsewhere(mem, loc, {}, new) /\ Stored(mem, loc, r, new)
    BY <1>2, <1>3, <1>4, <1>5, StoreElsewhere DEF Sound
  <2>2. QED
    BY <2>1 DEF Stored, none
<1>9. \A x \in Ref(Len(mem.heap)) : Val(new)[x] = Val(mem)[x]
  <2> HIDE DEF loc
  <2>1. none \subseteq none /\ \A x : x \notin none
    BY DEF none
  <2>2. \A x \in Ref(Len(mem.heap)) : x \notin none => Val(new)[x] = Val(mem)[x]
    BY <1>2, <1>3, <1>7, <1>8, <2>1, OutsideSame
  <2>3. QED
    BY <2>1, <2>2
<1>10. SlotsSeen(new) = [Vals EXCEPT ![s] = ValuesIn(heap)[r]]
  <2>1. new.globals[s] = r
    BY <1>8, LocationsDiffer DEF Held
  <2>2. \A t \in Symbols : t # s => new.globals[t] = globals[t]
    BY <1>2, <1>8, LocationsDiffer DEF SameElsewhere, SameSlots
  <2>3. \A t \in Symbols : globals[t] \in Ref(Len(mem.heap))
    BY <1>2, MemoryParts DEF Sound
  <2>4. \A t \in Symbols : Val(new)[new.globals[t]] = IF t = s THEN ValuesIn(heap)[r]
                                                      ELSE ValuesIn(heap)[globals[t]]
    BY <1>2, <1>4, <1>9, <2>1, <2>2, <2>3
  <2>5. QED
    BY <2>4 DEF SlotsSeen, Vals
<1>11. FormsSeen(new, active) = Acts
  <2>1. \A k \in 1..Len(active) : active[k].held \in Ref(Len(heap))
    BY ActiveIs
  <2>2. \A k \in 1..Len(active) : Val(new)[active[k].held] = ValuesIn(heap)[active[k].held]
    BY <1>2, <1>9, <2>1
  <2>3. QED
    BY <2>2, FormsSame
<1>12. Vals' = SlotsSeen(new) /\ Acts' = FormsSeen(new, active)
  <2> DEFINE l == Len(new.heap)
  <2>1. l \in Nat /\ Len(heap) <= l
    BY <1>7 DEF IInv, Shape
  <2> HIDE DEF l
  <2>2. active \in Seq(Forms(l))
    BY <2>1, FormsKept
  <2>3. QED
    BY <1>6, <1>7, <2>2, BecomesSeen DEF l
<1>13. Values!ValueOf(e) = ValuesIn(heap)[r]
  BY ValueSeen DEF r
<1>14. Vals' = [Vals EXCEPT ![s] = Values!ValueOf(e)] /\ Acts' = Acts
  BY <1>10, <1>11, <1>12, <1>13
<1>15. QED
  BY <1>14 DEF Values!Assign, Vals, Acts

\* A form begins with a value in hand.
LEMMA AppendSeen ==
  ASSUME IInv, NEW m, FormsSeen(m, active) = Acts, NEW f
  PROVE  FormsSeen(m, Append(active, f)) = Append(Acts, [f EXCEPT !.held = Val(m)[@]])
<1> DEFINE F == Forms(Len(heap))
           n == Len(active)
           more == Append(active, f)
           g == [f EXCEPT !.held = Val(m)[@]]
<1>1. active \in Seq(F)
  BY DEF IInv, Shape
<1> HIDE DEF F
<1>2. /\ n \in Nat /\ Len(more) = n + 1 /\ more[n + 1] = f
      /\ \A k \in 1..n : more[k] = active[k]
  BY <1>1
<1>3. Len(Acts) = n /\ DOMAIN Acts = 1..n
  BY ActiveIs
<1>4. \A k \in 1..n : Acts[k] = [active[k] EXCEPT !.held = Val(m)[@]]
  BY DEF FormsSeen
<1> HIDE DEF more, n
<1> DEFINE seen == FormsSeen(m, more)
           added == Append(Acts, g)
<1>5. seen = [k \in 1..n + 1 |-> [more[k] EXCEPT !.held = Val(m)[@]]]
  BY <1>2 DEF FormsSeen
<1>6. added = [k \in 1..n + 1 |-> IF k = n + 1 THEN g ELSE Acts[k]]
  BY <1>2, <1>3
<1>7. ASSUME NEW k \in 1..n + 1
      PROVE  [more[k] EXCEPT !.held = Val(m)[@]] = IF k = n + 1 THEN g ELSE Acts[k]
  <2>1. CASE k = n + 1
    <3>1. more[k] = f
      BY <1>2, <2>1
    <3>2. [more[k] EXCEPT !.held = Val(m)[@]] = g
      BY <3>1
    <3>3. QED
      BY <2>1, <3>2
  <2>2. CASE k # n + 1
    <3>1. k \in 1..n
      BY <1>2, <2>2
    <3>2. QED
      BY <1>2, <1>4, <2>2, <3>1
  <2>3. QED
    BY <2>1, <2>2
<1>8. QED
  BY ZenonT(30), <1>5, <1>6, <1>7 DEF more

\* So are setf and replace reading their place,
LEMMA BeginReadingSeen ==
  ASSUME AtomsAreNoLists, IInv, NEW form \in {"setf", "replace"}, NEW p \in Place,
         BeginReading(form, p)
  PROVE  Values!BeginReading(form, p)
<1>1. PICK there \in Visits(<<>>, p) :
        Becomes(there.m, Append(active, Resolved(form, p, Found(there))))
  BY DEF BeginReading
<1>2. <<>> \in Seq(Ref(Len(heap)))
  BY NoHands
<1> DEFINE m == there.m
           l == Len(m.heap)
           f == Resolved(form, p, Found(there))
           mem == Memory(<<>>)
<1>3. /\ Visiting(mem, p, m, there.loc) /\ Found(there) \in Ref(l)
      /\ Val(m)[Found(there)] = Values!At(p) /\ Values!At(p) # Missing
  BY <1>2, VisitSeen
<1>4. mem.heap = heap
  BY NoHands
<1> HIDE DEF mem
<1>5. Sound(m) /\ Len(heap) <= l /\ l \in Nat /\ SameView(mem, m)
  BY <1>3, <1>4 DEF Visiting, Kept, Sound, WellFormed
<1>6. f \in Forms(l)
  BY <1>3 DEF Resolved, Forms
<1> HIDE DEF l, f, m
<1>7. Append(active, f) \in Seq(Forms(l))
  BY <1>5, <1>6, FormsKept
<1>8. Becomes(m, Append(active, f))
  BY <1>1 DEF f, m
<1> DEFINE forms == Append(active, f)
<1>9. forms \in Seq(Forms(Len(m.heap))) /\ Becomes(m, forms)
  BY <1>7, <1>8 DEF l
<1> HIDE DEF forms
<1>10. Vals' = SlotsSeen(m) /\ Acts' = FormsSeen(m, forms)
  BY <1>5, <1>9, BecomesSeen
<1>11. SlotsSeen(m) = Vals /\ FormsSeen(m, active) = Acts
  BY <1>2, <1>5, UnchangedSeen DEF mem
<1>12. Acts' = Append(Acts, [f EXCEPT !.held = Val(m)[@]])
  BY <1>10, <1>11, AppendSeen DEF forms
<1>13. [f EXCEPT !.held = Val(m)[@]] = Values!Resolved(form, p, Values!At(p))
  BY <1>3 DEF f, Resolved, Values!Resolved, m
<1>14. Len(Acts) < MaxActive
  BY ActiveIs DEF BeginReading, Room
<1>15. Values!Begin(Values!Resolved(form, p, Values!At(p)))
  <2> DEFINE g == Values!Resolved(form, p, Values!At(p))
  <2>1. Acts' = Append(Acts, g) /\ Vals' = Vals
    BY <1>10, <1>11, <1>12, <1>13
  <2> HIDE DEF g
  <2>2. Values!Begin(g)
    BY <1>14, <2>1 DEF Values!Begin, Vals, Acts
  <2>3. QED
    BY <2>2 DEF g
<1>16. QED
  BY <1>3, <1>15 DEF Values!BeginReading

\* push with its value,
LEMMA BeginPushSeen ==
  ASSUME AtomsAreNoLists, IInv, NEW e \in Expressions, BeginPush(e)
  PROVE  Values!BeginPush(e)
<1> DEFINE mem == Memory(<<>>)
           f == Holding("push", ValueOf(e))
           g == Values!Holding("push", Values!ValueOf(e))
<1>1. Val(mem) = ValuesIn(heap) /\ FormsSeen(mem, active) = Acts
  <2>1. <<>> \in Seq(Ref(Len(heap)))
    BY NoHands
  <2>2. Val(mem) = ValuesIn(heap)
    BY <2>1, MemoryHas
  <2>3. QED
    BY <2>2 DEF FormsSeen, Acts
<1>2. heap' = heap /\ globals' = globals /\ active' = Append(active, f)
  BY DEF BeginPush
<1>3. [f EXCEPT !.held = Val(mem)[@]] = g
  BY <1>1, ValueSeen DEF Holding, Values!Holding
<1> HIDE DEF f, g, mem
<1>4. FormsSeen(mem, Append(active, f)) = Append(Acts, g)
  BY <1>1, <1>3, AppendSeen
<1>5. Acts' = FormsSeen(mem, Append(active, f))
  BY <1>1, <1>2 DEF FormsSeen, Acts
<1>6. Vals' = Vals
  BY <1>2 DEF Vals
<1>7. Len(Acts) < MaxActive
  BY ActiveIs DEF BeginPush, Room
<1>8. Values!Begin(g)
  BY <1>4, <1>5, <1>6, <1>7 DEF Values!Begin, Vals, Acts
<1>9. QED
  BY <1>8 DEF Values!BeginPush, g

\* setf writing,
LEMMA EndSetfSeen ==
  ASSUME AtomsAreNoLists, IInv, NEW e \in Expressions, EndSetf(e)
  PROVE  Values!EndSetf(e)
<1> DEFINE r == ValueOf(e)
           hands == <<r>>
           mem == Memory(hands)
           p == Innermost.place
<1>1. Finishing("setf")
  BY DEF EndSetf
<1>2. /\ active # <<>> /\ (Acts' = Values!Front(Acts) => Values!Finishes("setf"))
      /\ p \in Place /\ Values!Innermost.place = p
  BY <1>1, FinishingSeen
<1>3. PICK there \in Visits(hands, p) : Becomes(Store(there.m, there.loc, r), Front(active))
  BY DEF EndSetf
<1>4. hands \in Seq(Ref(Len(heap))) /\ Len(hands) = 1 /\ hands[1] = r
  BY OneHand
<1> HIDE DEF hands, r, p
<1>5. Sound(mem) /\ Val(mem) = ValuesIn(heap) /\ r \in InHand(mem)
  BY <1>4, MemoryHas
<1>6. Visiting(mem, p, there.m, there.loc) /\ Values!At(p) # Missing
  BY <1>2, <1>3, <1>4, VisitSeen
<1>7. PICK new : new = Store(there.m, there.loc, r)
  OBVIOUS
<1> HIDE DEF mem
<1>8. Written(mem, p, Val(mem)[r], new)
  BY <1>2, <1>5, <1>6, <1>7, StoreWrites
<1> DEFINE v == Val(mem)[r]
<1> HIDE DEF v
<1>9. Written(Memory(hands), p, v, new)
  BY <1>8 DEF v, mem
<1>10. Vals' = WithWritten(Vals, p, v) /\ Acts' = Values!Front(Acts)
  BY <1>2, <1>3, <1>4, <1>7, <1>9, WriteEnds
<1>11. v = Values!ValueOf(e)
  BY <1>5, ValueSeen DEF v, r
<1>12. QED
  BY <1>2, <1>6, <1>10, <1>11 DEF Values!EndSetf, Values!Write, WithWritten, Vals, Acts

\* Replacing in the value of a list, or in the list.
LEMMA ReplacedSeen ==
  ASSUME NEW V, NEW W, NEW list, Len(list) \in Nat, Len(W) = Len(list),
         NEW key, NEW r,
         \A i \in 1..Len(list) : W[i] = V[list[i]] /\ (V[list[i]] = key <=> list[i] = key),
         Values!IsList(W)
  PROVE  Mapped(V, Replaced(list, key, r)) = Values!Replaced(W, key, V[r])
<1> DEFINE n == Len(list)
           new == Replaced(list, key, r)
           at(i) == IF list[i] = key THEN r ELSE list[i]
<1>1. n \in Nat /\ new = [i \in 1..n |-> at(i)]
  BY DEF Replaced
<1> HIDE DEF n, at, new
<1>2. Len(new) = n /\ \A i \in 1..n : new[i] = at(i)
  BY <1>1
<1>3. Mapped(V, new) = [i \in 1..n |-> V[at(i)]]
  BY <1>2 DEF Mapped
<1>4. Values!Replaced(W, key, V[r]) = [i \in 1..n |-> IF W[i] = key THEN V[r] ELSE W[i]]
  BY DEF Values!Replaced, n
<1>5. \A i \in 1..n : V[at(i)] = IF W[i] = key THEN V[r] ELSE W[i]
  BY DEF at, n
<1>6. QED
  BY <1>3, <1>4, <1>5 DEF new

\* and replace writing the list it made of what it read before.
LEMMA EndReplaceSeen ==
  ASSUME AtomsAreNoLists, IInv, NEW e \in Expressions, NEW key \in Atoms, EndReplace(key, e)
  PROVE  Values!EndReplace(key, e)
<1> DEFINE v == ValueOf(e)
           hands == <<v>>
           mem == Memory(hands)
           p == Innermost.place
           r == Innermost.held
           V == ValuesIn(heap)
           w == Values!Replaced(V[r], key, V[v])
<1>1. Finishing("replace")
  BY DEF EndReplace
<1>2. /\ active # <<>> /\ (Acts' = Values!Front(Acts) => Values!Finishes("replace"))
      /\ r \in Ref(Len(heap)) /\ Values!Innermost.held = V[r]
      /\ p \in Place /\ Values!Innermost.place = p
  BY <1>1, FinishingSeen
<1>3. PICK there \in Visits(hands, p) :
        Becomes(IF IsNode(r) THEN Make(there.m, there.loc, Replaced(heap[r], key, v))
                ELSE Store(there.m, there.loc, r),
                Front(active))
  BY DEF EndReplace
<1>4. hands \in Seq(Ref(Len(heap))) /\ Len(hands) = 1 /\ hands[1] = v
  BY OneHand
<1>5. /\ Sound(mem) /\ mem.heap = heap /\ Val(mem) = V
      /\ InOneHand(mem, v) /\ InOneHand(mem, r)
  <2> HIDE DEF hands, v
  <2>1. Sound(mem) /\ mem.heap = heap /\ Val(mem) = V
    BY <1>4, MemoryHas
  <2>2. Innermost = active[Len(active)] /\ Len(active) \in 1..Len(active)
    <3>1. Len(heap) \in Nat /\ Len(heap) <= Len(heap)
      BY DEF IInv, Shape
    <3>2. QED
      BY <1>2, <3>1, FormsKept DEF Innermost
  <2>3. /\ \A k \in 1..Len(hands) : InOneHand(mem, hands[k])
        /\ \A k \in 1..Len(active) : InOneHand(mem, active[k].held)
    BY <1>4, MemorySound
  <2>4. QED
    BY <1>4, <2>1, <2>2, <2>3
<1>6. v \in Ref(Len(heap)) /\ Values!ValueOf(e) = V[v]
  BY ValueSeen, ValueIsRef
<1> HIDE DEF hands, v, p, r, V
<1>7. Visiting(mem, p, there.m, there.loc) /\ Values!At(p) # Missing
  BY <1>2, <1>3, <1>4, VisitSeen
<1> HIDE DEF mem
<1>8. \E new : Written(mem, p, w, new) /\ Becomes(new, Front(active))
  <2>1. CASE IsNode(r)
    <3> DEFINE list == heap[r]
               H == InHand(mem)
               elements == Replaced(list, key, v)
    <3>1. r \in 1..Len(heap) /\ Values!IsList(V[r])
      BY <1>2, <1>5, <2>1, ValueKinds
    <3>2. /\ Len(list) \in Nat /\ Len(list) <= MaxList
          /\ \A i \in 1..Len(list) : list[i] \in Ref(Len(heap))
      BY <1>5, <3>1, MemoryParts DEF Sound
    <3>3. v \in H /\ \A i \in 1..Len(list) : list[i] \in H
      BY <1>5, <2>1 DEF InOneHand
    <3>4. Len(V[r]) = Len(list) /\ \A i \in 1..Len(list) : V[r][i] = V[list[i]]
      BY SMTT(30), <1>5, <3>1, ValFits
    <3>5. \A i \in 1..Len(list) : V[list[i]] = key <=> list[i] = key
      BY <1>5, <3>2, ValueKinds
    <3> HIDE DEF list
    <3>6. Mapped(V, elements) = w
      <4> DEFINE W == V[r]
      <4>1. /\ Len(W) = Len(list) /\ Values!IsList(W)
            /\ \A i \in 1..Len(list) : W[i] = V[list[i]] /\ (V[list[i]] = key <=> list[i] = key)
        BY <3>1, <3>4, <3>5
      <4> HIDE DEF W
      <4>2. Mapped(V, elements) = Values!Replaced(W, key, V[v])
        BY <3>2, <4>1, ReplacedSeen
      <4>3. QED
        BY <4>2 DEF W
    <3> HIDE DEF w
    <3>7. elements \in Seq(H) /\ Len(elements) = Len(list)
      <4> HIDE DEF H
      <4>1. QED
        BY <3>2, <3>3 DEF Replaced
    <3> HIDE DEF elements
    <3>8. PICK new : new = Make(there.m, there.loc, elements)
      OBVIOUS
    <3>9. Written(mem, p, Mapped(Val(mem), elements), new)
      <4>1. Len(elements) <= MaxList
        BY <3>2, <3>7
      <4>2. QED
        BY <1>2, <1>5, <1>7, <3>7, <3>8, <4>1, MakeWrites DEF H
    <3>10. Becomes(new, Front(active))
      BY <1>3, <2>1, <3>8 DEF elements, list
    <3>11. QED
      BY <1>5, <3>6, <3>9, <3>10
  <2>2. CASE ~ IsNode(r)
    <3>1. V[r] = w
      <4>1. ~ Values!IsList(V[r])
        BY <1>2, <1>5, <2>2, ValueKinds
      <4>2. QED
        BY <4>1 DEF Values!Replaced
    <3> HIDE DEF w
    <3>2. PICK new : new = Store(there.m, there.loc, r)
      OBVIOUS
    <3>3. Written(mem, p, Val(mem)[r], new)
      BY <1>2, <1>5, <1>7, <3>2, StoreWrites DEF InOneHand
    <3>4. Becomes(new, Front(active))
      BY <1>3, <2>2, <3>2
    <3>5. QED
      BY <1>5, <3>1, <3>3, <3>4
  <2>3. QED
    BY <2>1, <2>2
<1> HIDE DEF w
<1>9. PICK new : Written(mem, p, w, new) /\ Becomes(new, Front(active))
  BY <1>8
<1>10. Vals' = WithWritten(Vals, p, w) /\ Acts' = Values!Front(Acts)
  BY <1>2, <1>4, <1>9, WriteEnds DEF mem
<1>11. QED
  BY <1>2, <1>6, <1>7, <1>10 DEF Values!EndReplace, Values!Write, WithWritten, Vals, Acts, w

\* What a program sees when a place has been given a value: the innermost form is over,
\* or no form is.
Wrote(p, v) ==
  Vals' = WithWritten(Vals, p, v) /\ Acts' = Acts

WroteLast(p, v) ==
  Vals' = WithWritten(Vals, p, v) /\ Acts' = Values!Front(Acts)

\* A form that rewrites the list at its place shows the new list there;
LEMMA RewriteSeen ==
  ASSUME AtomsAreNoLists, IInv, NEW hands \in Seq(Ref(Len(heap))), NEW p \in Place,
         NEW there \in Visits(hands, p), IsNode(Found(there)),
         NEW elements \in Seq(Among(Memory(hands), Elements(there))), Len(elements) <= MaxList,
         NEW v, v = Mapped(Val(there.m), elements),
         NEW new, new = Rewrite(there.m, there.loc, elements)
  PROVE  /\ Becomes(new, active) => Wrote(p, v)
         /\ active # <<>> /\ Becomes(new, Front(active)) => WroteLast(p, v)
<1> DEFINE mem == Memory(hands)
           old == Elements(there)
<1>1. Sound(mem) /\ Visiting(mem, p, there.m, there.loc)
  BY MemoryHas, VisitSeen
<1>2. old = there.m.heap[Held(there.m, there.loc)] /\ IsNode(Held(there.m, there.loc))
  BY DEF Elements, Found
<1> HIDE DEF mem, old
<1>3. elements \in Seq(Among(mem, old))
  BY DEF mem, old
<1>4. Written(mem, p, Mapped(Val(there.m), elements), new)
  BY <1>1, <1>2, <1>3, RewriteWrites
<1>5. Written(Memory(hands), p, v, new)
  BY <1>4 DEF mem
<1>6. QED
  BY <1>5, WriteEnds DEF Wrote, WroteLast

\* one that puts a list there shows that list.
LEMMA MakeSeen ==
  ASSUME AtomsAreNoLists, IInv, NEW hands \in Seq(Ref(Len(heap))), NEW p \in Place,
         NEW there \in Visits(hands, p),
         NEW elements \in Seq(InHand(Memory(hands))), Len(elements) <= MaxList,
         NEW v, v = Mapped(ValuesIn(heap), elements),
         NEW new, new = Make(there.m, there.loc, elements)
  PROVE  /\ Becomes(new, active) => Wrote(p, v)
         /\ active # <<>> /\ Becomes(new, Front(active)) => WroteLast(p, v)
<1> DEFINE mem == Memory(hands)
<1>1. Sound(mem) /\ Visiting(mem, p, there.m, there.loc) /\ Val(mem) = ValuesIn(heap)
  BY MemoryHas, VisitSeen
<1> HIDE DEF mem
<1>2. elements \in Seq(InHand(mem))
  BY DEF mem
<1>3. Written(mem, p, Mapped(Val(mem), elements), new)
  BY <1>1, <1>2, MakeWrites
<1>4. Written(Memory(hands), p, v, new)
  BY <1>1, <1>3 DEF mem
<1>5. QED
  BY <1>4, WriteEnds DEF Wrote, WroteLast

\* The list at the end of the way, and the value it stands for.
LEMMA ListFound ==
  ASSUME AtomsAreNoLists, IInv, NEW hands \in Seq(Ref(Len(heap))), NEW p \in Place,
         NEW there \in Visits(hands, p), NEW old, old = Elements(there)
  PROVE  /\ IsNode(Found(there)) <=> Values!IsList(Values!At(p))
         /\ ~ IsNode(Found(there)) => Values!At(p) = Found(there)
         /\ IsNode(Found(there)) =>
              /\ Len(old) \in Nat /\ Len(old) <= MaxList
              /\ old \in Seq(Among(Memory(hands), old))
              /\ Mapped(Val(there.m), old) = Values!At(p) /\ Len(Values!At(p)) = Len(old)
         /\ \A r \in Ref(Len(heap)) : Val(there.m)[r] = ValuesIn(heap)[r]
<1> DEFINE mem == Memory(hands)
           m == there.m
           n == Found(there)
<1>1. /\ Visiting(mem, p, m, there.loc) /\ There(mem, m, there.loc)
      /\ n \in Ref(Len(m.heap)) /\ Val(m)[n] = Values!At(p)
  BY VisitSeen
<1>2. mem.heap = heap /\ Val(mem) = ValuesIn(heap)
  BY MemoryHas
<1> HIDE DEF mem
<1>3. old = m.heap[Held(m, there.loc)] /\ Held(m, there.loc) = n /\ old = m.heap[n]
  BY DEF Elements, Found
<1> HIDE DEF m, n
<1>4. Sound(m) /\ \A r \in Ref(Len(mem.heap)) : Val(m)[r] = Val(mem)[r]
  BY <1>1 DEF Visiting, Kept, SameView
<1>5. /\ IsNode(n) <=> n \in 1..Len(m.heap)
      /\ IsNode(n) <=> Values!IsList(Val(m)[n])
      /\ ~ IsNode(n) => Val(m)[n] = n
  BY <1>1, <1>4, ValueKinds
<1>6. ASSUME IsNode(n)
      PROVE  /\ Len(old) \in Nat /\ Len(old) <= MaxList
             /\ old \in Seq(Among(mem, old))
             /\ Mapped(Val(m), old) = Val(m)[n] /\ Len(Val(m)[n]) = Len(old)
  <2>1. Len(old) \in Nat /\ Len(old) <= MaxList /\ old \in Seq(Among(mem, old))
    BY <1>1, <1>3, <1>6, FoundList
  <2>2. Val(m)[n] = [i \in 1..Len(m.heap[n]) |-> Val(m)[m.heap[n][i]]] /\ Len(Val(m)[n]) = Len(m.heap[n])
    <3>1. n \in 1..Len(m.heap) /\ Sound(m)
      BY <1>4, <1>5, <1>6
    <3>2. Fits(m.heap, Val(m)) /\ Len(Val(m)[n]) = Len(m.heap[n])
      BY <3>1, ValFits
    <3>3. QED
      BY <3>1, <3>2 DEF Fits
  <2>3. Mapped(Val(m), old) = Val(m)[n]
    BY <1>3, <2>2 DEF Mapped
  <2>4. QED
    BY <1>3, <2>1, <2>2, <2>3
<1>7. /\ IsNode(n) <=> Values!IsList(Values!At(p))
      /\ ~ IsNode(n) => Values!At(p) = n
  BY <1>1, <1>5
<1>8. QED
  BY <1>1, <1>2, <1>4, <1>6, <1>7 DEF m, n, mem

\* The operators on sequences, and the positions, are the same for lists and for values.
LEMMA SameOperators ==
  /\ \A s, i, x : Values!InsertAt(s, i, x) = InsertAt(s, i, x)
  /\ \A s, i : Values!RemoveAt(s, i) = RemoveAt(s, i)
  /\ \A s : Values!Reverse(s) = Reverse(s)
  /\ \A i, n : Values!PushPosition(i, n) = PushPosition(i, n)
  /\ \A i, n : Values!PopPosition(i, n) = PopPosition(i, n)
<1>1. \A s, i, x : Values!InsertAt(s, i, x) = InsertAt(s, i, x)
  BY DEF Values!InsertAt, InsertAt
<1>2. \A s, i : Values!RemoveAt(s, i) = RemoveAt(s, i)
  BY DEF Values!RemoveAt, RemoveAt
<1>3. \A s : Values!Reverse(s) = Reverse(s)
  BY DEF Values!Reverse, Reverse
<1>4. /\ \A S : Values!Max(S) = Max(S)
      /\ \A S : Values!Min(S) = Min(S)
  BY DEF Values!Max, Max, Values!Min, Min
<1>5. \A i, n : Values!PushPosition(i, n) = PushPosition(i, n)
  BY <1>4 DEF Values!PushPosition, PushPosition
<1>6. \A i, n : Values!PopPosition(i, n) = PopPosition(i, n)
  BY <1>4 DEF Values!PopPosition, PopPosition
<1>7. QED
  BY <1>1, <1>2, <1>3, <1>5, <1>6

\* Writing at a place what is there already changes nothing.
LEMMA WriteBack ==
  ASSUME AtomsAreNoLists, NEW mem, Sound(mem), NEW p \in Place,
         NEW m, NEW loc, Visiting(mem, p, m, loc),
         NEW v, v = Val(mem)[mem.globals[p.root]]
  PROVE  Values!WithPart(v, p.path, ValueAt(mem, p)) = v
<1> DEFINE path == p.path
           k == Len(path)
           new == ValueAt(mem, p)
<1>1. path \in Seq(Int) /\ k \in Nat /\ p.root \in Symbols /\ k <= Len(path)
  BY PlaceAssumption DEF Place
<1>2. Sound(m) /\ v = Val(m)[m.globals[p.root]]
  BY <1>1 DEF Visiting, Kept, SameView
<1>3. Leads(m, p.root, path, k, loc)
  BY DEF Visiting
<1>4. PICK L : On(m, p.root, path, L, k, k)
  BY <1>3 DEF Leads
<1>5. new = Values!Part(v, path) /\ k = Len(path)
  BY DEF ValueAt
<1> HIDE DEF k, path, new
<1>6. Follow(m, p.root, path, L, k)
  BY <1>1, <1>2, <1>4, SpineParts
<1> DEFINE w == [j \in 0..k |-> Above(v, path, j)]
<1>7. ASSUME NEW j \in 0..k - 1
      PROVE  w[j] = [w[j] EXCEPT ![Position(path[j + 1], Len(w[j]))] = w[j + 1]]
  <2> DEFINE n == Held(m, L[j])
             f == w[j]
             j1 == j + 1
             i == Position(path[j1], Len(f))
  <2>1. j \in 0..k /\ j1 \in 1..k /\ j1 - 1 = j /\ j1 \in 0..k
    BY <1>1
  <2>2. n \in 1..Len(m.heap) /\ InRange(path[j1], Len(m.heap[n]))
    <3>1. n \in 1..Len(m.heap)
      BY <1>4 DEF On, Soles
    <3>2. Link(m, L[j1 - 1], L[j1], path[j1])
      BY <1>4, <2>1 DEF On, Spine
    <3>3. QED
      BY <2>1, <3>1, <3>2 DEF Link
  <2>3. f = Val(m)[n]
    BY <1>2, <1>6, <2>1 DEF Follow
  <2> HIDE DEF n, f
  <2>4. Len(f) = Len(m.heap[n]) /\ \E S : f \in Seq(S)
    BY <1>2, <2>2, <2>3, ValFits
  <2>5. Values!IsList(f)
    BY <2>4 DEF Values!IsList, AtomsAreNoLists
  <2> HIDE DEF j1, w
  <2>6. Above(v, path, j1) = Inner(Above(v, path, j1 - 1), path[j1])
    BY <1>1, <1>5, <2>1, AboveSteps
  <2>7. Above(v, path, j1) = Inner(f, path[j1])
    BY <2>1, <2>6 DEF f, w
  <2>8. w[j1] = f[i]
    BY <2>1, <2>2, <2>4, <2>5, <2>7 DEF Inner, w
  <2>9. f = [f EXCEPT ![i] = f[i]]
    BY <2>4
  <2>10. QED
    BY <2>8, <2>9 DEF f, j1
<1>8. w[k] = new /\ w[0] = v
  BY <1>1, <1>5, AboveSteps
<1>9. \A j \in 0..k - 1 : w[j] = Above(v, path, j)
  BY <1>1
<1> HIDE DEF w
<1>10. Rebuilt(v, path, new, w)
  BY <1>5, <1>7, <1>8, <1>9 DEF Rebuilt
<1>11. Values!WithPart(v, path, new) = w[0]
  BY <1>1, <1>10, WithPartIs
<1>12. QED
  BY <1>8, <1>11 DEF path, new

\* So push inserts into the value of its place, by the index it was given,
LEMMA EndPushSeen ==
  ASSUME AtomsAreNoLists, IInv, NEW p \in Place, NEW i \in Indices, EndPush(p, i)
  PROVE  Values!EndPush(p, i)
<1> DEFINE r == Innermost.held
           hands == <<>>
           mem == Memory(hands)
           V == ValuesIn(heap)
<1>1. Finishing("push")
  BY DEF EndPush
<1>2. /\ active # <<>> /\ (Acts' = Values!Front(Acts) => Values!Finishes("push"))
      /\ r \in Ref(Len(heap)) /\ Values!Innermost.held = V[r]
  BY <1>1, FinishingSeen
<1>3. PICK there \in Visits(hands, p) :
       \/ /\ Found(there) = Nil
          /\ Becomes(Make(there.m, there.loc, <<r>>), Front(active))
       \/ /\ IsNode(Found(there))
          /\ Len(Elements(there)) < MaxList
          /\ LET at == PushPosition(i, Len(Elements(there)))
             IN  Becomes(Rewrite(there.m, there.loc, InsertAt(Elements(there), at, r)),
                         Front(active))
  BY DEF EndPush
<1>4. hands \in Seq(Ref(Len(heap)))
  BY NoHands
<1>5. r \in InHand(mem)
  <2>1. \A k \in 1..Len(active) : active[k].held \in InHand(mem)
    BY <1>4, MemoryHas
  <2>2. Len(active) \in 1..Len(active)
    <3>1. Len(heap) \in Nat /\ Len(heap) <= Len(heap)
      BY DEF IInv, Shape
    <3>2. QED
      BY <1>2, <3>1, FormsKept
  <2>3. QED
    BY <2>1, <2>2 DEF Innermost
<1> HIDE DEF hands, r, V
<1> DEFINE old == Elements(there)
           a == Values!At(p)
<1>6. /\ IsNode(Found(there)) <=> Values!IsList(a)
      /\ ~ IsNode(Found(there)) => a = Found(there)
      /\ IsNode(Found(there)) =>
           /\ Len(old) \in Nat /\ Len(old) <= MaxList
           /\ old \in Seq(Among(mem, old))
           /\ Mapped(Val(there.m), old) = a /\ Len(a) = Len(old)
      /\ \A x \in Ref(Len(heap)) : Val(there.m)[x] = V[x]
  BY <1>3, <1>4, ListFound DEF V
<1> HIDE DEF mem, old, a
<1>7. CASE Found(there) = Nil /\ Becomes(Make(there.m, there.loc, <<r>>), Front(active))
  <2> DEFINE elements == <<r>>
             H == InHand(mem)
             v == Mapped(V, elements)
  <2>1. elements \in Seq(H) /\ Len(elements) <= MaxList
    <3> HIDE DEF H
    <3>1. QED
      BY <1>5, PlaceAssumption DEF H
  <2>2. v = <<V[r]>>
    BY MappedOne
  <2> HIDE DEF elements, H, v
  <2>3. PICK new : new = Make(there.m, there.loc, elements)
    OBVIOUS
  <2>4. elements \in Seq(InHand(Memory(hands))) /\ v = Mapped(ValuesIn(heap), elements)
    BY <2>1 DEF H, mem, v, V
  <2>5. active # <<>> /\ Becomes(new, Front(active)) => WroteLast(p, v)
    BY <1>3, <1>4, <2>1, <2>3, <2>4, MakeSeen
  <2>6. WroteLast(p, v)
    BY <1>2, <1>7, <2>3, <2>5 DEF elements
  <2>7. a = Nil
    BY <1>6, <1>7, PlaceAssumption DEF IsNode
  <2>8. Vals' = WithWritten(Vals, p, <<Values!Innermost.held>>) /\ Values!Finishes("push")
    BY <1>2, <2>2, <2>6 DEF WroteLast
  <2>9. QED
    BY <2>7, <2>8 DEF Values!EndPush, Values!Write, WithWritten, Vals, Acts, a
<1>8. CASE /\ IsNode(Found(there)) /\ Len(old) < MaxList
           /\ LET at == PushPosition(i, Len(old))
              IN  Becomes(Rewrite(there.m, there.loc, InsertAt(old, at, r)), Front(active))
  <2> DEFINE S == Among(mem, old)
             W == Val(there.m)
             at == PushPosition(i, Len(old))
             elements == InsertAt(old, at, r)
             v == Mapped(W, elements)
  <2>1. Len(old) \in Nat /\ old \in Seq(S) /\ Mapped(W, old) = a /\ Len(a) = Len(old)
    BY <1>6, <1>8
  <2>2. r \in S
    BY <1>5 DEF Among
  <2> HIDE DEF S, W
  <2>3. at \in 1..Len(old) + 1
    BY <2>1, PositionsIn, PlaceAssumption
  <2>4. at = Values!PushPosition(i, Len(a))
    BY <2>1, SameOperators
  <2> HIDE DEF at
  <2>5. elements \in Seq(S) /\ Len(elements) = Len(old) + 1
    BY ZenonT(30), <2>1, <2>2, <2>3, ListChanges
  <2>6. Len(elements) <= MaxList
    BY <1>8, <2>1, <2>5, PlaceAssumption
  <2>7. v = InsertAt(a, at, V[r])
    <3>1. v = InsertAt(Mapped(W, old), at, W[r])
      BY <2>1, <2>2, <2>3, MappedChanges
    <3>2. W[r] = V[r]
      BY <1>2, <1>6 DEF W
    <3>3. QED
      BY <2>1, <3>1, <3>2
  <2> HIDE DEF elements, v
  <2>8. PICK new : new = Rewrite(there.m, there.loc, elements)
    OBVIOUS
  <2>9. elements \in Seq(Among(Memory(hands), Elements(there))) /\ v = Mapped(Val(there.m), elements)
    BY <2>5 DEF S, mem, old, v, W
  <2>10. active # <<>> /\ Becomes(new, Front(active)) => WroteLast(p, v)
    BY <1>3, <1>4, <1>8, <2>6, <2>8, <2>9, RewriteSeen
  <2>11. WroteLast(p, v)
    BY <1>2, <1>8, <2>8, <2>10 DEF elements, at
  <2>12. v = Values!InsertAt(a, Values!PushPosition(i, Len(a)), Values!Innermost.held)
    BY <1>2, <2>4, <2>7, SameOperators
  <2>13. Values!IsList(a) /\ Len(a) < MaxList
    BY <1>6, <1>8, <2>1
  <2>14. /\ Values!Finishes("push")
         /\ Vals' = WithWritten(Vals, p, Values!InsertAt(a, Values!PushPosition(i, Len(a)),
                                                          Values!Innermost.held))
    BY <1>2, <2>11, <2>12 DEF WroteLast
  <2>15. QED
    BY <2>13, <2>14 DEF Values!EndPush, Values!Write, WithWritten, Vals, Acts, a
<1>9. QED
  BY <1>3, <1>7, <1>8 DEF old

\* inc adds to the number there,
LEMMA IncrSeen ==
  ASSUME AtomsAreNoLists, IInv, NEW p \in Place, NEW n \in Atoms, Incr(p, n)
  PROVE  Values!Incr(p, n)
<1> DEFINE hands == <<>>
           mem == Memory(hands)
           a == Values!At(p)
           v == Val(mem)[n]
<1>1. n # Nil /\ \E there \in Visits(hands, p) :
        Found(there) \in Atoms /\ Becomes(Store(there.m, there.loc, n), active)
  BY DEF Incr
<1>2. PICK there \in Visits(hands, p) :
        Found(there) \in Atoms /\ Becomes(Store(there.m, there.loc, n), active)
  BY <1>1
<1>3. hands \in Seq(Ref(Len(heap)))
  BY NoHands
<1> HIDE DEF hands
<1>4. Sound(mem) /\ Visiting(mem, p, there.m, there.loc)
  BY <1>2, <1>3, MemoryHas, VisitSeen
<1>5. ~ IsNode(Found(there)) => a = Found(there)
  <2> DEFINE old == Elements(there)
  <2> HIDE DEF old
  <2>1. QED
    BY <1>2, <1>3, ListFound
<1> HIDE DEF mem, a
<1>6. a \in Atoms
  BY <1>2, <1>5 DEF IsNode
<1>7. v = n /\ n \in InHand(mem)
  BY <1>4, ValFits DEF Fits, InHand
<1>8. PICK new : new = Store(there.m, there.loc, n)
  OBVIOUS
<1>9. Written(mem, p, v, new)
  BY <1>4, <1>7, <1>8, StoreWrites
<1> HIDE DEF v
<1>10. Written(Memory(hands), p, v, new)
  BY <1>9 DEF mem
<1>11. Becomes(new, active) => Vals' = WithWritten(Vals, p, v) /\ Acts' = Acts
  BY <1>3, <1>10, WriteEnds
<1>12. Vals' = WithWritten(Vals, p, n) /\ Acts' = Acts
  BY <1>2, <1>7, <1>8, <1>11
<1>13. QED
  BY <1>1, <1>6, <1>12 DEF Values!Incr, Values!Write, WithWritten, Vals, Acts, a

\* pop and reverse: the list at a place, with other elements of its own.
LEMMA ChangedSeen ==
  ASSUME AtomsAreNoLists, IInv, NEW p \in Place, NEW there \in Visits(<<>>, p),
         IsNode(Found(there)), NEW old, old = Elements(there),
         NEW elements, Len(elements) <= MaxList,
         \A S : old \in Seq(S) => elements \in Seq(S),
         Becomes(Rewrite(there.m, there.loc, elements), active)
  PROVE  Wrote(p, Mapped(Val(there.m), elements))
<1> DEFINE hands == <<>>
           mem == Memory(hands)
           v == Mapped(Val(there.m), elements)
<1>1. hands \in Seq(Ref(Len(heap)))
  BY NoHands
<1>2. there \in Visits(hands, p)
  OBVIOUS
<1> HIDE DEF hands, v
<1>3. old \in Seq(Among(mem, old))
  BY <1>1, <1>2, ListFound
<1>4. elements \in Seq(Among(mem, old))
  BY <1>3
<1>5. PICK new : new = Rewrite(there.m, there.loc, elements)
  OBVIOUS
<1>6. Becomes(new, active) => Wrote(p, v)
  BY <1>1, <1>2, <1>4, <1>5, RewriteSeen DEF mem, v
<1>7. QED
  BY <1>5, <1>6 DEF v

\* Nothing is left to pop from an empty list, which the program may have its own copy of.
LEMMA PopSeen ==
  ASSUME AtomsAreNoLists, IInv, NEW p \in Place, NEW i \in Indices, Pop(p, i)
  PROVE  Values!Pop(p, i) \/ (Vals' = Vals /\ Acts' = Acts)
<1>1. PICK there \in Visits(<<>>, p) :
        IsNode(Found(there)) /\ Becomes(Rewrite(there.m, there.loc, Popped(Elements(there), i)), active)
  BY DEF Pop
<1> DEFINE old == Elements(there)
           a == Values!At(p)
           W == Val(there.m)
           elements == Popped(old, i)
<1>2. /\ Len(old) \in Nat /\ Len(old) <= MaxList /\ \E S : old \in Seq(S)
      /\ Mapped(W, old) = a /\ Len(a) = Len(old) /\ Values!IsList(a)
  <2> DEFINE hands == <<>>
  <2>1. hands \in Seq(Ref(Len(heap))) /\ there \in Visits(hands, p)
    BY NoHands
  <2> HIDE DEF hands, old
  <2>2. QED
    BY <1>1, <2>1, ListFound DEF old
<1> HIDE DEF old, W, a
<1>3. CASE old = <<>>
  <2>1. elements = old /\ Len(elements) <= MaxList /\ \A S : old \in Seq(S) => elements \in Seq(S)
    BY <1>2, <1>3 DEF Popped
  <2> HIDE DEF elements
  <2>2. Wrote(p, Mapped(W, elements))
    BY <1>1, <2>1, ChangedSeen DEF elements, old, W
  <2>3. Wrote(p, a)
    BY <1>2, <2>1, <2>2
  <2>4. WithWritten(Vals, p, a) = Vals
    <3> DEFINE hands == <<>>
               mem == Memory(hands)
               v == Vals[p.root]
    <3>1. hands \in Seq(Ref(Len(heap))) /\ there \in Visits(hands, p) /\ p.root \in Symbols
      BY NoHands DEF Place
    <3> HIDE DEF hands
    <3>2. Sound(mem) /\ Val(mem) = ValuesIn(heap) /\ mem.globals = globals
      BY <3>1, MemoryHas
    <3>3. Visiting(mem, p, there.m, there.loc) /\ a = ValueAt(mem, p)
      BY <3>1, VisitSeen, AtSeen DEF a
    <3>4. v = Val(mem)[mem.globals[p.root]]
      BY <3>1, <3>2 DEF Vals
    <3> HIDE DEF mem, v
    <3>5. Values!WithPart(v, p.path, a) = v
      BY <3>2, <3>3, <3>4, WriteBack
    <3>6. QED
      BY <3>1, <3>5 DEF WithWritten, v, Vals
  <2>5. QED
    BY <2>3, <2>4 DEF Wrote
<1>4. CASE old # <<>>
  <2> DEFINE at == PopPosition(i, Len(old))
  <2>1. Len(old) > 0 /\ a # <<>>
    BY <1>2, <1>4
  <2>2. at \in 1..Len(old)
    BY <1>2, <2>1, PositionsIn, PlaceAssumption
  <2>3. at = Values!PopPosition(i, Len(a))
    BY <1>2, SameOperators
  <2>4. elements = RemoveAt(old, at)
    BY <1>4 DEF Popped
  <2> HIDE DEF at
  <2>5. \A S : old \in Seq(S) => elements \in Seq(S)
    BY <2>2, <2>4, ListChanges
  <2>6. Len(elements) <= MaxList
    <3>1. PICK S : old \in Seq(S)
      BY <1>2
    <3>2. Len(elements) = Len(old) - 1
      BY <2>2, <2>4, <3>1, ListChanges
    <3>3. QED
      BY <1>2, <3>2, PlaceAssumption
  <2>7. Mapped(W, elements) = Values!RemoveAt(a, Values!PopPosition(i, Len(a)))
    <3>1. PICK S : old \in Seq(S)
      BY <1>2
    <3>2. Mapped(W, elements) = RemoveAt(Mapped(W, old), at)
      BY <2>2, <2>4, <3>1, MappedChanges
    <3>3. QED
      BY <1>2, <2>3, <3>2, SameOperators
  <2> HIDE DEF elements
  <2>8. Wrote(p, Mapped(W, elements))
    BY <1>1, <2>5, <2>6, ChangedSeen DEF elements, old, W
  <2>9. Wrote(p, Values!RemoveAt(a, Values!PopPosition(i, Len(a))))
    BY <2>7, <2>8
  <2>10. Values!Pop(p, i)
    BY <1>2, <2>1, <2>9 DEF Wrote, Values!Pop, Values!Write, WithWritten, Vals, Acts, a
  <2>11. QED
    BY <2>10
<1>5. QED
  BY <1>3, <1>4

\* reverse turns the list there round,
LEMMA ReverseAtSeen ==
  ASSUME AtomsAreNoLists, IInv, NEW p \in Place, ReverseAt(p)
  PROVE  Values!ReverseAt(p)
<1>1. PICK there \in Visits(<<>>, p) :
        IsNode(Found(there)) /\ Becomes(Rewrite(there.m, there.loc, Reverse(Elements(there))), active)
  BY DEF ReverseAt
<1> DEFINE old == Elements(there)
           a == Values!At(p)
           W == Val(there.m)
           elements == Reverse(old)
<1>2. /\ Len(old) \in Nat /\ Len(old) <= MaxList /\ \E S : old \in Seq(S)
      /\ Mapped(W, old) = a /\ Values!IsList(a)
  <2> DEFINE hands == <<>>
  <2>1. hands \in Seq(Ref(Len(heap))) /\ there \in Visits(hands, p)
    BY NoHands
  <2> HIDE DEF hands, old
  <2>2. QED
    BY <1>1, <2>1, ListFound DEF old
<1> HIDE DEF old, W, a
<1>3. PICK S : old \in Seq(S)
  BY <1>2
<1>4. \A T : old \in Seq(T) => elements \in Seq(T)
  BY ListChanges
<1>5. Len(elements) <= MaxList
  BY <1>2, <1>3, ListChanges
<1>6. Mapped(W, elements) = Values!Reverse(a)
  <2>1. Mapped(W, elements) = Reverse(Mapped(W, old))
    BY <1>3, MappedChanges
  <2>2. QED
    BY <1>2, <2>1, SameOperators
<1> HIDE DEF elements
<1>7. Wrote(p, Mapped(W, elements))
  BY <1>1, <1>4, <1>5, ChangedSeen DEF elements, old, W
<1>8. Wrote(p, Values!Reverse(a))
  BY <1>6, <1>7
<1>9. QED
  BY <1>2, <1>8 DEF Wrote, Values!ReverseAt, Values!Write, WithWritten, Vals, Acts, a

\* What is appended, as a list of references and as a value.
LEMMA SplicedSeen ==
  ASSUME AtomsAreNoLists, IInv, NEW e \in Expressions,
         NEW r, r = ValueOf(e), NEW more, more = Spliced(r)
  PROVE  /\ more \in Seq(InHand(Memory(<<r>>))) /\ more \in Seq(Ref(Len(heap)))
         /\ Mapped(ValuesIn(heap), more) = Values!Spliced(Values!ValueOf(e))
<1> DEFINE hands == <<r>>
           mem == Memory(hands)
           H == InHand(mem)
           V == ValuesIn(heap)
<1>1. hands \in Seq(Ref(Len(heap))) /\ InOneHand(mem, r)
  BY OneHand
<1> HIDE DEF hands
<1>2. Sound(mem) /\ mem.heap = heap /\ Val(mem) = V
  BY <1>1, MemoryHas
<1>3. r \in Ref(Len(heap)) /\ Values!ValueOf(e) = V[r]
  BY ValueIsRef, ValueSeen
<1> HIDE DEF mem, V
<1>4. CASE IsNode(r)
  <2> DEFINE list == heap[r]
  <2>1. r \in 1..Len(heap) /\ Values!IsList(V[r])
    BY <1>2, <1>3, <1>4, ValueKinds
  <2>2. list \in Lists(Len(heap)) /\ Len(list) \in Nat
    BY <1>2, <2>1, MemoryParts DEF Sound
  <2>3. \A i \in 1..Len(list) : list[i] \in H
    BY <1>1, <1>2, <1>4 DEF InOneHand
  <2>4. list \in Seq(Ref(Len(heap)))
    BY <2>2 DEF Lists
  <2>5. V[r] = [i \in 1..Len(list) |-> V[list[i]]]
    BY <1>2, <2>1, ValFits DEF Fits
  <2> HIDE DEF list, H
  <2>6. list \in Seq(H)
    BY <2>3, <2>4
  <2>7. Mapped(V, list) = V[r]
    BY <2>5 DEF Mapped
  <2>8. Values!Spliced(V[r]) = V[r]
    BY <2>1 DEF Values!Spliced
  <2>9. more = list
    BY <1>4 DEF Spliced, list
  <2>10. QED
    BY <1>3, <2>4, <2>6, <2>7, <2>8, <2>9 DEF H, mem, hands, V
<1>5. CASE ~ IsNode(r)
  <2> DEFINE one == <<r>>
  <2>1. ~ Values!IsList(V[r])
    BY <1>2, <1>3, <1>5, ValueKinds
  <2>2. r \in H
    BY <1>1 DEF InOneHand
  <2> HIDE DEF H
  <2>3. one \in Seq(H) /\ one \in Seq(Ref(Len(heap)))
    BY <1>3, <2>2
  <2>4. Mapped(V, one) = <<V[r]>>
    BY MappedOne
  <2>5. Values!Spliced(V[r]) = <<V[r]>>
    BY <2>1 DEF Values!Spliced
  <2>6. more = one
    BY <1>5 DEF Spliced
  <2> HIDE DEF one
  <2>7. QED
    BY <1>3, <2>3, <2>4, <2>5, <2>6 DEF H, mem, hands, V
<1>6. QED
  BY <1>4, <1>5

\* and extend makes it longer.
LEMMA ExtendSeen ==
  ASSUME AtomsAreNoLists, IInv, NEW p \in Place, NEW e \in Expressions, Extend(p, e)
  PROVE  Values!Extend(p, e)
<1> DEFINE r == ValueOf(e)
           hands == <<r>>
           mem == Memory(hands)
           more == Spliced(r)
           H == InHand(mem)
           V == ValuesIn(heap)
           a == Values!At(p)
           b == Values!Spliced(Values!ValueOf(e))
<1>1. PICK there \in Visits(hands, p) :
       \/ /\ Found(there) = Nil
          /\ Len(more) <= MaxList
          /\ Becomes(Make(there.m, there.loc, more), active)
       \/ /\ IsNode(Found(there))
          /\ Len(Elements(there)) + Len(more) <= MaxList
          /\ Becomes(Rewrite(there.m, there.loc, Elements(there) \o more), active)
  BY DEF Extend
<1>2. hands \in Seq(Ref(Len(heap)))
  BY OneHand
<1>3. more \in Seq(H) /\ more \in Seq(Ref(Len(heap))) /\ Mapped(V, more) = b
  <2> HIDE DEF r
  <2>1. more \in Seq(InHand(Memory(<<r>>))) /\ more \in Seq(Ref(Len(heap)))
        /\ Mapped(ValuesIn(heap), more) = Values!Spliced(Values!ValueOf(e))
    <3> HIDE DEF more
    <3>1. QED
      BY SplicedSeen DEF more, r
  <2>2. QED
    BY <2>1
<1> HIDE DEF r, hands, more, V, b
<1> DEFINE old == Elements(there)
<1>4. /\ IsNode(Found(there)) <=> Values!IsList(a)
      /\ ~ IsNode(Found(there)) => a = Found(there)
      /\ IsNode(Found(there)) =>
           /\ Len(old) \in Nat /\ Len(old) <= MaxList
           /\ old \in Seq(Among(mem, old))
           /\ Mapped(Val(there.m), old) = a /\ Len(a) = Len(old)
      /\ \A x \in Ref(Len(heap)) : Val(there.m)[x] = V[x]
  BY <1>1, <1>2, ListFound DEF V
<1> HIDE DEF mem, old, a
<1>5. Len(more) \in Nat /\ Len(b) = Len(more) /\ \E S : b \in Seq(S)
  <2>1. Len(more) \in Nat /\ Len(Mapped(V, more)) = Len(more)
    BY <1>3, MappedLength
  <2>2. \E S : Mapped(V, more) \in Seq(S)
    BY <1>3, MappedIs
  <2>3. QED
    BY <1>3, <2>1, <2>2
<1>6. Values!Extend(p, e) <=>
        /\ LET was == IF a = Nil THEN <<>> ELSE a
           IN  /\ Values!IsList(was)
               /\ Len(was) + Len(b) <= MaxList
               /\ Vals' = WithWritten(Vals, p, was \o b)
        /\ Acts' = Acts
  BY DEF Values!Extend, Values!Write, WithWritten, Vals, Acts, a, b
<1>7. CASE /\ Found(there) = Nil /\ Len(more) <= MaxList
           /\ Becomes(Make(there.m, there.loc, more), active)
  <2>1. PICK new : new = Make(there.m, there.loc, more)
    OBVIOUS
  <2>2. more \in Seq(InHand(Memory(hands))) /\ b = Mapped(ValuesIn(heap), more)
    BY <1>3 DEF H, mem, V
  <2>3. Becomes(new, active) => Wrote(p, b)
    BY <1>1, <1>2, <1>7, <2>1, <2>2, MakeSeen
  <2>4. Wrote(p, b)
    BY <1>7, <2>1, <2>3
  <2>5. a = Nil
    BY <1>4, <1>7, PlaceAssumption DEF IsNode
  <2> DEFINE none == <<>>
  <2>6. Values!IsList(none)
    <3>1. none \in Seq({Nil})
      OBVIOUS
    <3> HIDE DEF none
    <3>2. QED
      BY <3>1 DEF Values!IsList, AtomsAreNoLists
  <2>7. none \o b = b /\ Len(none) + Len(b) = Len(b)
    BY <1>5
  <2> HIDE DEF none
  <2>8. LET was == IF a = Nil THEN none ELSE a
        IN  Values!IsList(was) /\ Len(was) + Len(b) <= MaxList /\ Vals' = WithWritten(Vals, p, was \o b)
    BY <1>5, <1>7, <2>4, <2>5, <2>6, <2>7 DEF Wrote
  <2>9. QED
    BY <1>6, <2>4, <2>8 DEF Wrote, none
<1>8. CASE /\ IsNode(Found(there)) /\ Len(old) + Len(more) <= MaxList
           /\ Becomes(Rewrite(there.m, there.loc, old \o more), active)
  <2> DEFINE S == Among(mem, old)
             W == Val(there.m)
             elements == old \o more
             v == Mapped(W, elements)
  <2>1. Len(old) \in Nat /\ old \in Seq(S) /\ Mapped(W, old) = a /\ Len(a) = Len(old)
        /\ Values!IsList(a)
    BY <1>4, <1>8
  <2>2. H \subseteq S
    BY DEF Among, H
  <2> HIDE DEF S, H
  <2>3. more \in Seq(S)
    BY <1>3, <2>2, SeqMonotonic
  <2>4. elements \in Seq(S) /\ Len(elements) = Len(old) + Len(more)
    BY <2>1, <2>3, ConcatProperties
  <2>5. Mapped(W, more) = b
    <3>1. \A i \in 1..Len(more) : W[more[i]] = V[more[i]]
      BY <1>3, <1>4
    <3>2. Mapped(W, more) = Mapped(V, more)
      BY <3>1 DEF Mapped
    <3>3. QED
      BY <1>3, <3>2
  <2>6. v = a \o b
    <3> HIDE DEF W
    <3>1. v = Mapped(W, old) \o Mapped(W, more)
      BY <2>1, <2>3, MappedConcat
    <3>2. QED
      BY <2>1, <2>5, <3>1
  <2> HIDE DEF elements, v
  <2>7. PICK new : new = Rewrite(there.m, there.loc, elements)
    OBVIOUS
  <2>8. elements \in Seq(Among(Memory(hands), Elements(there))) /\ v = Mapped(Val(there.m), elements)
    BY <2>4 DEF S, mem, old, v, W
  <2>9. Len(elements) <= MaxList
    BY <1>8, <2>4
  <2>10. Becomes(new, active) => Wrote(p, v)
    BY <1>1, <1>2, <1>8, <2>7, <2>8, <2>9, RewriteSeen
  <2>11. Wrote(p, v)
    BY <1>8, <2>7, <2>10 DEF elements
  <2>12. a # Nil
    BY <2>1, PlaceAssumption DEF Values!IsList
  <2>13. LET was == IF a = Nil THEN <<>> ELSE a
         IN  Values!IsList(was) /\ Len(was) + Len(b) <= MaxList /\ Vals' = WithWritten(Vals, p, was \o b)
    BY <1>5, <1>8, <2>1, <2>6, <2>11, <2>12 DEF Wrote
  <2>14. QED
    BY <1>6, <2>11, <2>13 DEF Wrote
<1>9. QED
  BY <1>1, <1>7, <1>8 DEF old

\* A form that fails shows nothing but its end.
LEMMA FailSeen ==
  ASSUME AtomsAreNoLists, IInv, Fail
  PROVE  Values!Fail
<1>1. PICK p \in Place, forms \in {active, IF active = <<>> THEN active ELSE Front(active)} :
        Becomes(Navigate(Memory(<<>>), p).m, forms)
  BY DEF Fail
<1> DEFINE hands == <<>>
           mem == Memory(hands)
<1>2. PICK m : m = Navigate(mem, p).m
  OBVIOUS
<1>3. hands \in Seq(Ref(Len(heap))) /\ Sound(mem) /\ mem.heap = heap
  BY NoHands
<1>4. Becomes(m, forms)
  BY <1>1, <1>2
<1> HIDE DEF hands
<1>5. Sound(m) /\ SameView(mem, m) /\ Len(heap) <= Len(m.heap)
  <2> DEFINE x == Navigate(mem, p)
  <2>1. Seen(mem, p.root, p.path, Len(p.path), x)
    <3> HIDE DEF mem
    <3>1. QED
      BY <1>3, NavigateSeen
  <2> HIDE DEF x, mem
  <2>2. QED
    BY <1>2, <1>3, <2>1 DEF Seen, Kept, x
<1>6. /\ Becomes(m, active) => Vals' = Vals /\ Acts' = Acts
      /\ active # <<>> /\ Becomes(m, Front(active)) => Vals' = Vals /\ Acts' = Values!Front(Acts)
  BY <1>3, <1>5, UnseenEnds
<1>7. Vals' = Vals /\ (Acts' = Acts \/ (active # <<>> /\ Acts' = Values!Front(Acts)))
  BY <1>1, <1>4, <1>6
<1>8. active # <<>> => Acts # <<>>
  <2>1. Len(Acts) = Len(active) /\ Len(active) \in Nat /\ active \in Seq(Forms(Len(heap)))
    BY ActiveIs DEF IInv, Shape
  <2> HIDE DEF Acts
  <2>2. QED
    BY <2>1
<1>9. Values!Fail <=>
        /\ Acts' \in {Acts, IF Acts = <<>> THEN Acts ELSE Values!Front(Acts)}
        /\ Vals' = Vals
  BY DEF Values!Fail, Vals, Acts
<1>10. QED
  BY <1>7, <1>8, <1>9

(* The visits of a swap, as a program sees them. *)

\* The slots as seen in m, and what the forms under way hold, which is in hand.
Carries(m, slots) ==
  /\ Sound(m) /\ Len(heap) <= Len(m.heap) /\ SlotsSeen(m) = slots
  /\ \A k \in 1..Len(active) :
       /\ \E j \in 1..Len(m.hands) : active[k].held = m.hands[j]
       /\ Val(m)[active[k].held] = ValuesIn(heap)[active[k].held]

\* What is in hand stands for what it stood for.
SameHands(m, new) ==
  new.hands = m.hands /\ \A j \in 1..Len(m.hands) : Val(new)[m.hands[j]] = Val(m)[m.hands[j]]

\* Between the visits of swap: a memory whose hands hold what they held carries the forms on.
LEMMA CarriedOn ==
  ASSUME IInv, NEW m, NEW slots, Carries(m, slots),
         NEW new, Sound(new), Len(m.heap) <= Len(new.heap), SameHands(m, new)
  PROVE  Carries(new, SlotsSeen(new))
<1>1. Len(heap) \in Nat /\ Len(m.heap) \in Nat /\ Len(new.heap) \in Nat
  BY DEF IInv, Shape, Carries, Sound, WellFormed
<1>2. Len(heap) <= Len(new.heap)
  BY <1>1 DEF Carries
<1>3. ASSUME NEW k \in 1..Len(active)
      PROVE  /\ \E j \in 1..Len(new.hands) : active[k].held = new.hands[j]
             /\ Val(new)[active[k].held] = ValuesIn(heap)[active[k].held]
  BY DEF Carries, SameHands
<1>4. QED
  BY <1>2, <1>3 DEF Carries

\* Where a place leads then.
NavigatedOn(m, slots, p, x) ==
  /\ Carries(x.m, slots) /\ SameHands(m, x.m) /\ x.ok \in BOOLEAN
  /\ x.ok => /\ Visiting(m, p, x.m, x.loc) /\ Found(x) \in Ref(Len(x.m.heap))
             /\ Val(x.m)[Found(x)] = Values!Part(slots[p.root], p.path)
             /\ Values!Part(slots[p.root], p.path) # Missing
  /\ ~ x.ok => Values!Part(slots[p.root], p.path) = Missing

\* A later visit finds its place as the earlier writes have left it.
LEMMA NavigateAgain ==
  ASSUME AtomsAreNoLists, IInv, NEW m, NEW slots, Carries(m, slots), NEW p \in Place,
         NEW x, x = Navigate(m, p)
  PROVE  NavigatedOn(m, slots, p, x)
<1>1. Sound(m) /\ p.root \in Symbols /\ p.path \in Seq(Int)
  BY PlaceAssumption DEF Carries, Place
<1>2. Seen(m, p.root, p.path, Len(p.path), x)
  BY <1>1, NavigateSeen
<1>3. Kept(m, x.m) /\ SameView(m, x.m) /\ x.ok \in BOOLEAN /\ Sound(x.m) /\ Len(m.heap) <= Len(x.m.heap)
  BY <1>2 DEF Seen, Kept
<1>4. SameHands(m, x.m)
  <2>1. \A j \in 1..Len(m.hands) : m.hands[j] \in Ref(Len(m.heap))
    BY <1>1, MemoryParts DEF Sound
  <2>2. QED
    BY <1>3, <2>1 DEF SameHands, SameView, Kept
<1>5. SlotsSeen(m) = slots /\ SlotsSeen(x.m) = slots
  BY <1>3 DEF Carries, SlotsSeen, SameView
<1>6. Carries(x.m, slots)
  <2> DEFINE new == x.m
  <2>1. Sound(new) /\ Len(m.heap) <= Len(new.heap) /\ SameHands(m, new) /\ SlotsSeen(new) = slots
    BY <1>3, <1>4, <1>5
  <2> HIDE DEF new
  <2>2. Carries(new, SlotsSeen(new))
    BY <2>1, CarriedOn
  <2>3. QED
    BY <2>1, <2>2 DEF new
<1>7. ValueAt(m, p) = Values!Part(slots[p.root], p.path)
  BY <1>1, <1>5 DEF ValueAt, SlotsSeen
<1>8. ASSUME x.ok
      PROVE  /\ Visiting(m, p, x.m, x.loc) /\ Found(x) \in Ref(Len(x.m.heap))
             /\ Val(x.m)[Found(x)] = ValueAt(m, p) /\ ValueAt(m, p) # Missing
  <2>1. Visiting(m, p, x.m, x.loc)
    BY <1>2, <1>8 DEF Seen, Visiting
  <2>2. QED
    BY <1>1, <2>1, VisitingIs DEF Found
<1>9. ~ x.ok => ValueAt(m, p) = Missing
  BY <1>1, <1>2, AboveSteps DEF Seen, ValueAt
<1>10. QED
  BY <1>3, <1>4, <1>6, <1>7, <1>8, <1>9 DEF NavigatedOn

\* The value found is taken in hand.
TakenToo(m, r, new) ==
  /\ Len(new.hands) = Len(m.hands) + 1 /\ new.hands[Len(m.hands) + 1] = r /\ Val(new) = Val(m)
  /\ \A j \in 1..Len(m.hands) : new.hands[j] = m.hands[j]

\* Taking a value in hand shows nothing.
LEMMA HandCarried ==
  ASSUME IInv, NEW m, NEW slots, Carries(m, slots), NEW r \in Ref(Len(m.heap)),
         NEW new, new = InHandToo(m, r)
  PROVE  Carries(new, slots) /\ TakenToo(m, r, new)
<1>1. Sound(m) /\ m.hands \in Seq(Ref(Len(m.heap))) /\ Len(m.hands) \in Nat
  BY MemoryParts DEF Carries, Sound
<1>2. Sound(new) /\ new.heap = m.heap /\ Len(new.hands) = Len(m.hands) + 1
  BY <1>1, HandTaken
<1>3. m = [heap |-> m.heap, globals |-> m.globals, hands |-> m.hands]
  BY <1>1, MemoryIs DEF Sound
<1>4. new.globals = m.globals /\ new.hands = Append(m.hands, r)
  BY <1>3 DEF InHandToo
<1> DEFINE a == m.hands
           n == Len(a)
           R == Ref(Len(m.heap))
<1>5. Append(a, r)[n + 1] = r /\ \A j \in 1..n : Append(a, r)[j] = a[j]
  <2>1. a \in Seq(R) /\ r \in R
    BY <1>1
  <2> HIDE DEF a, R
  <2>2. QED
    BY <2>1
<1>6. TakenToo(m, r, new)
  BY <1>2, <1>4, <1>5 DEF TakenToo, Val
<1>7. SlotsSeen(new) = slots
  BY <1>2, <1>4 DEF SlotsSeen, Val, Carries
<1>8. ASSUME NEW k \in 1..Len(active)
      PROVE  \E j \in 1..Len(new.hands) : active[k].held = new.hands[j]
  <2>1. PICK j \in 1..Len(m.hands) : active[k].held = m.hands[j]
    BY DEF Carries
  <2>2. j \in 1..Len(new.hands)
    BY <1>1, <1>2, <2>1
  <2>3. QED
    BY <1>6, <2>1, <2>2 DEF TakenToo
<1>9. QED
  BY <1>2, <1>6, <1>7, <1>8 DEF Carries, TakenToo

\* A value in hand is written.
LEMMA StoreCarried ==
  ASSUME AtomsAreNoLists, IInv, NEW m, NEW slots, Carries(m, slots), NEW p \in Place,
         NEW x, Visiting(m, p, x.m, x.loc), NEW j \in 1..Len(m.hands),
         NEW new, new = Store(x.m, x.loc, m.hands[j])
  PROVE  Carries(new, WithWritten(slots, p, Val(m)[m.hands[j]])) /\ SameHands(m, new)
<1> DEFINE r == m.hands[j]
           v == Val(m)[r]
<1>1. Sound(m) /\ r \in InHand(m) /\ p.root \in Symbols
  BY DEF Carries, InHand, Place
<1> HIDE DEF r
<1>2. new = Store(x.m, x.loc, r)
  BY DEF r
<1>3. Written(m, p, Val(m)[r], new)
  BY <1>1, <1>2, StoreWrites
<1>4. Sound(new) /\ Len(m.heap) <= Len(new.heap) /\ SameHands(m, new)
  BY <1>3 DEF Written, SameHands, InHand
<1>5. SlotsSeen(new) = WithWritten(slots, p, v)
  BY <1>1, <1>3 DEF Written, Rewritten, SlotsSeen, WithWritten, Carries
<1>6. Carries(new, SlotsSeen(new))
  BY <1>4, CarriedOn
<1>7. QED
  BY <1>4, <1>5, <1>6 DEF r

PartOf(slots, p) == Values!Part(slots[p.root], p.path)

\* A place has been read, and what was there is the value in hand last.
HasRead(m, slots, p, new) ==
  LET n == Len(m.hands) IN
  /\ Carries(new, slots) /\ n \in Nat /\ Len(new.hands) = n + 1
  /\ Val(new)[new.hands[n + 1]] = PartOf(slots, p) /\ PartOf(slots, p) # Missing
  /\ \A j \in 1..n : Val(new)[new.hands[j]] = Val(m)[m.hands[j]]

\* The visits that read take the value of the place in hand and show nothing.
LEMMA ReadCarried ==
  ASSUME AtomsAreNoLists, IInv, NEW m, NEW slots, Carries(m, slots), NEW p \in Place,
         NEW x, x = Navigate(m, p), x.ok, NEW new, new = InHandToo(x.m, Found(x))
  PROVE  HasRead(m, slots, p, new)
<1> DEFINE r == Found(x)
           y == x.m
<1>1. NavigatedOn(m, slots, p, x)
  BY NavigateAgain
<1>2. Carries(y, slots) /\ SameHands(m, y) /\ r \in Ref(Len(y.heap)) /\ Val(y)[r] = PartOf(slots, p)
      /\ PartOf(slots, p) # Missing
  BY <1>1 DEF NavigatedOn, PartOf
<1>3. new = InHandToo(y, r)
  OBVIOUS
<1> HIDE DEF r, y
<1>4. Carries(new, slots) /\ TakenToo(y, r, new)
  BY <1>2, <1>3, HandCarried
<1>5. Len(m.hands) \in Nat
  <2>1. WellFormed(m)
    BY DEF Carries, Sound
  <2>2. QED
    BY <2>1, MemoryParts
<1>6. QED
  BY <1>2, <1>4, <1>5 DEF HasRead, TakenToo, SameHands

\* The two kinds of visits.
Reads(p, before, after) ==
  LET x == Navigate(before.m, p) IN
  after.ok => before.ok /\ x.ok /\ after.m = InHandToo(x.m, Found(x))

Writes(p, j, before, after) ==
  LET x == Navigate(before.m, p) IN
  after.ok => /\ before.ok
              /\ x.ok => after.m = Store(x.m, x.loc, x.m.hands[Len(x.m.hands) - j])
              /\ ~ x.ok => after.m = x.m

\* The four visits: two that read, two that write what the others read.
LEMMA SwapVisitIs ==
  ASSUME NEW p, NEW q, NEW before
  PROVE  /\ Reads(p, before, SwapVisit(p, q, 1, before))
         /\ Reads(q, before, SwapVisit(p, q, 2, before))
         /\ Writes(p, 0, before, SwapVisit(p, q, 3, before))
         /\ Writes(q, 1, before, SwapVisit(p, q, 4, before))
<1>1. Reads(p, before, SwapVisit(p, q, 1, before))
  <2> DEFINE x == Navigate(before.m, p)
             after == SwapVisit(p, q, 1, before)
  <2>1. CASE before.ok /\ x.ok
    <3>1. after = [m |-> InHandToo(x.m, Found(x)), ok |-> TRUE]
      BY <2>1 DEF SwapVisit, InHandToo
    <3>2. after.m = InHandToo(x.m, Found(x))
      BY <3>1
    <3>3. QED
      BY <2>1, <3>2 DEF Reads
  <2>2. CASE ~ (before.ok /\ x.ok)
    <3> DEFINE ok == before.ok /\ 1 > 2
    <3>1. after = [m |-> x.m, ok |-> ok]
      BY <2>2 DEF SwapVisit
    <3>2. ~ ok
      OBVIOUS
    <3> HIDE DEF ok
    <3>3. after.ok = ok
      BY <3>1
    <3> HIDE DEF after
    <3>4. ~ after.ok
      BY <3>2, <3>3
    <3>5. QED
      BY <3>4 DEF Reads, after
  <2>3. QED
    BY <2>1, <2>2
<1>2. Reads(q, before, SwapVisit(p, q, 2, before))
  <2> DEFINE x == Navigate(before.m, q)
             after == SwapVisit(p, q, 2, before)
  <2>1. CASE before.ok /\ x.ok
    <3>1. after = [m |-> InHandToo(x.m, Found(x)), ok |-> TRUE]
      BY <2>1 DEF SwapVisit, InHandToo
    <3>2. after.m = InHandToo(x.m, Found(x))
      BY <3>1
    <3>3. QED
      BY <2>1, <3>2 DEF Reads
  <2>2. CASE ~ (before.ok /\ x.ok)
    <3> DEFINE ok == before.ok /\ 2 > 2
    <3>1. after = [m |-> x.m, ok |-> ok]
      BY <2>2 DEF SwapVisit
    <3>2. ~ ok
      OBVIOUS
    <3> HIDE DEF ok
    <3>3. after.ok = ok
      BY <3>1
    <3> HIDE DEF after
    <3>4. ~ after.ok
      BY <3>2, <3>3
    <3>5. QED
      BY <3>4 DEF Reads, after
  <2>3. QED
    BY <2>1, <2>2
<1>3. Writes(p, 0, before, SwapVisit(p, q, 3, before))
  <2> DEFINE x == Navigate(before.m, p)
             after == SwapVisit(p, q, 3, before)
             y == Store(x.m, x.loc, x.m.hands[Len(x.m.hands) - 0])
  <2>1. CASE before.ok /\ x.ok
    <3>1. after = [m |-> Store(x.m, x.loc, Exchanged(x.m.hands, 3)), ok |-> TRUE]
      BY <2>1 DEF SwapVisit
    <3>2. 3 - 3 = 0
      OBVIOUS
    <3>3. after.m = y
      BY <3>1, <3>2 DEF Exchanged
    <3>4. QED
      BY <2>1, <3>3 DEF Writes
  <2>2. CASE ~ (before.ok /\ x.ok)
    <3> DEFINE ok == before.ok /\ 3 > 2
    <3>1. after = [m |-> x.m, ok |-> ok]
      BY <2>2 DEF SwapVisit
    <3>2. ok => before.ok
      OBVIOUS
    <3> HIDE DEF ok
    <3>3. after.ok = ok /\ after.m = x.m
      BY <3>1
    <3> HIDE DEF after
    <3>4. after.ok => before.ok /\ ~ x.ok
      BY <2>2, <3>2, <3>3
    <3>5. QED
      BY <3>3, <3>4 DEF Writes, after
  <2>3. QED
    BY <2>1, <2>2
<1>4. Writes(q, 1, before, SwapVisit(p, q, 4, before))
  <2> DEFINE x == Navigate(before.m, q)
             after == SwapVisit(p, q, 4, before)
             y == Store(x.m, x.loc, x.m.hands[Len(x.m.hands) - 1])
  <2>1. CASE before.ok /\ x.ok
    <3>1. after = [m |-> Store(x.m, x.loc, Exchanged(x.m.hands, 4)), ok |-> TRUE]
      BY <2>1 DEF SwapVisit
    <3>2. 4 - 3 = 1
      OBVIOUS
    <3>3. after.m = y
      BY <3>1, <3>2 DEF Exchanged
    <3>4. QED
      BY <2>1, <3>3 DEF Writes
  <2>2. CASE ~ (before.ok /\ x.ok)
    <3> DEFINE ok == before.ok /\ 4 > 2
    <3>1. after = [m |-> x.m, ok |-> ok]
      BY <2>2 DEF SwapVisit
    <3>2. ok => before.ok
      OBVIOUS
    <3> HIDE DEF ok
    <3>3. after.ok = ok /\ after.m = x.m
      BY <3>1
    <3> HIDE DEF after
    <3>4. after.ok => before.ok /\ ~ x.ok
      BY <2>2, <3>2, <3>3
    <3>5. QED
      BY <3>3, <3>4 DEF Writes, after
  <2>3. QED
    BY <2>1, <2>2
<1>5. QED
  BY <1>1, <1>2, <1>3, <1>4

\* When the last visit ends, what it carried is what a program sees.
LEMMA CarriesEnds ==
  ASSUME IInv, NEW m, NEW slots, Carries(m, slots), Becomes(m, active)
  PROVE  Vals' = slots /\ Acts' = Acts
<1> DEFINE l == Len(m.heap)
<1>1. Sound(m) /\ l \in Nat /\ Len(heap) <= l /\ SlotsSeen(m) = slots
  BY DEF Carries, Sound, WellFormed
<1> HIDE DEF l
<1>2. active \in Seq(Forms(l))
  BY <1>1, FormsKept
<1>3. Vals' = SlotsSeen(m) /\ Acts' = FormsSeen(m, active)
  BY <1>1, <1>2, BecomesSeen DEF l
<1>4. FormsSeen(m, active) = Acts
  BY FormsSame DEF Carries
<1>5. QED
  BY <1>1, <1>3, <1>4

\* What a program sees once the one value is written at the one place, and the other at
\* the other, if that is still there.
AfterSwap(slots, p, q) ==
  LET once == WithWritten(slots, p, PartOf(slots, q)) IN
  IF PartOf(once, q) = Missing THEN once ELSE WithWritten(once, q, PartOf(slots, p))

\* swap ends in a memory that shows that.
LEMMA SwapCarries ==
  ASSUME AtomsAreNoLists, IInv, NEW p \in Place, NEW q \in Place,
         NEW done, done = Swapped(p, q), done.ok
  PROVE  /\ PartOf(Vals, p) # Missing /\ PartOf(Vals, q) # Missing
         /\ Carries(done.m, AfterSwap(Vals, p, q))
<1> DEFINE v0 == [m |-> Memory(<<>>), ok |-> TRUE]
           v1 == SwapVisit(p, q, 1, v0)
           v2 == SwapVisit(p, q, 2, v1)
           v3 == SwapVisit(p, q, 3, v2)
           v4 == SwapVisit(p, q, 4, v3)
           m0 == v0.m
           m1 == v1.m
           m2 == v2.m
           m3 == v3.m
           m4 == v4.m
           x1 == Navigate(m0, p)
           x2 == Navigate(m1, q)
           x3 == Navigate(m2, p)
           x4 == Navigate(m3, q)
           a == PartOf(Vals, p)
           b == PartOf(Vals, q)
           once == WithWritten(Vals, p, b)
           twice == WithWritten(once, q, a)
<1>1. v4 = done /\ v4.ok
  BY SwappedIs
<1>2. m0 = Memory(<<>>)
  OBVIOUS
<1>3. Reads(p, v0, v1) /\ Reads(q, v1, v2) /\ Writes(p, 0, v2, v3) /\ Writes(q, 1, v3, v4)
  BY SwapVisitIs
<1> HIDE DEF v0, v1, v2, v3, v4
<1>4. /\ x1.ok /\ m1 = InHandToo(x1.m, Found(x1))
      /\ x2.ok /\ m2 = InHandToo(x2.m, Found(x2))
      /\ x3.ok => m3 = Store(x3.m, x3.loc, x3.m.hands[Len(x3.m.hands) - 0])
      /\ x4.ok => m4 = Store(x4.m, x4.loc, x4.m.hands[Len(x4.m.hands) - 1])
      /\ ~ x4.ok => m4 = x4.m
  BY <1>1, <1>3 DEF Reads, Writes
<1> HIDE DEF m0, m1, m2, m3, m4
<1>5. Carries(m0, Vals)
  <2> DEFINE hands == <<>>
             mem == Memory(hands)
  <2>1. hands \in Seq(Ref(Len(heap)))
    BY NoHands
  <2>2. m0 = mem
    BY <1>2
  <2>3. mem.hands = [k \in 1..Len(active) |-> active[k].held]
    <3>1. Len(active) \in Nat
      BY ActiveIs
    <3>2. \A k \in 1..Len(active) : active[k].held \in Ref(Len(heap))
      BY ActiveIs
    <3> DEFINE s == [k \in 1..Len(active) |-> active[k].held]
    <3>3. s \in Seq(Ref(Len(heap)))
      BY <3>1, <3>2
    <3> HIDE DEF s
    <3>4. s \o <<>> = s
      BY <3>3
    <3>5. QED
      BY <3>4 DEF Memory, s
  <2> HIDE DEF hands
  <2>4. Sound(mem) /\ mem.heap = heap /\ mem.globals = globals /\ Val(mem) = ValuesIn(heap)
    BY <2>1, MemoryHas
  <2>5. Len(heap) \in Nat /\ Len(active) \in Nat
    BY ActiveIs DEF IInv, Shape
  <2> HIDE DEF mem
  <2>6. Len(mem.hands) = Len(active) /\ \A k \in 1..Len(active) : mem.hands[k] = active[k].held
    BY <2>3, <2>5
  <2>7. SlotsSeen(mem) = Vals
    BY <2>4 DEF SlotsSeen, Vals
  <2>8. QED
    BY <2>2, <2>4, <2>5, <2>6, <2>7 DEF Carries
<1>6. HasRead(m0, Vals, p, m1)
  BY <1>4, <1>5, ReadCarried
<1>7. Carries(m1, Vals)
  BY <1>6 DEF HasRead
<1>8. HasRead(m1, Vals, q, m2)
  BY <1>4, <1>7, ReadCarried
<1> DEFINE n == Len(m1.hands)
           n1 == n + 1
<1>9. /\ Carries(m2, Vals) /\ n \in Nat /\ n >= 1 /\ Len(m2.hands) = n1
      /\ Val(m2)[m2.hands[n]] = a /\ Val(m2)[m2.hands[n1]] = b
      /\ a # Missing /\ b # Missing
  <2>1. Len(m0.hands) \in Nat /\ n = Len(m0.hands) + 1 /\ Val(m1)[m1.hands[n]] = a /\ a # Missing
    BY <1>6 DEF HasRead
  <2>2. n \in 1..n
    BY <2>1
  <2>3. QED
    BY <1>8, <2>1, <2>2 DEF HasRead
<1> HIDE DEF x3, x4
<1>10. /\ Carries(m3, once) /\ Len(m3.hands) = n1 /\ Val(m3)[m3.hands[n]] = a
  <2>1. NavigatedOn(m2, Vals, p, x3)
    BY <1>9, NavigateAgain DEF x3
  <2>2. x3.ok /\ Visiting(m2, p, x3.m, x3.loc) /\ x3.m.hands = m2.hands
    BY <1>9, <2>1 DEF NavigatedOn, PartOf, SameHands
  <2>3. n1 \in 1..Len(m2.hands) /\ n \in 1..Len(m2.hands) /\ Len(m2.hands) - 0 = n1
    BY <1>9
  <2>4. m3 = Store(x3.m, x3.loc, m2.hands[n1])
    BY <1>4, <2>2, <2>3
  <2> HIDE DEF n, n1
  <2>5. Carries(m3, WithWritten(Vals, p, Val(m2)[m2.hands[n1]])) /\ SameHands(m2, m3)
    BY <1>9, <2>2, <2>3, <2>4, StoreCarried
  <2>6. QED
    BY <1>9, <2>3, <2>5 DEF SameHands
<1>11. NavigatedOn(m3, once, q, x4)
  <2> HIDE DEF once
  <2>1. QED
    BY <1>10, NavigateAgain DEF x4
<1>12. Carries(m4, IF PartOf(once, q) = Missing THEN once ELSE twice)
  <2>1. CASE x4.ok
    <3>1. Visiting(m3, q, x4.m, x4.loc) /\ x4.m.hands = m3.hands /\ PartOf(once, q) # Missing
      BY <1>11, <2>1 DEF NavigatedOn, PartOf, SameHands
    <3>2. n \in 1..Len(m3.hands) /\ Len(m3.hands) - 1 = n
      BY <1>9, <1>10
    <3>3. m4 = Store(x4.m, x4.loc, m3.hands[n])
      BY <1>4, <2>1, <3>1, <3>2
    <3> HIDE DEF n, once
    <3>4. Carries(m4, WithWritten(once, q, Val(m3)[m3.hands[n]]))
      BY <1>10, <3>1, <3>2, <3>3, StoreCarried
    <3>5. QED
      BY <1>10, <3>1, <3>4
  <2>2. CASE ~ x4.ok
    BY <1>4, <1>11, <2>2 DEF NavigatedOn, PartOf
  <2>3. QED
    BY <2>1, <2>2
<1>13. AfterSwap(Vals, p, q) = IF PartOf(once, q) = Missing THEN once ELSE twice
  BY DEF AfterSwap
<1>14. m4 = done.m
  BY <1>1 DEF m4
<1>15. QED
  BY <1>9, <1>12, <1>13, <1>14

\* So swap writes the one value at the one place and then the other at the other, as in Places.
LEMMA SwapSeen ==
  ASSUME AtomsAreNoLists, IInv, NEW p \in Place, NEW q \in Place, Swap(p, q)
  PROVE  Values!Swap(p, q)
<1> DEFINE after == AfterSwap(Vals, p, q)
<1>1. PICK done : done = Swapped(p, q) /\ done.ok /\ Becomes(done.m, active)
  BY DEF Swap
<1>2. PartOf(Vals, p) # Missing /\ PartOf(Vals, q) # Missing /\ Carries(done.m, after)
  BY <1>1, SwapCarries
<1>3. Vals' = after /\ Acts' = Acts
  <2> DEFINE m == done.m
  <2> HIDE DEF after, m
  <2>1. Carries(m, after) /\ Becomes(m, active)
    BY <1>1, <1>2 DEF m
  <2>2. QED
    BY <2>1, CarriesEnds
<1>4. Values!At(p) = PartOf(Vals, p) /\ Values!At(q) = PartOf(Vals, q)
  BY DEF Values!At, PartOf, Vals
<1>5. Values!Swap(p, q) <=>
         /\ Values!At(p) # Missing /\ Values!At(q) # Missing
         /\ LET once == WithWritten(Vals, p, Values!At(q))
            IN  Vals' = IF Values!Part(once[q.root], q.path) = Missing THEN once
                        ELSE WithWritten(once, q, Values!At(p))
         /\ Acts' = Acts
  BY DEF Values!Swap, WithWritten, Vals, Acts
<1>6. QED
  BY <1>2, <1>3, <1>4, <1>5 DEF PartOf, AfterSwap

\* A script starts as Places starts,
LEMMA InitSeen ==
  ASSUME AtomsAreNoLists, Init
  PROVE  Values!Init
<1> DEFINE mem == Memory(<<>>)
           V == ValuesIn(heap)
<1>1. globals = [s \in Symbols |-> Nil] /\ active = <<>>
  BY DEF Init
<1>2. IInv
  BY InitHolds
<1>3. Sound(mem) /\ Val(mem) = V
  BY <1>2, NoHands, MemoryHas
<1> HIDE DEF mem, V
<1>4. V[Nil] = Nil
  BY <1>3, ValFits, PlaceAssumption DEF Fits
<1>5. Vals = [s \in Symbols |-> Nil]
  BY <1>1, <1>4 DEF Vals, V
<1>6. Acts = <<>>
  BY <1>1 DEF Acts
<1>7. QED
  BY <1>5, <1>6 DEF Values!Init, Vals, Acts

\* and whatever step the lists take, their values take one of Places or none.
LEMMA StepSeen ==
  ASSUME AtomsAreNoLists, IInv, [Next]_vars
  PROVE  [Values!Next]_(Values!vars)
<1>1. ASSUME NEW s \in Symbols, NEW e \in Expressions, Assign(s, e) PROVE Values!Next
  <2>1. Values!Assign(s, e)
    BY <1>1, AssignSeen
  <2>2. QED
    BY <2>1 DEF Values!Next, Values!Expressions, Expressions, Values!Place, Place
<1>2. ASSUME NEW form \in {"setf", "replace"}, NEW p \in Place, BeginReading(form, p)
      PROVE  Values!Next
  <2>1. Values!BeginReading(form, p)
    BY <1>2, BeginReadingSeen
  <2>2. QED
    BY <2>1 DEF Values!Next, Values!Place, Place
<1>3. ASSUME NEW e \in Expressions, BeginPush(e) PROVE Values!Next
  <2>1. Values!BeginPush(e)
    BY <1>3, BeginPushSeen
  <2>2. QED
    BY <2>1 DEF Values!Next, Values!Expressions, Expressions, Values!Place, Place
<1>4. ASSUME NEW e \in Expressions, EndSetf(e) PROVE Values!Next
  <2>1. Values!EndSetf(e)
    BY <1>4, EndSetfSeen
  <2>2. QED
    BY <2>1 DEF Values!Next, Values!Expressions, Expressions, Values!Place, Place
<1>5. ASSUME NEW e \in Expressions, NEW key \in Atoms, EndReplace(key, e) PROVE Values!Next
  <2>1. Values!EndReplace(key, e)
    BY <1>5, EndReplaceSeen
  <2>2. QED
    BY <2>1 DEF Values!Next, Values!Expressions, Expressions, Values!Place, Place
<1>6. ASSUME NEW p \in Place, NEW i \in Indices, EndPush(p, i) PROVE Values!Next
  <2>1. Values!EndPush(p, i)
    BY <1>6, EndPushSeen
  <2>2. QED
    BY <2>1 DEF Values!Next, Values!Place, Place
<1>7. ASSUME NEW p \in Place, NEW i \in Indices, Pop(p, i)
      PROVE  Values!Next \/ (Vals' = Vals /\ Acts' = Acts)
  <2>1. CASE Values!Pop(p, i)
    BY <2>1 DEF Values!Next, Values!Place, Place
  <2>2. CASE Vals' = Vals /\ Acts' = Acts
    BY <2>2
  <2>3. QED
    BY <1>7, <2>1, <2>2, PopSeen
<1>8. ASSUME NEW p \in Place, NEW n \in Atoms, Incr(p, n) PROVE Values!Next
  <2>1. Values!Incr(p, n)
    BY <1>8, IncrSeen
  <2>2. QED
    BY <2>1 DEF Values!Next, Values!Place, Place
<1>9. ASSUME NEW p \in Place, NEW e \in Expressions, Extend(p, e) PROVE Values!Next
  <2>1. Values!Extend(p, e)
    BY <1>9, ExtendSeen
  <2>2. QED
    BY <2>1 DEF Values!Next, Values!Expressions, Expressions, Values!Place, Place
<1>10. ASSUME NEW p \in Place, NEW q \in Place, Swap(p, q) PROVE Values!Next
  <2>1. Values!Swap(p, q)
    BY <1>10, SwapSeen
  <2>2. QED
    BY <2>1 DEF Values!Next, Values!Place, Place
<1>11. ASSUME NEW p \in Place, ReverseAt(p) PROVE Values!Next
  <2>1. Values!ReverseAt(p)
    BY <1>11, ReverseAtSeen
  <2>2. QED
    BY <2>1 DEF Values!Next, Values!Place, Place
<1>12. ASSUME Fail PROVE Values!Next
  <2>1. Values!Fail
    BY <1>12, FailSeen
  <2>2. QED
    BY <2>1 DEF Values!Next
<1>13. ASSUME UNCHANGED vars PROVE Vals' = Vals /\ Acts' = Acts
  BY <1>13 DEF vars, Vals, Acts
<1>14. Values!Next \/ (Vals' = Vals /\ Acts' = Acts)
  BY <1>1, <1>2, <1>3, <1>4, <1>5, <1>6, <1>7, <1>8, <1>9, <1>10, <1>11, <1>12, <1>13 DEF Next
<1>15. Vals' = Vals /\ Acts' = Acts => UNCHANGED Values!vars
  BY DEF Values!vars, Vals, Acts
<1>16. QED
  BY <1>14, <1>15

\* Whatever lists are shared, copied, pushed and swapped, a program sees the values of
\* Places: every symbol has its own lists, and a destructive form changes what its
\* place leads to and nothing else (place_navigate, with_place_mut, Rc::make_mut).
THEOREM SharingUnseen ==
  ASSUME AtomsAreNoLists
  PROVE  Spec => ImplementsPlaces
<1>1. Init => Values!Init
  BY InitSeen
<1>2. IInv /\ [Next]_vars => [Values!Next]_(Values!vars)
  BY StepSeen
<1>3. QED
  BY <1>1, <1>2, Invariance, PTL DEF Spec, ImplementsPlaces, Values!Spec

-----------------------------------------------------------------------------
(* swap of places apart. *)

IsSeq(v) == \E S : v \in Seq(S)

\* A path leads somewhere: through lists, by indices in range.
Reaches(v, path) ==
  /\ Values!Part(v, path) # Missing
  /\ \A k \in 1..Len(path) :
       IsSeq(Above(v, path, k - 1)) /\ InRange(path[k], Len(Above(v, path, k - 1)))

\* The position the k-th index names.
Index(v, path, k) == Position(path[k], Len(Above(v, path, k - 1)))

\* A list with one element replaced.
Exchange(list, i, x, new) ==
  /\ IsSeq(new) /\ Len(new) = Len(list) /\ new[i] = x
  /\ \A j \in 1..Len(list) : j # i => new[j] = list[j]

\* A list with one element replaced is a list as long.
LEMMA ExchangeIs ==
  ASSUME NEW list, IsSeq(list), NEW i \in 1..Len(list), NEW x
  PROVE  Exchange(list, i, x, [list EXCEPT ![i] = x])
<1>1. PICK S : list \in Seq(S)
  BY DEF IsSeq
<1> DEFINE n == Len(list)
           T == S \cup {x}
           new == [list EXCEPT ![i] = x]
<1>2. n \in Nat /\ list \in [1..n -> S]
  BY <1>1
<1>3. new \in [1..n -> T] /\ new[i] = x /\ \A j \in 1..n : j # i => new[j] = list[j]
  BY <1>2
<1> HIDE DEF T, n, new
<1>4. new \in Seq(T) /\ Len(new) = n
  BY <1>2, <1>3
<1>5. QED
  BY <1>3, <1>4 DEF Exchange, IsSeq, n, new

\* A list is no atom, so an index in range leads into it.
LEMMA InnerIs ==
  ASSUME AtomsAreNoLists, NEW v, IsSeq(v), NEW i, InRange(i, Len(v))
  PROVE  Inner(v, i) = v[Position(i, Len(v))]
<1>1. v \notin Atoms \cup {Missing}
  BY DEF IsSeq, AtomsAreNoLists
<1>2. QED
  BY <1>1 DEF Inner, Values!IsList

\* Where a path leads somewhere, each part is the element of the one before it.
LEMMA ReachesSteps ==
  ASSUME AtomsAreNoLists, NEW v, NEW path \in Seq(Int), Reaches(v, path), NEW k \in 1..Len(path)
  PROVE  /\ Index(v, path, k) \in 1..Len(Above(v, path, k - 1))
         /\ Above(v, path, k) = Above(v, path, k - 1)[Index(v, path, k)]
<1> DEFINE list == Above(v, path, k - 1)
<1>1. IsSeq(list) /\ InRange(path[k], Len(list))
  BY DEF Reaches
<1>2. Above(v, path, k) = Inner(list, path[k])
  BY AboveSteps
<1>3. Index(v, path, k) = Position(path[k], Len(list))
  BY DEF Index
<1> HIDE DEF list
<1>4. Inner(list, path[k]) = list[Position(path[k], Len(list))]
  BY <1>1, InnerIs
<1>5. QED
  BY <1>1, <1>2, <1>3, <1>4 DEF InRange, list

\* A value can be rebuilt from the part written upwards.
LEMMA RebuiltExists ==
  ASSUME NEW v, NEW path \in Seq(Int), NEW new
  PROVE  \E w : Rebuilt(v, path, new, w)
<1> DEFINE n == Len(path)
           on(k, u) == [Above(v, path, k) EXCEPT ![Position(path[k + 1], Len(Above(v, path, k)))] = u]
           From(d, w) == w[n] = new /\ \A k \in (n - d)..(n - 1) : w[k] = on(k, w[k + 1])
           S == {d \in 0..n : \E w : From(d, w)}
<1>1. n \in Nat
  OBVIOUS
<1> HIDE DEF on
<1>2. 0 \in S
  <2> DEFINE w == [k \in {n} |-> new]
  <2>1. From(0, w)
    BY <1>1
  <2> HIDE DEF w
  <2>2. QED
    BY <1>1, <2>1
<1>3. ASSUME NEW d \in 1..n, d - 1 \in S
      PROVE  d \in S
  <2>1. PICK f : From(d - 1, f)
    BY <1>3
  <2> DEFINE b == n - d
             g == [k \in b..n |-> IF k = b THEN on(b, f[b + 1]) ELSE f[k]]
  <2>2. b \in 0..(n - 1) /\ n - (d - 1) = b + 1
    BY <1>1
  <2>3. \A k \in b..n : g[k] = IF k = b THEN on(b, f[b + 1]) ELSE f[k]
    OBVIOUS
  <2> HIDE DEF g
  <2>4. g[n] = new
    BY SMTT(30), <1>1, <2>1, <2>2, <2>3
  <2>5. ASSUME NEW k \in b..(n - 1)
        PROVE  g[k] = on(k, g[k + 1])
    <3>1. k \in b..n /\ k + 1 \in b..n /\ k + 1 # b
      BY <1>1, <2>2
    <3>2. g[k + 1] = f[k + 1]
      BY <2>3, <3>1
    <3>3. CASE k = b
      BY <2>3, <3>1, <3>2, <3>3
    <3>4. CASE k # b
      <4>1. k \in (n - (d - 1))..(n - 1)
        BY <1>1, <2>2, <3>4
      <4>2. f[k] = on(k, f[k + 1])
        BY <2>1, <4>1
      <4>3. QED
        BY <2>3, <3>1, <3>2, <3>4, <4>2
    <3>5. QED
      BY <3>3, <3>4
  <2>6. From(d, g)
    BY <2>4, <2>5
  <2>7. QED
    BY <2>6
<1> HIDE DEF S
<1>4. n \in S
  <2>1. \A d \in 0..n : d \in S
    BY <1>1, <1>2, <1>3, CountUp
  <2>2. QED
    BY <1>1, <2>1
<1>5. PICK w : From(n, w)
  BY <1>4 DEF S
<1>6. Rebuilt(v, path, new, w)
  <2>1. (n - n)..(n - 1) = 0..(n - 1)
    BY <1>1
  <2>2. w[n] = new /\ \A k \in 0..(n - 1) : w[k] = on(k, w[k + 1])
    BY <1>5, <2>1
  <2>3. QED
    BY <2>2 DEF Rebuilt, on
<1>7. QED
  BY <1>6

\* Along the path written, w has the lists of v with one element replaced, and the new part.
Renewed(v, path, new, w) ==
  /\ Above(w, path, Len(path)) = new
  /\ \A k \in 1..Len(path) :
       Exchange(Above(v, path, k - 1), Index(v, path, k), Above(w, path, k), Above(w, path, k - 1))

\* What is found at a place that was written is what was written.
LEMMA WrittenReaches ==
  ASSUME AtomsAreNoLists, NEW v, NEW path \in Seq(Int), Reaches(v, path),
         NEW new, NEW w, w = Values!WithPart(v, path, new)
  PROVE  Renewed(v, path, new, w)
<1> DEFINE n == Len(path)
<1>1. n \in Nat
  OBVIOUS
<1>2. PICK g : Rebuilt(v, path, new, g)
  BY RebuiltExists
<1>3. w = g[0] /\ g[n] = new
  <2>1. Values!WithPart(v, path, new) = g[0]
    BY <1>2, WithPartIs
  <2>2. QED
    BY <1>2, <2>1 DEF Rebuilt
<1>4. ASSUME NEW k \in 1..n
      PROVE  /\ InRange(path[k], Len(g[k - 1])) /\ IsSeq(g[k - 1])
             /\ Exchange(Above(v, path, k - 1), Index(v, path, k), g[k], g[k - 1])
             /\ g[k - 1][Position(path[k], Len(g[k - 1]))] = g[k]
  <2> DEFINE list == Above(v, path, k - 1)
             i == Index(v, path, k)
             x == g[k]
             y == g[k - 1]
  <2>1. IsSeq(list) /\ i \in 1..Len(list) /\ i = Position(path[k], Len(list))
    BY ReachesSteps DEF Reaches, Index
  <2>2. y = [list EXCEPT ![i] = x]
    <3>1. k - 1 \in 0..n - 1 /\ (k - 1) + 1 = k
      BY <1>1
    <3>2. QED
      BY <1>2, <3>1 DEF Rebuilt, Index
  <2> HIDE DEF list, i, x, y
  <2>3. Exchange(list, i, x, y)
    BY <2>1, <2>2, ExchangeIs
  <2>4. QED
    BY <2>1, <2>3 DEF list, i, x, y, Exchange, InRange
<1> DEFINE S == {k \in 0..n : Above(w, path, k) = g[k]}
<1>5. 0 \in S
  BY <1>1, <1>3, AboveSteps
<1>6. ASSUME NEW k \in 1..n, k - 1 \in S
      PROVE  k \in S
  <2>1. Above(w, path, k) = Inner(Above(w, path, k - 1), path[k])
    BY AboveSteps
  <2>2. Above(w, path, k - 1) = g[k - 1]
    BY <1>6
  <2> DEFINE y == g[k - 1]
  <2>3. IsSeq(y) /\ InRange(path[k], Len(y))
    BY <1>4
  <2> HIDE DEF y
  <2>4. Inner(y, path[k]) = y[Position(path[k], Len(y))]
    BY <2>3, InnerIs
  <2>5. QED
    BY <1>4, <2>1, <2>2, <2>4 DEF y
<1> HIDE DEF S
<1>7. \A k \in 0..n : Above(w, path, k) = g[k]
  BY <1>1, <1>5, <1>6, CountUp DEF S
<1>8. \A k \in 1..n : k \in 0..n /\ k - 1 \in 0..n
  BY <1>1
<1>9. QED
  BY <1>1, <1>3, <1>4, <1>7, <1>8 DEF Renewed

\* Such a path leads somewhere still, by the same positions.
LEMMA RenewedReaches ==
  ASSUME NEW v, NEW path \in Seq(Int), Reaches(v, path), NEW new, new # Missing,
         NEW w, Renewed(v, path, new, w)
  PROVE  Reaches(w, path) /\ \A k \in 1..Len(path) : Index(w, path, k) = Index(v, path, k)
<1>1. Values!Part(w, path) # Missing
  BY AboveSteps DEF Renewed
<1>2. ASSUME NEW k \in 1..Len(path)
      PROVE  /\ IsSeq(Above(w, path, k - 1))
             /\ Len(Above(w, path, k - 1)) = Len(Above(v, path, k - 1))
  BY DEF Renewed, Exchange
<1>3. QED
  BY <1>1, <1>2 DEF Reaches, Index

\* Two paths go the same way for k steps and then part.
Fork(v, path, other, k) ==
  /\ k \in Nat /\ k < Len(path) /\ k < Len(other)
  /\ \A j \in 1..k : Index(v, path, j) = Index(v, other, j)
  /\ Index(v, path, k + 1) # Index(v, other, k + 1)

\* What is found at a place apart from one that was written is what was there before.
LEMMA WrittenApart ==
  ASSUME AtomsAreNoLists, NEW v, NEW path \in Seq(Int), Reaches(v, path),
         NEW other \in Seq(Int), Reaches(v, other), NEW k, Fork(v, path, other, k),
         NEW new, NEW w, Renewed(v, path, new, w)
  PROVE  /\ Values!Part(w, other) = Values!Part(v, other)
         /\ Reaches(w, other) /\ \A j \in 1..Len(other) : Index(w, other, j) = Index(v, other, j)
<1> DEFINE n == Len(path)
           l == Len(other)
           Agree(j) == IF j <= k THEN /\ Above(v, other, j) = Above(v, path, j)
                                     /\ Above(w, other, j) = Above(w, path, j)
                     ELSE Above(w, other, j) = Above(v, other, j)
           S == {j \in 0..l : Agree(j)}
<1>1. n \in Nat /\ l \in Nat /\ k \in Nat /\ k < n /\ k < l
  BY DEF Fork
<1>2. 0 \in S
  BY <1>1, AboveSteps
<1>3. ASSUME NEW j \in 1..l, Agree(j - 1)
      PROVE  /\ IsSeq(Above(w, other, j - 1))
             /\ Len(Above(w, other, j - 1)) = Len(Above(v, other, j - 1))
             /\ Agree(j)
  <2> DEFINE list == Above(v, other, j - 1)
             after == Above(w, other, j - 1)
             i == Index(v, other, j)
  <2>1. /\ IsSeq(list) /\ InRange(other[j], Len(list)) /\ i \in 1..Len(list)
        /\ i = Position(other[j], Len(list)) /\ Above(v, other, j) = list[i]
    BY ReachesSteps DEF Reaches, Index
  <2>2. Above(w, other, j) = Inner(after, other[j])
    BY AboveSteps
  <2>3. CASE j <= k + 1
    <3>1. j \in 1..n /\ j - 1 <= k
      BY <1>1, <2>3
    <3> DEFINE at == Index(v, path, j)
    <3>2. list = Above(v, path, j - 1) /\ after = Above(w, path, j - 1)
      BY <1>3, <3>1
    <3>3. Exchange(list, at, Above(w, path, j), after) /\ Above(v, path, j) = list[at]
      BY <3>1, <3>2, ReachesSteps DEF Renewed
    <3> HIDE DEF list, after, at, i
    <3>4. IsSeq(after) /\ Len(after) = Len(list)
      BY <3>3 DEF Exchange
    <3>5. Above(w, other, j) = after[i]
      <4>1. InRange(other[j], Len(after))
        BY <2>1, <3>4
      <4>2. Inner(after, other[j]) = after[Position(other[j], Len(after))]
        BY <3>4, <4>1, InnerIs
      <4>3. QED
        BY <2>1, <2>2, <3>4, <4>2
    <3>6. CASE j <= k
      <4>1. i = at
        BY <3>6 DEF Fork, i, at
      <4>2. Above(w, other, j) = Above(w, path, j) /\ Above(v, other, j) = Above(v, path, j)
        BY <2>1, <3>3, <3>5, <4>1 DEF Exchange
      <4>3. QED
        BY <3>4, <3>6, <4>2 DEF list, after
    <3>7. CASE ~ (j <= k)
      <4>1. j = k + 1
        BY <1>1, <2>3, <3>7
      <4>2. i # at
        BY <4>1 DEF Fork, i, at
      <4>3. after[i] = list[i]
        BY <2>1, <3>3, <4>2 DEF Exchange
      <4>4. QED
        BY <2>1, <3>4, <3>5, <3>7, <4>3 DEF list, after
    <3>8. QED
      BY <3>6, <3>7
  <2>4. CASE ~ (j <= k + 1)
    <3>1. ~ (j - 1 <= k) /\ ~ (j <= k)
      BY <1>1, <2>4
    <3>2. after = list
      BY <1>3, <3>1
    <3>3. Above(w, other, j) = Above(v, other, j)
      BY <2>2, <3>2, AboveSteps
    <3>4. QED
      BY <2>1, <3>1, <3>2, <3>3
  <2>5. QED
    BY <2>3, <2>4
<1>4. \A j \in 1..l : j - 1 \in S => j \in S
  BY <1>3
<1> HIDE DEF S
<1>5. \A j \in 0..l : j \in S
  BY <1>1, <1>2, <1>4, CountUp
<1>6. \A j \in 0..l : Agree(j)
  BY <1>5 DEF S
<1>7. Above(w, other, l) = Above(v, other, l)
  <2>1. l \in 0..l /\ ~ (l <= k)
    BY <1>1
  <2>2. QED
    BY <1>6, <2>1
<1>8. Values!Part(w, other) = Values!Part(v, other)
  BY <1>7, AboveSteps
<1>9. ASSUME NEW j \in 1..l
      PROVE  /\ IsSeq(Above(w, other, j - 1))
             /\ Len(Above(w, other, j - 1)) = Len(Above(v, other, j - 1))
  <2>1. j - 1 \in 0..l
    BY <1>1
  <2> HIDE DEF Agree
  <2>2. Agree(j - 1)
    BY <1>6, <2>1
  <2>3. QED
    BY <1>3, <2>2
<1>10. QED
  BY <1>8, <1>9 DEF Reaches, Index

\* Functions that agree everywhere are equal.
LEMMA SameFunction ==
  ASSUME NEW D, NEW S, NEW f \in [D -> S], NEW g \in [D -> S], \A x \in D : f[x] = g[x]
  PROVE  f = g
OBVIOUS

\* Two sequences of which neither begins the other differ somewhere for the first time.
LEMMA FirstDifference ==
  ASSUME NEW s \in Seq(Int), NEW t \in Seq(Int), ~ IsPrefix(s, t), ~ IsPrefix(t, s)
  PROVE  \E k \in Nat : /\ k < Len(s) /\ k < Len(t) /\ s[k + 1] # t[k + 1]
                        /\ \A j \in 1..k : s[j] = t[j]
<1> DEFINE a == Len(s)
           b == Len(t)
           n == IF a <= b THEN a ELSE b
           First(k) == /\ k \in Nat /\ k < a /\ k < b /\ s[k + 1] # t[k + 1]
                       /\ \A j \in 1..k : s[j] = t[j]
           S == {y \in 0..n : \A j \in 1..y : s[j] = t[j]}
<1>1. a \in Nat /\ b \in Nat /\ n \in Nat /\ n <= a /\ n <= b
  OBVIOUS
<1>2. SUFFICES ASSUME \A k \in Nat : ~ First(k)
      PROVE  FALSE
  OBVIOUS
<1>3. 0 \in S
  BY <1>1
<1>4. ASSUME NEW y \in 1..n, y - 1 \in S
      PROVE  y \in S
  <2>1. \A j \in 1..(y - 1) : s[j] = t[j]
    BY <1>4
  <2>2. y - 1 \in Nat /\ y - 1 < a /\ y - 1 < b /\ (y - 1) + 1 = y
    BY <1>1
  <2>3. s[y] = t[y]
    BY <1>2, <2>1, <2>2
  <2>4. \A j \in 1..y : j = y \/ j \in 1..(y - 1)
    OBVIOUS
  <2>5. QED
    BY <2>1, <2>3, <2>4
<1> HIDE DEF S
<1>5. n \in S
  <2>1. \A y \in 0..n : y \in S
    BY <1>1, <1>3, <1>4, CountUp
  <2>2. QED
    BY <1>1, <2>1
<1>6. \A j \in 1..n : s[j] = t[j]
  BY <1>5 DEF S
<1>7. SubSeq(s, 1, n) = SubSeq(t, 1, n)
  <2> HIDE DEF n
  <2> DEFINE u == SubSeq(s, 1, n)
             w == SubSeq(t, 1, n)
  <2>1. /\ u \in Seq(Int) /\ Len(u) = n /\ \A j \in 1..n : u[j] = s[j]
        /\ w \in Seq(Int) /\ Len(w) = n /\ \A j \in 1..n : w[j] = t[j]
    BY <1>1
  <2> HIDE DEF u, w
  <2> DEFINE D == 1..n
  <2>2. u \in [D -> Int] /\ w \in [D -> Int]
    BY <2>1
  <2>3. \A j \in D : u[j] = w[j]
    BY <1>6, <2>1
  <2> HIDE DEF D
  <2>4. u = w
    BY <2>2, <2>3, SameFunction
  <2>5. QED
    BY <2>4 DEF u, w
<1>8. CASE a <= b
  BY <1>1, <1>7, <1>8 DEF IsPrefix
<1>9. CASE ~ (a <= b)
  BY <1>1, <1>7, <1>9 DEF IsPrefix
<1>10. QED
  BY <1>8, <1>9

\* What is at a place, as a program sees it.
LEMMA AtPath ==
  ASSUME AtomsAreNoLists, IInv, NEW p, p.root \in Symbols, p.path \in Seq(Int)
  PROVE  /\ At(p) \in Ref(Len(heap)) \cup {Missing}
         /\ ValuesIn(heap)[At(p)] = PartOf(Vals, p)
         /\ PartOf(Vals, p) = Missing <=> At(p) = Missing
<1>1. <<>> \in Seq(Ref(Len(heap))) /\ \E mem : mem = Memory(<<>>)
  BY NoHands
<1>2. PICK mem : mem = Memory(<<>>)
  BY <1>1
<1>3. Sound(mem) /\ mem.heap = heap /\ mem.globals = globals /\ Val(mem) = ValuesIn(heap)
  BY <1>1, <1>2, MemoryHas
<1>4. Reached(mem, p) = At(p)
  BY <1>3 DEF Reached, At
<1>5. ValueAt(mem, p) = PartOf(Vals, p)
  BY <1>3 DEF ValueAt, PartOf, Vals
<1>6. QED
  BY <1>3, <1>4, <1>5, ReachedSeen

\* A list a program sees is one of the heap, of the same length.
LEMMA ListSeen ==
  ASSUME AtomsAreNoLists, IInv, NEW r \in Ref(Len(heap)), Values!IsList(ValuesIn(heap)[r])
  PROVE  IsSeq(ValuesIn(heap)[r]) /\ Len(ValuesIn(heap)[r]) = Len(heap[r])
<1>1. <<>> \in Seq(Ref(Len(heap))) /\ \E mem : mem = Memory(<<>>)
  BY NoHands
<1>2. PICK mem : mem = Memory(<<>>)
  BY <1>1
<1>3. Sound(mem) /\ mem.heap = heap /\ Val(mem) = ValuesIn(heap)
  BY <1>1, <1>2, MemoryHas
<1>4. r \in 1..Len(mem.heap)
  BY <1>3, ValueKinds
<1>5. QED
  BY <1>3, <1>4, ValFits DEF IsSeq

\* A place that leads somewhere, and the positions its indices name.
LEMMA PlaceReaches ==
  ASSUME AtomsAreNoLists, IInv, NEW p \in Place, At(p) # Missing
  PROVE  /\ Reaches(Vals[p.root], p.path)
         /\ Positions(p) \in Seq(Int) /\ Len(Positions(p)) = Len(p.path)
         /\ \A k \in 1..Len(p.path) : Positions(p)[k] = Index(Vals[p.root], p.path, k)
<1> DEFINE v == Vals[p.root]
           path == p.path
           n == Len(path)
           part(k) == At([p EXCEPT !.path = SubSeq(path, 1, k)])
<1>1. path \in Seq(Int) /\ n \in Nat /\ p.root \in Symbols
  BY PlaceAssumption DEF Place
<1>2. Values!Part(v, path) # Missing
  BY <1>1, AtPath DEF PartOf
<1>3. ASSUME NEW k \in 0..n
      PROVE  /\ part(k) \in Ref(Len(heap)) \cup {Missing}
             /\ ValuesIn(heap)[part(k)] = Above(v, path, k)
             /\ Above(v, path, k) = Missing <=> part(k) = Missing
  <2> DEFINE start == SubSeq(path, 1, k)
             q == [p EXCEPT !.path = start]
  <2>1. start \in Seq(Int)
    BY <1>1, Prefix
  <2> HIDE DEF start
  <2>2. q.root = p.root /\ q.path = start
    BY DEF Place
  <2>3. PartOf(Vals, q) = Above(v, path, k)
    BY <2>2 DEF PartOf, Above, start
  <2>4. part(k) = At(q)
    BY DEF start
  <2> HIDE DEF q, part
  <2>5. QED
    BY <1>1, <2>1, <2>2, <2>3, <2>4, AtPath
<1> HIDE DEF part
<1> DEFINE A(k) == Above(v, path, k)
<1>4. ASSUME NEW k \in 1..n, A(k) # Missing
      PROVE  Values!IsList(A(k - 1)) /\ InRange(path[k], Len(A(k - 1))) /\ A(k - 1) # Missing
  <2>1. A(k) = Inner(A(k - 1), path[k])
    BY <1>1, AboveSteps
  <2>2. Values!IsList(A(k - 1)) /\ InRange(path[k], Len(A(k - 1)))
    BY <1>4, <2>1 DEF Inner
  <2>3. QED
    BY <2>2 DEF Values!IsList
<1> DEFINE S == {d \in 0..n : A(n - d) # Missing}
<1>5. 0 \in S
  <2>1. A(n) # Missing /\ n - 0 = n
    BY <1>1, <1>2, AboveSteps
  <2>2. QED
    BY <1>1, <2>1
<1> HIDE DEF A
<1>6. ASSUME NEW d \in 1..n, d - 1 \in S
      PROVE  d \in S
  <2>1. n - (d - 1) \in 1..n /\ (n - (d - 1)) - 1 = n - d
    BY <1>1
  <2>2. A(n - (d - 1)) # Missing
    BY <1>6
  <2>3. A(n - d) # Missing
    BY <1>4, <2>1, <2>2
  <2>4. QED
    BY <1>1, <2>3
<1> HIDE DEF S
<1>7. \A d \in 0..n : d \in S
  BY <1>1, <1>5, <1>6, CountUp
<1>8. ASSUME NEW k \in 1..n
      PROVE  /\ IsSeq(A(k - 1)) /\ InRange(path[k], Len(A(k - 1)))
             /\ Len(heap[part(k - 1)]) = Len(A(k - 1))
  <2>1. n - k \in 0..n /\ n - (n - k) = k /\ k - 1 \in 0..n
    BY <1>1
  <2>2. A(k) # Missing
    BY <1>7, <2>1 DEF S
  <2>3. Values!IsList(A(k - 1)) /\ InRange(path[k], Len(A(k - 1))) /\ A(k - 1) # Missing
    BY <1>4, <2>2
  <2> DEFINE r == part(k - 1)
  <2>4. r \in Ref(Len(heap)) /\ ValuesIn(heap)[r] = A(k - 1)
    BY <1>3, <2>1, <2>3 DEF A
  <2> HIDE DEF r
  <2>5. IsSeq(A(k - 1)) /\ Len(A(k - 1)) = Len(heap[r])
    BY <2>3, <2>4, ListSeen
  <2>6. QED
    BY <2>3, <2>5 DEF r
<1>9. Reaches(v, path)
  BY <1>2, <1>8 DEF Reaches, A
<1> DEFINE at(k) == Position(path[k], Len(A(k - 1)))
<1>10. \A k \in 1..n : at(k) \in Int
  <2>1. ASSUME NEW k \in 1..n
        PROVE  at(k) \in Int
    BY <1>1, <1>8 DEF InRange
  <2>2. QED
    BY <2>1
<1>11. Positions(p) = [k \in 1..n |-> at(k)]
  BY <1>8 DEF Positions, part
<1> DEFINE s == [k \in 1..n |-> at(k)]
<1>12. s \in Seq(Int) /\ Len(s) = n /\ \A k \in 1..n : s[k] = at(k)
  <2> HIDE DEF at
  <2>1. s \in [1..n -> Int] /\ \A k \in 1..n : s[k] = at(k)
    BY <1>10
  <2> HIDE DEF s
  <2>2. QED
    BY <1>1, <2>1
<1>13. \A k \in 1..n : at(k) = Index(v, path, k)
  BY DEF Index, A
<1> HIDE DEF at, s
<1>14. QED
  BY <1>9, <1>11, <1>12, <1>13 DEF s

\* Places apart go the same way for some steps and then part.
LEMMA ApartForks ==
  ASSUME AtomsAreNoLists, IInv, NEW p \in Place, NEW q \in Place, At(p) # Missing, At(q) # Missing,
         Apart(p, q), p.root = q.root
  PROVE  \E k : Fork(Vals[p.root], p.path, q.path, k)
<1> DEFINE s == Positions(p)
           t == Positions(q)
           v == Vals[p.root]
<1>1. /\ s \in Seq(Int) /\ Len(s) = Len(p.path)
      /\ \A k \in 1..Len(p.path) : s[k] = Index(v, p.path, k)
  BY PlaceReaches
<1>2. /\ t \in Seq(Int) /\ Len(t) = Len(q.path)
      /\ \A k \in 1..Len(q.path) : t[k] = Index(v, q.path, k)
  BY PlaceReaches
<1>3. ~ IsPrefix(s, t) /\ ~ IsPrefix(t, s)
  BY DEF Apart
<1> HIDE DEF s, t, v
<1>4. PICK k \in Nat : /\ k < Len(s) /\ k < Len(t) /\ s[k + 1] # t[k + 1]
                       /\ \A j \in 1..k : s[j] = t[j]
  BY <1>1, <1>2, <1>3, FirstDifference
<1>5. Len(p.path) \in Nat /\ Len(q.path) \in Nat
  BY <1>1, <1>2
<1>6. /\ k + 1 \in 1..Len(p.path) /\ k + 1 \in 1..Len(q.path)
      /\ \A j \in 1..k : j \in 1..Len(p.path) /\ j \in 1..Len(q.path)
  BY <1>1, <1>2, <1>4, <1>5
<1>7. Fork(v, p.path, q.path, k)
  BY <1>1, <1>2, <1>4, <1>6 DEF Fork
<1>8. QED
  BY <1>7 DEF v

\* In one value: the place written first is left alone by the second write.
LEMMA ExchangedWithin ==
  ASSUME AtomsAreNoLists, NEW v, NEW path \in Seq(Int), NEW other \in Seq(Int),
         Reaches(v, path), Reaches(v, other), NEW k, Fork(v, path, other, k),
         NEW w, w = Values!WithPart(v, path, Values!Part(v, other)),
         NEW u, u = Values!WithPart(w, other, Values!Part(v, path))
  PROVE  /\ Values!Part(w, other) # Missing
         /\ Values!Part(u, path) = Values!Part(v, other)
         /\ Values!Part(u, other) = Values!Part(v, path)
<1> DEFINE a == Values!Part(v, path)
           b == Values!Part(v, other)
<1>1. a # Missing /\ b # Missing
  BY DEF Reaches
<1>2. w = Values!WithPart(v, path, b) /\ u = Values!WithPart(w, other, a)
  OBVIOUS
<1> HIDE DEF a, b
<1>3. Renewed(v, path, b, w)
  BY <1>2, WrittenReaches
<1>4. Reaches(w, path) /\ \A j \in 1..Len(path) : Index(w, path, j) = Index(v, path, j)
  BY <1>1, <1>3, RenewedReaches
<1>5. /\ Values!Part(w, other) = Values!Part(v, other)
      /\ Reaches(w, other) /\ \A j \in 1..Len(other) : Index(w, other, j) = Index(v, other, j)
  BY <1>3, WrittenApart
<1>6. Renewed(w, other, a, u)
  BY <1>2, <1>5, WrittenReaches
<1>7. Fork(w, other, path, k)
  <2>1. Len(path) \in Nat /\ Len(other) \in Nat
    OBVIOUS
  <2>2. /\ k + 1 \in 1..Len(path) /\ k + 1 \in 1..Len(other)
        /\ \A j \in 1..k : j \in 1..Len(path) /\ j \in 1..Len(other)
    BY <2>1 DEF Fork
  <2>3. QED
    BY <1>4, <1>5, <2>2 DEF Fork
<1>8. Values!Part(u, path) = Values!Part(w, path)
  BY <1>4, <1>5, <1>6, <1>7, WrittenApart
<1>9. Values!Part(w, path) = b
  BY <1>3, AboveSteps DEF Renewed
<1>10. Values!Part(u, other) = a
  BY <1>6, AboveSteps DEF Renewed
<1>11. QED
  BY <1>1, <1>5, <1>8, <1>9, <1>10 DEF a, b

\* So a program sees two places apart exchanged.
LEMMA ExchangedSeen ==
  ASSUME AtomsAreNoLists, IInv, NEW p \in Place, NEW q \in Place, At(p) # Missing, At(q) # Missing,
         Apart(p, q), NEW after, after = AfterSwap(Vals, p, q)
  PROVE  PartOf(after, p) = PartOf(Vals, q) /\ PartOf(after, q) = PartOf(Vals, p)
<1> DEFINE s == p.root
           t == q.root
           a == PartOf(Vals, p)
           b == PartOf(Vals, q)
           once == WithWritten(Vals, p, b)
           twice == WithWritten(once, q, a)
           w == Values!WithPart(Vals[s], p.path, b)
<1>1. s \in Symbols /\ t \in Symbols /\ p.path \in Seq(Int) /\ q.path \in Seq(Int)
  BY PlaceAssumption DEF Place
<1>2. Reaches(Vals[s], p.path) /\ Reaches(Vals[t], q.path)
  BY PlaceReaches
<1>3. a # Missing /\ b # Missing
  BY <1>2 DEF PartOf, Reaches
<1>4. /\ once[s] = w /\ twice[t] = Values!WithPart(once[t], q.path, a)
      /\ s # t => once[t] = Vals[t] /\ twice[s] = once[s]
  BY <1>1 DEF WithWritten, Vals
<1>5. after = IF PartOf(once, q) = Missing THEN once ELSE twice
  BY DEF AfterSwap
<1> HIDE DEF once, twice
<1>6. CASE s = t
  <2> DEFINE v == Vals[s]
             u == twice[s]
  <2>1. PICK k : Fork(v, p.path, q.path, k)
    BY <1>6, ApartForks
  <2>2. a = Values!Part(v, p.path) /\ b = Values!Part(v, q.path)
    BY <1>6 DEF PartOf
  <2>3. w = Values!WithPart(v, p.path, Values!Part(v, q.path))
    BY <2>2
  <2>4. u = Values!WithPart(w, q.path, Values!Part(v, p.path))
    BY <1>4, <1>6, <2>2
  <2>5. Reaches(v, p.path) /\ Reaches(v, q.path)
    BY <1>2, <1>6
  <2> HIDE DEF v, w, u, a, b
  <2>6. /\ Values!Part(w, q.path) # Missing
        /\ Values!Part(u, p.path) = Values!Part(v, q.path)
        /\ Values!Part(u, q.path) = Values!Part(v, p.path)
    BY <1>1, <2>1, <2>3, <2>4, <2>5, ExchangedWithin
  <2>7. PartOf(once, q) # Missing
    BY <1>4, <1>6, <2>6 DEF PartOf
  <2>8. PartOf(twice, p) = b /\ PartOf(twice, q) = a
    BY <1>6, <2>2, <2>6 DEF PartOf, u
  <2>9. QED
    BY <1>5, <2>7, <2>8 DEF a, b
<1>7. CASE s # t
  <2>1. PartOf(once, q) = b /\ PartOf(once, q) # Missing
    BY <1>3, <1>4, <1>7 DEF PartOf
  <2> DEFINE v == Vals[s]
             u == twice[t]
             y == Vals[t]
  <2>2. u = Values!WithPart(y, q.path, a) /\ w = Values!WithPart(v, p.path, b)
        /\ Reaches(v, p.path) /\ Reaches(y, q.path)
    BY <1>2, <1>4, <1>7
  <2> HIDE DEF v, y, u, w, a, b
  <2>3. Renewed(v, p.path, b, w) /\ Renewed(y, q.path, a, u)
    BY <1>1, <2>2, WrittenReaches
  <2>4. Values!Part(w, p.path) = b /\ Values!Part(u, q.path) = a
    BY <1>1, <2>3, AboveSteps DEF Renewed
  <2>5. PartOf(twice, p) = b /\ PartOf(twice, q) = a
    BY <1>4, <1>7, <2>4 DEF PartOf, u
  <2>6. QED
    BY <1>5, <2>1, <2>5 DEF a, b
<1>8. QED
  BY <1>6, <1>7

\* swap exchanges what is at two places apart, here and now.
LEMMA ApartExchanged ==
  ASSUME AtomsAreNoLists, IInv, NEW p \in Place, NEW q \in Place, At(p) # Missing, At(q) # Missing,
         Apart(p, q)
  PROVE  Exchanges(p, q)
<1> DEFINE done == Swapped(p, q)
           m == done.m
           after == AfterSwap(Vals, p, q)
<1>1. SUFFICES ASSUME done.ok
      PROVE  /\ ValuesIn(m.heap)[Reached(m, p)] = ValuesIn(heap)[At(q)]
             /\ ValuesIn(m.heap)[Reached(m, q)] = ValuesIn(heap)[At(p)]
  BY DEF Exchanges
<1>2. Carries(m, after)
  BY <1>1, SwapCarries
<1>3. PartOf(after, p) = PartOf(Vals, q) /\ PartOf(after, q) = PartOf(Vals, p)
  BY ExchangedSeen
<1>4. ValuesIn(heap)[At(p)] = PartOf(Vals, p) /\ ValuesIn(heap)[At(q)] = PartOf(Vals, q)
  <2>1. \A r \in Place : r.root \in Symbols /\ r.path \in Seq(Int)
    BY PlaceAssumption DEF Place
  <2>2. QED
    BY <2>1, AtPath
<1> HIDE DEF m, after
<1>5. ASSUME NEW r \in Place
      PROVE  ValuesIn(m.heap)[Reached(m, r)] = PartOf(after, r)
  <2>1. r.root \in Symbols /\ r.path \in Seq(Int)
    BY PlaceAssumption DEF Place
  <2>2. Sound(m) /\ SlotsSeen(m) = after
    BY <1>2 DEF Carries
  <2>3. Val(m)[Reached(m, r)] = ValueAt(m, r)
    BY <2>1, <2>2, ReachedSeen
  <2>4. ValueAt(m, r) = PartOf(after, r)
    BY <2>1, <2>2 DEF ValueAt, PartOf, SlotsSeen
  <2>5. QED
    BY <2>3, <2>4 DEF Val
<1>6. QED
  BY <1>3, <1>4, <1>5

\* swap exchanges two places of which neither lies within the other, whatever lists they
\* share with each other or with anything else (sf_swap, with_place_mut).
THEOREM PlacesExchanged ==
  ASSUME AtomsAreNoLists
  PROVE  Spec => []SwapExchangesApart
<1>1. IInv => SwapExchangesApart
  BY ApartExchanged DEF SwapExchangesApart
<1>2. QED
  BY <1>1, Invariance, PTL
=============================================================================
