---------------------------- MODULE SchedulerProof ----------------------------
(***************************************************************************)
(* What the operators of Scheduler do to a scheduler state, for any tasks  *)
(* and any width of the tick count: each keeps every task in exactly one   *)
(* of the lists for its state and in at most one event list (Linked), a    *)
(* task that waits without end in an event list (Held), the delayed lists  *)
(* sorted and nobody in them late (Due), and the next look at them in      *)
(* time (Looked).  First lists without repetitions, then one lemma for     *)
(* each operator, in the order of the module.  In the end, for each of     *)
(* them, what it leaves of the time a task has to sleep (Slept) or may     *)
(* still wait (Noted): all of it while time stands still (Rests), and a    *)
(* tick less for each tick that is counted (Ages).                         *)
(***************************************************************************)
EXTENDS Scheduler, FiniteSetTheorems, SequenceTheorems, WellFoundedInduction, TLAPS

-----------------------------------------------------------------------------
(* Induction over a set of numbers, and over the rounds of a loop.          *)

(* A set with 0 and the successor of each of its numbers has all of them.   *)
LEMMA SetInduction ==
    ASSUME NEW S, 0 \in S, \A n \in Nat : n \in S => n + 1 \in S
    PROVE  Nat \subseteq S
<1> DEFINE T == Nat \ S
<1> SUFFICES ASSUME T # {} PROVE FALSE
  OBVIOUS
<1>1. PICK x \in T : \A y \in T : <<y, x>> \notin OpToRel(<, Nat)
  BY NatLessThanWellFounded, WFMin
<1>2. \A y \in T : ~(y < x)
  BY <1>1 DEF OpToRel
<1> QED
  BY <1>2

(* A loop whose rounds stay in a set has all its rounds ...                 *)
Passes(f, S, F, b, n) ==
    f \in [0..n -> S] /\ f[0] = b /\ \A i \in 1..n : f[i] = F[f[i - 1]]

(* ... in a sequence f of the states between them ...                      *)
LEMMA LoopExists ==
    ASSUME NEW S, NEW F \in [S -> S], NEW b \in S, NEW n \in Nat
    PROVE  \E f : Passes(f, S, F, b, n)
<1> DEFINE Good(f, m) == f \in [0..m -> S] /\ f[0] = b /\ \A i \in 1..m : f[i] = F[f[i - 1]]
           T == {m \in Nat : \E f : Good(f, m)}
<1>1. 0 \in T
  <2>1. Good([i \in 0..0 |-> b], 0)
    OBVIOUS
  <2> QED
    BY <2>1
<1>2. ASSUME NEW m \in Nat, m \in T PROVE m + 1 \in T
  <2>1. PICK f : Good(f, m)
    BY <1>2
  <2> DEFINE g == [i \in 0..m + 1 |-> IF i = m + 1 THEN F[f[m]] ELSE f[i]]
  <2>2. g \in [0..m + 1 -> S]
    BY <2>1
  <2>3. g[0] = b
    BY <2>1
  <2>4. ASSUME NEW i \in 1..m + 1 PROVE g[i] = F[g[i - 1]]
    <3>1. CASE i = m + 1
      <4>1. i - 1 = m /\ m \in 0..m + 1 /\ m # m + 1 /\ i \in 0..m + 1
        BY <3>1
      <4> QED
        BY <3>1, <4>1
    <3>2. CASE i # m + 1
      <4>1. i \in 1..m /\ i - 1 \in 0..m + 1 /\ i - 1 # m + 1 /\ i \in 0..m + 1
        BY <3>2
      <4> QED
        BY <2>1, <3>2, <4>1
    <3> QED
      BY <3>1, <3>2
  <2> HIDE DEF g
  <2>5. Good(g, m + 1)
    BY <2>2, <2>3, <2>4
  <2> QED
    BY <2>5
<1> HIDE DEF T
<1>3. Nat \subseteq T
  BY <1>1, <1>2, SetInduction
<1>4. PICK f : Good(f, n)
  BY <1>3 DEF T
<1> QED
  BY <1>4 DEF Passes

(* ... and what every round keeps, with their number, holds after the last. *)
LEMMA LoopKeeps ==
    ASSUME NEW P, NEW n \in Nat, NEW f, <<0, f[0]>> \in P,
           \A i \in 1..n : <<i - 1, f[i - 1]>> \in P => <<i, f[i]>> \in P
    PROVE  <<n, f[n]>> \in P
<1> DEFINE T == {i \in Nat : i <= n => <<i, f[i]>> \in P}
<1>1. 0 \in T
  OBVIOUS
<1>2. ASSUME NEW i \in Nat, i \in T PROVE i + 1 \in T
  <2> SUFFICES ASSUME i + 1 <= n PROVE <<i + 1, f[i + 1]>> \in P
    OBVIOUS
  <2>1. i + 1 \in 1..n /\ (i + 1) - 1 = i /\ i <= n
    OBVIOUS
  <2>2. <<(i + 1) - 1, f[(i + 1) - 1]>> \in P
    BY <1>2, <2>1
  <2> QED
    BY <2>1, <2>2
<1> HIDE DEF T
<1>3. Nat \subseteq T
  BY <1>1, <1>2, SetInduction
<1> QED
  BY <1>3 DEF T

-----------------------------------------------------------------------------
(* Lists without repetitions.                                               *)

(* The item at place i taken out: those behind it move up by one.           *)
LEMMA RemoveAtIs ==
    ASSUME NEW S, NEW s \in Seq(S), NEW i \in 1..Len(s)
    PROVE  /\ RemoveAt(s, i) \in Seq(S)
           /\ Len(RemoveAt(s, i)) = Len(s) - 1
           /\ \A j \in 1..Len(s) - 1 : RemoveAt(s, i)[j] = IF j < i THEN s[j] ELSE s[j + 1]
<1> DEFINE a == SubSeq(s, 1, i - 1)
           b == SubSeq(s, i + 1, Len(s))
<1>0. Len(s) \in Nat
  BY LenProperties
<1>1. a \in Seq(S) /\ Len(a) = i - 1 /\ \A j \in 1..i - 1 : a[j] = s[j]
  <2>1. \A j \in 1..i - 1 : s[j] \in S
    BY <1>0, ElementOfSeq
  <2> QED
    BY <1>0, <2>1, SubSeqProperties
<1>2. b \in Seq(S) /\ Len(b) = Len(s) - i /\ \A j \in 1..Len(s) - i : b[j] = s[i + j]
  <2>1. \A j \in i + 1..Len(s) : s[j] \in S
    BY <1>0, ElementOfSeq
  <2> QED
    BY <1>0, <2>1, SubSeqProperties
<1> HIDE DEF a, b
<1>3. /\ a \o b \in Seq(S) /\ Len(a \o b) = Len(a) + Len(b)
      /\ \A j \in 1..Len(a) + Len(b) : (a \o b)[j] = IF j <= Len(a) THEN a[j] ELSE b[j - Len(a)]
  BY <1>1, <1>2, ConcatProperties
<1>4. ASSUME NEW j \in 1..Len(s) - 1
      PROVE  (a \o b)[j] = IF j < i THEN s[j] ELSE s[j + 1]
  <2>1. (a \o b)[j] = IF j <= Len(a) THEN a[j] ELSE b[j - Len(a)]
    BY <1>0, <1>1, <1>2, <1>3
  <2>2. CASE j < i
    BY <1>0, <1>1, <2>1, <2>2
  <2>3. CASE j >= i
    <3>1. j - (i - 1) \in 1..Len(s) - i /\ i + (j - (i - 1)) = j + 1
      BY <1>0, <2>3
    <3>2. b[j - (i - 1)] = s[j + 1]
      BY <1>2, <3>1
    <3>3. ~(j < i) /\ ~(j <= Len(a)) /\ Len(a) = i - 1
      BY <1>0, <1>1, <2>3
    <3> QED
      BY <2>1, <3>2, <3>3
  <2>4. j < i \/ j >= i
    BY <1>0
  <2>5. j >= i => ~(j < i)
    BY <1>0
  <2> QED
    BY <2>2, <2>3, <2>4, <2>5, Zenon
<1>5. Len(a \o b) = Len(s) - 1
  BY <1>0, <1>1, <1>2, <1>3
<1>6. RemoveAt(s, i) = a \o b
  BY DEF RemoveAt, a, b
<1> QED
  BY <1>3, <1>4, <1>5, <1>6, Zenon

(* r is the list s of items of S with e put in at place i.                  *)
PutIn(r, s, i, e, S) ==
    /\ r \in Seq(S) /\ Len(r) = Len(s) + 1
    /\ \A j \in 1..Len(s) + 1 : r[j] = IF j < i THEN s[j] ELSE IF j = i THEN e ELSE s[j - 1]

(* An item put in at place i: those from there on move down by one.         *)
LEMMA InsertAtIs ==
    ASSUME NEW S, NEW s \in Seq(S), NEW i \in 1..Len(s) + 1, NEW e \in S
    PROVE  PutIn(InsertAt(s, i, e), s, i, e, S)
<1> DEFINE a == SubSeq(s, 1, i - 1)
           b == SubSeq(s, i, Len(s))
           c == a \o <<e>>
<1>0. Len(s) \in Nat
  BY LenProperties
<1>1. a \in Seq(S) /\ Len(a) = i - 1 /\ \A j \in 1..i - 1 : a[j] = s[j]
  <2>1. \A j \in 1..i - 1 : s[j] \in S
    BY <1>0, ElementOfSeq
  <2> QED
    BY <1>0, <2>1, SubSeqProperties
<1>2. b \in Seq(S) /\ Len(b) = Len(s) + 1 - i /\ \A j \in 1..Len(s) + 1 - i : b[j] = s[i + j - 1]
  <2>1. \A j \in i..Len(s) : s[j] \in S
    BY <1>0, ElementOfSeq
  <2> QED
    BY <1>0, <2>1, SubSeqProperties
<1>3. <<e>> \in Seq(S) /\ Len(<<e>>) = 1 /\ <<e>>[1] = e
  OBVIOUS
<1> HIDE DEF a, b
<1>4. /\ c \in Seq(S) /\ Len(c) = Len(a) + 1
      /\ \A j \in 1..Len(a) + 1 : c[j] = IF j <= Len(a) THEN a[j] ELSE <<e>>[j - Len(a)]
  BY <1>0, <1>1, <1>3, ConcatProperties
<1>5. Len(c) = i /\ \A j \in 1..i : c[j] = IF j < i THEN s[j] ELSE e
  <2>1. Len(c) = i
    BY <1>0, <1>1, <1>4
  <2>2. ASSUME NEW j \in 1..i, j < i PROVE c[j] = s[j]
    BY <1>0, <1>1, <1>4, <2>2
  <2>3. c[i] = e
    <3>1. i - Len(a) = 1 /\ i \in 1..Len(a) + 1 /\ ~(i <= Len(a))
      BY <1>0, <1>1
    <3> QED
      BY <1>3, <1>4, <3>1
  <2> QED
    BY <1>0, <2>1, <2>2, <2>3
<1> HIDE DEF c
<1>6. /\ c \o b \in Seq(S) /\ Len(c \o b) = Len(c) + Len(b)
      /\ \A j \in 1..Len(c) + Len(b) : (c \o b)[j] = IF j <= Len(c) THEN c[j] ELSE b[j - Len(c)]
  BY <1>0, <1>2, <1>4, ConcatProperties, ZenonT(60)
<1>7. \A j \in 1..Len(s) + 1 :
        (c \o b)[j] = IF j < i THEN s[j] ELSE IF j = i THEN e ELSE s[j - 1]
  BY <1>0, <1>2, <1>5, <1>6
<1>8. InsertAt(s, i, e) = c \o b
  BY DEF InsertAt, a, b, c
<1>9. PutIn(c \o b, s, i, e, S)
  BY <1>0, <1>2, <1>5, <1>6, <1>7 DEF PutIn
<1> QED
  BY <1>8, <1>9, Zenon

(* What is in a list.                                                       *)
LEMMA Elements ==
    ASSUME NEW S, NEW s \in Seq(S)
    PROVE  /\ ToSet(s) = {s[i] : i \in 1..Len(s)}
           /\ ToSet(s) \subseteq S
BY LenProperties, ElementOfSeq DEF ToSet

(* Nothing is in an empty list.                                             *)
LEMMA EmptyList == ToSet(<<>>) = {}
BY DEF ToSet

(* Sorted by the values v of its items.                                     *)
Sorted(s, v) == \A i, j \in DOMAIN s : i <= j => v[s[i]] <= v[s[j]]

(* uxListRemove takes out the one item, and leaves the others in order.     *)
LEMMA RemoveFirstKeeps ==
    ASSUME NEW S, NEW s \in Seq(S), IsInjective(s), NEW t
    PROVE  LET r == RemoveFirst(s, t) IN
           /\ r \in Seq(S) /\ IsInjective(r) /\ ToSet(r) = ToSet(s) \ {t}
           /\ \A v : Sorted(s, v) => Sorted(r, v)
           /\ t \in ToSet(s) => Len(r) = Len(s) - 1
<1> DEFINE r == RemoveFirst(s, t)
<1>0. Len(s) \in Nat /\ DOMAIN s = 1..Len(s)
  BY LenProperties
<1>1. CASE ~\E i \in 1..Len(s) : s[i] = t
  BY <1>0, <1>1 DEF RemoveFirst, ToSet
<1>2. CASE \E i \in 1..Len(s) : s[i] = t
  <2>1. PICK i \in 1..Len(s) : s[i] = t
    BY <1>2
  <2> DEFINE I == {j \in 1..Len(s) : s[j] = t}
  <2>2. I = {i} /\ Min(I) = i
    <3>1. I = {i}
      BY <1>0, <2>1 DEF IsInjective
    <3> QED
      BY <3>1, <1>0 DEF Min
  <2>3. r = RemoveAt(s, i)
    <3>1. r = RemoveAt(s, IF I # {} THEN Min(I) ELSE 0)
      BY <1>2 DEF RemoveFirst, SelectInSeq
    <3> HIDE DEF r, I
    <3> QED
      BY <2>2, <3>1
  <2> HIDE DEF I
  <2> HIDE DEF r
  <2>4. /\ r \in Seq(S) /\ Len(r) = Len(s) - 1 /\ DOMAIN r = 1..Len(s) - 1
        /\ \A j \in 1..Len(s) - 1 : r[j] = IF j < i THEN s[j] ELSE s[j + 1]
    BY <2>3, RemoveAtIs, LenProperties, ZenonT(60)
  <2>5. IsInjective(r)
    <3> SUFFICES ASSUME NEW m \in 1..Len(s) - 1, NEW n \in 1..Len(s) - 1, r[m] = r[n]
                 PROVE  m = n
      BY <2>4 DEF IsInjective
    <3> DEFINE p == IF m < i THEN m ELSE m + 1
               q == IF n < i THEN n ELSE n + 1
    <3>1. p \in 1..Len(s) /\ q \in 1..Len(s) /\ s[p] = s[q]
      BY <1>0, <2>4
    <3>2. p = q
      BY <1>0, <3>1 DEF IsInjective
    <3> QED
      BY <1>0, <3>2
  <2>6. ToSet(r) \subseteq ToSet(s) \ {t}
    <3> SUFFICES ASSUME NEW m \in 1..Len(s) - 1 PROVE r[m] \in ToSet(s) /\ r[m] # t
      BY <2>4 DEF ToSet
    <3> DEFINE p == IF m < i THEN m ELSE m + 1
    <3>1. p \in 1..Len(s) /\ p # i /\ r[m] = s[p]
      BY <1>0, <2>4
    <3> HIDE DEF p
    <3> QED
      BY <1>0, <2>1, <3>1 DEF IsInjective, ToSet
  <2>7. ASSUME NEW x \in ToSet(s), x # t PROVE x \in ToSet(r)
    <3>1. PICK j \in 1..Len(s) : s[j] = x
      BY <1>0 DEF ToSet
    <3>2. CASE j < i
      BY <1>0, <2>4, <3>1, <3>2, SMTT(60) DEF ToSet
    <3>3. CASE j > i
      <4>1. j - 1 \in 1..Len(s) - 1 /\ r[j - 1] = s[j]
        BY <1>0, <2>4, <3>3
      <4> QED
        BY <2>4, <3>1, <4>1 DEF ToSet
    <3> QED
      BY <2>1, <2>7, <3>1, <3>2, <3>3
  <2>8. ASSUME NEW v, Sorted(s, v) PROVE Sorted(r, v)
    BY <1>0, <2>4, <2>8, SMTT(60) DEF Sorted
  <2> QED
    BY <2>4, <2>5, <2>6, <2>7, <2>8 DEF r
<1> QED
  BY <1>1, <1>2

(* A new item, wherever it is put.                                          *)
LEMMA InsertAtKeeps ==
    ASSUME NEW S, NEW s \in Seq(S), IsInjective(s), NEW t \in S, t \notin ToSet(s),
           NEW i \in 1..Len(s) + 1
    PROVE  LET r == InsertAt(s, i, t) IN
           r \in Seq(S) /\ IsInjective(r) /\ ToSet(r) = ToSet(s) \cup {t}
<1> DEFINE r == InsertAt(s, i, t)
           From(j) == IF j < i THEN j ELSE j - 1
<1>0. Len(s) \in Nat /\ DOMAIN s = 1..Len(s)
  BY LenProperties
<1> HIDE DEF r
<1>b. PutIn(InsertAt(s, i, t), s, i, t, S)
  BY InsertAtIs
<1>a. /\ r \in Seq(S) /\ Len(r) = Len(s) + 1
      /\ \A j \in 1..Len(s) + 1 : r[j] = IF j < i THEN s[j] ELSE IF j = i THEN t ELSE s[j - 1]
  BY <1>b DEF r, PutIn
<1>1. DOMAIN r = 1..Len(s) + 1
  BY <1>a, LenProperties
<1>2. ASSUME NEW j \in 1..Len(s) + 1, j # i
      PROVE  From(j) \in 1..Len(s) /\ r[j] = s[From(j)] /\ r[j] # t
  <2>1. From(j) \in 1..Len(s) /\ r[j] = s[From(j)]
    BY <1>0, <1>a, <1>1, <1>2
  <2> QED
    BY <1>0, <2>1 DEF ToSet
<1>3. r[i] = t
  BY <1>0, <1>a, <1>1
<1>4. IsInjective(r)
  <2> SUFFICES ASSUME NEW m \in 1..Len(s) + 1, NEW n \in 1..Len(s) + 1, r[m] = r[n]
               PROVE  m = n
    BY <1>a, <1>1 DEF IsInjective
  <2>1. CASE m = i \/ n = i
    BY <1>2, <1>3, <2>1
  <2>2. CASE m # i /\ n # i
    <3>1. From(m) = From(n)
      BY <1>0, <1>2, <2>2, SMTT(60) DEF IsInjective
    <3> QED
      BY <1>0, <2>2, <3>1
  <2> QED
    BY <2>1, <2>2
<1>5. ToSet(r) \subseteq ToSet(s) \cup {t}
  <2> SUFFICES ASSUME NEW j \in 1..Len(s) + 1 PROVE r[j] \in ToSet(s) \cup {t}
    BY <1>a, <1>1 DEF ToSet
  <2> QED
    BY <1>0, <1>2, <1>3 DEF ToSet
<1>6. t \in ToSet(r)
  BY <1>0, <1>a, <1>1, <1>3 DEF ToSet
<1>7. ASSUME NEW x \in ToSet(s) PROVE x \in ToSet(r)
  <2>1. PICK j \in 1..Len(s) : s[j] = x
    BY <1>0 DEF ToSet
  <2>2. CASE j < i
    <3>1. j \in 1..Len(s) + 1 /\ r[j] = x
      BY <1>0, <1>a, <1>1, <2>1, <2>2
    <3> QED
      BY <1>a, <1>1, <3>1 DEF ToSet
  <2>3. CASE j >= i
    <3>1. j + 1 \in 1..Len(s) + 1 /\ ~(j + 1 < i) /\ j + 1 # i /\ (j + 1) - 1 = j
      BY <1>0, <2>3
    <3>2. r[j + 1] = x
      BY <1>a, <1>1, <2>1, <3>1
    <3> QED
      BY <1>a, <1>1, <3>1, <3>2 DEF ToSet
  <2> QED
    BY <1>0, <2>2, <2>3
<1> QED
  BY <1>a, <1>1, <1>4, <1>5, <1>6, <1>7 DEF r

(* The numbers up to n are n.                                              *)
LEMMA UpTo ==
    ASSUME NEW n \in Nat
    PROVE  IsFiniteSet(1..n) /\ Cardinality(1..n) = n
<1>1. CASE n = 0
  <2>1. 1..n = {}
    BY <1>1
  <2> QED
    BY <1>1, <2>1, FS_EmptySet
<1>2. CASE n > 0
  <2>1. Cardinality(1..n) = n - 1 + 1
    BY <1>2, FS_Interval
  <2> QED
    BY <1>2, <2>1, FS_Interval
<1> QED
  BY <1>1, <1>2

(* The place where vListInsert puts an item: behind those of a value that   *)
(* is not above its own, which are the first of a sorted list.              *)
PlaceOf(s, t, v) == 1 + Cardinality({i \in DOMAIN s : v[s[i]] <= v[t]})

(* It is a place of the list, and divides it by value.                     *)
LEMMA PlaceFound ==
    ASSUME NEW S, NEW s \in Seq(S), NEW v \in [S -> Nat], Sorted(s, v), NEW t \in S
    PROVE  /\ PlaceOf(s, t, v) \in 1..Len(s) + 1
           /\ \A i \in 1..Len(s) : i < PlaceOf(s, t, v) <=> v[s[i]] <= v[t]
<1> DEFINE I == {i \in DOMAIN s : v[s[i]] <= v[t]}
           m == Cardinality(I)
<1>0. Len(s) \in Nat /\ DOMAIN s = 1..Len(s) /\ v[t] \in Nat
  BY LenProperties
<1>1. /\ IsFiniteSet(1..Len(s)) /\ Cardinality(1..Len(s)) = Len(s)
  BY <1>0, UpTo
<1>2. I \subseteq 1..Len(s)
  BY <1>0
<1>3. IsFiniteSet(I) /\ m \in Nat /\ m <= Len(s)
  BY <1>1, <1>2, FS_Subset, FS_CardinalityType
<1>4. ASSUME NEW i \in I PROVE i <= m
  <2>1. 1..i \subseteq I
    <3> SUFFICES ASSUME NEW j \in 1..i PROVE j \in 1..Len(s) /\ v[s[j]] <= v[t]
      BY <1>0
    <3>1. j \in 1..Len(s) /\ i \in 1..Len(s) /\ j <= i /\ v[s[i]] <= v[t]
      BY <1>0
    <3>2. s[i] \in S /\ s[j] \in S
      BY <3>1, ElementOfSeq
    <3>3. v[s[j]] <= v[s[i]]
      BY <1>0, <3>1 DEF Sorted
    <3> QED
      BY <1>0, <3>1, <3>2, <3>3
  <2>2. IsFiniteSet(1..i) /\ Cardinality(1..i) = i
    <3>1. i \in Nat
      BY <1>0
    <3> QED
      BY <3>1, UpTo
  <2>3. i \in Int
    BY <1>0
  <2>4. Cardinality(1..i) <= Cardinality(I)
    BY <1>3, <2>1, FS_Subset
  <2> QED
    BY <2>2, <2>4
<1>5. I \subseteq 1..m
  BY <1>0, <1>3, <1>4
<1>6. IsFiniteSet(1..m) /\ Cardinality(1..m) = m
  BY <1>3, UpTo
<1>7. I = 1..m
  BY <1>5, <1>6, FS_Subset
<1>8. ASSUME NEW i \in 1..Len(s) PROVE i <= m <=> v[s[i]] <= v[t]
  <2>1. i \in I <=> v[s[i]] <= v[t]
    BY <1>0
  <2>2. i \in I <=> i <= m
    BY <1>0, <1>3, <1>7
  <2> QED
    BY <2>1, <2>2
<1>9. PlaceOf(s, t, v) = 1 + m
  BY DEF PlaceOf
<1> HIDE DEF m
<1> QED
  BY <1>0, <1>3, <1>8, <1>9

(* vListInsert keeps a list sorted.                                         *)
LEMMA InsertKeeps ==
    ASSUME NEW S, NEW s \in Seq(S), IsInjective(s), NEW t \in S, t \notin ToSet(s),
           NEW v \in [S -> Nat], Sorted(s, v)
    PROVE  LET r == Insert(s, t, v) IN
           /\ r \in Seq(S) /\ IsInjective(r) /\ ToSet(r) = ToSet(s) \cup {t}
           /\ Sorted(r, v)
<1> DEFINE p == PlaceOf(s, t, v)
           r == Insert(s, t, v)
<1>0. Len(s) \in Nat /\ DOMAIN s = 1..Len(s) /\ v[t] \in Nat
  BY LenProperties
<1>1. p \in 1..Len(s) + 1 /\ \A i \in 1..Len(s) : i < p <=> v[s[i]] <= v[t]
  BY PlaceFound
<1>2. r = InsertAt(s, p, t)
  BY DEF Insert, PlaceOf
<1> HIDE DEF p, r
<1>3. r \in Seq(S) /\ IsInjective(r) /\ ToSet(r) = ToSet(s) \cup {t}
  BY <1>1, <1>2, InsertAtKeeps
<1>4. /\ Len(r) = Len(s) + 1
      /\ \A j \in 1..Len(s) + 1 : r[j] = IF j < p THEN s[j] ELSE IF j = p THEN t ELSE s[j - 1]
  <2>1. p \in 1..Len(s) + 1
    BY <1>1
  <2>2. PutIn(InsertAt(s, p, t), s, p, t, S)
    BY <2>1, InsertAtIs
  <2> QED
    BY <1>2, <2>2 DEF PutIn
<1>5. DOMAIN r = 1..Len(s) + 1
  BY <1>3, <1>4, LenProperties
<1>6. ASSUME NEW n \in 1..Len(s) PROVE v[s[n]] \in Nat
  BY ElementOfSeq
<1>7. ASSUME NEW i \in 1..Len(s) + 1, NEW j \in 1..Len(s) + 1, i < j
      PROVE  v[r[i]] <= v[r[j]]
  <2>1. CASE j < p
    <3>1. r[i] = s[i] /\ r[j] = s[j] /\ i \in 1..Len(s) /\ j \in 1..Len(s) /\ i <= j
      BY <1>0, <1>1, <1>4, <1>7, <2>1
    <3> QED
      BY <1>0, <3>1 DEF Sorted
  <2>2. CASE j = p
    <3>1. r[i] = s[i] /\ r[j] = t /\ i \in 1..Len(s) /\ i < p
      BY <1>0, <1>1, <1>4, <1>7, <2>2
    <3> QED
      BY <1>1, <3>1
  <2>3. CASE j > p /\ i < p
    <3>1. r[i] = s[i] /\ r[j] = s[j - 1] /\ i \in 1..Len(s) /\ j - 1 \in 1..Len(s) /\ i <= j - 1
      BY <1>0, <1>1, <1>4, <1>7, <2>3
    <3> QED
      BY <1>0, <3>1 DEF Sorted
  <2>4. CASE j > p /\ i = p
    <3>1. r[i] = t /\ r[j] = s[j - 1] /\ j - 1 \in 1..Len(s) /\ ~(j - 1 < p)
      BY <1>0, <1>1, <1>4, <1>7, <2>4
    <3>2. ~(v[s[j - 1]] <= v[t]) /\ v[s[j - 1]] \in Nat
      BY <1>1, <1>6, <3>1
    <3> QED
      BY <1>0, <3>1, <3>2
  <2>5. CASE i > p
    <3>1. /\ r[i] = s[i - 1] /\ r[j] = s[j - 1]
          /\ i - 1 \in 1..Len(s) /\ j - 1 \in 1..Len(s) /\ i - 1 <= j - 1
      BY <1>0, <1>1, <1>4, <1>7, <2>5
    <3> QED
      BY <1>0, <3>1 DEF Sorted
  <2> QED
    BY <1>0, <1>1, <1>7, <2>1, <2>2, <2>3, <2>4, <2>5
<1>8. ASSUME NEW i \in 1..Len(s) + 1 PROVE v[r[i]] <= v[r[i]]
  BY <1>3, <1>4, ElementOfSeq
<1>9. Sorted(r, v)
  <2> SUFFICES ASSUME NEW i \in 1..Len(s) + 1, NEW j \in 1..Len(s) + 1, i <= j
               PROVE  v[r[i]] <= v[r[j]]
    BY <1>5 DEF Sorted
  <2> QED
    BY <1>0, <1>7, <1>8
<1> QED
  BY <1>3, <1>9 DEF r

(* The first item taken out.                                                *)
LEMMA TailKeeps ==
    ASSUME NEW S, NEW s \in Seq(S), IsInjective(s), s # <<>>
    PROVE  /\ Head(s) \in S /\ Head(s) \in ToSet(s)
           /\ Tail(s) \in Seq(S) /\ IsInjective(Tail(s)) /\ Len(Tail(s)) = Len(s) - 1
           /\ ToSet(Tail(s)) = ToSet(s) \ {Head(s)}
<1> DEFINE r == Tail(s)
<1>0. Len(s) \in Nat /\ DOMAIN s = 1..Len(s) /\ Len(s) # 0
  BY LenProperties, EmptySeq
<1>1. Head(s) = s[1] /\ Head(s) \in S /\ Head(s) \in ToSet(s)
  BY <1>0, HeadTailProperties DEF ToSet
<1>2. r \in Seq(S) /\ Len(r) = Len(s) - 1
  BY HeadTailProperties
<1>3. DOMAIN r = 1..Len(s) - 1 /\ \A i \in 1..Len(s) - 1 : r[i] = s[i + 1]
  BY <1>2, HeadTailProperties, LenProperties
<1> HIDE DEF r
<1>4. ASSUME NEW i \in 1..Len(s) - 1 PROVE i + 1 \in 1..Len(s) /\ i + 1 # 1
  BY <1>0
<1>5. IsInjective(r)
  <2> SUFFICES ASSUME NEW i \in 1..Len(s) - 1, NEW j \in 1..Len(s) - 1, r[i] = r[j]
               PROVE  i = j
    BY <1>3 DEF IsInjective
  <2>1. i + 1 = j + 1
    BY <1>0, <1>3, <1>4 DEF IsInjective
  <2> QED
    BY <1>0, <2>1
<1>6. ToSet(r) \subseteq ToSet(s) \ {Head(s)}
  <2> SUFFICES ASSUME NEW i \in 1..Len(s) - 1 PROVE r[i] \in ToSet(s) /\ r[i] # s[1]
    BY <1>1, <1>3 DEF ToSet
  <2>1. r[i] = s[i + 1] /\ i + 1 \in 1..Len(s) /\ i + 1 # 1 /\ 1 \in 1..Len(s)
    BY <1>0, <1>3
  <2> QED
    BY <1>0, <2>1 DEF IsInjective, ToSet
<1>7. ASSUME NEW x \in ToSet(s), x # Head(s) PROVE x \in ToSet(r)
  <2>1. PICK i \in 1..Len(s) : s[i] = x
    BY <1>0 DEF ToSet
  <2>2. i - 1 \in 1..Len(s) - 1 /\ (i - 1) + 1 = i
    BY <1>0, <1>1, <1>7, <2>1
  <2>3. r[i - 1] = x
    BY <1>3, <2>1, <2>2
  <2> QED
    BY <1>3, <2>2, <2>3 DEF ToSet
<1> QED
  BY <1>1, <1>2, <1>5, <1>6, <1>7 DEF r

(* A new item at the end.                                                   *)
LEMMA AppendKeeps ==
    ASSUME NEW S, NEW s \in Seq(S), IsInjective(s), NEW t \in S, t \notin ToSet(s)
    PROVE  LET r == Append(s, t) IN
           /\ r \in Seq(S) /\ IsInjective(r) /\ ToSet(r) = ToSet(s) \cup {t}
           /\ Len(r) = Len(s) + 1 /\ Last(r) = t
<1> DEFINE r == Append(s, t)
<1>0. Len(s) \in Nat /\ DOMAIN s = 1..Len(s)
  BY LenProperties
<1>1. /\ r \in Seq(S) /\ Len(r) = Len(s) + 1 /\ DOMAIN r = 1..Len(s) + 1
      /\ \A i \in 1..Len(s) : r[i] = s[i]
      /\ r[Len(s) + 1] = t
  BY AppendProperties, LenProperties
<1> HIDE DEF r
<1>2. ASSUME NEW i \in 1..Len(s) PROVE r[i] # t /\ r[i] \in ToSet(s)
  BY <1>0, <1>1 DEF ToSet
<1>3. IsInjective(r)
  <2> SUFFICES ASSUME NEW i \in 1..Len(s) + 1, NEW j \in 1..Len(s) + 1, r[i] = r[j]
               PROVE  i = j
    BY <1>1 DEF IsInjective
  <2>1. CASE i \in 1..Len(s) /\ j \in 1..Len(s)
    BY <1>0, <1>1, <2>1 DEF IsInjective
  <2>2. CASE i = Len(s) + 1 \/ j = Len(s) + 1
    BY <1>0, <1>1, <1>2, <2>2
  <2> QED
    BY <1>0, <2>1, <2>2
<1>4. ToSet(r) \subseteq ToSet(s) \cup {t}
  <2> SUFFICES ASSUME NEW i \in 1..Len(s) + 1 PROVE r[i] \in ToSet(s) \cup {t}
    BY <1>1 DEF ToSet
  <2> QED
    BY <1>0, <1>1, <1>2
<1>5. ToSet(s) \cup {t} \subseteq ToSet(r)
  <2>1. t \in ToSet(r)
    BY <1>0, <1>1 DEF ToSet
  <2>2. ASSUME NEW x \in ToSet(s) PROVE x \in ToSet(r)
    <3>1. PICK i \in 1..Len(s) : s[i] = x
      BY <1>0 DEF ToSet
    <3>2. i \in 1..Len(s) + 1 /\ r[i] = x
      BY <1>0, <1>1, <3>1
    <3> QED
      BY <1>1, <3>2 DEF ToSet
  <2> QED
    BY <2>1, <2>2
<1>6. Last(r) = t
  BY <1>1 DEF Last
<1> QED
  BY <1>1, <1>3, <1>4, <1>5, <1>6 DEF r

(* The first item put behind the last one.                                  *)
LEMMA RotatedKeeps ==
    ASSUME NEW S, NEW s \in Seq(S), IsInjective(s), s # <<>>
    PROVE  LET r == Append(Tail(s), Head(s)) IN
           /\ r \in Seq(S) /\ IsInjective(r) /\ ToSet(r) = ToSet(s)
           /\ Len(r) = Len(s) /\ Last(r) = Head(s)
<1> DEFINE q == Tail(s)
<1>1. /\ q \in Seq(S) /\ IsInjective(q) /\ Len(q) = Len(s) - 1
      /\ ToSet(q) = ToSet(s) \ {Head(s)} /\ Head(s) \in S /\ Head(s) \in ToSet(s)
  BY TailKeeps
<1> HIDE DEF q
<1>2. Head(s) \notin ToSet(q)
  BY <1>1
<1>3. /\ Append(q, Head(s)) \in Seq(S) /\ IsInjective(Append(q, Head(s)))
      /\ ToSet(Append(q, Head(s))) = ToSet(q) \cup {Head(s)}
      /\ Len(Append(q, Head(s))) = Len(q) + 1 /\ Last(Append(q, Head(s))) = Head(s)
  BY <1>1, <1>2, AppendKeeps
<1>4. Len(Append(q, Head(s))) = Len(s)
  BY <1>1, <1>3, LenProperties
<1>5. ToSet(Append(q, Head(s))) = ToSet(s)
  BY <1>1, <1>3
<1> QED
  BY <1>3, <1>4, <1>5 DEF q

(* listGET_OWNER_OF_NEXT_ENTRY keeps the ring, and ends at a task.          *)
LEMMA NextEntryKeeps ==
    ASSUME NEW S, NEW s \in Seq(S), IsInjective(s), Marker \in ToSet(s), s # <<Marker>>
    PROVE  LET r == NextEntry(s) IN
           /\ r \in Seq(S) /\ IsInjective(r) /\ ToSet(r) = ToSet(s)
           /\ Last(r) \in ToSet(s) \ {Marker}
<1> DEFINE q == Append(Tail(s), Head(s))
           p == Append(Tail(q), Head(q))
<1>0. Len(s) \in Nat \ {0} /\ s # <<>> /\ Head(s) = s[1]
  BY LenProperties, EmptySeq DEF ToSet
<1>1. /\ q \in Seq(S) /\ IsInjective(q) /\ ToSet(q) = ToSet(s)
      /\ Len(q) = Len(s) /\ Last(q) = Head(s)
  BY <1>0, RotatedKeeps
<1>2. Head(s) \in ToSet(s)
  BY <1>0, TailKeeps
<1>3. NextEntry(s) = IF Head(s) = Marker THEN p ELSE q
  BY DEF NextEntry
<1> HIDE DEF p, q
<1>4. CASE Head(s) # Marker
  BY <1>1, <1>2, <1>3, <1>4
<1>5. CASE Head(s) = Marker
  <2>1. Len(s) # 1
    <3> SUFFICES ASSUME Len(s) = 1 PROVE FALSE
      OBVIOUS
    <3>1. s \in [1..Len(s) -> S]
      BY LenProperties
    <3>2. s = [i \in 1..1 |-> Marker]
      BY <1>0, <1>5, <3>1
    <3>3. <<Marker>> = [i \in 1..1 |-> Marker]
      OBVIOUS
    <3> QED
      BY <3>2, <3>3
  <2>2. q # <<>> /\ DOMAIN q = 1..Len(q) /\ Head(q) = q[1]
    BY <1>0, <1>1, LenProperties, EmptySeq
  <2>3. Head(q) # Marker
    <3>1. q[Len(q)] = Marker /\ Len(q) \in 1..Len(q) /\ 1 \in 1..Len(q) /\ Len(q) # 1
      BY <1>0, <1>1, <1>5, <2>1 DEF Last
    <3> QED
      BY <1>1, <2>2, <3>1 DEF IsInjective
  <2>4. /\ p \in Seq(S) /\ IsInjective(p) /\ ToSet(p) = ToSet(q) /\ Last(p) = Head(q)
    BY <1>1, <2>2, RotatedKeeps DEF p
  <2>5. Head(q) \in ToSet(q)
    BY <1>1, <2>2, TailKeeps
  <2> QED
    BY <1>1, <1>3, <1>5, <2>3, <2>4, <2>5
<1> QED
  BY <1>4, <1>5

(* The rotation brings everyone behind the head nearer by it.               *)
LEMMA RotatedBefore ==
    ASSUME NEW S, NEW s \in Seq(S), IsInjective(s), s # <<>>,
           NEW r, r = Append(Tail(s), Head(s)), NEW x \in ToSet(s), x # Head(s)
    PROVE  /\ Before(r, x) \subseteq Before(s, x) /\ Head(s) \notin Before(r, x)
           /\ Head(s) \in Tasks => Head(s) \in Before(s, x)
<1>a. PICK n : n = Len(s)
  OBVIOUS
<1>b. PICK q : q = Tail(s)
  OBVIOUS
<1>0. n \in Nat /\ n # 0 /\ n = Len(s) /\ DOMAIN s = 1..n /\ Head(s) = s[1] /\ Head(s) \in S
  BY <1>a, LenProperties, EmptySeq, HeadTailProperties
<1>1. q \in Seq(S) /\ Len(q) = n - 1 /\ \A i \in 1..n - 1 : q[i] = s[i + 1]
  BY <1>0, <1>b, HeadTailProperties
<1>2. /\ r \in Seq(S) /\ Len(r) = n /\ r[n] = s[1]
      /\ \A i \in 1..n - 1 : r[i] = s[i + 1]
  <2>1. /\ Append(q, Head(s)) \in Seq(S) /\ Len(Append(q, Head(s))) = Len(q) + 1
        /\ \A i \in 1..Len(q) : Append(q, Head(s))[i] = q[i]
        /\ Append(q, Head(s))[Len(q) + 1] = Head(s)
    BY <1>0, <1>1, AppendProperties
  <2>2. Len(q) + 1 = n
    BY <1>0, <1>1
  <2> QED
    BY <1>0, <1>1, <1>b, <2>1, <2>2
<1>3. DOMAIN r = 1..n
  BY <1>2, LenProperties
<1>4. ASSUME NEW u \in Before(r, x) PROVE u \in Before(s, x) /\ u # Head(s)
  <2>1. PICK i \in 1..n, j \in 1..n : i <= j /\ r[i] = u /\ r[j] = x
    BY <1>3, <1>4 DEF Before
  <2>2. j # n
    BY <1>0, <1>2, <2>1
  <2>3. i \in 1..n - 1 /\ j \in 1..n - 1
    BY <1>0, <2>1, <2>2
  <2>4. s[i + 1] = u /\ s[j + 1] = x
    BY <1>2, <2>1, <2>3
  <2>5. i + 1 \in 1..n /\ j + 1 \in 1..n /\ i + 1 <= j + 1 /\ i + 1 # 1 /\ 1 \in 1..n
    BY <1>0, <2>1, <2>3
  <2>6. u # s[1]
    BY <1>0, <2>4, <2>5 DEF IsInjective
  <2>7. u \in Tasks
    BY <1>4 DEF Before
  <2> QED
    BY <1>0, <2>4, <2>5, <2>6, <2>7 DEF Before
<1>5. ASSUME Head(s) \in Tasks PROVE Head(s) \in Before(s, x)
  <2>1. PICK j \in 1..n : s[j] = x
    BY <1>0 DEF ToSet
  <2>2. 1 \in 1..n /\ 1 <= j
    BY <1>0
  <2> QED
    BY <1>0, <1>5, <2>1, <2>2 DEF Before
<1> QED
  BY <1>4, <1>5

(* The next task of the ring gets the processor, and nobody waits for it    *)
(* any longer.                                                              *)
LEMMA NextEntryBefore ==
    ASSUME NEW S, NEW s \in Seq(S), S \subseteq Tasks \cup {Marker},
           IsInjective(s), Marker \in ToSet(s), s # <<Marker>>,
           NEW r, r = NextEntry(s), NEW x \in ToSet(s), x # Marker, x # Last(r)
    PROVE  /\ Before(r, x) \subseteq Before(s, x)
           /\ Last(r) \in Before(s, x) /\ Last(r) \notin Before(r, x)
<1>a. PICK q : q = Append(Tail(s), Head(s))
  OBVIOUS
<1>b. PICK p : p = Append(Tail(q), Head(q))
  OBVIOUS
<1>0. s # <<>> /\ Head(s) \in S
  BY EmptyList, TailKeeps
<1>1. /\ q \in Seq(S) /\ IsInjective(q) /\ ToSet(q) = ToSet(s)
      /\ Len(q) = Len(s) /\ Last(q) = Head(s)
  BY <1>0, <1>a, RotatedKeeps
<1>2. r = IF Head(s) = Marker THEN p ELSE q
  BY <1>a, <1>b DEF NextEntry
<1>3. CASE Head(s) # Marker
  <2>1. r = q /\ Last(r) = Head(s) /\ Head(s) \in Tasks
    BY <1>0, <1>1, <1>2, <1>3
  <2>2. /\ Before(q, x) \subseteq Before(s, x) /\ Head(s) \notin Before(q, x)
        /\ Head(s) \in Tasks => Head(s) \in Before(s, x)
    BY <1>0, <1>a, <2>1, RotatedBefore
  <2> QED
    BY <2>1, <2>2
<1>4. CASE Head(s) = Marker
  <2>1. Before(q, x) \subseteq Before(s, x)
    BY <1>0, <1>4, <1>a, RotatedBefore
  <2>2. q # <<>>
    BY <1>1, EmptyList
  <2>3. Last(p) = Head(q)
    BY <1>1, <1>b, <2>2, RotatedKeeps
  <2>4. r = p /\ Last(r) = Head(q)
    BY <1>2, <1>4, <2>3
  <2>5. Head(q) \in Tasks
    <3>1. Last(r) \in ToSet(s) \ {Marker}
      BY NextEntryKeeps
    <3>2. ToSet(s) \subseteq S
      BY Elements
    <3> QED
      BY <2>4, <3>1, <3>2
  <2>6. /\ Before(p, x) \subseteq Before(q, x) /\ Head(q) \notin Before(p, x)
        /\ Head(q) \in Tasks => Head(q) \in Before(q, x)
    BY <1>1, <1>b, <2>2, <2>4, RotatedBefore
  <2> QED
    BY <2>1, <2>4, <2>5, <2>6
<1> QED
  BY <1>3, <1>4

(* From the ring r to the ring s nobody has come before an item of r, but   *)
(* for the one that pxIndex points to.                                      *)
NotPassed(r, s) ==
    \A t \in ToSet(r) : t # Last(r) => t # Last(s) /\ Before(s, t) \subseteq Before(r, t)

(* Nothing is passed by while the ring stays the same.                      *)
LEMMA SameNotPassed == ASSUME NEW r PROVE NotPassed(r, r)
BY DEF NotPassed

(* A newcomer comes after them.                                             *)
LEMMA InsertEndNotPassed ==
    ASSUME NEW s \in Seq(Tasks \cup {Marker}), IsInjective(s), s # <<>>,
           NEW t \in Tasks, t \notin ToSet(s)
    PROVE  NotPassed(s, InsertEnd(s, t))
<1>a. PICK r : r = InsertEnd(s, t)
  OBVIOUS
<1>b. PICK n : n = Len(s)
  OBVIOUS
<1>0. n \in Nat /\ n # 0 /\ n = Len(s) /\ DOMAIN s = 1..n /\ Last(s) = s[n]
  BY <1>b, LenProperties, EmptySeq DEF Last
<1>1. PutIn(r, s, n, t, Tasks \cup {Marker})
  <2>1. n \in 1..Len(s) + 1
    BY <1>0
  <2> QED
    BY <1>0, <1>a, <2>1, InsertAtIs DEF InsertEnd
<1>2. /\ r \in Seq(Tasks \cup {Marker}) /\ Len(r) = n + 1
      /\ \A j \in 1..n + 1 : r[j] = IF j < n THEN s[j] ELSE IF j = n THEN t ELSE s[j - 1]
  BY <1>0, <1>1 DEF PutIn
<1>3. DOMAIN r = 1..n + 1 /\ Last(r) = r[n + 1]
  BY <1>2, LenProperties DEF Last
<1>4. r[n + 1] = s[n] /\ r[n] = t /\ \A j \in 1..n : j # n => r[j] = s[j]
  <2>1. n \in 1..n + 1 /\ n + 1 \in 1..n + 1 /\ ~(n + 1 < n) /\ n + 1 # n /\ (n + 1) - 1 = n
    BY <1>0
  <2>2. ~(n < n) /\ \A j \in 1..n : j # n => j < n /\ j \in 1..n + 1
    BY <1>0
  <2> QED
    BY <1>2, <2>1, <2>2
<1>5. Last(r) = Last(s)
  BY <1>0, <1>3, <1>4
<1>6. ASSUME NEW x \in ToSet(s), x # Last(s), NEW u \in Before(r, x)
      PROVE  u \in Before(s, x)
  <2>1. PICK i \in 1..n + 1, j \in 1..n + 1 : i <= j /\ r[i] = u /\ r[j] = x
    BY <1>3, <1>6 DEF Before
  <2>2. j # n + 1 /\ j # n
    BY <1>0, <1>4, <1>6, <2>1
  <2>3. i \in 1..n /\ j \in 1..n /\ i # n /\ j # n
    BY <1>0, <2>1, <2>2
  <2>4. s[i] = u /\ s[j] = x
    BY <1>4, <2>1, <2>3
  <2>5. u \in Tasks
    BY <1>6 DEF Before
  <2> QED
    BY <1>0, <2>1, <2>3, <2>4, <2>5 DEF Before
<1> QED
  BY <1>5, <1>6, <1>a DEF NotPassed

(* Whoever leaves makes nobody wait longer.                                 *)
LEMMA RemoveFirstBefore ==
    ASSUME NEW S, NEW s \in Seq(S), IsInjective(s), NEW t, NEW x
    PROVE  /\ Before(RemoveFirst(s, t), x) \subseteq Before(s, x)
           /\ t \notin ToSet(s) => RemoveFirst(s, t) = s
<1>a. PICK r : r = RemoveFirst(s, t)
  OBVIOUS
<1>0. Len(s) \in Nat /\ DOMAIN s = 1..Len(s)
  BY LenProperties
<1>1. CASE t \notin ToSet(s)
  BY <1>0, <1>1 DEF RemoveFirst, ToSet
<1>2. CASE t \in ToSet(s)
  <2>1. PICK i \in 1..Len(s) : s[i] = t
    BY <1>0, <1>2 DEF ToSet
  <2>2. r = RemoveAt(s, i)
    <3> DEFINE I == {j \in 1..Len(s) : s[j] = t}
    <3>1. I = {i} /\ Min(I) = i
      <4>1. I = {i}
        BY <1>0, <2>1 DEF IsInjective
      <4> QED
        BY <4>1, <1>0 DEF Min
    <3>2. r = RemoveAt(s, IF I # {} THEN Min(I) ELSE 0)
      BY <1>a, <2>1 DEF RemoveFirst, SelectInSeq
    <3> HIDE DEF I
    <3> QED
      BY <3>1, <3>2
  <2>3. /\ DOMAIN r = 1..Len(s) - 1
        /\ \A j \in 1..Len(s) - 1 : r[j] = IF j < i THEN s[j] ELSE s[j + 1]
    BY <2>2, RemoveAtIs, LenProperties, ZenonT(60)
  <2>4. ASSUME NEW u \in Before(r, x) PROVE u \in Before(s, x)
    <3>1. PICK m \in 1..Len(s) - 1, n \in 1..Len(s) - 1 : m <= n /\ r[m] = u /\ r[n] = x
      BY <2>3, <2>4 DEF Before
    <3> DEFINE p == IF m < i THEN m ELSE m + 1
               q == IF n < i THEN n ELSE n + 1
    <3>2. p \in 1..Len(s) /\ q \in 1..Len(s) /\ p <= q
      BY <1>0, <3>1
    <3>3. s[p] = u /\ s[q] = x
      BY <1>0, <2>3, <3>1
    <3>4. u \in Tasks
      BY <2>4 DEF Before
    <3> HIDE DEF p, q
    <3> QED
      BY <1>0, <3>2, <3>3, <3>4 DEF Before
  <2> QED
    BY <1>2, <1>a, <2>4
<1> QED
  BY <1>1, <1>2

-----------------------------------------------------------------------------
(* One step of the scheduler.                                               *)

(* uxListRemove, field by field.                                           *)
LEMMA UnlinkIs ==
    ASSUME NEW k \in KernelType, NEW t \in Tasks,
           IsInjective(k.ready), IsInjective(k.delayed), IsInjective(k.overflow)
    PROVE  LET u == Unlink(k, t) IN
           /\ u \in KernelType
           /\ u.ready = RemoveFirst(k.ready, t) /\ u.delayed = RemoveFirst(k.delayed, t)
           /\ u.overflow = RemoveFirst(k.overflow, t) /\ u.suspended = k.suspended \ {t}
           /\ u.value = [k.value EXCEPT ![t] = 0]
           /\ u.pending = k.pending /\ u.send = k.send /\ u.receive = k.receive
           /\ u.xTickCount = k.xTickCount /\ u.xNextTaskUnblockTime = k.xNextTaskUnblockTime
           /\ u.uxSchedulerSuspended = k.uxSchedulerSuspended
           /\ u.pxCurrentTCB = k.pxCurrentTCB /\ u.pendSV = k.pendSV
<1>1. RemoveFirst(k.ready, t) \in Seq(Tasks \cup {Marker})
  BY RemoveFirstKeeps DEF KernelType
<1>2. RemoveFirst(k.delayed, t) \in Seq(Tasks) /\ RemoveFirst(k.overflow, t) \in Seq(Tasks)
  BY RemoveFirstKeeps DEF KernelType
<1>3. 0 \in 0..TickWrap - 1
  BY SchedulerAssumption
<1> QED
  BY <1>1, <1>2, <1>3 DEF Unlink, KernelType

(***************************************************************************)
(* A scheduler state whose lists hold every task once, but for those that  *)
(* are out for a moment: in one of the lists for its state and at most in  *)
(* one event list, and no ready task in an event list.                     *)
(***************************************************************************)
Waiting(k) == ToSet(k.send) \cup ToSet(k.receive) \cup ToSet(k.pending)

Linked(k, out) ==
    /\ k \in KernelType
    /\ IsInjective(k.ready) /\ IsInjective(k.delayed) /\ IsInjective(k.overflow)
    /\ IsInjective(k.send) /\ IsInjective(k.receive) /\ IsInjective(k.pending)
    /\ ToSet(k.ready) \cup ToSet(k.delayed) \cup ToSet(k.overflow) \cup k.suspended
         = (Tasks \ out) \cup {Marker}
    /\ Marker \in ToSet(k.ready)
    /\ ToSet(k.ready) \cap ToSet(k.delayed) = {} /\ ToSet(k.ready) \cap ToSet(k.overflow) = {}
    /\ ToSet(k.delayed) \cap ToSet(k.overflow) = {}
    /\ k.suspended \cap (ToSet(k.ready) \cup ToSet(k.delayed) \cup ToSet(k.overflow)) = {}
    /\ ToSet(k.send) \cap ToSet(k.receive) = {} /\ ToSet(k.send) \cap ToSet(k.pending) = {}
    /\ ToSet(k.receive) \cap ToSet(k.pending) = {}
    /\ ToSet(k.ready) \cap Waiting(k) = {}

Held(k) == k.suspended \subseteq Waiting(k)

(* The delayed lists are in order, and nobody in them is late: early is 1    *)
(* between ticks, and 0 while a tick wakes those whose time has come.       *)
Due(k, early) ==
    /\ Sorted(k.delayed, k.value) /\ Sorted(k.overflow, k.value)
    /\ \A t \in ToSet(k.delayed) : k.value[t] >= k.xTickCount + early
    /\ \A t \in ToSet(k.overflow) : k.value[t] < k.xTickCount

(* The next look at the delayed list comes in time.                         *)
Looked(k) == \A t \in ToSet(k.delayed) : k.xNextTaskUnblockTime <= k.value[t]

(* From k to s some tasks have become ready, and nothing else moved.        *)
Woke(k, s) ==
    /\ ToSet(k.ready) \subseteq ToSet(s.ready) /\ NotPassed(k.ready, s.ready)
    /\ ToSet(s.send) \subseteq ToSet(k.send) /\ ToSet(s.receive) \subseteq ToSet(k.receive)
    /\ s.pxCurrentTCB = k.pxCurrentTCB
    /\ s.uxSchedulerSuspended = k.uxSchedulerSuspended

(* One after the other.                                                    *)
LEMMA WokeTransitive ==
    ASSUME NEW k, NEW s, NEW u, Woke(k, s), Woke(s, u)
    PROVE  Woke(k, u)
BY DEF Woke, NotPassed

(* The task is out of the list that it was in, and where it was else stays. *)
LEMMA UnlinkFields ==
    ASSUME NEW k, Linked(k, {}), NEW t \in Tasks, NEW u, u = Unlink(k, t)
    PROVE  /\ u.ready = RemoveFirst(k.ready, t) /\ u.delayed = RemoveFirst(k.delayed, t)
           /\ ToSet(u.ready) = ToSet(k.ready) \ {t} /\ u.suspended = k.suspended \ {t}
           /\ t \notin ToSet(k.ready) => u.ready = k.ready
           /\ u.pending = k.pending /\ u.send = k.send /\ u.receive = k.receive
           /\ u.xTickCount = k.xTickCount
           /\ u.uxSchedulerSuspended = k.uxSchedulerSuspended
           /\ u.pxCurrentTCB = k.pxCurrentTCB /\ u.pendSV = k.pendSV
<1>1. /\ k \in KernelType
      /\ IsInjective(k.ready) /\ IsInjective(k.delayed) /\ IsInjective(k.overflow)
      /\ k.ready \in Seq(Tasks \cup {Marker})
  BY DEF Linked, KernelType
<1>2. ToSet(RemoveFirst(k.ready, t)) = ToSet(k.ready) \ {t}
  BY <1>1, RemoveFirstKeeps
<1>3. t \notin ToSet(k.ready) => RemoveFirst(k.ready, t) = k.ready
  BY <1>1, RemoveFirstBefore
<1> QED
  BY <1>1, <1>2, <1>3, UnlinkIs

(* The others stay linked, in order and in time.                           *)
LEMMA UnlinkKeeps ==
    ASSUME NEW k, Linked(k, {}), NEW t \in Tasks, NEW u, u = Unlink(k, t)
    PROVE  /\ Linked(u, {t})
           /\ Due(k, 0) => Due(u, 0)
           /\ Due(k, 1) => Due(u, 1)
           /\ Looked(k) => Looked(u)
<1>0. /\ k \in KernelType
      /\ IsInjective(k.ready) /\ IsInjective(k.delayed) /\ IsInjective(k.overflow)
      /\ k.ready \in Seq(Tasks \cup {Marker}) /\ k.delayed \in Seq(Tasks)
      /\ k.overflow \in Seq(Tasks) /\ t # Marker
  BY SchedulerAssumption DEF Linked, KernelType
<1>1. /\ u \in KernelType
      /\ u.ready = RemoveFirst(k.ready, t) /\ u.delayed = RemoveFirst(k.delayed, t)
      /\ u.overflow = RemoveFirst(k.overflow, t) /\ u.suspended = k.suspended \ {t}
      /\ u.value = [k.value EXCEPT ![t] = 0]
      /\ u.pending = k.pending /\ u.send = k.send /\ u.receive = k.receive
      /\ u.xTickCount = k.xTickCount /\ u.xNextTaskUnblockTime = k.xNextTaskUnblockTime
      /\ u.uxSchedulerSuspended = k.uxSchedulerSuspended
      /\ u.pxCurrentTCB = k.pxCurrentTCB /\ u.pendSV = k.pendSV
  BY <1>0, UnlinkIs
<1>2. IsInjective(u.ready) /\ ToSet(u.ready) = ToSet(k.ready) \ {t}
  BY <1>0, <1>1, RemoveFirstKeeps
<1>3. /\ IsInjective(u.delayed) /\ ToSet(u.delayed) = ToSet(k.delayed) \ {t}
      /\ \A v : Sorted(k.delayed, v) => Sorted(u.delayed, v)
  BY <1>0, <1>1, RemoveFirstKeeps
<1>4. /\ IsInjective(u.overflow) /\ ToSet(u.overflow) = ToSet(k.overflow) \ {t}
      /\ \A v : Sorted(k.overflow, v) => Sorted(u.overflow, v)
  BY <1>0, <1>1, RemoveFirstKeeps
<1>5. Linked(u, {t})
  BY <1>0, <1>1, <1>2, <1>3, <1>4 DEF Linked, Waiting
<1>6. \A x \in Tasks : x # t => u.value[x] = k.value[x]
  BY <1>0, <1>1 DEF KernelType
<1>7. /\ \A i \in DOMAIN u.delayed : u.delayed[i] \in Tasks /\ u.delayed[i] # t
      /\ \A i \in DOMAIN u.overflow : u.overflow[i] \in Tasks /\ u.overflow[i] # t
      /\ ToSet(u.delayed) \subseteq Tasks \ {t} /\ ToSet(u.overflow) \subseteq Tasks \ {t}
  <2>1. ToSet(u.delayed) \subseteq Tasks \ {t} /\ ToSet(u.overflow) \subseteq Tasks \ {t}
    BY <1>1, <1>3, <1>4, Elements, SMTT(60) DEF KernelType
  <2> QED
    BY <2>1 DEF ToSet
<1>8. ASSUME NEW early \in {0, 1}, Due(k, early) PROVE Due(u, early)
  <2>1. Sorted(u.delayed, u.value)
    BY <1>3, <1>6, <1>7, <1>8 DEF Due, Sorted
  <2>2. Sorted(u.overflow, u.value)
    BY <1>4, <1>6, <1>7, <1>8 DEF Due, Sorted
  <2> QED
    BY <1>1, <1>3, <1>4, <1>6, <1>7, <1>8, <2>1, <2>2 DEF Due
<1>9. Looked(k) => Looked(u)
  BY <1>1, <1>3, <1>6, <1>7 DEF Looked
<1> QED
  BY <1>1, <1>2, <1>5, <1>8, <1>9

(* A task that is out, and waits for nothing, becomes ready.               *)
LEMMA AddToReadyKeeps ==
    ASSUME NEW k, NEW t \in Tasks, Linked(k, {t}), t \notin Waiting(k),
           NEW u, u = AddToReady(k, t)
    PROVE  /\ Linked(u, {})
           /\ Due(k, 0) => Due(u, 0)
           /\ Due(k, 1) => Due(u, 1)
           /\ Looked(k) => Looked(u)
           /\ ToSet(u.ready) = ToSet(k.ready) \cup {t} /\ NotPassed(k.ready, u.ready)
           /\ u.delayed = k.delayed /\ u.overflow = k.overflow
           /\ u.pending = k.pending /\ u.send = k.send /\ u.receive = k.receive
           /\ u.value = k.value /\ u.suspended = k.suspended
           /\ u.xTickCount = k.xTickCount /\ u.xNextTaskUnblockTime = k.xNextTaskUnblockTime
           /\ u.uxSchedulerSuspended = k.uxSchedulerSuspended
           /\ u.pxCurrentTCB = k.pxCurrentTCB /\ u.pendSV = k.pendSV
<1>0. /\ k \in KernelType /\ IsInjective(k.ready) /\ Marker \in ToSet(k.ready)
      /\ k.ready \in Seq(Tasks \cup {Marker}) /\ t # Marker /\ t \notin ToSet(k.ready)
  BY SchedulerAssumption DEF Linked, KernelType
<1>1. Len(k.ready) \in 1..Len(k.ready) + 1
  BY <1>0, LenProperties DEF ToSet
<1>2. /\ InsertEnd(k.ready, t) \in Seq(Tasks \cup {Marker})
      /\ IsInjective(InsertEnd(k.ready, t))
      /\ ToSet(InsertEnd(k.ready, t)) = ToSet(k.ready) \cup {t}
  BY <1>0, <1>1, InsertAtKeeps DEF InsertEnd
<1>a. NotPassed(k.ready, InsertEnd(k.ready, t))
  <2>1. k.ready # <<>>
    BY <1>0, EmptyList
  <2> QED
    BY <1>0, <2>1, InsertEndNotPassed
<1>3. /\ u \in KernelType /\ u.ready = InsertEnd(k.ready, t)
      /\ u.delayed = k.delayed /\ u.overflow = k.overflow
      /\ u.pending = k.pending /\ u.send = k.send /\ u.receive = k.receive
      /\ u.value = k.value /\ u.suspended = k.suspended
      /\ u.xTickCount = k.xTickCount /\ u.xNextTaskUnblockTime = k.xNextTaskUnblockTime
      /\ u.uxSchedulerSuspended = k.uxSchedulerSuspended
      /\ u.pxCurrentTCB = k.pxCurrentTCB /\ u.pendSV = k.pendSV
  BY <1>0, <1>2 DEF AddToReady, KernelType
<1>4. Linked(u, {})
  BY <1>0, <1>2, <1>3 DEF Linked, Waiting
<1> QED
  BY <1>2, <1>a, <1>3, <1>4 DEF Due, Looked

(* A task whose time is up leaves the event list that it waits in.          *)
LEMMA LeaveEventKeeps ==
    ASSUME NEW k, Linked(k, {}), NEW t \in Tasks, t \notin k.suspended, NEW u, u = LeaveEvent(k, t)
    PROVE  /\ Linked(u, {})
           /\ Due(k, 0) => Due(u, 0)
           /\ Due(k, 1) => Due(u, 1)
           /\ Looked(k) => Looked(u)
           /\ Held(k) => Held(u)
           /\ Woke(k, u)
           /\ t \notin ToSet(u.send) /\ t \notin ToSet(u.receive)
           /\ u.ready = k.ready /\ u.delayed = k.delayed /\ u.overflow = k.overflow
           /\ u.pending = k.pending /\ u.suspended = k.suspended /\ u.value = k.value
           /\ u.xTickCount = k.xTickCount /\ u.pendSV = k.pendSV
<1>0. /\ k \in KernelType /\ IsInjective(k.send) /\ IsInjective(k.receive)
      /\ k.send \in Seq(Tasks) /\ k.receive \in Seq(Tasks)
  BY DEF Linked, KernelType
<1>1. /\ RemoveFirst(k.send, t) \in Seq(Tasks) /\ IsInjective(RemoveFirst(k.send, t))
      /\ ToSet(RemoveFirst(k.send, t)) = ToSet(k.send) \ {t}
  BY <1>0, RemoveFirstKeeps
<1>2. /\ RemoveFirst(k.receive, t) \in Seq(Tasks) /\ IsInjective(RemoveFirst(k.receive, t))
      /\ ToSet(RemoveFirst(k.receive, t)) = ToSet(k.receive) \ {t}
  BY <1>0, RemoveFirstKeeps
<1>3. /\ u \in KernelType /\ u.send = RemoveFirst(k.send, t)
      /\ u.receive = RemoveFirst(k.receive, t)
      /\ u.ready = k.ready /\ u.delayed = k.delayed /\ u.overflow = k.overflow
      /\ u.pending = k.pending /\ u.suspended = k.suspended /\ u.value = k.value
      /\ u.xTickCount = k.xTickCount /\ u.xNextTaskUnblockTime = k.xNextTaskUnblockTime
      /\ u.uxSchedulerSuspended = k.uxSchedulerSuspended
      /\ u.pxCurrentTCB = k.pxCurrentTCB /\ u.pendSV = k.pendSV
  BY <1>0, <1>1, <1>2 DEF LeaveEvent, KernelType
<1>4. Linked(u, {})
  BY <1>1, <1>2, <1>3 DEF Linked, Waiting
<1> QED
  BY <1>1, <1>2, <1>3, <1>4, SameNotPassed DEF Due, Looked, Woke, Held, Waiting

(* The first that waits for an event is woken, or held pending.             *)
LEMMA RemoveFromEventListKeeps ==
    ASSUME NEW k, Linked(k, {}), NEW event \in {"send", "receive"}, k[event] # <<>>,
           NEW u, u = RemoveFromEventList(k, event)
    PROVE  /\ Linked(u, {})
           /\ Due(k, 1) => Due(u, 1)
           /\ Looked(k) => Looked(u)
           /\ Held(k) => Held(u)
           /\ Woke(k, u)
           /\ k.uxSchedulerSuspended = 0 => u.pending = k.pending
           /\ u.xTickCount = k.xTickCount /\ u.pendSV = k.pendSV
<1> DEFINE t == Head(k[event])
           k1 == [k EXCEPT ![event] = Tail(@), !.xYieldPending = TRUE]
<1>0. k \in KernelType
  BY DEF Linked
<1>1. /\ k[event] \in Seq(Tasks) /\ IsInjective(k[event])
  <2>1. CASE event = "send"
    BY <2>1 DEF Linked, KernelType
  <2>2. CASE event = "receive"
    BY <2>2 DEF Linked, KernelType
  <2> QED
    BY <2>1, <2>2
<1>2. /\ t \in Tasks /\ t \in ToSet(k[event])
      /\ Tail(k[event]) \in Seq(Tasks) /\ IsInjective(Tail(k[event]))
      /\ ToSet(Tail(k[event])) = ToSet(k[event]) \ {t}
  BY <1>1, TailKeeps
<1>3. /\ k1 \in KernelType /\ k1[event] = Tail(k[event])
      /\ k1.send = IF event = "send" THEN Tail(k[event]) ELSE k.send
      /\ k1.receive = IF event = "receive" THEN Tail(k[event]) ELSE k.receive
      /\ k1.ready = k.ready /\ k1.delayed = k.delayed /\ k1.overflow = k.overflow
      /\ k1.pending = k.pending /\ k1.suspended = k.suspended /\ k1.value = k.value
      /\ k1.xTickCount = k.xTickCount /\ k1.xNextTaskUnblockTime = k.xNextTaskUnblockTime
      /\ k1.uxSchedulerSuspended = k.uxSchedulerSuspended
      /\ k1.pxCurrentTCB = k.pxCurrentTCB /\ k1.pendSV = k.pendSV
  <2>1. CASE event = "send"
    BY <1>0, <1>2, <2>1 DEF KernelType
  <2>2. CASE event = "receive"
    BY <1>0, <1>2, <2>2 DEF KernelType
  <2> QED
    BY <2>1, <2>2
<1> HIDE DEF t, k1
<1>4. t \notin Waiting(k1) /\ Waiting(k1) = Waiting(k) \ {t} /\ t \notin ToSet(k.ready)
  <2>1. CASE event = "send"
    BY <1>2, <1>3, <2>1 DEF Linked, Waiting
  <2>2. CASE event = "receive"
    BY <1>2, <1>3, <2>2 DEF Linked, Waiting
  <2> QED
    BY <2>1, <2>2
<1>5. Linked(k1, {})
  <2>1. CASE event = "send"
    BY <1>2, <1>3, <2>1 DEF Linked, Waiting
  <2>2. CASE event = "receive"
    BY <1>2, <1>3, <2>2 DEF Linked, Waiting
  <2> QED
    BY <2>1, <2>2
<1>6. /\ Due(k, 1) => Due(k1, 1)
      /\ Looked(k) => Looked(k1)
  BY <1>3 DEF Due, Looked
<1>7. Woke(k, k1)
  <2>1. ToSet(k1.send) \subseteq ToSet(k.send) /\ ToSet(k1.receive) \subseteq ToSet(k.receive)
    BY <1>2, <1>3
  <2> QED
    BY <1>3, <2>1, SameNotPassed DEF Woke
<1>8. CASE k.uxSchedulerSuspended = 0
  <2>a. PICK k2 : k2 = Unlink(k1, t)
    OBVIOUS
  <2>0. /\ Linked(k2, {t})
        /\ Due(k1, 1) => Due(k2, 1)
        /\ Looked(k1) => Looked(k2)
    BY <1>2, <1>5, <2>a, UnlinkKeeps
  <2>1. /\ ToSet(k2.ready) = ToSet(k1.ready) \ {t} /\ k2.suspended = k1.suspended \ {t}
        /\ t \notin ToSet(k1.ready) => k2.ready = k1.ready
        /\ k2.pending = k1.pending /\ k2.send = k1.send /\ k2.receive = k1.receive
        /\ k2.xTickCount = k1.xTickCount /\ k2.uxSchedulerSuspended = k1.uxSchedulerSuspended
        /\ k2.pxCurrentTCB = k1.pxCurrentTCB /\ k2.pendSV = k1.pendSV
    BY <1>2, <1>5, <2>a, UnlinkFields, SMTT(60)
  <2>2. u = AddToReady(k2, t)
    BY <1>8, <2>a DEF RemoveFromEventList, t, k1
  <2>3. t \notin Waiting(k2) /\ Waiting(k2) = Waiting(k) \ {t}
    BY <1>4, <2>1 DEF Waiting
  <2>4. /\ Linked(u, {})
        /\ Due(k2, 1) => Due(u, 1)
        /\ Looked(k2) => Looked(u)
        /\ ToSet(u.ready) = ToSet(k2.ready) \cup {t} /\ NotPassed(k2.ready, u.ready)
        /\ u.suspended = k2.suspended
        /\ u.pending = k2.pending /\ u.send = k2.send /\ u.receive = k2.receive
        /\ u.xTickCount = k2.xTickCount /\ u.uxSchedulerSuspended = k2.uxSchedulerSuspended
        /\ u.pxCurrentTCB = k2.pxCurrentTCB /\ u.pendSV = k2.pendSV
    BY <1>2, <2>0, <2>2, <2>3, AddToReadyKeeps
  <2>5. Woke(k, u)
    BY <1>3, <1>4, <1>7, <2>1, <2>4 DEF Woke
  <2>6. Held(k) => Held(u)
    BY <1>3, <2>1, <2>3, <2>4 DEF Held, Waiting
  <2> QED
    BY <1>3, <1>6, <2>0, <2>1, <2>4, <2>5, <2>6
<1>9. CASE k.uxSchedulerSuspended # 0
  <2>1. u = [k1 EXCEPT !.pending = Append(@, t)]
    BY <1>9 DEF RemoveFromEventList, t, k1
  <2>2. /\ Append(k1.pending, t) \in Seq(Tasks) /\ IsInjective(Append(k1.pending, t))
        /\ ToSet(Append(k1.pending, t)) = ToSet(k1.pending) \cup {t}
    <3>1. k1.pending \in Seq(Tasks) /\ IsInjective(k1.pending) /\ t \notin ToSet(k1.pending)
      BY <1>4, <1>5 DEF Linked, KernelType, Waiting
    <3> QED
      BY <1>2, <3>1, AppendKeeps
  <2>3. /\ u \in KernelType /\ u.pending = Append(k1.pending, t)
        /\ u.ready = k1.ready /\ u.delayed = k1.delayed /\ u.overflow = k1.overflow
        /\ u.send = k1.send /\ u.receive = k1.receive
        /\ u.suspended = k1.suspended /\ u.value = k1.value
        /\ u.xTickCount = k1.xTickCount /\ u.xNextTaskUnblockTime = k1.xNextTaskUnblockTime
        /\ u.uxSchedulerSuspended = k1.uxSchedulerSuspended
        /\ u.pxCurrentTCB = k1.pxCurrentTCB /\ u.pendSV = k1.pendSV
    BY <1>3, <2>1, <2>2, ZenonT(60) DEF KernelType
  <2>4. Linked(u, {})
    BY <1>3, <1>4, <1>5, <2>2, <2>3 DEF Linked, Waiting
  <2>5. Waiting(u) = Waiting(k1) \cup {t}
    BY <2>2, <2>3 DEF Waiting
  <2>6. Held(k) => Held(u)
    BY <1>3, <1>4, <2>3, <2>5 DEF Held
  <2>7. /\ Due(k1, 1) => Due(u, 1)
        /\ Looked(k1) => Looked(u)
    BY <2>3 DEF Due, Looked
  <2>8. Woke(k, u)
    BY <1>7, <2>3 DEF Woke
  <2> QED
    BY <1>3, <1>6, <1>9, <2>3, <2>4, <2>6, <2>7, <2>8
<1> QED
  BY <1>8, <1>9

(* A task that is out goes into one of the delayed lists.                   *)
LEMMA AddToDelayedKeeps ==
    ASSUME NEW k, NEW t \in Tasks, Linked(k, {t}), Due(k, 1), Looked(k),
           NEW wake \in 0..TickWrap - 1, wake # k.xTickCount,
           NEW u, u = AddToDelayed(k, t, wake)
    PROVE  /\ Linked(u, {}) /\ Due(u, 1) /\ Looked(u)
           /\ u.ready = k.ready /\ u.suspended = k.suspended
           /\ u.pending = k.pending /\ u.send = k.send /\ u.receive = k.receive
           /\ u.xTickCount = k.xTickCount
           /\ u.uxSchedulerSuspended = k.uxSchedulerSuspended
           /\ u.pxCurrentTCB = k.pxCurrentTCB /\ u.pendSV = k.pendSV
<1> DEFINE v == [k.value EXCEPT ![t] = wake]
<1>0. /\ k \in KernelType /\ TickWrap \in Nat \ {0}
      /\ k.delayed \in Seq(Tasks) /\ k.overflow \in Seq(Tasks)
      /\ IsInjective(k.delayed) /\ IsInjective(k.overflow)
      /\ t \notin ToSet(k.delayed) /\ t \notin ToSet(k.overflow) /\ t \notin ToSet(k.ready)
      /\ t \notin k.suspended
      /\ k.xTickCount \in 0..TickWrap - 1 /\ k.xNextTaskUnblockTime \in 0..TickWrap - 1
  BY SchedulerAssumption DEF Linked, KernelType
<1>1. /\ v \in [Tasks -> 0..TickWrap - 1] /\ v \in [Tasks -> Nat] /\ v[t] = wake
      /\ \A x \in Tasks : x # t => v[x] = k.value[x]
  BY <1>0, SMTT(60) DEF KernelType
<1>2. /\ \A i \in DOMAIN k.delayed : k.delayed[i] \in Tasks /\ k.delayed[i] # t
      /\ \A i \in DOMAIN k.overflow : k.overflow[i] \in Tasks /\ k.overflow[i] # t
      /\ ToSet(k.delayed) \subseteq Tasks \ {t} /\ ToSet(k.overflow) \subseteq Tasks \ {t}
  <2>1. ToSet(k.delayed) \subseteq Tasks \ {t} /\ ToSet(k.overflow) \subseteq Tasks \ {t}
    BY <1>0, Elements
  <2> QED
    BY <2>1 DEF ToSet
<1>3. u = IF wake < k.xTickCount
          THEN [k EXCEPT !.value = v, !.overflow = Insert(@, t, v)]
          ELSE [k EXCEPT !.value = v, !.delayed = Insert(@, t, v),
                         !.xNextTaskUnblockTime = IF wake < @ THEN wake ELSE @]
  BY DEF AddToDelayed
<1> HIDE DEF v
<1>4. Sorted(k.delayed, v) /\ Sorted(k.overflow, v)
  BY <1>1, <1>2 DEF Due, Sorted
<1>5. /\ Insert(k.delayed, t, v) \in Seq(Tasks) /\ IsInjective(Insert(k.delayed, t, v))
      /\ ToSet(Insert(k.delayed, t, v)) = ToSet(k.delayed) \cup {t}
      /\ Sorted(Insert(k.delayed, t, v), v)
  BY <1>0, <1>1, <1>4, InsertKeeps
<1>6. /\ Insert(k.overflow, t, v) \in Seq(Tasks) /\ IsInjective(Insert(k.overflow, t, v))
      /\ ToSet(Insert(k.overflow, t, v)) = ToSet(k.overflow) \cup {t}
      /\ Sorted(Insert(k.overflow, t, v), v)
  BY <1>0, <1>1, <1>4, InsertKeeps
<1>7. CASE wake < k.xTickCount
  <2>1. /\ u \in KernelType /\ u.overflow = Insert(k.overflow, t, v) /\ u.delayed = k.delayed
        /\ u.value = v /\ u.xNextTaskUnblockTime = k.xNextTaskUnblockTime
        /\ u.ready = k.ready /\ u.suspended = k.suspended
        /\ u.pending = k.pending /\ u.send = k.send /\ u.receive = k.receive
        /\ u.xTickCount = k.xTickCount
        /\ u.uxSchedulerSuspended = k.uxSchedulerSuspended
        /\ u.pxCurrentTCB = k.pxCurrentTCB /\ u.pendSV = k.pendSV
    <3>1. u = [k EXCEPT !.value = v, !.overflow = Insert(@, t, v)]
      BY <1>3, <1>7
    <3> QED
      BY <1>0, <1>1, <1>6, <3>1, ZenonT(60) DEF KernelType
  <2>2. Linked(u, {})
    BY <1>0, <1>6, <2>1 DEF Linked, Waiting
  <2>3. Due(u, 1)
    <3>1. \A x \in ToSet(u.delayed) : u.value[x] >= u.xTickCount + 1
      BY <1>1, <1>2, <2>1 DEF Due
    <3>2. \A x \in ToSet(u.overflow) : u.value[x] < u.xTickCount
      BY <1>1, <1>2, <1>6, <1>7, <2>1 DEF Due
    <3> QED
      BY <1>4, <1>6, <2>1, <3>1, <3>2 DEF Due
  <2>4. Looked(u)
    BY <1>1, <1>2, <2>1 DEF Looked
  <2> QED
    BY <2>1, <2>2, <2>3, <2>4
<1>8. CASE ~(wake < k.xTickCount)
  <2> DEFINE next == IF wake < k.xNextTaskUnblockTime THEN wake ELSE k.xNextTaskUnblockTime
  <2>1. next \in 0..TickWrap - 1 /\ next <= wake /\ next <= k.xNextTaskUnblockTime
    BY <1>0
  <2>2. /\ u \in KernelType /\ u.delayed = Insert(k.delayed, t, v) /\ u.overflow = k.overflow
        /\ u.value = v /\ u.xNextTaskUnblockTime = next
        /\ u.ready = k.ready /\ u.suspended = k.suspended
        /\ u.pending = k.pending /\ u.send = k.send /\ u.receive = k.receive
        /\ u.xTickCount = k.xTickCount
        /\ u.uxSchedulerSuspended = k.uxSchedulerSuspended
        /\ u.pxCurrentTCB = k.pxCurrentTCB /\ u.pendSV = k.pendSV
    <3>1. u = [k EXCEPT !.value = v, !.delayed = Insert(@, t, v), !.xNextTaskUnblockTime = next]
      BY <1>3, <1>8
    <3> HIDE DEF next
    <3> QED
      BY <1>0, <1>1, <1>5, <2>1, <3>1, ZenonT(60) DEF KernelType
  <2> HIDE DEF next
  <2>3. Linked(u, {})
    BY <1>0, <1>5, <2>2 DEF Linked, Waiting
  <2>4. wake >= k.xTickCount + 1
    BY <1>0, <1>8
  <2>5. Due(u, 1)
    BY <1>1, <1>2, <1>4, <1>5, <2>2, <2>4 DEF Due
  <2>6. Looked(u)
    <3> SUFFICES ASSUME NEW x \in ToSet(u.delayed) PROVE next <= v[x]
      BY <2>2 DEF Looked
    <3>1. CASE x = t
      BY <1>1, <2>1, <3>1
    <3>2. CASE x # t
      <4>1. x \in ToSet(k.delayed)
        BY <1>5, <2>2, <3>2
      <4>2. v[x] = k.value[x] /\ v[x] \in Nat /\ k.xNextTaskUnblockTime <= k.value[x]
        BY <1>1, <1>2, <4>1 DEF Looked
      <4> QED
        BY <1>0, <2>1, <4>2
    <3> QED
      BY <3>1, <3>2
  <2> QED
    BY <2>2, <2>3, <2>5, <2>6
<1> QED
  BY <1>7, <1>8

(* The ticks of a wait lead to another tick count than the present one.     *)
LEMMA WakeLater ==
    ASSUME NEW tick \in 0..TickWrap - 1, NEW ticks \in 1..TickWrap - 1
    PROVE  /\ (tick + ticks) % TickWrap \in 0..TickWrap - 1
           /\ (tick + ticks) % TickWrap =
                IF tick + ticks < TickWrap THEN tick + ticks ELSE tick + ticks - TickWrap
           /\ (tick + ticks) % TickWrap # tick
<1>1. TickWrap \in Nat \ {0}
  BY SchedulerAssumption
<1>2. CASE tick + ticks < TickWrap
  BY <1>1, <1>2, SMTT(30)
<1>3. CASE tick + ticks >= TickWrap
  BY <1>1, <1>3, SMTT(30)
<1> QED
  BY <1>1, <1>2, <1>3

(* vTaskDelay moves a ready task into one of the delayed lists.            *)
LEMMA DelayKeeps ==
    ASSUME NEW k, Linked(k, {}), Due(k, 1), Looked(k), NEW t \in Tasks, t \notin Waiting(k),
           NEW ticks \in 1..TickWrap - 1, NEW u, u = Delay(k, t, ticks)
    PROVE  /\ Linked(u, {}) /\ Due(u, 1) /\ Looked(u)
           /\ Held(k) => Held(u)
           /\ ToSet(u.ready) = ToSet(k.ready) \ {t} /\ u.ready = RemoveFirst(k.ready, t)
           /\ u.pending = k.pending /\ u.send = k.send /\ u.receive = k.receive
           /\ u.uxSchedulerSuspended = k.uxSchedulerSuspended
           /\ u.pxCurrentTCB = k.pxCurrentTCB /\ u.pendSV = k.pendSV
<1> PICK s : s = Unlink(k, t)
  OBVIOUS
<1>1. Linked(s, {t}) /\ Due(s, 1) /\ Looked(s)
  BY UnlinkKeeps
<1>2. /\ ToSet(s.ready) = ToSet(k.ready) \ {t} /\ s.suspended = k.suspended \ {t}
      /\ s.ready = RemoveFirst(k.ready, t)
      /\ s.pending = k.pending /\ s.send = k.send /\ s.receive = k.receive
      /\ s.xTickCount = k.xTickCount
      /\ s.uxSchedulerSuspended = k.uxSchedulerSuspended
      /\ s.pxCurrentTCB = k.pxCurrentTCB /\ s.pendSV = k.pendSV
  BY UnlinkFields
<1> PICK wake : wake = TimeToWake(k, ticks)
  OBVIOUS
<1>3. wake \in 0..TickWrap - 1 /\ wake # s.xTickCount
  BY <1>2, WakeLater, SMTT(60) DEF TimeToWake, Linked, KernelType
<1>4. u = AddToDelayed(s, t, wake)
  BY DEF Delay
<1>5. /\ Linked(u, {}) /\ Due(u, 1) /\ Looked(u)
      /\ u.ready = s.ready /\ u.suspended = s.suspended
      /\ u.pending = s.pending /\ u.send = s.send /\ u.receive = s.receive
      /\ u.uxSchedulerSuspended = s.uxSchedulerSuspended
      /\ u.pxCurrentTCB = s.pxCurrentTCB /\ u.pendSV = s.pendSV
  BY <1>1, <1>3, <1>4, AddToDelayedKeeps
<1>6. Held(k) => Held(u)
  BY <1>2, <1>5 DEF Held, Waiting
<1> QED
  BY <1>2, <1>5, <1>6

(* Unlink and a new place in an event list come to the same in any order.   *)
LEMMA UnlinkThenAppend ==
    ASSUME NEW k \in KernelType, NEW t \in Tasks, NEW event \in {"send", "receive"}
    PROVE  Unlink([k EXCEPT ![event] = Append(@, t)], t)
             = [Unlink(k, t) EXCEPT ![event] = Append(@, t)]
<1>1. CASE event = "send"
  BY <1>1, ZenonT(60) DEF Unlink, KernelType
<1>2. CASE event = "receive"
  BY <1>2, ZenonT(60) DEF Unlink, KernelType
<1> QED
  BY <1>1, <1>2

(* t goes behind those that wait for the event already.                     *)
Queued(k, t, event) == [k EXCEPT ![event] = Append(@, t)]

(* What k1 is then.                                                         *)
QueuedIs(k, s, k1, t, event) ==
    /\ k1 = Unlink([k EXCEPT ![event] = Append(@, t)], t)
    /\ Linked(k1, {t}) /\ Due(k1, 1) /\ Looked(k1)
    /\ Waiting(k1) = Waiting(k) \cup {t}
    /\ k1 \in KernelType
    /\ event = "send" => IsInjective(k1.send) /\ ToSet(k1.send) = ToSet(s.send) \cup {t}
                          /\ k1.receive = s.receive
    /\ event = "receive" => IsInjective(k1.receive) /\ k1.send = s.send
                             /\ ToSet(k1.receive) = ToSet(s.receive) \cup {t}
    /\ k1.ready = s.ready /\ k1.delayed = s.delayed /\ k1.overflow = s.overflow
    /\ k1.pending = s.pending /\ k1.suspended = s.suspended /\ k1.value = s.value
    /\ k1.xTickCount = s.xTickCount /\ k1.xNextTaskUnblockTime = s.xNextTaskUnblockTime
    /\ k1.uxSchedulerSuspended = s.uxSchedulerSuspended
    /\ k1.pxCurrentTCB = s.pxCurrentTCB /\ k1.pendSV = s.pendSV

(* A task that is out, and new in an event list, is in no other.            *)
LEMMA QueuedKeeps ==
    ASSUME NEW k, Linked(k, {}), Due(k, 1), Looked(k), NEW t \in Tasks, t \notin Waiting(k),
           NEW event \in {"send", "receive"}, NEW s, s = Unlink(k, t),
           NEW k1, k1 = Queued(s, t, event)
    PROVE  QueuedIs(k, s, k1, t, event)
<1>1. Linked(s, {t}) /\ Due(s, 1) /\ Looked(s)
  BY UnlinkKeeps
<1>2. /\ ToSet(s.ready) = ToSet(k.ready) \ {t} /\ s.suspended = k.suspended \ {t}
      /\ s.pending = k.pending /\ s.send = k.send /\ s.receive = k.receive
      /\ s.xTickCount = k.xTickCount
      /\ s.uxSchedulerSuspended = k.uxSchedulerSuspended
      /\ s.pxCurrentTCB = k.pxCurrentTCB /\ s.pendSV = k.pendSV
  BY UnlinkFields
<1>3. k1 = Unlink([k EXCEPT ![event] = Append(@, t)], t)
  BY UnlinkThenAppend DEF Linked, Queued
<1>4. s \in KernelType /\ t \notin Waiting(s)
  BY <1>1, <1>2 DEF Linked, Waiting
<1>5. /\ k1 \in KernelType
      /\ event = "send" => IsInjective(k1.send) /\ ToSet(k1.send) = ToSet(s.send) \cup {t}
                            /\ k1.receive = s.receive
      /\ event = "receive" => IsInjective(k1.receive) /\ k1.send = s.send
                               /\ ToSet(k1.receive) = ToSet(s.receive) \cup {t}
      /\ k1.ready = s.ready /\ k1.delayed = s.delayed /\ k1.overflow = s.overflow
      /\ k1.pending = s.pending /\ k1.suspended = s.suspended /\ k1.value = s.value
      /\ k1.xTickCount = s.xTickCount /\ k1.xNextTaskUnblockTime = s.xNextTaskUnblockTime
      /\ k1.uxSchedulerSuspended = s.uxSchedulerSuspended
      /\ k1.pxCurrentTCB = s.pxCurrentTCB /\ k1.pendSV = s.pendSV
  <2>1. CASE event = "send"
    <3>1. s.send \in Seq(Tasks) /\ IsInjective(s.send) /\ t \notin ToSet(s.send)
      BY <1>1, <1>4 DEF Linked, KernelType, Waiting
    <3>2. /\ Append(s.send, t) \in Seq(Tasks) /\ IsInjective(Append(s.send, t))
          /\ ToSet(Append(s.send, t)) = ToSet(s.send) \cup {t}
      BY <3>1, AppendKeeps
    <3> QED
      BY <1>4, <2>1, <3>2 DEF KernelType, Queued
  <2>2. CASE event = "receive"
    <3>1. s.receive \in Seq(Tasks) /\ IsInjective(s.receive) /\ t \notin ToSet(s.receive)
      BY <1>1, <1>4 DEF Linked, KernelType, Waiting
    <3>2. /\ Append(s.receive, t) \in Seq(Tasks) /\ IsInjective(Append(s.receive, t))
          /\ ToSet(Append(s.receive, t)) = ToSet(s.receive) \cup {t}
      BY <3>1, AppendKeeps
    <3> QED
      BY <1>4, <2>2, <3>2 DEF KernelType, Queued
  <2> QED
    BY <2>1, <2>2
<1>6. Waiting(k1) = Waiting(k) \cup {t}
  <2>1. CASE event = "send"
    BY <1>2, <1>5, <2>1 DEF Waiting
  <2>2. CASE event = "receive"
    BY <1>2, <1>5, <2>2 DEF Waiting
  <2> QED
    BY <2>1, <2>2
<1>7. Linked(k1, {t})
  <2>1. /\ IsInjective(k1.send) /\ IsInjective(k1.receive)
        /\ ToSet(k1.send) \cap ToSet(k1.receive) = {}
        /\ ToSet(k1.send) \cap ToSet(k1.pending) = {}
        /\ ToSet(k1.receive) \cap ToSet(k1.pending) = {}
    <3>1. CASE event = "send"
      BY <1>1, <1>4, <1>5, <3>1 DEF Linked, Waiting
    <3>2. CASE event = "receive"
      BY <1>1, <1>4, <1>5, <3>2 DEF Linked, Waiting
    <3> QED
      BY <3>1, <3>2
  <2>2. ToSet(k1.ready) \cap Waiting(k1) = {}
    BY <1>2, <1>5, <1>6 DEF Linked
  <2> QED
    BY <1>1, <1>5, <2>1, <2>2 DEF Linked
<1>8. Due(k1, 1) /\ Looked(k1)
  BY <1>1, <1>5 DEF Due, Looked
<1> QED
  BY <1>3, <1>5, <1>6, <1>7, <1>8 DEF QueuedIs

(* vTaskPlaceOnEventList does too, or suspends it, and it waits.           *)
LEMMA PlaceOnEventListKeeps ==
    ASSUME NEW k, Linked(k, {}), Due(k, 1), Looked(k), NEW t \in Tasks, t \notin Waiting(k),
           NEW event \in {"send", "receive"}, NEW ticks \in 1..TickWrap - 1,
           NEW u, u = PlaceOnEventList(k, t, event, ticks)
    PROVE  /\ Linked(u, {}) /\ Due(u, 1) /\ Looked(u)
           /\ Held(k) => Held(u)
           /\ ToSet(u.ready) = ToSet(k.ready) \ {t} /\ u.ready = RemoveFirst(k.ready, t)
           /\ u.pending = k.pending
           /\ event = "send" => ToSet(u.send) = ToSet(k.send) \cup {t} /\ u.receive = k.receive
           /\ event = "receive" => ToSet(u.receive) = ToSet(k.receive) \cup {t} /\ u.send = k.send
           /\ u.uxSchedulerSuspended = k.uxSchedulerSuspended
           /\ u.pxCurrentTCB = k.pxCurrentTCB /\ u.pendSV = k.pendSV
<1>a. PICK s : s = Unlink(k, t)
  OBVIOUS
<1>1. Linked(s, {t}) /\ Due(s, 1) /\ Looked(s)
  BY <1>a, UnlinkKeeps
<1>2. /\ ToSet(s.ready) = ToSet(k.ready) \ {t} /\ s.suspended = k.suspended \ {t}
      /\ s.ready = RemoveFirst(k.ready, t)
      /\ s.pending = k.pending /\ s.send = k.send /\ s.receive = k.receive
      /\ s.xTickCount = k.xTickCount
      /\ s.uxSchedulerSuspended = k.uxSchedulerSuspended
      /\ s.pxCurrentTCB = k.pxCurrentTCB /\ s.pendSV = k.pendSV
  BY <1>a, UnlinkFields
<1>b. PICK k1 : k1 = Queued(s, t, event)
  OBVIOUS
<1>q. QueuedIs(k, s, k1, t, event)
  BY <1>a, <1>b, QueuedKeeps
<1>3. k1 = Unlink([k EXCEPT ![event] = Append(@, t)], t)
  BY <1>q DEF QueuedIs
<1>5. /\ k1 \in KernelType
      /\ event = "send" => IsInjective(k1.send) /\ ToSet(k1.send) = ToSet(s.send) \cup {t}
                            /\ k1.receive = s.receive
      /\ event = "receive" => IsInjective(k1.receive) /\ k1.send = s.send
                               /\ ToSet(k1.receive) = ToSet(s.receive) \cup {t}
      /\ k1.ready = s.ready /\ k1.delayed = s.delayed /\ k1.overflow = s.overflow
      /\ k1.pending = s.pending /\ k1.suspended = s.suspended /\ k1.value = s.value
      /\ k1.xTickCount = s.xTickCount /\ k1.xNextTaskUnblockTime = s.xNextTaskUnblockTime
      /\ k1.uxSchedulerSuspended = s.uxSchedulerSuspended
      /\ k1.pxCurrentTCB = s.pxCurrentTCB /\ k1.pendSV = s.pendSV
  BY <1>q DEF QueuedIs
<1>6. Waiting(k1) = Waiting(k) \cup {t}
  BY <1>q DEF QueuedIs
<1>7. Linked(k1, {t})
  BY <1>q DEF QueuedIs
<1>8. Due(k1, 1) /\ Looked(k1)
  BY <1>q DEF QueuedIs
<1>9. u = IF ticks = portMAX_DELAY THEN [k1 EXCEPT !.suspended = @ \cup {t}]
          ELSE AddToDelayed(k1, t, TimeToWake(k, ticks))
  BY <1>3 DEF PlaceOnEventList
<1>10. CASE ticks = portMAX_DELAY
  <2>1. /\ u \in KernelType /\ u.suspended = k1.suspended \cup {t}
        /\ u.ready = k1.ready /\ u.delayed = k1.delayed /\ u.overflow = k1.overflow
        /\ u.pending = k1.pending /\ u.send = k1.send /\ u.receive = k1.receive
        /\ u.value = k1.value
        /\ u.xTickCount = k1.xTickCount /\ u.xNextTaskUnblockTime = k1.xNextTaskUnblockTime
        /\ u.uxSchedulerSuspended = k1.uxSchedulerSuspended
        /\ u.pxCurrentTCB = k1.pxCurrentTCB /\ u.pendSV = k1.pendSV
    <3>1. PICK S : S = k1.suspended \cup {t}
      OBVIOUS
    <3>2. u = [k1 EXCEPT !.suspended = S]
      BY <1>9, <1>10, <3>1
    <3>3. k1 \in KernelType
      BY <1>5
    <3>4. S \in SUBSET Tasks
      BY <3>1, <3>3 DEF KernelType
    <3> QED
      BY <3>1, <3>2, <3>3, <3>4, ZenonT(60) DEF KernelType
  <2>2. Linked(u, {})
    <3>1. t # Marker /\ Waiting(u) = Waiting(k1)
      <4>1. t # Marker
        BY SchedulerAssumption
      <4>2. u.send = k1.send /\ u.receive = k1.receive /\ u.pending = k1.pending
        BY <2>1
      <4> QED
        BY <4>1, <4>2 DEF Waiting
    <3>2. t \notin ToSet(k1.ready) \cup ToSet(k1.delayed) \cup ToSet(k1.overflow)
      BY <1>7, <3>1 DEF Linked
    <3>3. ToSet(u.ready) \cup ToSet(u.delayed) \cup ToSet(u.overflow) \cup u.suspended
            = (Tasks \ {}) \cup {Marker}
      <4>1. ToSet(k1.ready) \cup ToSet(k1.delayed) \cup ToSet(k1.overflow) \cup k1.suspended
              = (Tasks \ {t}) \cup {Marker}
        BY <1>7 DEF Linked
      <4>2. /\ u.ready = k1.ready /\ u.delayed = k1.delayed /\ u.overflow = k1.overflow
            /\ u.suspended = k1.suspended \cup {t}
        BY <2>1
      <4> QED
        BY <4>1, <4>2
    <3>4. u.suspended \cap (ToSet(u.ready) \cup ToSet(u.delayed) \cup ToSet(u.overflow)) = {}
      <4>1. k1.suspended \cap (ToSet(k1.ready) \cup ToSet(k1.delayed) \cup ToSet(k1.overflow)) = {}
        BY <1>7 DEF Linked
      <4>2. /\ u.ready = k1.ready /\ u.delayed = k1.delayed /\ u.overflow = k1.overflow
            /\ u.suspended = k1.suspended \cup {t}
        BY <2>1
      <4> QED
        BY <3>2, <4>1, <4>2
    <3> QED
      BY <1>7, <2>1, <3>1, <3>3, <3>4 DEF Linked
  <2>3. Due(u, 1) /\ Looked(u)
    BY <1>8, <2>1 DEF Due, Looked
  <2>4. Held(k) => Held(u)
    <3>1. Waiting(u) = Waiting(k1) /\ u.suspended \subseteq k.suspended \cup {t}
      BY <1>2, <1>5, <2>1 DEF Waiting
    <3> QED
      BY <1>6, <3>1 DEF Held
  <2> QED
    BY <1>2, <1>5, <2>1, <2>2, <2>3, <2>4
<1>11. CASE ticks # portMAX_DELAY
  <2>a. PICK wake : wake = TimeToWake(k, ticks)
    OBVIOUS
  <2>1. wake \in 0..TickWrap - 1 /\ wake # k1.xTickCount
    <3>1. k1.xTickCount = k.xTickCount /\ k.xTickCount \in 0..TickWrap - 1
      BY <1>2, <1>5 DEF KernelType
    <3> QED
      BY <2>a, <3>1, WakeLater DEF TimeToWake
  <2>2. u = AddToDelayed(k1, t, wake)
    BY <1>9, <1>11, <2>a
  <2>3. /\ Linked(u, {}) /\ Due(u, 1) /\ Looked(u)
        /\ u.ready = k1.ready /\ u.suspended = k1.suspended
        /\ u.pending = k1.pending /\ u.send = k1.send /\ u.receive = k1.receive
        /\ u.uxSchedulerSuspended = k1.uxSchedulerSuspended
        /\ u.pxCurrentTCB = k1.pxCurrentTCB /\ u.pendSV = k1.pendSV
    BY <1>7, <1>8, <2>1, <2>2, AddToDelayedKeeps
  <2>4. Held(k) => Held(u)
    <3>1. Waiting(u) = Waiting(k1) /\ u.suspended \subseteq k.suspended
      BY <1>2, <1>5, <2>3 DEF Waiting
    <3> QED
      BY <1>6, <3>1 DEF Held
  <2> QED
    BY <1>2, <1>5, <2>3, <2>4
<1> QED
  BY <1>10, <1>11

(* The switch goes to a ready task, or to the idle task.                    *)
LEMMA SwitchContextKeeps ==
    ASSUME NEW k, Linked(k, {}), Due(k, 1), Looked(k), Held(k), NEW u, u = SwitchContext(k)
    PROVE  /\ Linked(u, {}) /\ Due(u, 1) /\ Looked(u) /\ Held(u)
           /\ ToSet(u.ready) = ToSet(k.ready)
           /\ u.pending = k.pending /\ u.send = k.send /\ u.receive = k.receive
           /\ u.uxSchedulerSuspended = k.uxSchedulerSuspended
           /\ ~u.pendSV
           /\ k.uxSchedulerSuspended = 1 => u.pxCurrentTCB = k.pxCurrentTCB
           /\ k.uxSchedulerSuspended = 0 => u.pxCurrentTCB \in ToSet(k.ready) \cup {Idle}
<1> DEFINE ring == IF k.uxSchedulerSuspended = 1 \/ k.ready = <<Marker>> THEN k.ready
                   ELSE NextEntry(k.ready)
           current == IF k.uxSchedulerSuspended = 1 THEN k.pxCurrentTCB
                      ELSE IF k.ready = <<Marker>> THEN Idle ELSE Last(NextEntry(k.ready))
<1>0. /\ k \in KernelType /\ k.ready \in Seq(Tasks \cup {Marker}) /\ IsInjective(k.ready)
      /\ Marker \in ToSet(k.ready) /\ ToSet(k.ready) \subseteq Tasks \cup {Marker}
  BY DEF Linked, KernelType
<1>1. /\ k.ready # <<Marker>> =>
           /\ NextEntry(k.ready) \in Seq(Tasks \cup {Marker})
           /\ IsInjective(NextEntry(k.ready))
           /\ ToSet(NextEntry(k.ready)) = ToSet(k.ready)
           /\ Last(NextEntry(k.ready)) \in ToSet(k.ready) \ {Marker}
  BY <1>0, NextEntryKeeps
<1>2. ring \in Seq(Tasks \cup {Marker}) /\ IsInjective(ring) /\ ToSet(ring) = ToSet(k.ready)
  BY <1>0, <1>1
<1>3. /\ current \in Tasks \cup {Idle}
      /\ k.uxSchedulerSuspended = 1 => current = k.pxCurrentTCB
      /\ k.uxSchedulerSuspended = 0 => current \in ToSet(k.ready) \cup {Idle}
  BY <1>0, <1>1 DEF KernelType
<1>4. /\ u \in KernelType /\ u.ready = ring /\ u.pxCurrentTCB = current /\ u.pendSV = FALSE
      /\ u.delayed = k.delayed /\ u.overflow = k.overflow /\ u.suspended = k.suspended
      /\ u.pending = k.pending /\ u.send = k.send /\ u.receive = k.receive
      /\ u.value = k.value
      /\ u.xTickCount = k.xTickCount /\ u.xNextTaskUnblockTime = k.xNextTaskUnblockTime
      /\ u.uxSchedulerSuspended = k.uxSchedulerSuspended
  <2>1. CASE k.uxSchedulerSuspended = 1
    <3>1. u = [k EXCEPT !.xYieldPending = TRUE, !.pendSV = FALSE]
      BY <2>1 DEF SwitchContext
    <3> QED
      BY <1>0, <2>1, <3>1, ZenonT(60) DEF KernelType
  <2>2. CASE k.uxSchedulerSuspended # 1
    <3>1. u = [k EXCEPT !.xYieldPending = FALSE, !.pendSV = FALSE,
                        !.ready = ring, !.pxCurrentTCB = current]
      BY <2>2 DEF SwitchContext
    <3> HIDE DEF ring, current
    <3> QED
      BY <1>0, <1>2, <1>3, <3>1, ZenonT(60) DEF KernelType
  <2> QED
    BY <2>1, <2>2
<1> HIDE DEF ring, current
<1>5. Linked(u, {})
  BY <1>2, <1>4 DEF Linked, Waiting
<1>6. Due(u, 1) /\ Looked(u) /\ Held(u)
  BY <1>4 DEF Due, Looked, Held, Waiting
<1> QED
  BY <1>2, <1>3, <1>4, <1>5, <1>6

-----------------------------------------------------------------------------
(* Ticks.                                                                   *)

(* What every step of the scheduler keeps that runs while it is not         *)
(* suspended.                                                               *)
Sound(k, early) == Linked(k, {}) /\ Due(k, early) /\ Held(k)

(* A round of the loop of xTaskIncrementTick wakes one task, or none.      *)
LEMMA WakeFirstKeeps ==
    ASSUME NEW k, Sound(k, 0), k.pending = <<>>, NEW u, u = WakeFirst(k)
    PROVE  /\ Sound(u, 0) /\ Woke(k, u) /\ u.pending = <<>>
           /\ u.xTickCount = k.xTickCount /\ u.pendSV = k.pendSV
           /\ IF k.delayed = <<>> \/ k.value[Head(k.delayed)] > k.xTickCount
              THEN u = k
              ELSE Len(u.delayed) = Len(k.delayed) - 1
<1> DEFINE t == Head(k.delayed)
<1>1. CASE k.delayed = <<>> \/ k.value[t] > k.xTickCount
  BY <1>1, SameNotPassed DEF WakeFirst, Woke
<1>2. CASE ~(k.delayed = <<>> \/ k.value[t] > k.xTickCount)
  <2>0. /\ k \in KernelType /\ k.delayed \in Seq(Tasks) /\ IsInjective(k.delayed)
        /\ k.delayed # <<>>
    BY <1>2 DEF Sound, Linked, KernelType
  <2>1. t \in Tasks /\ t \in ToSet(k.delayed)
    BY <2>0, TailKeeps
  <2>2. u = AddToReady(Unlink(LeaveEvent(k, t), t), t)
    BY <1>2 DEF WakeFirst
  <2> HIDE DEF t
  <2>3. t \notin k.suspended /\ Linked(k, {}) /\ Due(k, 0) /\ Held(k)
    BY <2>1 DEF Sound, Linked
  <2>4. PICK s : s = LeaveEvent(k, t)
    OBVIOUS
  <2>5. /\ Linked(s, {}) /\ Due(s, 0) /\ Held(s) /\ Woke(k, s)
        /\ t \notin ToSet(s.send) /\ t \notin ToSet(s.receive)
        /\ s.ready = k.ready /\ s.delayed = k.delayed
        /\ s.pending = k.pending /\ s.suspended = k.suspended
        /\ s.xTickCount = k.xTickCount /\ s.pendSV = k.pendSV
    BY <2>1, <2>3, <2>4, LeaveEventKeeps
  <2>6. PICK v : v = Unlink(s, t)
    OBVIOUS
  <2>7. Linked(v, {t}) /\ Due(v, 0)
    BY <2>1, <2>5, <2>6, UnlinkKeeps
  <2>8. /\ v.delayed = RemoveFirst(s.delayed, t)
        /\ ToSet(v.ready) = ToSet(s.ready) \ {t} /\ v.suspended = s.suspended \ {t}
        /\ t \notin ToSet(s.ready) => v.ready = s.ready
        /\ v.pending = s.pending /\ v.send = s.send /\ v.receive = s.receive
        /\ v.xTickCount = s.xTickCount
        /\ v.uxSchedulerSuspended = s.uxSchedulerSuspended
        /\ v.pxCurrentTCB = s.pxCurrentTCB /\ v.pendSV = s.pendSV
    BY <2>1, <2>5, <2>6, UnlinkFields
  <2>9. t \notin Waiting(v)
    BY <2>5, <2>8 DEF Waiting, ToSet
  <2>10. /\ Linked(u, {}) /\ Due(u, 0)
         /\ ToSet(u.ready) = ToSet(v.ready) \cup {t} /\ NotPassed(v.ready, u.ready)
         /\ u.delayed = v.delayed /\ u.suspended = v.suspended
         /\ u.pending = v.pending /\ u.send = v.send /\ u.receive = v.receive
         /\ u.xTickCount = v.xTickCount
         /\ u.uxSchedulerSuspended = v.uxSchedulerSuspended
         /\ u.pxCurrentTCB = v.pxCurrentTCB /\ u.pendSV = v.pendSV
    BY <2>1, <2>2, <2>4, <2>6, <2>7, <2>9, AddToReadyKeeps
  <2>11. Held(u)
    BY <2>5, <2>8, <2>10 DEF Held, Waiting
  <2>a. t \notin ToSet(k.ready)
    BY <2>1, <2>3 DEF Linked
  <2>12. Woke(k, u)
    BY <2>5, <2>8, <2>10, <2>a DEF Woke
  <2>13. Len(u.delayed) = Len(k.delayed) - 1
    BY <2>0, <2>1, <2>5, <2>8, <2>10, RemoveFirstKeeps
  <2> QED
    BY <1>2, <2>5, <2>8, <2>10, <2>11, <2>12, <2>13 DEF Sound, t
<1> QED
  BY <1>1, <1>2

(* The loop of xTaskIncrementTick, round after round.                       *)
LEMMA WakeRounds ==
    ASSUME NEW k, Sound(k, 0), k.pending = <<>>, NEW n \in Nat
    PROVE  \E f : /\ f[0] = k /\ \A i \in 1..n : f[i] = WakeFirst(f[i - 1])
                  /\ Rounds(WakeFirst, n, k) = f[n]
<1> DEFINE S == {s \in KernelType : Sound(s, 0) /\ s.pending = <<>>}
           F == [s \in S |-> WakeFirst(s)]
<1>1. F \in [S -> S]
  <2> SUFFICES ASSUME NEW s \in S PROVE WakeFirst(s) \in S
    OBVIOUS
  <2>1. Sound(WakeFirst(s), 0) /\ WakeFirst(s).pending = <<>>
    BY WakeFirstKeeps
  <2> QED
    BY <2>1 DEF Sound, Linked
<1>2. k \in S
  BY DEF Sound, Linked
<1>3. ASSUME NEW s \in S PROVE F[s] = WakeFirst(s)
  OBVIOUS
<1> HIDE DEF S, F
<1>a. PICK g : Passes(g, S, F, k, n)
  BY <1>1, <1>2, LoopExists
<1>4. g \in [0..n -> S] /\ g[0] = k /\ \A i \in 1..n : g[i] = F[g[i - 1]]
  BY <1>a DEF Passes
<1>5. g = [i \in 0..n |-> IF i = 0 THEN k ELSE WakeFirst(g[i - 1])]
  <2>1. ASSUME NEW i \in 1..n PROVE g[i] = WakeFirst(g[i - 1])
    <3>1. g[i - 1] \in S
      BY <1>4
    <3> QED
      BY <1>3, <1>4, <3>1
  <2> DEFINE h == [i \in 0..n |-> IF i = 0 THEN k ELSE WakeFirst(g[i - 1])]
  <2>2. ASSUME NEW i \in 0..n PROVE g[i] = h[i]
    BY <1>4, <2>1
  <2> QED
    BY <1>4, <2>2
<1> DEFINE f == CHOOSE h : h = [i \in 0..n |-> IF i = 0 THEN k ELSE WakeFirst(h[i - 1])]
<1>6. f = [i \in 0..n |-> IF i = 0 THEN k ELSE WakeFirst(f[i - 1])]
  BY <1>5
<1>7. Rounds(WakeFirst, n, k) = f[n]
  BY DEF Rounds
<1> HIDE DEF f
<1>8. f[0] = k /\ \A i \in 1..n : f[i] = WakeFirst(f[i - 1])
  BY <1>6
<1> QED
  BY <1>7, <1>8

(* The first of a sorted list is the one to look at next.                   *)
LEMMA NextUnblockIs ==
    ASSUME NEW k \in KernelType, Sorted(k.delayed, k.value)
    PROVE  /\ NextUnblock(k) \in 0..TickWrap - 1
           /\ \A t \in ToSet(k.delayed) : NextUnblock(k) <= k.value[t]
<1>0. k.delayed \in Seq(Tasks) /\ TickWrap \in Nat \ {0} /\ k.value \in [Tasks -> 0..TickWrap - 1]
  BY SchedulerAssumption DEF KernelType
<1>1. CASE k.delayed = <<>>
  BY <1>0, <1>1, Elements DEF NextUnblock, portMAX_DELAY, ToSet
<1>2. CASE k.delayed # <<>>
  <2>0. Len(k.delayed) \in Nat /\ DOMAIN k.delayed = 1..Len(k.delayed) /\ Len(k.delayed) # 0
    BY <1>0, <1>2, LenProperties, EmptySeq
  <2>1. Head(k.delayed) = k.delayed[1] /\ 1 \in DOMAIN k.delayed
    BY <1>0, <1>2, <2>0, HeadTailProperties
  <2>2. NextUnblock(k) = k.value[k.delayed[1]] /\ k.delayed[1] \in Tasks
    BY <1>0, <1>2, <2>0, <2>1, ElementOfSeq DEF NextUnblock
  <2>3. ASSUME NEW t \in ToSet(k.delayed) PROVE k.value[k.delayed[1]] <= k.value[t]
    <3>1. PICK i \in 1..Len(k.delayed) : k.delayed[i] = t
      BY <2>0 DEF ToSet
    <3> QED
      BY <2>0, <2>1, <3>1 DEF Sorted
  <2> QED
    BY <1>0, <2>2, <2>3
<1> QED
  BY <1>1, <1>2

(* Every task whose time has come is woken.                                 *)
LEMMA ExpireKeeps ==
    ASSUME NEW k, Sound(k, 0), k.pending = <<>>, NEW u, u = Expire(k)
    PROVE  /\ Sound(u, 1) /\ Looked(u) /\ Woke(k, u) /\ u.pending = <<>>
           /\ u.pendSV = k.pendSV
<1> DEFINE n == Len(k.delayed)
           Done(s) == s.delayed = <<>> \/ s.value[Head(s.delayed)] > s.xTickCount
           Good(i, s) == /\ Sound(s, 0) /\ s.pending = <<>> /\ Woke(k, s)
                         /\ s.xTickCount = k.xTickCount /\ s.pendSV = k.pendSV
                         /\ Done(s) \/ Len(s.delayed) = n - i
           P == {p \in Nat \X KernelType : Good(p[1], p[2])}
<1>0. k \in KernelType /\ k.delayed \in Seq(Tasks) /\ n \in Nat
  BY LenProperties DEF Sound, Linked, KernelType
<1>1. PICK f : /\ f[0] = k /\ \A i \in 1..n : f[i] = WakeFirst(f[i - 1])
               /\ Rounds(WakeFirst, n, k) = f[n]
  BY <1>0, WakeRounds
<1>2. <<0, f[0]>> \in P
  <2>1. Good(0, k)
    BY <1>0, SameNotPassed DEF Woke
  <2> QED
    BY <1>0, <1>1, <2>1
<1>3. ASSUME NEW i \in 1..n, <<i - 1, f[i - 1]>> \in P PROVE <<i, f[i]>> \in P
  <2>a. PICK s : s = f[i - 1]
    OBVIOUS
  <2>b. PICK v : v = f[i]
    OBVIOUS
  <2>1. Good(i - 1, s) /\ v = WakeFirst(s)
    BY <1>1, <1>3, <2>a, <2>b
  <2>2. /\ Sound(v, 0) /\ Woke(s, v) /\ v.pending = <<>>
        /\ v.xTickCount = s.xTickCount /\ v.pendSV = s.pendSV
        /\ IF s.delayed = <<>> \/ s.value[Head(s.delayed)] > s.xTickCount
           THEN v = s
           ELSE Len(v.delayed) = Len(s.delayed) - 1
    BY <2>1, WakeFirstKeeps
  <2>3. Woke(k, v)
    BY <2>1, <2>2, WokeTransitive
  <2>4. Done(v) \/ Len(v.delayed) = n - i
    <3>1. CASE Done(s)
      BY <2>2, <3>1
    <3>2. CASE ~Done(s)
      BY <1>0, <2>1, <2>2, <3>2, SMTT(60)
    <3> QED
      BY <3>1, <3>2
  <2>5. v \in KernelType /\ i \in Nat
    BY <1>0, <2>2 DEF Sound, Linked
  <2>6. Good(i, v)
    BY <2>1, <2>2, <2>3, <2>4
  <2> QED
    BY <2>b, <2>5, <2>6
<1>4. <<n, f[n]>> \in P
  <2> HIDE DEF P
  <2> QED
    BY <1>0, <1>2, <1>3, LoopKeeps
<1>a. PICK s : s = f[n]
  OBVIOUS
<1>5. Good(n, s) /\ s \in KernelType
  BY <1>4, <1>a
<1>6. Done(s)
  <2>1. s.delayed \in Seq(Tasks)
    BY <1>5 DEF KernelType
  <2> QED
    BY <1>0, <1>5, <2>1, EmptySeq
<1>7. u = [s EXCEPT !.xNextTaskUnblockTime = NextUnblock(s)]
  BY <1>1, <1>a DEF Expire
<1>8. /\ NextUnblock(s) \in 0..TickWrap - 1
      /\ \A t \in ToSet(s.delayed) : NextUnblock(s) <= s.value[t]
      /\ s.delayed # <<>> => NextUnblock(s) = s.value[Head(s.delayed)]
  BY <1>5, NextUnblockIs DEF Sound, Due, NextUnblock
<1>9. /\ u \in KernelType /\ u.xNextTaskUnblockTime = NextUnblock(s)
      /\ u.ready = s.ready /\ u.delayed = s.delayed /\ u.overflow = s.overflow
      /\ u.pending = s.pending /\ u.send = s.send /\ u.receive = s.receive
      /\ u.suspended = s.suspended /\ u.value = s.value /\ u.xTickCount = s.xTickCount
      /\ u.uxSchedulerSuspended = s.uxSchedulerSuspended
      /\ u.pxCurrentTCB = s.pxCurrentTCB /\ u.pendSV = s.pendSV
  BY <1>5, <1>7, <1>8, ZenonT(60) DEF KernelType
<1>10. \A t \in ToSet(s.delayed) : s.value[t] >= s.xTickCount + 1
  <2> SUFFICES ASSUME NEW t \in ToSet(s.delayed) PROVE s.value[t] >= s.xTickCount + 1
    OBVIOUS
  <2>1. s.delayed # <<>>
    <3> SUFFICES ASSUME s.delayed = <<>> PROVE FALSE
      OBVIOUS
    <3>1. ToSet(s.delayed) = {}
      BY EmptyList
    <3>2. t \in ToSet(s.delayed)
      OBVIOUS
    <3> QED
      BY <3>1, <3>2, Zenon
  <2>2. s.xTickCount \in Nat /\ s.value[t] \in Nat /\ NextUnblock(s) \in Nat
    <3>1. t \in Tasks
      BY <1>5, Elements DEF KernelType
    <3>2. /\ s.xTickCount \in 0..TickWrap - 1 /\ s.value[t] \in 0..TickWrap - 1
          /\ TickWrap \in Nat
      BY <1>5, <3>1, SchedulerAssumption DEF KernelType
    <3> QED
      BY <1>8, <3>2
  <2> QED
    BY <1>6, <1>8, <2>1, <2>2
<1>11. Linked(u, {}) /\ Held(u)
  BY <1>5, <1>9 DEF Sound, Linked, Held, Waiting
<1>12. Due(u, 1)
  BY <1>5, <1>9, <1>10 DEF Sound, Due
<1>13. Looked(u)
  BY <1>8, <1>9 DEF Looked
<1>14. Woke(k, u)
  BY <1>5, <1>9 DEF Woke
<1> QED
  BY <1>5, <1>9, <1>11, <1>12, <1>13, <1>14 DEF Sound

(* When the tick count has wrapped the delayed list is empty, and the other *)
(* list takes its place.                                                    *)
LEMMA SwitchDelayedListsKeeps ==
    ASSUME NEW k, Linked(k, {}), Held(k), ToSet(k.delayed) = {}, Sorted(k.overflow, k.value),
           NEW u, u = SwitchDelayedLists(k), k.xTickCount = 0
    PROVE  /\ Linked(u, {}) /\ Due(u, 0) /\ Held(u) /\ Looked(u) /\ Woke(k, u)
           /\ u.pending = k.pending /\ u.pendSV = k.pendSV
<1>a. PICK s : s = [k EXCEPT !.delayed = k.overflow, !.overflow = k.delayed,
                             !.xNumOfOverflows = (@ + 1) % OverflowWrap]
  OBVIOUS
<1>0. k \in KernelType /\ OverflowWrap \in Nat \ {0} /\ TickWrap \in Nat \ {0}
  BY SchedulerAssumption DEF Linked
<1>b. PICK o : o = (k.xNumOfOverflows + 1) % OverflowWrap
  OBVIOUS
<1>1. o \in 0..OverflowWrap - 1
  <2>1. k.xNumOfOverflows + 1 \in Nat
    BY <1>0, SMTT(60) DEF KernelType
  <2> QED
    BY <1>0, <1>b, <2>1
<1>2. /\ s \in KernelType
      /\ s.delayed = k.overflow /\ s.overflow = k.delayed
      /\ s.ready = k.ready /\ s.suspended = k.suspended /\ s.value = k.value
      /\ s.pending = k.pending /\ s.send = k.send /\ s.receive = k.receive
      /\ s.xTickCount = k.xTickCount /\ s.uxSchedulerSuspended = k.uxSchedulerSuspended
      /\ s.pxCurrentTCB = k.pxCurrentTCB /\ s.pendSV = k.pendSV
  <2>1. s = [k EXCEPT !.delayed = k.overflow, !.overflow = k.delayed, !.xNumOfOverflows = o]
    BY <1>a, <1>b
  <2>2. s \in KernelType
    BY <1>0, <1>1, <2>1, ZenonT(60) DEF KernelType
  <2> QED
    BY <1>0, <2>1, <2>2, ZenonT(60) DEF KernelType
<1>3. u = [s EXCEPT !.xNextTaskUnblockTime = NextUnblock(s)]
  BY <1>a DEF SwitchDelayedLists
<1>4. /\ NextUnblock(s) \in 0..TickWrap - 1
      /\ \A t \in ToSet(s.delayed) : NextUnblock(s) <= s.value[t]
  BY <1>2, NextUnblockIs
<1>5. /\ u \in KernelType /\ u.xNextTaskUnblockTime = NextUnblock(s)
      /\ u.delayed = k.overflow /\ u.overflow = k.delayed
      /\ u.ready = k.ready /\ u.suspended = k.suspended /\ u.value = k.value
      /\ u.pending = k.pending /\ u.send = k.send /\ u.receive = k.receive
      /\ u.xTickCount = k.xTickCount /\ u.uxSchedulerSuspended = k.uxSchedulerSuspended
      /\ u.pxCurrentTCB = k.pxCurrentTCB /\ u.pendSV = k.pendSV
  BY <1>2, <1>3, <1>4, ZenonT(60) DEF KernelType
<1>6. Linked(u, {})
  BY <1>5 DEF Linked, Waiting
<1>7. Due(u, 0)
  <2>1. Sorted(k.delayed, k.value)
    <3>1. DOMAIN k.delayed = {}
      BY DEF ToSet
    <3> QED
      BY <3>1 DEF Sorted
  <2>2. \A t \in ToSet(k.overflow) : k.value[t] >= 0
    BY <1>0, Elements DEF KernelType
  <2> QED
    BY <1>5, <2>1, <2>2 DEF Due
<1>8. Held(u) /\ Woke(k, u)
  BY <1>5, SameNotPassed DEF Held, Woke, Waiting
<1>9. Looked(u)
  BY <1>2, <1>4, <1>5 DEF Looked
<1> QED
  BY <1>5, <1>6, <1>7, <1>8, <1>9

(* The tick count goes on by one, and wraps.                                *)
LEMMA NextTick ==
    ASSUME NEW tick \in 0..TickWrap - 1
    PROVE  (tick + 1) % TickWrap = IF tick + 1 < TickWrap THEN tick + 1 ELSE 0
<1>1. TickWrap \in Nat \ {0}
  BY SchedulerAssumption
<1>2. CASE tick + 1 < TickWrap
  BY <1>1, <1>2, SMTT(30)
<1>3. CASE tick + 1 = TickWrap
  BY <1>1, <1>3, SMTT(30)
<1> QED
  BY <1>1, <1>2, <1>3

(* A tick is counted, and the lists change places when the count wraps.     *)
Counting(k, k1, k2) ==
    /\ k1 = [k EXCEPT !.xTickCount = (@ + 1) % TickWrap]
    /\ k2 = IF k1.xTickCount = 0 THEN SwitchDelayedLists(k1) ELSE k1

(* Nobody is late after that, and whose time has come is found.             *)
LEMMA CountingKeeps ==
    ASSUME NEW k, Sound(k, 1), Looked(k), k.pending = <<>>,
           NEW k1, NEW k2, Counting(k, k1, k2)
    PROVE  /\ Sound(k2, 0) /\ Looked(k2) /\ Woke(k, k2)
           /\ k2.pending = <<>> /\ k2.pendSV = k.pendSV
<1>0. k \in KernelType /\ TickWrap \in Nat \ {0} /\ k.xTickCount \in 0..TickWrap - 1
  BY SchedulerAssumption DEF Sound, Linked, KernelType
<1>a. PICK now : now = (k.xTickCount + 1) % TickWrap
  OBVIOUS
<1>b. k1 = [k EXCEPT !.xTickCount = now]
  BY <1>a DEF Counting
<1>c. k2 = IF k1.xTickCount = 0 THEN SwitchDelayedLists(k1) ELSE k1
  BY DEF Counting
<1>1. now = IF k.xTickCount + 1 < TickWrap THEN k.xTickCount + 1 ELSE 0
  BY <1>0, <1>a, NextTick
<1>e. now \in 0..TickWrap - 1
  BY <1>0, <1>1
<1>2. /\ k1 \in KernelType /\ k1.xTickCount = now
      /\ k1.delayed = k.delayed /\ k1.overflow = k.overflow
      /\ k1.ready = k.ready /\ k1.suspended = k.suspended /\ k1.value = k.value
      /\ k1.pending = k.pending /\ k1.send = k.send /\ k1.receive = k.receive
      /\ k1.xNextTaskUnblockTime = k.xNextTaskUnblockTime
      /\ k1.uxSchedulerSuspended = k.uxSchedulerSuspended
      /\ k1.pxCurrentTCB = k.pxCurrentTCB /\ k1.pendSV = k.pendSV
  <2>1. k1 \in KernelType
    BY <1>0, <1>b, <1>e, ZenonT(60) DEF KernelType
  <2> QED
    BY <1>0, <1>b, <2>1, ZenonT(60) DEF KernelType
<1>3. Linked(k1, {}) /\ Held(k1) /\ Looked(k1) /\ Woke(k, k1)
  BY <1>2, SameNotPassed DEF Sound, Linked, Held, Looked, Woke, Waiting
<1>4. /\ Sound(k2, 0) /\ Looked(k2) /\ Woke(k, k2)
      /\ k2.pending = <<>> /\ k2.pendSV = k.pendSV
  <2>1. CASE now = 0
    <3>1. k2 = SwitchDelayedLists(k1)
      BY <1>2, <1>c, <2>1
    <3>2. ToSet(k1.delayed) = {}
      <4> SUFFICES ASSUME NEW t \in ToSet(k.delayed) PROVE FALSE
        BY <1>2
      <4>1. k.xTickCount + 1 = TickWrap
        BY <1>0, <1>1, <2>1
      <4>2. t \in Tasks
        BY <1>0, Elements DEF KernelType
      <4>3. k.value[t] \in 0..TickWrap - 1
        BY <1>0, <4>2 DEF KernelType
      <4>4. k.value[t] >= k.xTickCount + 1
        BY DEF Sound, Due
      <4> QED
        BY <1>0, <4>1, <4>3, <4>4
    <3>3. Sorted(k1.overflow, k1.value) /\ k1.xTickCount = 0
      BY <1>2, <2>1 DEF Sound, Due
    <3>4. /\ Linked(k2, {}) /\ Due(k2, 0) /\ Held(k2) /\ Looked(k2) /\ Woke(k1, k2)
          /\ k2.pending = k1.pending /\ k2.pendSV = k1.pendSV
      BY <1>3, <3>1, <3>2, <3>3, SwitchDelayedListsKeeps
    <3> QED
      BY <1>2, <1>3, <3>4, WokeTransitive DEF Sound
  <2>2. CASE now # 0
    <3>1. k2 = k1
      BY <1>2, <1>c, <2>2
    <3>2. now = k.xTickCount + 1
      BY <1>1, <2>2
    <3>3. Due(k1, 0)
      <4>1. \A t \in ToSet(k1.overflow) : k1.value[t] < now
        <5> SUFFICES ASSUME NEW t \in ToSet(k.overflow) PROVE k.value[t] < now
          BY <1>2
        <5>1. t \in Tasks
          BY <1>0, Elements DEF KernelType
        <5>2. k.value[t] \in 0..TickWrap - 1
          BY <1>0, <5>1 DEF KernelType
        <5>3. k.value[t] < k.xTickCount
          BY DEF Sound, Due
        <5> QED
          BY <1>0, <3>2, <5>2, <5>3
      <4>2. \A t \in ToSet(k1.delayed) : k1.value[t] >= now + 0
        BY <1>0, <1>2, <3>2, Elements DEF Sound, Due, KernelType
      <4> QED
        BY <1>2, <4>1, <4>2 DEF Sound, Due
    <3> QED
      BY <1>2, <1>3, <3>1, <3>3 DEF Sound
  <2> QED
    BY <2>1, <2>2
<1> QED
  BY <1>4

(* A tick.                                                                  *)
LEMMA TickKeeps ==
    ASSUME NEW k, Sound(k, 1), Looked(k), k.pending = <<>>, k.uxSchedulerSuspended = 0,
           NEW r, r = IncrementTick(k)
    PROVE  /\ Sound(r.kernel, 1) /\ Looked(r.kernel) /\ Woke(k, r.kernel)
           /\ r.kernel.pending = <<>> /\ r.kernel.pendSV = k.pendSV
           /\ r.switch \in BOOLEAN
<1>0. k \in KernelType /\ TickWrap \in Nat \ {0} /\ k.xTickCount \in 0..TickWrap - 1
  BY SchedulerAssumption DEF Sound, Linked, KernelType
<1>a. PICK now : now = (k.xTickCount + 1) % TickWrap
  OBVIOUS
<1>b. PICK k1 : k1 = [k EXCEPT !.xTickCount = now]
  OBVIOUS
<1>c. PICK k2 : k2 = IF k1.xTickCount = 0 THEN SwitchDelayedLists(k1) ELSE k1
  OBVIOUS
<1>d. PICK k3 : k3 = IF k2.xTickCount >= k2.xNextTaskUnblockTime THEN Expire(k2) ELSE k2
  OBVIOUS
<1>4. /\ Sound(k2, 0) /\ Looked(k2) /\ Woke(k, k2)
      /\ k2.pending = <<>> /\ k2.pendSV = k.pendSV
  <2>1. Counting(k, k1, k2)
    BY <1>a, <1>b, <1>c DEF Counting
  <2> QED
    BY <2>1, CountingKeeps
<1>5. /\ Sound(k3, 1) /\ Looked(k3) /\ Woke(k, k3)
      /\ k3.pending = <<>> /\ k3.pendSV = k.pendSV
  <2>1. CASE k2.xTickCount >= k2.xNextTaskUnblockTime
    <3>1. k3 = Expire(k2)
      BY <1>d, <2>1
    <3>2. /\ Sound(k3, 1) /\ Looked(k3) /\ Woke(k2, k3) /\ k3.pending = <<>>
          /\ k3.pendSV = k2.pendSV
      BY <1>4, <3>1, ExpireKeeps
    <3> QED
      BY <1>4, <3>2, WokeTransitive
  <2>2. CASE ~(k2.xTickCount >= k2.xNextTaskUnblockTime)
    <3>1. k3 = k2
      BY <1>d, <2>2
    <3>2. \A t \in ToSet(k2.delayed) : k2.value[t] >= k2.xTickCount + 1
      <4> SUFFICES ASSUME NEW t \in ToSet(k2.delayed) PROVE k2.value[t] >= k2.xTickCount + 1
        OBVIOUS
      <4>1. /\ k2.xTickCount \in Nat /\ k2.xNextTaskUnblockTime \in Nat
            /\ k2.value[t] \in Nat
        BY <1>4, Elements DEF Sound, Linked, KernelType
      <4>2. k2.xNextTaskUnblockTime <= k2.value[t]
        BY <1>4 DEF Looked
      <4> QED
        BY <2>2, <4>1, <4>2
    <3>3. Due(k2, 1)
      BY <1>4, <3>2 DEF Sound, Due
    <3> QED
      BY <1>4, <3>1, <3>3 DEF Sound
  <2> QED
    BY <2>1, <2>2
<1>f. PICK sw : sw = \/ k.pxCurrentTCB # Idle /\ Len(k3.ready) > 2
                     \/ k3.delayed # k2.delayed \/ k.xYieldPending
  OBVIOUS
<1>6. r = [kernel |-> k3, switch |-> sw]
  <2>1. k1 = [k EXCEPT !.xTickCount = (k.xTickCount + 1) % TickWrap]
    BY <1>a, <1>b
  <2>2. k.uxSchedulerSuspended # 1
    OBVIOUS
  <2>3. IncrementTick(k) =
          LET k1a == [k EXCEPT !.xTickCount = (k.xTickCount + 1) % TickWrap]
              k2a == IF k1a.xTickCount = 0 THEN SwitchDelayedLists(k1a) ELSE k1a
              k3a == IF k2a.xTickCount >= k2a.xNextTaskUnblockTime THEN Expire(k2a) ELSE k2a
          IN  [kernel |-> k3a,
               switch |-> \/ k.pxCurrentTCB # Idle /\ Len(k3a.ready) > 2
                          \/ k3a.delayed # k2a.delayed \/ k.xYieldPending]
    BY <2>2 DEF IncrementTick
  <2>4. IncrementTick(k) = [kernel |-> k3,
                            switch |-> \/ k.pxCurrentTCB # Idle /\ Len(k3.ready) > 2
                                       \/ k3.delayed # k2.delayed \/ k.xYieldPending]
    BY <1>c, <1>d, <2>1, <2>3
  <2> QED
    BY <1>f, <2>4
<1>7. sw \in BOOLEAN
  BY <1>f, Zenon
<1>8. r.kernel = k3 /\ r.switch = sw
  BY <1>6
<1> QED
  BY <1>5, <1>7, <1>8

-----------------------------------------------------------------------------
(* xTaskResumeAll.                                                          *)

(* A task that was held pending becomes ready.                              *)
LEMMA MoveFirstKeeps ==
    ASSUME NEW k, Sound(k, 1), Looked(k), NEW u, u = MoveFirst(k)
    PROVE  /\ Sound(u, 1) /\ Looked(u) /\ Woke(k, u) /\ u.pendSV = k.pendSV
           /\ k.pending # <<>> => Len(u.pending) = Len(k.pending) - 1
<1>1. CASE k.pending = <<>>
  BY <1>1, SameNotPassed DEF MoveFirst, Woke
<1>2. CASE k.pending # <<>>
  <2>0. /\ k \in KernelType /\ k.pending \in Seq(Tasks) /\ IsInjective(k.pending)
        /\ Linked(k, {}) /\ Due(k, 1) /\ Held(k)
    BY DEF Sound, Linked, KernelType
  <2>a. PICK t : t = Head(k.pending)
    OBVIOUS
  <2>b. PICK p : p = Tail(k.pending)
    OBVIOUS
  <2>1. /\ t \in Tasks /\ t \in ToSet(k.pending)
        /\ p \in Seq(Tasks) /\ IsInjective(p) /\ Len(p) = Len(k.pending) - 1
        /\ ToSet(p) = ToSet(k.pending) \ {t}
    BY <1>2, <2>0, <2>a, <2>b, TailKeeps
  <2>c. PICK k1 : k1 = [k EXCEPT !.pending = p, !.xYieldPending = TRUE]
    OBVIOUS
  <2>2. k1 \in KernelType
    BY <2>0, <2>1, <2>c DEF KernelType
  <2>3. /\ k1.pending = p
        /\ k1.ready = k.ready /\ k1.delayed = k.delayed /\ k1.overflow = k.overflow
        /\ k1.send = k.send /\ k1.receive = k.receive
        /\ k1.suspended = k.suspended /\ k1.value = k.value
        /\ k1.xTickCount = k.xTickCount /\ k1.xNextTaskUnblockTime = k.xNextTaskUnblockTime
        /\ k1.uxSchedulerSuspended = k.uxSchedulerSuspended
        /\ k1.pxCurrentTCB = k.pxCurrentTCB /\ k1.pendSV = k.pendSV
    BY <2>0, <2>c DEF KernelType
  <2>4. t \notin Waiting(k1) /\ Waiting(k1) = Waiting(k) \ {t}
    BY <2>0, <2>1, <2>3 DEF Linked, Waiting
  <2>5. Linked(k1, {})
    BY <2>0, <2>1, <2>2, <2>3, <2>4 DEF Linked
  <2>6. Due(k1, 1) /\ Looked(k1)
    BY <2>0, <2>3 DEF Due, Looked
  <2>d. PICK k2 : k2 = Unlink(k1, t)
    OBVIOUS
  <2>7. Linked(k2, {t}) /\ Due(k2, 1) /\ Looked(k2)
    BY <2>1, <2>5, <2>6, <2>d, UnlinkKeeps
  <2>8. /\ ToSet(k2.ready) = ToSet(k1.ready) \ {t} /\ k2.suspended = k1.suspended \ {t}
        /\ t \notin ToSet(k1.ready) => k2.ready = k1.ready
        /\ k2.pending = k1.pending /\ k2.send = k1.send /\ k2.receive = k1.receive
        /\ k2.uxSchedulerSuspended = k1.uxSchedulerSuspended
        /\ k2.pxCurrentTCB = k1.pxCurrentTCB /\ k2.pendSV = k1.pendSV
    BY <2>1, <2>5, <2>d, UnlinkFields, SMTT(60)
  <2>9. t \notin Waiting(k2) /\ Waiting(k2) = Waiting(k) \ {t}
    BY <2>4, <2>8 DEF Waiting
  <2>10. u = AddToReady(k2, t)
    BY <1>2, <2>a, <2>b, <2>c, <2>d DEF MoveFirst
  <2>11. /\ Linked(u, {}) /\ Due(u, 1) /\ Looked(u)
         /\ ToSet(u.ready) = ToSet(k2.ready) \cup {t} /\ NotPassed(k2.ready, u.ready)
         /\ u.pending = k2.pending /\ u.send = k2.send /\ u.receive = k2.receive
         /\ u.suspended = k2.suspended
         /\ u.uxSchedulerSuspended = k2.uxSchedulerSuspended
         /\ u.pxCurrentTCB = k2.pxCurrentTCB /\ u.pendSV = k2.pendSV
    BY <2>1, <2>7, <2>9, <2>10, AddToReadyKeeps
  <2>12. Held(u)
    <3>1. Waiting(u) = Waiting(k) \ {t} /\ u.suspended = k.suspended \ {t}
      BY <2>3, <2>8, <2>9, <2>11 DEF Waiting
    <3> QED
      BY <2>0, <3>1 DEF Held
  <2>e. t \notin ToSet(k.ready)
    BY <2>0, <2>1 DEF Linked, Waiting
  <2>13. Woke(k, u)
    BY <2>3, <2>8, <2>11, <2>e DEF Woke
  <2>14. Len(u.pending) = Len(k.pending) - 1
    BY <2>1, <2>3, <2>8, <2>11
  <2> QED
    BY <2>3, <2>8, <2>11, <2>12, <2>13, <2>14 DEF Sound
<1> QED
  BY <1>1, <1>2

(* The loop that takes them all, round after round.                        *)
LEMMA MoveRounds ==
    ASSUME NEW k, Sound(k, 1), Looked(k), NEW n \in Nat
    PROVE  \E f : /\ f[0] = k /\ \A i \in 1..n : f[i] = MoveFirst(f[i - 1])
                  /\ Rounds(MoveFirst, n, k) = f[n]
<1> DEFINE S == {s \in KernelType : Sound(s, 1) /\ Looked(s)}
           F == [s \in S |-> MoveFirst(s)]
<1>1. F \in [S -> S]
  <2> SUFFICES ASSUME NEW s \in S PROVE MoveFirst(s) \in S
    OBVIOUS
  <2>1. Sound(MoveFirst(s), 1) /\ Looked(MoveFirst(s))
    BY MoveFirstKeeps
  <2> QED
    BY <2>1 DEF Sound, Linked
<1>2. k \in S
  BY DEF Sound, Linked
<1>3. ASSUME NEW s \in S PROVE F[s] = MoveFirst(s)
  OBVIOUS
<1> HIDE DEF S, F
<1>a. PICK g : Passes(g, S, F, k, n)
  BY <1>1, <1>2, LoopExists
<1>4. g \in [0..n -> S] /\ g[0] = k /\ \A i \in 1..n : g[i] = F[g[i - 1]]
  BY <1>a DEF Passes
<1>5. g = [i \in 0..n |-> IF i = 0 THEN k ELSE MoveFirst(g[i - 1])]
  <2>1. ASSUME NEW i \in 1..n PROVE g[i] = MoveFirst(g[i - 1])
    <3>1. g[i - 1] \in S
      BY <1>4
    <3> QED
      BY <1>3, <1>4, <3>1
  <2> DEFINE h == [i \in 0..n |-> IF i = 0 THEN k ELSE MoveFirst(g[i - 1])]
  <2>2. ASSUME NEW i \in 0..n PROVE g[i] = h[i]
    BY <1>4, <2>1
  <2> QED
    BY <1>4, <2>2
<1> DEFINE f == CHOOSE h : h = [i \in 0..n |-> IF i = 0 THEN k ELSE MoveFirst(h[i - 1])]
<1>6. f = [i \in 0..n |-> IF i = 0 THEN k ELSE MoveFirst(f[i - 1])]
  BY <1>5
<1>7. Rounds(MoveFirst, n, k) = f[n]
  BY DEF Rounds
<1> HIDE DEF f
<1>8. f[0] = k /\ \A i \in 1..n : f[i] = MoveFirst(f[i - 1])
  BY <1>6
<1> QED
  BY <1>7, <1>8

(* All of them do.                                                          *)
LEMMA MoveAllKeeps ==
    ASSUME NEW k, Sound(k, 1), Looked(k), NEW u, u = Rounds(MoveFirst, Len(k.pending), k)
    PROVE  /\ Sound(u, 1) /\ Looked(u) /\ Woke(k, u) /\ u.pendSV = k.pendSV
           /\ u.pending = <<>>
<1> DEFINE n == Len(k.pending)
           Good(i, s) == /\ Sound(s, 1) /\ Looked(s) /\ Woke(k, s) /\ s.pendSV = k.pendSV
                         /\ Len(s.pending) = n - i
           P == {p \in (0..n) \X KernelType : Good(p[1], p[2])}
<1>0. k \in KernelType /\ k.pending \in Seq(Tasks) /\ n \in Nat
  BY LenProperties DEF Sound, Linked, KernelType
<1>1. PICK f : /\ f[0] = k /\ \A i \in 1..n : f[i] = MoveFirst(f[i - 1])
               /\ Rounds(MoveFirst, n, k) = f[n]
  BY <1>0, MoveRounds
<1>2. <<0, f[0]>> \in P
  <2>1. Good(0, k)
    BY <1>0, SameNotPassed DEF Woke
  <2> QED
    BY <1>0, <1>1, <2>1
<1>3. ASSUME NEW i \in 1..n, <<i - 1, f[i - 1]>> \in P PROVE <<i, f[i]>> \in P
  <2>a. PICK s : s = f[i - 1]
    OBVIOUS
  <2>b. PICK v : v = f[i]
    OBVIOUS
  <2>1. Good(i - 1, s) /\ v = MoveFirst(s) /\ s \in KernelType
    BY <1>1, <1>3, <2>a, <2>b
  <2>2. s.pending # <<>>
    <3> SUFFICES ASSUME s.pending = <<>> PROVE FALSE
      OBVIOUS
    <3>1. Len(s.pending) = 0
      OBVIOUS
    <3> QED
      BY <1>0, <2>1, <3>1
  <2>3. /\ Sound(v, 1) /\ Looked(v) /\ Woke(s, v) /\ v.pendSV = s.pendSV
        /\ Len(v.pending) = Len(s.pending) - 1
    BY <2>1, <2>2, MoveFirstKeeps
  <2>4. Woke(k, v)
    BY <2>1, <2>3, WokeTransitive
  <2>5. v \in KernelType /\ i \in 0..n
    BY <1>0, <2>3 DEF Sound, Linked
  <2>6. Good(i, v)
    BY <1>0, <2>1, <2>3, <2>4
  <2> QED
    BY <2>b, <2>5, <2>6
<1>4. <<n, f[n]>> \in P
  <2> HIDE DEF P
  <2> QED
    BY <1>0, <1>2, <1>3, LoopKeeps
<1>5. Good(n, u) /\ u \in KernelType
  BY <1>1, <1>4
<1>6. u.pending = <<>>
  <2>1. u.pending \in Seq(Tasks) /\ Len(u.pending) = 0
    BY <1>0, <1>5 DEF KernelType
  <2> QED
    BY <2>1, EmptySeq
<1> QED
  BY <1>5, <1>6

(* A tick that came while the scheduler was suspended is counted.           *)
LEMMA PendedTickKeeps ==
    ASSUME NEW k, Sound(k, 1), Looked(k), k.pending = <<>>, k.uxSchedulerSuspended = 0,
           NEW u, u = PendedTick(k)
    PROVE  /\ Sound(u, 1) /\ Looked(u) /\ Woke(k, u)
           /\ u.pending = <<>> /\ u.uxSchedulerSuspended = 0 /\ u.pendSV = k.pendSV
<1>1. CASE k.uxPendedTicks = 0
  BY <1>1, SameNotPassed DEF PendedTick, Woke
<1>2. CASE k.uxPendedTicks # 0
  <2>a. PICK r : r = IncrementTick(k)
    OBVIOUS
  <2>b. PICK s : s = r.kernel
    OBVIOUS
  <2>1. /\ Sound(s, 1) /\ Looked(s) /\ Woke(k, s)
        /\ s.pending = <<>> /\ s.pendSV = k.pendSV /\ r.switch \in BOOLEAN
    BY <2>a, <2>b, TickKeeps
  <2>c. PICK n : n = k.uxPendedTicks - 1
    OBVIOUS
  <2>2. n \in Nat
    BY <1>2, <2>c, SMTT(60) DEF Sound, Linked, KernelType
  <2>d. PICK y : y = (s.xYieldPending \/ r.switch)
    OBVIOUS
  <2>3. y \in BOOLEAN
    BY <2>d, Zenon
  <2>4. u = [s EXCEPT !.xYieldPending = y, !.uxPendedTicks = n]
    BY <1>2, <2>a, <2>b, <2>c, <2>d DEF PendedTick
  <2>5. s \in KernelType
    BY <2>1 DEF Sound, Linked
  <2>6. u \in KernelType
    BY <2>2, <2>3, <2>4, <2>5, ZenonT(60) DEF KernelType
  <2>7. /\ u.ready = s.ready /\ u.delayed = s.delayed /\ u.overflow = s.overflow
        /\ u.pending = s.pending /\ u.send = s.send /\ u.receive = s.receive
        /\ u.suspended = s.suspended /\ u.value = s.value
        /\ u.xTickCount = s.xTickCount /\ u.xNextTaskUnblockTime = s.xNextTaskUnblockTime
        /\ u.uxSchedulerSuspended = s.uxSchedulerSuspended
        /\ u.pxCurrentTCB = s.pxCurrentTCB /\ u.pendSV = s.pendSV
    BY <2>4, <2>5 DEF KernelType
  <2>8. Sound(u, 1) /\ Looked(u)
    BY <2>1, <2>6, <2>7 DEF Sound, Linked, Due, Held, Looked, Waiting
  <2>9. Woke(k, u)
    BY <2>1, <2>7 DEF Woke
  <2> QED
    BY <2>1, <2>7, <2>8, <2>9 DEF Woke
<1> QED
  BY <1>1, <1>2

(* Not suspended, and nobody is left pending.                               *)
Going(k) == Sound(k, 1) /\ Looked(k) /\ k.pending = <<>> /\ k.uxSchedulerSuspended = 0

(* The loop that counts the ticks that came meanwhile, round after round.   *)
PendedRun(f, n, k) == /\ f[0] = k /\ \A i \in 1..n : f[i] = PendedTick(f[i - 1])
                      /\ Rounds(PendedTick, n, k) = f[n]

(* It exists, as PendedTick leads from one such state to another.          *)
LEMMA PendedRounds ==
    ASSUME NEW k, Going(k), NEW n \in Nat
    PROVE  \E f : PendedRun(f, n, k)
<1> DEFINE S == {s \in KernelType : Going(s)}
           F == [s \in S |-> PendedTick(s)]
<1>1. F \in [S -> S]
  <2> SUFFICES ASSUME NEW s \in S PROVE PendedTick(s) \in S
    OBVIOUS
  <2>1. Going(PendedTick(s))
    BY PendedTickKeeps DEF Going
  <2> QED
    BY <2>1 DEF Going, Sound, Linked
<1>2. k \in S
  BY DEF Going, Sound, Linked
<1>3. ASSUME NEW s \in S PROVE F[s] = PendedTick(s)
  OBVIOUS
<1> HIDE DEF S, F
<1>a. PICK g : Passes(g, S, F, k, n)
  BY <1>1, <1>2, LoopExists
<1>4. g \in [0..n -> S] /\ g[0] = k /\ \A i \in 1..n : g[i] = F[g[i - 1]]
  BY <1>a DEF Passes
<1>5. g = [i \in 0..n |-> IF i = 0 THEN k ELSE PendedTick(g[i - 1])]
  <2>1. ASSUME NEW i \in 1..n PROVE g[i] = PendedTick(g[i - 1])
    <3>1. g[i - 1] \in S
      BY <1>4
    <3> QED
      BY <1>3, <1>4, <3>1
  <2> DEFINE h == [i \in 0..n |-> IF i = 0 THEN k ELSE PendedTick(g[i - 1])]
  <2>2. ASSUME NEW i \in 0..n PROVE g[i] = h[i]
    BY <1>4, <2>1
  <2> QED
    BY <1>4, <2>2
<1> DEFINE f == CHOOSE h : h = [i \in 0..n |-> IF i = 0 THEN k ELSE PendedTick(h[i - 1])]
<1>6. f = [i \in 0..n |-> IF i = 0 THEN k ELSE PendedTick(f[i - 1])]
  BY <1>5
<1>7. Rounds(PendedTick, n, k) = f[n]
  BY DEF Rounds
<1> HIDE DEF f
<1>8. f[0] = k /\ \A i \in 1..n : f[i] = PendedTick(f[i - 1])
  BY <1>6
<1> QED
  BY <1>7, <1>8 DEF PendedRun

(* All the ticks that came meanwhile are counted.                          *)
LEMMA PendedTicksKeep ==
    ASSUME NEW k, Sound(k, 1), Looked(k), k.pending = <<>>, k.uxSchedulerSuspended = 0,
           NEW n \in Nat, NEW u, u = Rounds(PendedTick, n, k)
    PROVE  /\ Sound(u, 1) /\ Looked(u) /\ Woke(k, u)
           /\ u.pending = <<>> /\ u.uxSchedulerSuspended = 0 /\ u.pendSV = k.pendSV
<1> DEFINE Good(s) == /\ Sound(s, 1) /\ Looked(s) /\ Woke(k, s)
                      /\ s.pending = <<>> /\ s.uxSchedulerSuspended = 0 /\ s.pendSV = k.pendSV
           P == {p \in Nat \X KernelType : Good(p[2])}
<1>0. Going(k)
  BY DEF Going
<1>a. PICK f : PendedRun(f, n, k)
  BY <1>0, PendedRounds
<1>1. /\ f[0] = k /\ \A i \in 1..n : f[i] = PendedTick(f[i - 1])
      /\ Rounds(PendedTick, n, k) = f[n]
  BY <1>a DEF PendedRun
<1>2. <<0, f[0]>> \in P
  <2>1. Good(k) /\ k \in KernelType
    BY SameNotPassed DEF Woke, Sound, Linked
  <2> QED
    BY <1>1, <2>1
<1>3. ASSUME NEW i \in 1..n, <<i - 1, f[i - 1]>> \in P PROVE <<i, f[i]>> \in P
  <2>a. PICK s : s = f[i - 1]
    OBVIOUS
  <2>b. PICK v : v = f[i]
    OBVIOUS
  <2>1. Good(s) /\ v = PendedTick(s)
    BY <1>1, <1>3, <2>a, <2>b
  <2>2. /\ Sound(v, 1) /\ Looked(v) /\ Woke(s, v)
        /\ v.pending = <<>> /\ v.uxSchedulerSuspended = 0 /\ v.pendSV = s.pendSV
    BY <2>1, PendedTickKeeps
  <2>3. Woke(k, v)
    BY <2>1, <2>2, WokeTransitive
  <2>4. v \in KernelType /\ i \in Nat
    BY <2>2 DEF Sound, Linked
  <2>5. Good(v)
    BY <2>1, <2>2, <2>3
  <2> QED
    BY <2>b, <2>4, <2>5
<1>4. <<n, f[n]>> \in P
  <2> HIDE DEF P
  <2> QED
    BY <1>2, <1>3, LoopKeeps
<1> QED
  BY <1>1, <1>4

(* portYIELD_WITHIN_API.                                                    *)
LEMMA YieldKeeps ==
    ASSUME NEW k, Linked(k, {}), NEW u, u = Yield(k)
    PROVE  /\ Linked(u, {})
           /\ Due(k, 1) => Due(u, 1)
           /\ Looked(k) => Looked(u)
           /\ Held(k) => Held(u)
           /\ Woke(k, u)
           /\ u.pending = k.pending /\ u.pendSV
           /\ ToSet(u.send) = ToSet(k.send) /\ ToSet(u.receive) = ToSet(k.receive)
<1>0. k \in KernelType
  BY DEF Linked
<1>1. /\ u \in KernelType
      /\ u.ready = k.ready /\ u.delayed = k.delayed /\ u.overflow = k.overflow
      /\ u.pending = k.pending /\ u.send = k.send /\ u.receive = k.receive
      /\ u.suspended = k.suspended /\ u.value = k.value
      /\ u.xTickCount = k.xTickCount /\ u.xNextTaskUnblockTime = k.xNextTaskUnblockTime
      /\ u.uxSchedulerSuspended = k.uxSchedulerSuspended
      /\ u.pxCurrentTCB = k.pxCurrentTCB /\ u.pendSV = TRUE
  BY <1>0 DEF Yield, KernelType
<1>2. Linked(u, {})
  BY <1>1 DEF Linked, Waiting
<1> QED
  BY <1>1, <1>2, SameNotPassed DEF Due, Looked, Held, Woke, Waiting

(* The whole of xTaskResumeAll.                                            *)
LEMMA ResumeAllKeeps ==
    ASSUME NEW k, Sound(k, 1), Looked(k), NEW u, u = ResumeAll(k)
    PROVE  /\ Sound(u, 1) /\ Looked(u)
           /\ ToSet(k.ready) \subseteq ToSet(u.ready) /\ NotPassed(k.ready, u.ready)
           /\ ToSet(u.send) \subseteq ToSet(k.send)
           /\ ToSet(u.receive) \subseteq ToSet(k.receive)
           /\ u.pxCurrentTCB = k.pxCurrentTCB
           /\ u.pending = <<>> /\ u.uxSchedulerSuspended = 0
<1>a. PICK k0 : k0 = [k EXCEPT !.uxSchedulerSuspended = 0]
  OBVIOUS
<1>0. k \in KernelType
  BY DEF Sound, Linked
<1>1. k0 \in KernelType
  BY <1>0, <1>a DEF KernelType
<1>2. /\ k0.ready = k.ready /\ k0.delayed = k.delayed /\ k0.overflow = k.overflow
      /\ k0.pending = k.pending /\ k0.send = k.send /\ k0.receive = k.receive
      /\ k0.suspended = k.suspended /\ k0.value = k.value
      /\ k0.xTickCount = k.xTickCount /\ k0.xNextTaskUnblockTime = k.xNextTaskUnblockTime
      /\ k0.uxSchedulerSuspended = 0
      /\ k0.pxCurrentTCB = k.pxCurrentTCB /\ k0.pendSV = k.pendSV
  BY <1>0, <1>a DEF KernelType
<1>3. Sound(k0, 1) /\ Looked(k0)
  BY <1>1, <1>2 DEF Sound, Linked, Due, Held, Looked, Waiting
<1>b. PICK k1 : k1 = Rounds(MoveFirst, Len(k.pending), k0)
  OBVIOUS
<1>4. /\ Sound(k1, 1) /\ Looked(k1) /\ Woke(k0, k1) /\ k1.pendSV = k0.pendSV
      /\ k1.pending = <<>>
  <2>1. k1 = Rounds(MoveFirst, Len(k0.pending), k0)
    BY <1>2, <1>b
  <2> QED
    BY <1>3, <2>1, MoveAllKeeps
<1>5. k1.uxSchedulerSuspended = 0
  BY <1>2, <1>4 DEF Woke
<1>c. PICK k2 : k2 = Rounds(PendedTick, k.uxPendedTicks, k1)
  OBVIOUS
<1>6. /\ Sound(k2, 1) /\ Looked(k2) /\ Woke(k1, k2)
      /\ k2.pending = <<>> /\ k2.uxSchedulerSuspended = 0
  <2>1. k.uxPendedTicks \in Nat
    BY <1>0 DEF KernelType
  <2> QED
    BY <1>4, <1>5, <1>c, <2>1, PendedTicksKeep
<1>7. u = IF k2.xYieldPending THEN Yield(k2) ELSE k2
  BY <1>a, <1>b, <1>c DEF ResumeAll
<1>8. Woke(k0, k2)
  BY <1>4, <1>6, WokeTransitive
<1>9. CASE u = k2
  BY <1>2, <1>6, <1>8, <1>9 DEF Woke
<1>10. CASE u = Yield(k2)
  <2>1. Linked(k2, {}) /\ Due(k2, 1) /\ Held(k2)
    BY <1>6 DEF Sound
  <2>2. /\ Linked(u, {}) /\ Due(u, 1) /\ Looked(u) /\ Held(u) /\ Woke(k2, u)
        /\ u.pending = k2.pending
    BY <1>6, <1>10, <2>1, YieldKeeps
  <2>3. Woke(k0, u)
    BY <1>8, <2>2, WokeTransitive
  <2> QED
    BY <1>2, <1>6, <2>2, <2>3 DEF Sound, Woke
<1> QED
  BY <1>7, <1>9, <1>10

-----------------------------------------------------------------------------
(* Where the scheduler starts.                                              *)

(* The tasks in some order.                                                 *)
LEMMA OrderIs ==
    LET order == SetToSeq(Tasks) IN
    /\ order \in Seq(Tasks) /\ IsInjective(order) /\ ToSet(order) = Tasks
    /\ Last(order) \in Tasks
<1>a. PICK n : n = Cardinality(Tasks)
  OBVIOUS
<1>1. IsFiniteSet(Tasks) /\ n \in Nat /\ Tasks # {}
  BY <1>a, SchedulerAssumption, FS_CardinalityType
<1>2. ExistsBijection(1..n, Tasks)
  BY <1>a, <1>1, FS_CardinalityType
<1>3. PICK b : b \in Bijection(1..n, Tasks)
  BY <1>2 DEF ExistsBijection
<1>4. b \in [1..n -> Tasks] /\ IsInjective(b)
  BY <1>3 DEF Bijection, Injection
<1>b. PICK order : order = SetToSeq(Tasks)
  OBVIOUS
<1>5. order \in [1..n -> Tasks] /\ IsInjective(order)
  BY <1>a, <1>b, <1>4 DEF SetToSeq
<1>6. order \in Injection(1..n, Tasks)
  BY <1>5 DEF Injection
<1>7. Cardinality(1..n) = n
  BY <1>1, UpTo
<1>8. order \in Surjection(1..n, Tasks)
  BY <1>a, <1>1, <1>6, <1>7, FS_Injection
<1>9. order \in Seq(Tasks) /\ Len(order) = n /\ DOMAIN order = 1..n
  BY <1>1, <1>5, SeqDef, LenProperties
<1>10. ToSet(order) = Tasks
  BY <1>5, <1>8, <1>9 DEF Surjection, ToSet
<1>11. n # 0
  BY <1>1, <1>9, <1>10 DEF ToSet
<1>12. Last(order) \in Tasks
  BY <1>1, <1>5, <1>9, <1>11 DEF Last
<1> QED
  BY <1>b, <1>5, <1>9, <1>10, <1>12

(* All tasks are ready, and the one created last runs.                     *)
LEMMA KernelInitIs ==
    ASSUME NEW k, k = KernelInit
    PROVE  /\ Sound(k, 1) /\ Looked(k)
           /\ k.pxCurrentTCB \in Tasks /\ k.pxCurrentTCB \in ToSet(k.ready)
           /\ k.pending = <<>> /\ k.send = <<>> /\ k.receive = <<>>
           /\ k.uxSchedulerSuspended = 0
<1>a. PICK order : order = SetToSeq(Tasks)
  OBVIOUS
<1>b. PICK ring : ring = Append(order, Marker)
  OBVIOUS
<1>c. PICK last : last = Last(order)
  OBVIOUS
<1>d. PICK zero : zero = [t \in Tasks |-> 0]
  OBVIOUS
<1>1. /\ order \in Seq(Tasks) /\ IsInjective(order) /\ ToSet(order) = Tasks /\ last \in Tasks
  BY <1>a, <1>c, OrderIs
<1>2. order \in Seq(Tasks \cup {Marker}) /\ Marker \notin ToSet(order)
  BY <1>1, SchedulerAssumption, SeqDef
<1>3. /\ ring \in Seq(Tasks \cup {Marker}) /\ IsInjective(ring)
      /\ ToSet(ring) = Tasks \cup {Marker}
  <2>1. Marker \in Tasks \cup {Marker}
    OBVIOUS
  <2> QED
    BY <1>1, <1>2, <1>b, <2>1, AppendKeeps
<1>4. TickWrap \in Nat \ {0} /\ OverflowWrap \in Nat \ {0} /\ portMAX_DELAY \in 0..TickWrap - 1
  BY SchedulerAssumption DEF portMAX_DELAY
<1>5. zero \in [Tasks -> 0..TickWrap - 1]
  BY <1>4, <1>d
<1>6. k = [ pxCurrentTCB |-> last, ready |-> ring, delayed |-> <<>>, overflow |-> <<>>,
            suspended |-> {}, pending |-> <<>>, send |-> <<>>, receive |-> <<>>,
            value |-> zero, xTickCount |-> 0, xNumOfOverflows |-> 0,
            xNextTaskUnblockTime |-> portMAX_DELAY, uxSchedulerSuspended |-> 0,
            uxPendedTicks |-> 0, xYieldPending |-> FALSE, pendSV |-> FALSE ]
  BY <1>a, <1>b, <1>c, <1>d DEF KernelInit
<1>e. PICK none : none = <<>>
  OBVIOUS
<1>7. none \in Seq(Tasks) /\ ToSet(none) = {} /\ DOMAIN none = {} /\ IsInjective(none)
  BY <1>e, EmptySeq, EmptyList DEF ToSet, IsInjective
<1>8. /\ k \in KernelType
      /\ k.pxCurrentTCB = last /\ k.ready = ring /\ k.delayed = none /\ k.overflow = none
      /\ k.suspended = {} /\ k.pending = none /\ k.send = none /\ k.receive = none
      /\ k.uxSchedulerSuspended = 0
  BY <1>1, <1>3, <1>4, <1>5, <1>6, <1>7, <1>e DEF KernelType
<1>9. Linked(k, {})
  BY <1>3, <1>7, <1>8 DEF Linked, Waiting
<1>10. Due(k, 1) /\ Held(k) /\ Looked(k)
  BY <1>7, <1>8 DEF Due, Held, Looked, Sorted
<1> QED
  BY <1>1, <1>3, <1>8, <1>9, <1>10, <1>e DEF Sound

-----------------------------------------------------------------------------
(* Sleep while time stands still.                                           *)

(* A state of the scheduler has these fields.                               *)
LEMMA FieldsAre ==
    ASSUME NEW k \in KernelType
    PROVE  DOMAIN k = {"pxCurrentTCB", "ready", "delayed", "overflow", "suspended", "pending",
                       "send", "receive", "value", "xTickCount", "xNumOfOverflows",
                       "xNextTaskUnblockTime", "uxSchedulerSuspended", "uxPendedTicks",
                       "xYieldPending", "pendSV"}
BY DEF KernelType

(* Every ready task has one less to wait for, or runs.                     *)
LEMMA SwitchContextTurns ==
    ASSUME NEW k, Linked(k, {}), k.uxSchedulerSuspended = 0, NEW u, u = SwitchContext(k),
           NEW t \in Tasks, t \in ToSet(k.ready), u.pxCurrentTCB # t
    PROVE  /\ Before(u.ready, t) \subseteq Before(k.ready, t)
           /\ Before(u.ready, t) # Before(k.ready, t)
<1>0. /\ k \in KernelType /\ k.ready \in Seq(Tasks \cup {Marker}) /\ IsInjective(k.ready)
      /\ Marker \in ToSet(k.ready) /\ t # Marker
  BY SchedulerAssumption DEF Linked, KernelType
<1>1. k.ready # <<Marker>>
  BY <1>0 DEF ToSet
<1>a. PICK ring : ring = NextEntry(k.ready)
  OBVIOUS
<1>2. u = [k EXCEPT !.xYieldPending = FALSE, !.pendSV = FALSE, !.ready = ring,
                    !.pxCurrentTCB = Last(ring)]
  <2>1. u = [k EXCEPT !.xYieldPending = FALSE, !.pendSV = FALSE,
                      !.ready = IF k.ready = <<Marker>> THEN @ ELSE ring,
                      !.pxCurrentTCB = IF k.ready = <<Marker>> THEN Idle ELSE Last(ring)]
    BY <1>a DEF SwitchContext
  <2> QED
    BY <1>1, <2>1, Zenon
<1>3. u.ready = ring /\ u.pxCurrentTCB = Last(ring)
  BY <1>0, <1>2, FieldsAre
<1>4. /\ Before(ring, t) \subseteq Before(k.ready, t)
      /\ Last(ring) \in Before(k.ready, t) /\ Last(ring) \notin Before(ring, t)
  BY <1>0, <1>1, <1>3, <1>a, NextEntryBefore
<1> QED
  BY <1>3, <1>4

(* From k to u time stands still, and the tasks that wait for no event and  *)
(* are not out stay as they were, asleep or not.                            *)
Rests(k, u, out) ==
    /\ u.xTickCount = k.xTickCount /\ u.xNumOfOverflows = k.xNumOfOverflows
    /\ \A x \in Tasks \ out :
         x \notin Waiting(k) =>
           /\ x \notin Waiting(u) /\ u.value[x] = k.value[x]
           /\ x \in ToSet(u.delayed) <=> x \in ToSet(k.delayed)
           /\ x \in ToSet(u.overflow) <=> x \in ToSet(k.overflow)

(* One such step after another is one.                                      *)
LEMMA RestsTransitive ==
    ASSUME NEW k, NEW s, NEW u, NEW out, Rests(k, s, out), Rests(s, u, out)
    PROVE  Rests(k, u, out)
BY DEF Rests

(* Who is out needs not stay.                                               *)
LEMMA RestsMore ==
    ASSUME NEW k, NEW u, NEW out, Rests(k, u, {})
    PROVE  Rests(k, u, out)
BY DEF Rests

(* A task that leaves its list leaves the others where they are.            *)
LEMMA UnlinkRests ==
    ASSUME NEW k, Linked(k, {}), NEW t \in Tasks, NEW u, u = Unlink(k, t)
    PROVE  Rests(k, u, {t}) /\ u.uxPendedTicks = k.uxPendedTicks
<1>0. /\ k \in KernelType
      /\ IsInjective(k.delayed) /\ IsInjective(k.overflow)
      /\ k.delayed \in Seq(Tasks) /\ k.overflow \in Seq(Tasks)
      /\ k.value \in [Tasks -> 0..TickWrap - 1]
  BY DEF Linked, KernelType
<1>1. /\ ToSet(RemoveFirst(k.delayed, t)) = ToSet(k.delayed) \ {t}
      /\ ToSet(RemoveFirst(k.overflow, t)) = ToSet(k.overflow) \ {t}
  BY <1>0, RemoveFirstKeeps
<1>2. /\ u.delayed = RemoveFirst(k.delayed, t) /\ u.overflow = RemoveFirst(k.overflow, t)
      /\ u.value = [k.value EXCEPT ![t] = 0]
      /\ u.pending = k.pending /\ u.send = k.send /\ u.receive = k.receive
      /\ u.xTickCount = k.xTickCount /\ u.xNumOfOverflows = k.xNumOfOverflows
      /\ u.uxPendedTicks = k.uxPendedTicks
  BY <1>0, FieldsAre DEF Unlink
<1> QED
  BY <1>0, <1>1, <1>2 DEF Rests, Waiting

(* The ready list has no part in it ...                                     *)
LEMMA AddToReadyRests ==
    ASSUME NEW k \in KernelType, NEW t, NEW u, u = AddToReady(k, t), NEW out
    PROVE  Rests(k, u, out) /\ u.uxPendedTicks = k.uxPendedTicks
<1>1. /\ u.delayed = k.delayed /\ u.overflow = k.overflow /\ u.value = k.value
      /\ u.pending = k.pending /\ u.send = k.send /\ u.receive = k.receive
      /\ u.xTickCount = k.xTickCount /\ u.xNumOfOverflows = k.xNumOfOverflows
      /\ u.uxPendedTicks = k.uxPendedTicks
  BY FieldsAre DEF AddToReady
<1> QED
  BY <1>1 DEF Rests, Waiting

(* ... nor has an event list, but for those that wait in it ...             *)
LEMMA LeaveEventRests ==
    ASSUME NEW k, Linked(k, {}), NEW t \in Tasks, NEW u, u = LeaveEvent(k, t)
    PROVE  Rests(k, u, {})
<1>0. /\ k \in KernelType /\ IsInjective(k.send) /\ IsInjective(k.receive)
      /\ k.send \in Seq(Tasks) /\ k.receive \in Seq(Tasks)
  BY DEF Linked, KernelType
<1>1. /\ ToSet(RemoveFirst(k.send, t)) = ToSet(k.send) \ {t}
      /\ ToSet(RemoveFirst(k.receive, t)) = ToSet(k.receive) \ {t}
  BY <1>0, RemoveFirstKeeps
<1>2. /\ u.send = RemoveFirst(k.send, t) /\ u.receive = RemoveFirst(k.receive, t)
      /\ u.delayed = k.delayed /\ u.overflow = k.overflow /\ u.value = k.value
      /\ u.pending = k.pending
      /\ u.xTickCount = k.xTickCount /\ u.xNumOfOverflows = k.xNumOfOverflows
  BY <1>0, FieldsAre DEF LeaveEvent
<1> QED
  BY <1>1, <1>2 DEF Rests, Waiting

(* ... nor has a yield ...                                                  *)
LEMMA YieldRests ==
    ASSUME NEW k \in KernelType, NEW u, u = Yield(k), NEW out
    PROVE  Rests(k, u, out)
<1>1. /\ u.delayed = k.delayed /\ u.overflow = k.overflow /\ u.value = k.value
      /\ u.pending = k.pending /\ u.send = k.send /\ u.receive = k.receive
      /\ u.xTickCount = k.xTickCount /\ u.xNumOfOverflows = k.xNumOfOverflows
  BY FieldsAre DEF Yield
<1> QED
  BY <1>1 DEF Rests, Waiting

(* ... nor a switch.                                                        *)
LEMMA SwitchContextRests ==
    ASSUME NEW k \in KernelType, NEW u, u = SwitchContext(k)
    PROVE  Rests(k, u, {})
<1>1. /\ u.delayed = k.delayed /\ u.overflow = k.overflow /\ u.value = k.value
      /\ u.pending = k.pending /\ u.send = k.send /\ u.receive = k.receive
      /\ u.xTickCount = k.xTickCount /\ u.xNumOfOverflows = k.xNumOfOverflows
  <2>1. CASE k.uxSchedulerSuspended = 1
    BY <2>1, FieldsAre DEF SwitchContext
  <2>2. CASE k.uxSchedulerSuspended # 1
    BY <2>2, FieldsAre DEF SwitchContext
  <2> QED
    BY <2>1, <2>2
<1> QED
  BY <1>1 DEF Rests, Waiting

(* The one that is woken waited for the event.                              *)
LEMMA RemoveFromEventListRests ==
    ASSUME NEW k, Linked(k, {}), NEW event \in {"send", "receive"}, k[event] # <<>>,
           NEW u, u = RemoveFromEventList(k, event)
    PROVE  Rests(k, u, {})
<1>0. k \in KernelType /\ event \in DOMAIN k
  BY FieldsAre DEF Linked
<1>1. k[event] \in Seq(Tasks) /\ IsInjective(k[event])
  <2>1. CASE event = "send"
    BY <2>1 DEF Linked, KernelType
  <2>2. CASE event = "receive"
    BY <2>2 DEF Linked, KernelType
  <2> QED
    BY <2>1, <2>2
<1>a. PICK t : t = Head(k[event])
  OBVIOUS
<1>b. PICK rest : rest = Tail(k[event])
  OBVIOUS
<1>c. PICK k1 : k1 = [k EXCEPT ![event] = rest, !.xYieldPending = TRUE]
  OBVIOUS
<1>2. /\ t \in Tasks /\ t \in ToSet(k[event]) /\ rest \in Seq(Tasks) /\ IsInjective(rest)
      /\ ToSet(rest) = ToSet(k[event]) \ {t}
  BY <1>1, <1>a, <1>b, TailKeeps
<1>3. /\ k1.send = IF event = "send" THEN rest ELSE k.send
      /\ k1.receive = IF event = "receive" THEN rest ELSE k.receive
      /\ k1.pending = k.pending
  BY <1>0, <1>c, FieldsAre
<1>4. /\ k1.ready = k.ready /\ k1.delayed = k.delayed /\ k1.overflow = k.overflow
      /\ k1.suspended = k.suspended /\ k1.value = k.value
      /\ k1.xTickCount = k.xTickCount /\ k1.xNumOfOverflows = k.xNumOfOverflows
  BY <1>0, <1>c, FieldsAre
<1>5. t \in Waiting(k) /\ Waiting(k1) = Waiting(k) \ {t}
  <2>1. CASE event = "send"
    BY <1>2, <1>3, <2>1 DEF Linked, Waiting
  <2>2. CASE event = "receive"
    BY <1>2, <1>3, <2>2 DEF Linked, Waiting
  <2> QED
    BY <2>1, <2>2
<1>6. k1 \in KernelType
  <2>1. CASE event = "send"
    BY <1>0, <1>2, <1>c, <2>1 DEF KernelType
  <2>2. CASE event = "receive"
    BY <1>0, <1>2, <1>c, <2>2 DEF KernelType
  <2> QED
    BY <2>1, <2>2
<1>7. Rests(k, k1, {})
  BY <1>4, <1>5 DEF Rests
<1>8. CASE k.uxSchedulerSuspended = 0
  <2>1. u = AddToReady(Unlink(k1, t), t)
    BY <1>8, <1>a, <1>b, <1>c DEF RemoveFromEventList
  <2>2. Linked(k1, {})
    <3>1. CASE event = "send"
      BY <1>2, <1>3, <1>4, <1>5, <1>6, <3>1 DEF Linked, Waiting
    <3>2. CASE event = "receive"
      BY <1>2, <1>3, <1>4, <1>5, <1>6, <3>2 DEF Linked, Waiting
    <3> QED
      BY <3>1, <3>2
  <2>a. PICK k2 : k2 = Unlink(k1, t)
    OBVIOUS
  <2>3. Rests(k1, k2, {t}) /\ k2 \in KernelType
    BY <1>2, <2>2, <2>a, UnlinkRests, UnlinkKeeps DEF Linked
  <2>4. Rests(k2, u, {t})
    BY <2>1, <2>3, <2>a, AddToReadyRests
  <2>5. Rests(k, u, {t})
    BY <1>7, <2>3, <2>4, RestsMore, RestsTransitive
  <2> QED
    BY <1>5, <2>5 DEF Rests
<1>9. CASE k.uxSchedulerSuspended # 0
  <2>1. u = [k1 EXCEPT !.pending = Append(@, t)]
    BY <1>9, <1>a, <1>b, <1>c DEF RemoveFromEventList
  <2>2. ToSet(Append(k1.pending, t)) = ToSet(k1.pending) \cup {t}
    <3>1. k1.pending \in Seq(Tasks) /\ IsInjective(k1.pending) /\ t \notin ToSet(k1.pending)
      BY <1>3, <1>5, <1>6 DEF Linked, KernelType, Waiting
    <3> QED
      BY <1>2, <3>1, AppendKeeps
  <2>3. /\ u.pending = Append(k1.pending, t)
        /\ u.delayed = k1.delayed /\ u.overflow = k1.overflow
        /\ u.send = k1.send /\ u.receive = k1.receive /\ u.value = k1.value
        /\ u.xTickCount = k1.xTickCount /\ u.xNumOfOverflows = k1.xNumOfOverflows
    BY <1>6, <2>1, FieldsAre
  <2>4. Rests(k1, u, {t})
    BY <2>2, <2>3 DEF Rests, Waiting
  <2>5. Rests(k, u, {t})
    BY <1>7, <2>4, RestsMore, RestsTransitive
  <2> QED
    BY <1>5, <2>5 DEF Rests
<1> QED
  BY <1>8, <1>9

(* How many ticks t must still see is not more than its place among the     *)
(* delays gives it; l is that number, and 0 for a task that does not sleep. *)
Slept(k, t, l) ==
    /\ t \in ToSet(k.delayed) => l <= k.value[t] - k.xTickCount
    /\ t \in ToSet(k.overflow) => l <= k.value[t] + TickWrap - k.xTickCount
    /\ t \notin ToSet(k.delayed) \cup ToSet(k.overflow) => l = 0

(* Only t goes to sleep, and for no less than the ticks it asked for.       *)
LEMMA AddToDelayedRests ==
    ASSUME NEW k, NEW t \in Tasks, Linked(k, {t}), Due(k, 1),
           NEW ticks \in 1..TickWrap - 1, NEW u, u = AddToDelayed(k, t, TimeToWake(k, ticks))
    PROVE  Rests(k, u, {t}) /\ Slept(u, t, ticks)
<1>a. PICK wake : wake = TimeToWake(k, ticks)
  OBVIOUS
<1>b. PICK v : v = [k.value EXCEPT ![t] = wake]
  OBVIOUS
<1>0. /\ k \in KernelType /\ TickWrap \in Nat \ {0}
      /\ k.delayed \in Seq(Tasks) /\ k.overflow \in Seq(Tasks)
      /\ IsInjective(k.delayed) /\ IsInjective(k.overflow)
      /\ t \notin ToSet(k.delayed) /\ t \notin ToSet(k.overflow)
      /\ k.xTickCount \in 0..TickWrap - 1 /\ k.value \in [Tasks -> 0..TickWrap - 1]
  BY SchedulerAssumption DEF Linked, KernelType
<1>1. /\ wake \in 0..TickWrap - 1
      /\ wake = IF k.xTickCount + ticks < TickWrap THEN k.xTickCount + ticks
                                                   ELSE k.xTickCount + ticks - TickWrap
  BY <1>0, <1>a, WakeLater DEF TimeToWake
<1>e. IF wake < k.xTickCount THEN ticks <= wake + TickWrap - k.xTickCount
                             ELSE ticks <= wake - k.xTickCount
  <2>1. k.xTickCount \in Nat /\ ticks \in Nat /\ ticks < TickWrap /\ TickWrap \in Nat
    BY <1>0
  <2>2. CASE k.xTickCount + ticks < TickWrap
    <3>1. wake = k.xTickCount + ticks
      BY <1>1, <2>2
    <3> QED
      BY <2>1, <3>1
  <2>3. CASE ~(k.xTickCount + ticks < TickWrap)
    <3>1. wake = k.xTickCount + ticks - TickWrap
      BY <1>1, <2>3
    <3> QED
      BY <2>1, <3>1
  <2> QED
    BY <2>2, <2>3
<1>2. /\ v \in [Tasks -> Nat] /\ v[t] = wake
      /\ \A x \in Tasks : x # t => v[x] = k.value[x]
  BY <1>0, <1>1, <1>b
<1>3. u = IF wake < k.xTickCount
          THEN [k EXCEPT !.value = v, !.overflow = Insert(@, t, v)]
          ELSE [k EXCEPT !.value = v, !.delayed = Insert(@, t, v),
                         !.xNextTaskUnblockTime = IF wake < @ THEN wake ELSE @]
  BY <1>a, <1>b DEF AddToDelayed
<1>4. Sorted(k.delayed, v) /\ Sorted(k.overflow, v)
  <2>1. /\ \A i \in DOMAIN k.delayed : k.delayed[i] \in Tasks /\ k.delayed[i] # t
        /\ \A i \in DOMAIN k.overflow : k.overflow[i] \in Tasks /\ k.overflow[i] # t
    <3>1. ToSet(k.delayed) \subseteq Tasks \ {t} /\ ToSet(k.overflow) \subseteq Tasks \ {t}
      BY <1>0, Elements
    <3> QED
      BY <3>1 DEF ToSet
  <2> QED
    BY <1>2, <2>1 DEF Due, Sorted
<1>5. /\ u.value = v /\ u.send = k.send /\ u.receive = k.receive /\ u.pending = k.pending
      /\ u.xTickCount = k.xTickCount /\ u.xNumOfOverflows = k.xNumOfOverflows
  <2>1. CASE wake < k.xTickCount
    BY <1>0, <1>3, <2>1, FieldsAre
  <2>2. CASE ~(wake < k.xTickCount)
    BY <1>0, <1>3, <2>2, FieldsAre
  <2> QED
    BY <2>1, <2>2
<1>f. /\ Insert(k.delayed, t, v) \in Seq(Tasks) /\ IsInjective(Insert(k.delayed, t, v))
      /\ ToSet(Insert(k.delayed, t, v)) = ToSet(k.delayed) \cup {t}
      /\ Sorted(Insert(k.delayed, t, v), v)
  BY <1>0, <1>2, <1>4, InsertKeeps
<1>g. /\ Insert(k.overflow, t, v) \in Seq(Tasks) /\ IsInjective(Insert(k.overflow, t, v))
      /\ ToSet(Insert(k.overflow, t, v)) = ToSet(k.overflow) \cup {t}
      /\ Sorted(Insert(k.overflow, t, v), v)
  BY <1>0, <1>2, <1>4, InsertKeeps
<1>6. CASE wake < k.xTickCount
  <2>1. u.delayed = k.delayed /\ u.overflow = Insert(k.overflow, t, v)
    BY <1>0, <1>3, <1>6, FieldsAre
  <2>2. ToSet(u.overflow) = ToSet(k.overflow) \cup {t}
    BY <1>g, <2>1
  <2>3. Rests(k, u, {t})
    BY <1>2, <1>5, <2>1, <2>2 DEF Rests, Waiting
  <2>4. ticks <= wake + TickWrap - k.xTickCount
    BY <1>e, <1>6
  <2>5. u.value[t] = wake /\ u.xTickCount = k.xTickCount
    BY <1>2, <1>5
  <2>6. t \notin ToSet(u.delayed) /\ t \in ToSet(u.overflow)
    BY <1>0, <2>1, <2>2
  <2>7. Slept(u, t, ticks)
    BY <2>4, <2>5, <2>6 DEF Slept
  <2> QED
    BY <2>3, <2>7
<1>7. CASE ~(wake < k.xTickCount)
  <2>1. u.overflow = k.overflow /\ u.delayed = Insert(k.delayed, t, v)
    BY <1>0, <1>3, <1>7, FieldsAre
  <2>2. ToSet(u.delayed) = ToSet(k.delayed) \cup {t}
    BY <1>f, <2>1
  <2>3. Rests(k, u, {t})
    BY <1>2, <1>5, <2>1, <2>2 DEF Rests, Waiting
  <2>4. ticks <= wake - k.xTickCount
    BY <1>e, <1>7
  <2>5. u.value[t] = wake /\ u.xTickCount = k.xTickCount
    BY <1>2, <1>5
  <2>6. t \in ToSet(u.delayed) /\ t \notin ToSet(u.overflow)
    BY <1>0, <2>1, <2>2
  <2>7. Slept(u, t, ticks)
    BY <2>4, <2>5, <2>6 DEF Slept
  <2> QED
    BY <2>3, <2>7
<1> QED
  BY <1>6, <1>7

(* vTaskDelay does that with a task that was ready.                         *)
LEMMA DelayRests ==
    ASSUME NEW k, Linked(k, {}), Due(k, 1), NEW t \in Tasks,
           NEW ticks \in 1..TickWrap - 1, NEW u, u = Delay(k, t, ticks)
    PROVE  Rests(k, u, {t}) /\ Slept(u, t, ticks)
<1>a. PICK s : s = Unlink(k, t)
  OBVIOUS
<1>1. Linked(s, {t}) /\ Due(s, 1) /\ Rests(k, s, {t})
  BY <1>a, UnlinkKeeps, UnlinkRests
<1>2. u = AddToDelayed(s, t, TimeToWake(s, ticks))
  BY <1>1, <1>a DEF Delay, TimeToWake, Rests
<1>3. Rests(s, u, {t}) /\ Slept(u, t, ticks)
  BY <1>1, <1>2, AddToDelayedRests
<1> QED
  BY <1>1, <1>3, RestsTransitive

(* A task that waits for an event leaves the others where they are.         *)
LEMMA PlaceOnEventListRests ==
    ASSUME NEW k, Linked(k, {}), Due(k, 1), Looked(k), NEW t \in Tasks, t \notin Waiting(k),
           NEW event \in {"send", "receive"}, NEW ticks \in 1..TickWrap - 1,
           NEW u, u = PlaceOnEventList(k, t, event, ticks)
    PROVE  Rests(k, u, {t})
<1>a. PICK s : s = Unlink(k, t)
  OBVIOUS
<1>b. PICK k1 : k1 = Queued(s, t, event)
  OBVIOUS
<1>c. QueuedIs(k, s, k1, t, event)
  BY <1>a, <1>b, QueuedKeeps
<1>0. s \in KernelType
  BY <1>a, UnlinkKeeps DEF Linked
<1>1. /\ k1 = Unlink([k EXCEPT ![event] = Append(@, t)], t)
      /\ Linked(k1, {t}) /\ Due(k1, 1) /\ Waiting(k1) = Waiting(k) \cup {t}
      /\ k1 \in KernelType
      /\ k1.delayed = s.delayed /\ k1.overflow = s.overflow /\ k1.value = s.value
      /\ k1.xTickCount = s.xTickCount
  BY <1>c DEF QueuedIs
<1>2. k1.xNumOfOverflows = s.xNumOfOverflows
  BY <1>0, <1>b, FieldsAre DEF Queued
<1>3. Rests(k, s, {t})
  BY <1>a, UnlinkRests
<1>4. Rests(k, k1, {t})
  BY <1>1, <1>2, <1>3 DEF Rests
<1>5. u = IF ticks = portMAX_DELAY THEN [k1 EXCEPT !.suspended = @ \cup {t}]
          ELSE AddToDelayed(k1, t, TimeToWake(k, ticks))
  BY <1>1 DEF PlaceOnEventList
<1>6. CASE ticks = portMAX_DELAY
  <2>1. /\ u.delayed = k1.delayed /\ u.overflow = k1.overflow /\ u.value = k1.value
        /\ u.pending = k1.pending /\ u.send = k1.send /\ u.receive = k1.receive
        /\ u.xTickCount = k1.xTickCount /\ u.xNumOfOverflows = k1.xNumOfOverflows
    BY <1>1, <1>5, <1>6, FieldsAre
  <2>2. Rests(k1, u, {t})
    BY <2>1 DEF Rests, Waiting
  <2> QED
    BY <1>4, <2>2, RestsTransitive
<1>7. CASE ticks # portMAX_DELAY
  <2>1. u = AddToDelayed(k1, t, TimeToWake(k1, ticks))
    BY <1>4, <1>5, <1>7 DEF TimeToWake, Rests
  <2>2. Rests(k1, u, {t})
    BY <1>1, <2>1, AddToDelayedRests
  <2> QED
    BY <1>4, <2>2, RestsTransitive
<1> QED
  BY <1>6, <1>7

(* The first of the pending is made ready, and it was waiting.              *)
LEMMA MoveFirstRests ==
    ASSUME NEW k, Linked(k, {}), NEW u, u = MoveFirst(k)
    PROVE  Rests(k, u, {}) /\ u.uxPendedTicks = k.uxPendedTicks
<1>1. CASE k.pending = <<>>
  BY <1>1 DEF MoveFirst, Rests
<1>2. CASE k.pending # <<>>
  <2>0. k \in KernelType /\ k.pending \in Seq(Tasks) /\ IsInjective(k.pending)
    BY DEF Linked, KernelType
  <2>a. PICK t : t = Head(k.pending)
    OBVIOUS
  <2>b. PICK p : p = Tail(k.pending)
    OBVIOUS
  <2>1. /\ t \in Tasks /\ t \in ToSet(k.pending) /\ p \in Seq(Tasks) /\ IsInjective(p)
        /\ ToSet(p) = ToSet(k.pending) \ {t}
    BY <1>2, <2>0, <2>a, <2>b, TailKeeps
  <2>c. PICK k1 : k1 = [k EXCEPT !.pending = p, !.xYieldPending = TRUE]
    OBVIOUS
  <2>2. k1 \in KernelType
    BY <2>0, <2>1, <2>c DEF KernelType
  <2>3. /\ k1.pending = p /\ k1.ready = k.ready /\ k1.suspended = k.suspended
        /\ k1.delayed = k.delayed /\ k1.overflow = k.overflow
        /\ k1.send = k.send /\ k1.receive = k.receive /\ k1.value = k.value
    BY <2>0, <2>c, FieldsAre
  <2>4. /\ k1.xTickCount = k.xTickCount /\ k1.xNumOfOverflows = k.xNumOfOverflows
        /\ k1.uxPendedTicks = k.uxPendedTicks
    BY <2>0, <2>c, FieldsAre
  <2>5. t \in Waiting(k) /\ Waiting(k1) = Waiting(k) \ {t}
    BY <2>1, <2>3 DEF Linked, Waiting
  <2>6. Rests(k, k1, {t})
    BY <2>3, <2>4, <2>5 DEF Rests
  <2>e. Linked(k1, {})
    BY <2>1, <2>2, <2>3, <2>5 DEF Linked, Waiting
  <2>d. PICK k2 : k2 = Unlink(k1, t)
    OBVIOUS
  <2>7. Rests(k1, k2, {t}) /\ k2.uxPendedTicks = k1.uxPendedTicks
    BY <2>1, <2>e, <2>d, UnlinkRests
  <2>f. k2 \in KernelType
    <3>1. Linked(k2, {t})
      BY <2>1, <2>e, <2>d, UnlinkKeeps
    <3> QED
      BY <3>1 DEF Linked
  <2>8. u = AddToReady(k2, t)
    BY <1>2, <2>a, <2>b, <2>c, <2>d DEF MoveFirst
  <2>9. Rests(k2, u, {t}) /\ u.uxPendedTicks = k2.uxPendedTicks
    BY <2>f, <2>8, AddToReadyRests
  <2>10. Rests(k, u, {t})
    BY <2>6, <2>7, <2>9, RestsTransitive
  <2> QED
    BY <2>4, <2>5, <2>7, <2>9, <2>10 DEF Rests
<1> QED
  BY <1>1, <1>2

(* All the pending are.                                                     *)
LEMMA MoveAllRests ==
    ASSUME NEW k, Sound(k, 1), Looked(k), NEW u, u = Rounds(MoveFirst, Len(k.pending), k)
    PROVE  Rests(k, u, {}) /\ u.uxPendedTicks = k.uxPendedTicks
<1> DEFINE n == Len(k.pending)
           Good(s) == /\ Sound(s, 1) /\ Looked(s)
                      /\ Rests(k, s, {}) /\ s.uxPendedTicks = k.uxPendedTicks
           P == {p \in Nat \X KernelType : Good(p[2])}
<1>0. k \in KernelType /\ k.pending \in Seq(Tasks) /\ n \in Nat
  BY LenProperties DEF Sound, Linked, KernelType
<1>1. PICK f : /\ f[0] = k /\ \A i \in 1..n : f[i] = MoveFirst(f[i - 1])
               /\ Rounds(MoveFirst, n, k) = f[n]
  BY <1>0, MoveRounds
<1>2. <<0, f[0]>> \in P
  <2>1. Good(k)
    BY DEF Rests
  <2> QED
    BY <1>0, <1>1, <2>1
<1>3. ASSUME NEW i \in 1..n, <<i - 1, f[i - 1]>> \in P PROVE <<i, f[i]>> \in P
  <2>a. PICK s : s = f[i - 1]
    OBVIOUS
  <2>b. PICK v : v = f[i]
    OBVIOUS
  <2>1. Good(s) /\ v = MoveFirst(s)
    BY <1>1, <1>3, <2>a, <2>b
  <2>d. Sound(v, 1) /\ Looked(v)
    BY <2>1, MoveFirstKeeps
  <2>2. Sound(v, 1) /\ Looked(v) /\ v \in KernelType
    BY <2>d DEF Sound, Linked
  <2>e. Linked(s, {})
    BY <2>1 DEF Sound
  <2>3. Rests(s, v, {}) /\ v.uxPendedTicks = s.uxPendedTicks
    BY <2>1, <2>e, MoveFirstRests
  <2>4. Good(v)
    BY <2>1, <2>2, <2>3, RestsTransitive
  <2> QED
    BY <1>0, <2>b, <2>2, <2>4
<1>4. <<n, f[n]>> \in P
  <2> HIDE DEF P
  <2> QED
    BY <1>0, <1>2, <1>3, LoopKeeps
<1> QED
  BY <1>1, <1>4

-----------------------------------------------------------------------------
(* Sleep and waits while time goes on.                                      *)

(* What is left of l ticks when n have passed.                              *)
Remaining(l, n) == IF l <= n THEN 0 ELSE l - n

EntryType == [overflows : 0..OverflowWrap - 1, entering : 0..TickWrap - 1]

(* Of a wait of X ticks that began at entry, as many are left as have not   *)
(* been counted, and none when xTaskCheckForTimeOut sees that the tick      *)
(* count went all the way round.                                            *)
Noted(k, entry, X, l) ==
    /\ l = 0 \/ l + Elapsed(k, entry) <= X
    /\ k.xNumOfOverflows # entry.overflows /\ k.xTickCount >= entry.entering => l = 0

(* From k to u, while n ticks are counted, nobody who sleeps loses more     *)
(* than these; nor does any wait that has been noted.                       *)
Sleepers(k, u, n, out) ==
    \A x \in Tasks \ out, l \in Nat :
      x \notin Waiting(k) /\ Slept(k, x, l) => x \notin Waiting(u) /\ Slept(u, x, Remaining(l, n))

Waits(k, u, n) ==
    \A entry \in EntryType, X \in 0..portMAX_DELAY, l \in Nat :
      Noted(k, entry, X, l) => Noted(u, entry, X, Remaining(l, n))

Ages(k, u, n, out) == Sleepers(k, u, n, out) /\ Waits(k, u, n)

(* The ticks of two intervals add up.                                       *)
LEMMA RemainingBoth ==
    ASSUME NEW l \in Nat, NEW m \in Nat, NEW n \in Nat
    PROVE  /\ Remaining(l, m) \in Nat /\ Remaining(Remaining(l, m), n) = Remaining(l, m + n)
           /\ Remaining(l, 0) = l
BY DEF Remaining

(* ... and so does what happens in them.                                    *)
LEMMA AgesThen ==
    ASSUME NEW k, NEW s, NEW u, NEW m \in Nat, NEW n \in Nat, NEW out,
           Ages(k, s, m, out), Ages(s, u, n, out)
    PROVE  Ages(k, u, m + n, out)
<1>1. ASSUME NEW x \in Tasks \ out, NEW l \in Nat, x \notin Waiting(k), Slept(k, x, l)
      PROVE  x \notin Waiting(u) /\ Slept(u, x, Remaining(l, m + n))
  <2>1. x \notin Waiting(s) /\ Slept(s, x, Remaining(l, m)) /\ Remaining(l, m) \in Nat
    BY <1>1, RemainingBoth DEF Ages, Sleepers
  <2>2. x \notin Waiting(u) /\ Slept(u, x, Remaining(Remaining(l, m), n))
    BY <2>1 DEF Ages, Sleepers
  <2> QED
    BY <2>2, RemainingBoth
<1>2. ASSUME NEW entry \in EntryType, NEW X \in 0..portMAX_DELAY, NEW l \in Nat,
             Noted(k, entry, X, l)
      PROVE  Noted(u, entry, X, Remaining(l, m + n))
  <2>1. Noted(s, entry, X, Remaining(l, m)) /\ Remaining(l, m) \in Nat
    BY <1>2, RemainingBoth DEF Ages, Waits
  <2>2. Noted(u, entry, X, Remaining(Remaining(l, m), n))
    BY <2>1 DEF Ages, Waits
  <2> QED
    BY <2>2, RemainingBoth
<1> QED
  BY <1>1, <1>2 DEF Ages, Sleepers, Waits

(* While time stands still nobody ages.                                     *)
LEMMA RestsAges ==
    ASSUME NEW k, NEW u, NEW out, Rests(k, u, out)
    PROVE  Ages(k, u, 0, out)
<1>1. ASSUME NEW x \in Tasks \ out, NEW l \in Nat, x \notin Waiting(k), Slept(k, x, l)
      PROVE  x \notin Waiting(u) /\ Slept(u, x, Remaining(l, 0))
  <2>1. x \notin Waiting(u) /\ Slept(u, x, l)
    BY <1>1 DEF Rests, Slept
  <2> QED
    BY <2>1, RemainingBoth
<1>2. ASSUME NEW entry \in EntryType, NEW X \in 0..portMAX_DELAY, NEW l \in Nat,
             Noted(k, entry, X, l)
      PROVE  Noted(u, entry, X, Remaining(l, 0))
  <2>1. Noted(u, entry, X, l)
    BY <1>2 DEF Rests, Noted, Elapsed
  <2> QED
    BY <2>1, RemainingBoth
<1> QED
  BY <1>1, <1>2 DEF Ages, Sleepers, Waits

(* Nothing that these depend on has changed.                                *)
LEMMA StillAges ==
    ASSUME NEW k, NEW u, NEW out,
           u.send = k.send, u.receive = k.receive, u.pending = k.pending,
           u.delayed = k.delayed, u.overflow = k.overflow, u.value = k.value,
           u.xTickCount = k.xTickCount, u.xNumOfOverflows = k.xNumOfOverflows
    PROVE  Rests(k, u, out) /\ Ages(k, u, 0, out)
<1>1. Rests(k, u, out)
  BY DEF Rests, Waiting
<1> QED
  BY <1>1, RestsAges

(* A task that a tick wakes has slept its time.                             *)
LEMMA WakeFirstAges ==
    ASSUME NEW k, Sound(k, 0), k.pending = <<>>, NEW u, u = WakeFirst(k)
    PROVE  Ages(k, u, 0, {})
<1>a. PICK t : t = Head(k.delayed)
  OBVIOUS
<1>1. CASE k.delayed = <<>> \/ k.value[t] > k.xTickCount
  <2>1. u = k
    BY <1>1, <1>a DEF WakeFirst
  <2> QED
    BY <2>1, StillAges
<1>2. CASE ~(k.delayed = <<>> \/ k.value[t] > k.xTickCount)
  <2>d. /\ Linked(k, {}) /\ k \in KernelType /\ IsInjective(k.delayed) /\ k.delayed # <<>>
    BY <1>2 DEF Sound, Linked
  <2>e. /\ k.delayed \in Seq(Tasks) /\ TickWrap \in Nat
        /\ k.xTickCount \in 0..TickWrap - 1 /\ k.value \in [Tasks -> 0..TickWrap - 1]
    BY <2>d, SchedulerAssumption DEF KernelType
  <2>0. /\ Linked(k, {}) /\ k \in KernelType /\ k.delayed \in Seq(Tasks) /\ IsInjective(k.delayed)
        /\ k.delayed # <<>> /\ k.xTickCount \in Nat /\ k.value \in [Tasks -> Nat]
    BY <2>d, <2>e
  <2>1. t \in Tasks /\ t \in ToSet(k.delayed)
    BY <1>a, <2>0, TailKeeps
  <2>2. u = AddToReady(Unlink(LeaveEvent(k, t), t), t)
    BY <1>2, <1>a DEF WakeFirst
  <2>b. PICK s : s = LeaveEvent(k, t)
    OBVIOUS
  <2>3. t \notin k.suspended /\ Due(k, 0) /\ Held(k)
    BY <2>0, <2>1 DEF Sound, Linked
  <2>4. Linked(s, {}) /\ s \in KernelType
    <3>1. Linked(s, {})
      BY <2>0, <2>1, <2>3, <2>b, LeaveEventKeeps
    <3> QED
      BY <3>1 DEF Linked
  <2>5. Rests(k, s, {t})
    BY <2>0, <2>1, <2>b, LeaveEventRests, RestsMore
  <2>c. PICK v : v = Unlink(s, t)
    OBVIOUS
  <2>6. v \in KernelType
    <3>1. Linked(v, {t})
      BY <2>1, <2>4, <2>c, UnlinkKeeps
    <3> QED
      BY <3>1 DEF Linked
  <2>7. Rests(s, v, {t})
    BY <2>1, <2>4, <2>c, UnlinkRests
  <2>8. Rests(v, u, {t}) /\ Rests(v, u, {})
    BY <2>2, <2>6, <2>b, <2>c, AddToReadyRests
  <2>9. Ages(k, u, 0, {t})
    BY <2>5, <2>7, <2>8, RestsTransitive, RestsAges
  <2>10. t \notin ToSet(u.delayed) /\ t \notin ToSet(u.overflow)
    <3>1. t \notin ToSet(v.delayed) /\ t \notin ToSet(v.overflow)
      <4>1. Linked(v, {t})
        BY <2>1, <2>4, <2>c, UnlinkKeeps
      <4>2. ToSet(v.delayed) \cup ToSet(v.overflow) \subseteq (Tasks \ {t}) \cup {Marker}
        BY <4>1 DEF Linked
      <4> QED
        BY <2>1, <4>2, SchedulerAssumption
    <3>2. u.delayed = v.delayed /\ u.overflow = v.overflow
      BY <2>2, <2>6, <2>b, <2>c, FieldsAre DEF AddToReady
    <3> QED
      BY <3>1, <3>2
  <2>11. t \notin Waiting(k) => t \notin Waiting(u)
    <3>1. Rests(k, s, {})
      BY <2>0, <2>1, <2>b, LeaveEventRests
    <3>2. t \notin Waiting(k) => t \notin Waiting(s)
      BY <2>1, <3>1 DEF Rests
    <3>3. Waiting(v) = Waiting(s)
      BY <2>1, <2>4, <2>c, UnlinkFields DEF Waiting
    <3>4. t \notin Waiting(v) => t \notin Waiting(u)
      BY <2>1, <2>8 DEF Rests
    <3> QED
      BY <3>2, <3>3, <3>4
  <2>12. ASSUME NEW l \in Nat, t \notin Waiting(k), Slept(k, t, l)
         PROVE  t \notin Waiting(u) /\ Slept(u, t, Remaining(l, 0))
    <3>1. l <= k.value[t] - k.xTickCount
      BY <2>1, <2>12 DEF Slept
    <3>2. k.value[t] \in Nat
      BY <2>0, <2>1
    <3>3. l = 0
      BY <1>2, <2>0, <3>1, <3>2
    <3>4. Slept(u, t, 0)
      BY <2>10 DEF Slept
    <3>5. Remaining(l, 0) = 0
      BY <3>3 DEF Remaining
    <3> QED
      BY <2>11, <2>12, <3>4, <3>5
  <2> QED
    BY <2>9, <2>12 DEF Ages, Sleepers
<1> QED
  BY <1>1, <1>2

(* ... and nobody else is touched when those whose time has come wake.      *)
LEMMA ExpireAges ==
    ASSUME NEW k, Sound(k, 0), k.pending = <<>>, NEW u, u = Expire(k)
    PROVE  Ages(k, u, 0, {})
<1> DEFINE n == Len(k.delayed)
           Good(s) == Sound(s, 0) /\ s.pending = <<>> /\ Ages(k, s, 0, {})
           P == {p \in Nat \X KernelType : Good(p[2])}
<1>0. k \in KernelType /\ k.delayed \in Seq(Tasks) /\ n \in Nat
  BY LenProperties DEF Sound, Linked, KernelType
<1>1. PICK f : /\ f[0] = k /\ \A i \in 1..n : f[i] = WakeFirst(f[i - 1])
               /\ Rounds(WakeFirst, n, k) = f[n]
  BY <1>0, WakeRounds
<1>2. <<0, f[0]>> \in P
  <2>1. Good(k)
    BY StillAges
  <2> QED
    BY <1>0, <1>1, <2>1
<1>3. ASSUME NEW i \in 1..n, <<i - 1, f[i - 1]>> \in P PROVE <<i, f[i]>> \in P
  <2>a. PICK s : s = f[i - 1]
    OBVIOUS
  <2>b. PICK v : v = f[i]
    OBVIOUS
  <2>1. Good(s) /\ v = WakeFirst(s)
    BY <1>1, <1>3, <2>a, <2>b
  <2>2. Sound(v, 0) /\ v.pending = <<>>
    BY <2>1, WakeFirstKeeps
  <2>3. v \in KernelType
    BY <2>2 DEF Sound, Linked
  <2>4. Ages(s, v, 0, {})
    BY <2>1, WakeFirstAges
  <2>5. Ages(k, v, 0 + 0, {})
    BY <2>1, <2>4, AgesThen
  <2>6. Good(v)
    BY <2>2, <2>5
  <2> QED
    BY <1>0, <2>b, <2>3, <2>6
<1>4. <<n, f[n]>> \in P
  <2> HIDE DEF P
  <2> QED
    BY <1>0, <1>2, <1>3, LoopKeeps
<1>a. PICK s : s = f[n]
  OBVIOUS
<1>5. Good(s) /\ s \in KernelType
  BY <1>4, <1>a
<1>6. u = [s EXCEPT !.xNextTaskUnblockTime = NextUnblock(s)]
  BY <1>1, <1>a DEF Expire
<1>7. /\ u.send = s.send /\ u.receive = s.receive /\ u.pending = s.pending
      /\ u.delayed = s.delayed /\ u.overflow = s.overflow /\ u.value = s.value
      /\ u.xTickCount = s.xTickCount /\ u.xNumOfOverflows = s.xNumOfOverflows
  BY <1>5, <1>6, FieldsAre
<1>8. Ages(s, u, 0, {})
  BY <1>7, StillAges
<1>9. Ages(k, u, 0 + 0, {})
  BY <1>5, <1>8, AgesThen
<1> QED
  BY <1>9

(* The ticks since an entry, when the tick count may have wrapped.          *)
LEMMA ElapsedSince ==
    ASSUME NEW tick \in 0..TickWrap - 1, NEW from \in 0..TickWrap - 1
    PROVE  (tick - from) % TickWrap = IF tick >= from THEN tick - from ELSE tick - from + TickWrap
<1>1. TickWrap \in Nat \ {0}
  BY SchedulerAssumption
<1>2. CASE tick >= from
  BY <1>1, <1>2, SMTT(30)
<1>3. CASE tick < from
  BY <1>1, <1>3, SMTT(30)
<1> QED
  BY <1>1, <1>2, <1>3

(* What a tick counts: the lists change places when the tick count wraps.   *)
TicksOnce(k, u) ==
    /\ u.send = k.send /\ u.receive = k.receive /\ u.pending = k.pending /\ u.value = k.value
    /\ u.xTickCount = IF k.xTickCount + 1 < TickWrap THEN k.xTickCount + 1 ELSE 0
    /\ IF k.xTickCount + 1 < TickWrap
       THEN /\ u.delayed = k.delayed /\ u.overflow = k.overflow
            /\ u.xNumOfOverflows = k.xNumOfOverflows
       ELSE /\ u.delayed = k.overflow /\ u.overflow = k.delayed
            /\ u.xNumOfOverflows = (k.xNumOfOverflows + 1) % OverflowWrap

(* A tick counts one for everybody who sleeps ...                           *)
LEMMA SleepersTick ==
    ASSUME NEW k, Sound(k, 1), NEW u, TicksOnce(k, u)
    PROVE  Sleepers(k, u, 1, {})
<1>0. /\ TickWrap \in Nat \ {0} /\ k.xTickCount \in 0..TickWrap - 1
      /\ k.value \in [Tasks -> 0..TickWrap - 1]
  BY SchedulerAssumption DEF Sound, Linked, KernelType
<1> SUFFICES ASSUME NEW x \in Tasks, NEW l \in Nat, x \notin Waiting(k), Slept(k, x, l)
             PROVE  x \notin Waiting(u) /\ Slept(u, x, Remaining(l, 1))
  BY DEF Sleepers
<1>1. x \notin Waiting(u)
  BY DEF TicksOnce, Waiting
<1>a. PICK v : v = k.value[x]
  OBVIOUS
<1>b. PICK tick : tick = k.xTickCount
  OBVIOUS
<1>c. PICK m : m = Remaining(l, 1)
  OBVIOUS
<1>2. v \in 0..TickWrap - 1 /\ tick \in 0..TickWrap - 1
  BY <1>0, <1>a, <1>b
<1>3. m = IF l <= 1 THEN 0 ELSE l - 1
  BY <1>c DEF Remaining
<1>4. /\ x \in ToSet(k.delayed) => l <= v - tick /\ v >= tick + 1
      /\ x \in ToSet(k.overflow) => l <= v + TickWrap - tick /\ v < tick
      /\ x \notin ToSet(k.delayed) \cup ToSet(k.overflow) => l = 0
  BY <1>a, <1>b DEF Slept, Sound, Due
<1>5. u.value[x] = v
  BY <1>a DEF TicksOnce
<1>6. CASE tick + 1 < TickWrap
  <2>1. u.delayed = k.delayed /\ u.overflow = k.overflow /\ u.xTickCount = tick + 1
    BY <1>6, <1>b DEF TicksOnce
  <2>2. x \in ToSet(k.delayed) => m <= v - (tick + 1)
    BY <1>2, <1>3, <1>4
  <2>3. x \in ToSet(k.overflow) => m <= v + TickWrap - (tick + 1)
    BY <1>0, <1>2, <1>3, <1>4
  <2>4. x \notin ToSet(k.delayed) \cup ToSet(k.overflow) => m = 0
    BY <1>3, <1>4
  <2> QED
    BY <1>1, <1>5, <1>c, <2>1, <2>2, <2>3, <2>4 DEF Slept
<1>7. CASE ~(tick + 1 < TickWrap)
  <2>1. u.delayed = k.overflow /\ u.overflow = k.delayed /\ u.xTickCount = 0
    BY <1>7, <1>b DEF TicksOnce
  <2>2. tick = TickWrap - 1
    BY <1>0, <1>2, <1>7
  <2>3. x \notin ToSet(k.delayed)
    BY <1>0, <1>2, <1>4, <2>2
  <2>4. x \in ToSet(k.overflow) => m <= v - 0
    BY <1>0, <1>2, <1>3, <1>4, <2>2
  <2>5. x \notin ToSet(k.overflow) => m = 0
    BY <1>3, <1>4, <2>3
  <2> QED
    BY <1>1, <1>5, <1>c, <2>1, <2>3, <2>4, <2>5 DEF Slept
<1> QED
  BY <1>6, <1>7

(* ... and for every wait.                                                  *)
LEMMA WaitsTick ==
    ASSUME NEW k, Sound(k, 1), NEW u, TicksOnce(k, u)
    PROVE  Waits(k, u, 1)
<1>0. TickWrap \in Nat \ {0} /\ k.xTickCount \in 0..TickWrap - 1
  BY SchedulerAssumption DEF Sound, Linked, KernelType
<1> SUFFICES ASSUME NEW entry \in EntryType, NEW X \in 0..portMAX_DELAY, NEW l \in Nat,
                    Noted(k, entry, X, l)
             PROVE  Noted(u, entry, X, Remaining(l, 1))
  BY DEF Waits
<1>a. PICK from : from = entry.entering
  OBVIOUS
<1>b. PICK tick : tick = k.xTickCount
  OBVIOUS
<1>c. PICK now : now = u.xTickCount
  OBVIOUS
<1>d. PICK m : m = Remaining(l, 1)
  OBVIOUS
<1>e. PICK been : been = Elapsed(k, entry)
  OBVIOUS
<1>f. PICK is : is = Elapsed(u, entry)
  OBVIOUS
<1>1. /\ from \in 0..TickWrap - 1 /\ tick \in 0..TickWrap - 1 /\ X \in 0..TickWrap - 1
      /\ now = IF tick + 1 < TickWrap THEN tick + 1 ELSE 0
  BY <1>0, <1>a, <1>b, <1>c DEF EntryType, TicksOnce, portMAX_DELAY
<1>2. now \in 0..TickWrap - 1
  BY <1>0, <1>1
<1>3. m = IF l <= 1 THEN 0 ELSE l - 1
  BY <1>d DEF Remaining
<1>4. been = IF tick >= from THEN tick - from ELSE tick - from + TickWrap
  BY <1>1, <1>a, <1>b, <1>e, ElapsedSince DEF Elapsed
<1>5. is = IF now >= from THEN now - from ELSE now - from + TickWrap
  BY <1>1, <1>2, <1>a, <1>c, <1>f, ElapsedSince DEF Elapsed
<1>6. CASE l = 0
  <2>1. m = 0
    BY <1>3, <1>6
  <2> QED
    BY <1>d, <2>1 DEF Noted
<1>7. CASE l # 0
  <2>1. l + been <= X /\ ~(k.xNumOfOverflows # entry.overflows /\ tick >= from)
    BY <1>7, <1>a, <1>b, <1>e DEF Noted
  <2>2. been + 1 < TickWrap
    BY <1>0, <1>1, <1>4, <1>7, <2>1
  <2>3. is = been + 1
    <3>1. CASE tick + 1 < TickWrap
      <4>1. now = tick + 1
        BY <1>1, <3>1
      <4>2. CASE tick >= from
        BY <1>0, <1>1, <1>4, <1>5, <4>1, <4>2
      <4>3. CASE ~(tick >= from)
        <5>1. been = tick - from + TickWrap
          BY <1>4, <4>3
        <5>2. ~(now >= from)
          BY <1>0, <1>1, <2>2, <4>1, <4>3, <5>1
        <5> QED
          BY <1>0, <1>1, <1>5, <4>1, <5>1, <5>2
      <4> QED
        BY <4>2, <4>3
    <3>2. CASE ~(tick + 1 < TickWrap)
      <4>1. now = 0 /\ tick = TickWrap - 1
        BY <1>0, <1>1, <3>2
      <4>2. been = tick - from
        BY <1>0, <1>1, <1>4, <4>1
      <4>3. from > 0
        BY <1>0, <1>1, <2>2, <4>1, <4>2
      <4> QED
        BY <1>0, <1>1, <1>5, <4>1, <4>2, <4>3
    <3> QED
      BY <3>1, <3>2
  <2>4. m + is <= X
    BY <1>0, <1>1, <1>3, <1>4, <1>7, <2>1, <2>3
  <2>5. ~(u.xNumOfOverflows # entry.overflows /\ now >= from)
    <3>1. CASE tick + 1 < TickWrap
      <4>1. now = tick + 1 /\ u.xNumOfOverflows = k.xNumOfOverflows
        BY <1>1, <1>b, <3>1 DEF TicksOnce
      <4>2. now >= from => tick >= from
        <5> SUFFICES ASSUME now >= from, ~(tick >= from) PROVE FALSE
          OBVIOUS
        <5>1. been = tick - from + TickWrap /\ from = tick + 1
          BY <1>1, <1>4, <4>1
        <5> QED
          BY <1>0, <1>1, <2>2, <5>1
      <4> QED
        BY <2>1, <4>1, <4>2
    <3>2. CASE ~(tick + 1 < TickWrap)
      <4>1. now = 0 /\ tick = TickWrap - 1
        BY <1>0, <1>1, <3>2
      <4>2. been = tick - from
        BY <1>0, <1>1, <1>4, <4>1
      <4>3. from > 0
        BY <1>0, <1>1, <2>2, <4>1, <4>2
      <4> QED
        BY <1>1, <4>1, <4>3
    <3> QED
      BY <3>1, <3>2
  <2>6. m + Elapsed(u, entry) <= X
    BY <1>f, <2>4
  <2> QED
    BY <1>a, <1>c, <1>d, <2>5, <2>6 DEF Noted
<1> QED
  BY <1>6, <1>7

(* taskSWITCH_DELAYED_LISTS at the wrap, and nothing else of a tick count.  *)
LEMMA TicksOnceIs ==
    ASSUME NEW k \in KernelType, NEW k1, NEW k2, Counting(k, k1, k2)
    PROVE  TicksOnce(k, k2)
<1>0. TickWrap \in Nat \ {0} /\ k.xTickCount \in 0..TickWrap - 1
  BY SchedulerAssumption DEF KernelType
<1>a. PICK now : now = (k.xTickCount + 1) % TickWrap
  OBVIOUS
<1>b. k1 = [k EXCEPT !.xTickCount = now]
  BY <1>a DEF Counting
<1>c. k2 = IF k1.xTickCount = 0 THEN SwitchDelayedLists(k1) ELSE k1
  BY DEF Counting
<1>1. now = IF k.xTickCount + 1 < TickWrap THEN k.xTickCount + 1 ELSE 0
  BY <1>0, <1>a, NextTick
<1>2. now = 0 <=> ~(k.xTickCount + 1 < TickWrap)
  BY <1>0, <1>1
<1>3. /\ k1.xTickCount = now /\ k1.delayed = k.delayed /\ k1.overflow = k.overflow
      /\ k1.value = k.value /\ k1.xNumOfOverflows = k.xNumOfOverflows
      /\ k1.pending = k.pending /\ k1.send = k.send /\ k1.receive = k.receive
      /\ DOMAIN k1 = DOMAIN k
  BY <1>b, FieldsAre
<1>4. CASE now = 0
  <2>a. PICK s : s = [k1 EXCEPT !.delayed = k1.overflow, !.overflow = k1.delayed,
                                !.xNumOfOverflows = (@ + 1) % OverflowWrap]
    OBVIOUS
  <2>1. k2 = [s EXCEPT !.xNextTaskUnblockTime = NextUnblock(s)]
    BY <1>3, <1>4, <1>c, <2>a DEF SwitchDelayedLists
  <2>2. /\ s.delayed = k1.overflow /\ s.overflow = k1.delayed
        /\ s.xNumOfOverflows = (k1.xNumOfOverflows + 1) % OverflowWrap
        /\ s.xTickCount = k1.xTickCount /\ s.value = k1.value
        /\ s.pending = k1.pending /\ s.send = k1.send /\ s.receive = k1.receive
        /\ DOMAIN s = DOMAIN k1
    BY <1>3, <2>a, FieldsAre
  <2>3. /\ k2.delayed = s.delayed /\ k2.overflow = s.overflow
        /\ k2.xNumOfOverflows = s.xNumOfOverflows
        /\ k2.xTickCount = s.xTickCount /\ k2.value = s.value
        /\ k2.pending = s.pending /\ k2.send = s.send /\ k2.receive = s.receive
    BY <1>3, <2>1, <2>2, FieldsAre
  <2> QED
    BY <1>1, <1>2, <1>3, <1>4, <2>2, <2>3 DEF TicksOnce
<1>5. CASE now # 0
  <2>1. k2 = k1
    BY <1>3, <1>5, <1>c
  <2> QED
    BY <1>1, <1>2, <1>3, <1>5, <2>1 DEF TicksOnce
<1> QED
  BY <1>4, <1>5

(* A tick ages everybody by one.                                            *)
LEMMA TickAges ==
    ASSUME NEW k, Sound(k, 1), Looked(k), k.pending = <<>>, k.uxSchedulerSuspended = 0,
           NEW r, r = IncrementTick(k)
    PROVE  Ages(k, r.kernel, 1, {})
<1>0. k \in KernelType /\ TickWrap \in Nat \ {0} /\ k.xTickCount \in 0..TickWrap - 1
  BY SchedulerAssumption DEF Sound, Linked, KernelType
<1>a. PICK now : now = (k.xTickCount + 1) % TickWrap
  OBVIOUS
<1>b. PICK k1 : k1 = [k EXCEPT !.xTickCount = now]
  OBVIOUS
<1>c. PICK k2 : k2 = IF k1.xTickCount = 0 THEN SwitchDelayedLists(k1) ELSE k1
  OBVIOUS
<1>d. PICK k3 : k3 = IF k2.xTickCount >= k2.xNextTaskUnblockTime THEN Expire(k2) ELSE k2
  OBVIOUS
<1>1. r.kernel = k3
  <2>1. k1 = [k EXCEPT !.xTickCount = (k.xTickCount + 1) % TickWrap]
    BY <1>a, <1>b
  <2>e. k.uxSchedulerSuspended # 1
    OBVIOUS
  <2>2. IncrementTick(k) =
          LET k1a == [k EXCEPT !.xTickCount = (k.xTickCount + 1) % TickWrap]
              k2a == IF k1a.xTickCount = 0 THEN SwitchDelayedLists(k1a) ELSE k1a
              k3a == IF k2a.xTickCount >= k2a.xNextTaskUnblockTime THEN Expire(k2a) ELSE k2a
          IN  [kernel |-> k3a,
               switch |-> \/ k.pxCurrentTCB # Idle /\ Len(k3a.ready) > 2
                          \/ k3a.delayed # k2a.delayed \/ k.xYieldPending]
    BY <2>e DEF IncrementTick
  <2>3. IncrementTick(k) = [kernel |-> k3,
                            switch |-> \/ k.pxCurrentTCB # Idle /\ Len(k3.ready) > 2
                                       \/ k3.delayed # k2.delayed \/ k.xYieldPending]
    BY <1>c, <1>d, <2>1, <2>2
  <2> QED
    BY <2>3
<1>e. Counting(k, k1, k2)
  BY <1>a, <1>b, <1>c DEF Counting
<1>2. TicksOnce(k, k2)
  BY <1>0, <1>e, TicksOnceIs
<1>3. Ages(k, k2, 1, {})
  BY <1>2, SleepersTick, WaitsTick DEF Ages
<1>4. Ages(k2, k3, 0, {})
  <2>1. CASE k2.xTickCount >= k2.xNextTaskUnblockTime
    <3>1. k3 = Expire(k2)
      BY <1>d, <2>1
    <3>2. Sound(k2, 0) /\ k2.pending = <<>>
      BY <1>e, CountingKeeps
    <3> QED
      BY <3>1, <3>2, ExpireAges
  <2>2. CASE ~(k2.xTickCount >= k2.xNextTaskUnblockTime)
    <3>1. k3 = k2
      BY <1>d, <2>2
    <3> QED
      BY <3>1, StillAges
  <2> QED
    BY <2>1, <2>2
<1>5. Ages(k, k3, 1 + 0, {})
  BY <1>3, <1>4, AgesThen
<1> QED
  BY <1>1, <1>5

(* A tick that was pended is one of them.                                   *)
LEMMA PendedTickAges ==
    ASSUME NEW k, Going(k), NEW u, u = PendedTick(k), k.uxPendedTicks # 0
    PROVE  Ages(k, u, 1, {}) /\ u.uxPendedTicks = k.uxPendedTicks - 1
<1>0. k \in KernelType /\ k.uxPendedTicks \in Nat
  BY DEF Going, Sound, Linked, KernelType
<1>a. PICK r : r = IncrementTick(k)
  OBVIOUS
<1>b. PICK s : s = r.kernel
  OBVIOUS
<1>1. Ages(k, s, 1, {})
  BY <1>a, <1>b, TickAges DEF Going
<1>2. Sound(s, 1)
  BY <1>a, <1>b, TickKeeps DEF Going
<1>3. s \in KernelType
  BY <1>2 DEF Sound, Linked
<1>c. PICK n : n = k.uxPendedTicks - 1
  OBVIOUS
<1>4. u = [s EXCEPT !.xYieldPending = @ \/ r.switch, !.uxPendedTicks = n]
  BY <1>a, <1>b, <1>c DEF PendedTick
<1>5. /\ u.send = s.send /\ u.receive = s.receive /\ u.pending = s.pending
      /\ u.delayed = s.delayed /\ u.overflow = s.overflow /\ u.value = s.value
      /\ u.xTickCount = s.xTickCount /\ u.xNumOfOverflows = s.xNumOfOverflows
      /\ u.uxPendedTicks = n
  BY <1>3, <1>4, FieldsAre
<1>6. Ages(s, u, 0, {})
  BY <1>5, StillAges
<1>7. Ages(k, u, 1 + 0, {})
  BY <1>1, <1>6, AgesThen
<1> QED
  BY <1>5, <1>7, <1>c

(* All of them.                                                             *)
LEMMA PendedTicksAge ==
    ASSUME NEW k, Going(k), NEW u, u = Rounds(PendedTick, k.uxPendedTicks, k)
    PROVE  Ages(k, u, k.uxPendedTicks, {}) /\ u \in KernelType
<1>a. PICK n : n = k.uxPendedTicks
  OBVIOUS
<1> DEFINE Good(i, s) == /\ Going(s) /\ s.uxPendedTicks = n - i /\ i <= n
                         /\ Ages(k, s, i, {})
           P == {p \in Nat \X KernelType : Good(p[1], p[2])}
<1>0. n \in Nat /\ k \in KernelType
  BY <1>a DEF Going, Sound, Linked, KernelType
<1>b. PICK f : PendedRun(f, n, k)
  BY <1>0, PendedRounds
<1>1. /\ f[0] = k /\ \A i \in 1..n : f[i] = PendedTick(f[i - 1])
      /\ Rounds(PendedTick, n, k) = f[n]
  BY <1>b DEF PendedRun
<1>2. <<0, f[0]>> \in P
  <2>1. Good(0, k)
    BY <1>0, <1>a, StillAges
  <2> QED
    BY <1>0, <1>1, <2>1
<1>3. ASSUME NEW i \in 1..n, <<i - 1, f[i - 1]>> \in P PROVE <<i, f[i]>> \in P
  <2>a. PICK s : s = f[i - 1]
    OBVIOUS
  <2>b. PICK v : v = f[i]
    OBVIOUS
  <2>1. Good(i - 1, s) /\ v = PendedTick(s) /\ i - 1 \in Nat
    BY <1>1, <1>3, <2>a, <2>b
  <2>2. Going(v)
    BY <2>1, PendedTickKeeps DEF Going
  <2>3. v \in KernelType
    BY <2>2 DEF Going, Sound, Linked
  <2>4. s.uxPendedTicks = n - (i - 1) /\ s.uxPendedTicks # 0
    BY <1>0, <2>1
  <2>5. Ages(s, v, 1, {}) /\ v.uxPendedTicks = s.uxPendedTicks - 1
    BY <2>1, <2>4, PendedTickAges
  <2>6. Ages(k, v, (i - 1) + 1, {})
    BY <2>1, <2>5, AgesThen
  <2>7. (i - 1) + 1 = i /\ v.uxPendedTicks = n - i
    BY <1>0, <2>4, <2>5
  <2>8. Good(i, v)
    BY <1>0, <2>2, <2>6, <2>7
  <2> QED
    BY <1>0, <2>b, <2>3, <2>8
<1>4. <<n, f[n]>> \in P
  <2> HIDE DEF P
  <2> QED
    BY <1>0, <1>2, <1>3, LoopKeeps
<1> QED
  BY <1>1, <1>4, <1>a

(* The whole of xTaskResumeAll ages everybody by the ticks that were        *)
(* pended: who was not pending himself, and was not waiting.                *)
LEMMA ResumeAllAges ==
    ASSUME NEW k, Sound(k, 1), Looked(k), NEW u, u = ResumeAll(k)
    PROVE  Ages(k, u, k.uxPendedTicks, {})
<1>0. k \in KernelType /\ k.uxPendedTicks \in Nat
  BY DEF Sound, Linked, KernelType
<1>a. PICK k0 : k0 = [k EXCEPT !.uxSchedulerSuspended = 0]
  OBVIOUS
<1>1. k0 \in KernelType
  BY <1>0, <1>a DEF KernelType
<1>2. /\ k0.ready = k.ready /\ k0.delayed = k.delayed /\ k0.overflow = k.overflow
      /\ k0.pending = k.pending /\ k0.send = k.send /\ k0.receive = k.receive
      /\ k0.suspended = k.suspended /\ k0.value = k.value
      /\ k0.xTickCount = k.xTickCount /\ k0.xNextTaskUnblockTime = k.xNextTaskUnblockTime
      /\ k0.uxSchedulerSuspended = 0
  BY <1>0, <1>a, FieldsAre
<1>3. k0.xNumOfOverflows = k.xNumOfOverflows /\ k0.uxPendedTicks = k.uxPendedTicks
  BY <1>0, <1>a, FieldsAre
<1>4. Sound(k0, 1) /\ Looked(k0)
  BY <1>1, <1>2 DEF Sound, Linked, Due, Held, Looked, Waiting
<1>5. Ages(k, k0, 0, {})
  BY <1>2, <1>3, StillAges
<1>b. PICK k1 : k1 = Rounds(MoveFirst, Len(k0.pending), k0)
  OBVIOUS
<1>6. /\ Sound(k1, 1) /\ Looked(k1) /\ Woke(k0, k1) /\ k1.pending = <<>>
  BY <1>4, <1>b, MoveAllKeeps
<1>7. Going(k1)
  BY <1>2, <1>6 DEF Going, Woke
<1>8. Rests(k0, k1, {}) /\ k1.uxPendedTicks = k0.uxPendedTicks
  BY <1>4, <1>b, MoveAllRests
<1>9. Ages(k0, k1, 0, {})
  BY <1>8, RestsAges
<1>c. PICK k2 : k2 = Rounds(PendedTick, k1.uxPendedTicks, k1)
  OBVIOUS
<1>10. Ages(k1, k2, k.uxPendedTicks, {}) /\ k2 \in KernelType
  BY <1>3, <1>7, <1>8, <1>c, PendedTicksAge
<1>11. u = IF k2.xYieldPending THEN Yield(k2) ELSE k2
  BY <1>2, <1>3, <1>8, <1>a, <1>b, <1>c DEF ResumeAll
<1>12. Ages(k2, u, 0, {})
  <2>1. Ages(k2, Yield(k2), 0, {})
    BY <1>10, YieldRests, RestsAges
  <2>2. Ages(k2, k2, 0, {})
    BY StillAges
  <2> QED
    BY <1>11, <2>1, <2>2
<1>13. Ages(k, k1, 0 + 0, {})
  BY <1>5, <1>9, AgesThen
<1>14. Ages(k, k2, 0 + k.uxPendedTicks, {})
  BY <1>0, <1>10, <1>13, AgesThen
<1>15. Ages(k, u, k.uxPendedTicks + 0, {})
  BY <1>0, <1>12, <1>14, AgesThen
<1> QED
  BY <1>0, <1>15
=============================================================================
