----------------------------- MODULE ListProofs -----------------------------
(***************************************************************************)
(* What the operations on lists do to the items on them.                   *)
(***************************************************************************)
EXTENDS Lists, TLAPS

(* An empty list.                                                          *)
LEMMA EmptyList == Range(<<>>) = {} /\ IsInjective(<<>>)
BY DEF Range, IsInjective

(* The items on a list, by their places.                                   *)
LEMMA Entries ==
  ASSUME NEW S, NEW s \in Seq(S)
  PROVE  /\ DOMAIN s = 1..Len(s) /\ Len(s) \in Nat
         /\ \A i \in DOMAIN s : s[i] \in S
OBVIOUS

(* list_add_tail puts one item behind the others.                          *)
LEMMA AddTail ==
  ASSUME NEW S, NEW s \in Seq(S), NEW x \in S
  PROVE  /\ Append(s, x) \in Seq(S) /\ Append(s, x) # <<>>
         /\ Range(Append(s, x)) = Range(s) \cup {x}
         /\ IsInjective(s) /\ x \notin Range(s) => IsInjective(Append(s, x))
<1>1. /\ Append(s, x) \in Seq(S) /\ Len(Append(s, x)) = Len(s) + 1
      /\ \A i \in 1..Len(s) : Append(s, x)[i] = s[i]
      /\ Append(s, x)[Len(s) + 1] = x
  OBVIOUS
<1>2. /\ DOMAIN s = 1..Len(s) /\ Len(s) \in Nat
      /\ DOMAIN Append(s, x) = 1..(Len(s) + 1)
  BY <1>1
<1>3. Range(Append(s, x)) = Range(s) \cup {x}
  <2>1. \A y \in Range(Append(s, x)) : y \in Range(s) \cup {x}
    BY <1>1, <1>2 DEF Range
  <2>2. \A y \in Range(s) : y \in Range(Append(s, x))
    BY <1>1, <1>2 DEF Range
  <2>3. x \in Range(Append(s, x))
    BY <1>1, <1>2 DEF Range
  <2> QED
    BY <2>1, <2>2, <2>3, Zenon
<1>4. ASSUME IsInjective(s), x \notin Range(s)
      PROVE  IsInjective(Append(s, x))
  BY <1>1, <1>2, <1>4 DEF IsInjective, Range
<1>5. Append(s, x) # <<>>
  <2>1. Len(Append(s, x)) # 0
    BY <1>1
  <2>2. Len(<<>>) = 0
    BY Zenon
  <2> QED
    BY <2>1, <2>2, Zenon
<1> QED
  BY <1>1, <1>3, <1>4, <1>5, Zenon

(* A scan takes the item at the head of a list.                            *)
LEMMA TakeHead ==
  ASSUME NEW S, NEW s \in Seq(S), s # <<>>
  PROVE  /\ Head(s) \in S /\ Tail(s) \in Seq(S)
         /\ Range(s) = Range(Tail(s)) \cup {Head(s)}
         /\ IsInjective(s) => IsInjective(Tail(s)) /\ Head(s) \notin Range(Tail(s))
<1>1. /\ Head(s) \in S /\ Tail(s) \in Seq(S) /\ Head(s) = s[1]
      /\ Len(Tail(s)) = Len(s) - 1 /\ Len(s) \in Nat /\ Len(s) > 0
      /\ DOMAIN s = 1..Len(s) /\ DOMAIN Tail(s) = 1..(Len(s) - 1)
      /\ \A i \in 1..(Len(s) - 1) : Tail(s)[i] = s[i + 1]
  OBVIOUS
<1>2. Range(s) = Range(Tail(s)) \cup {Head(s)}
  <2>1. ASSUME NEW i \in DOMAIN s
        PROVE  s[i] \in Range(Tail(s)) \cup {Head(s)}
    <3>1. CASE i = 1
      BY <1>1, <3>1, Zenon
    <3>2. CASE i # 1
      <4>1. i - 1 \in DOMAIN Tail(s) /\ Tail(s)[i - 1] = s[i]
        BY <1>1, <2>1, <3>2
      <4> QED
        BY <4>1, Zenon DEF Range
    <3> QED
      BY <3>1, <3>2, Zenon
  <2>2. \A y \in Range(Tail(s)) : y \in Range(s)
    BY <1>1 DEF Range
  <2>3. Head(s) \in Range(s)
    BY <1>1 DEF Range
  <2> QED
    BY <2>1, <2>2, <2>3, Zenon DEF Range
<1>3. ASSUME IsInjective(s)
      PROVE  IsInjective(Tail(s)) /\ Head(s) \notin Range(Tail(s))
  <2>1. \A i, j \in 1..Len(s) : s[i] = s[j] => i = j
    BY <1>1, <1>3, Zenon DEF IsInjective
  <2>2. IsInjective(Tail(s))
    BY <1>1, <2>1 DEF IsInjective
  <2>3. Head(s) \notin Range(Tail(s))
    BY <1>1, <2>1 DEF Range
  <2> QED
    BY <2>2, <2>3, Zenon
<1> QED
  BY <1>1, <1>2, <1>3, Zenon

(* list_splice: two lists are put one behind the other.                    *)
LEMMA Splice ==
  ASSUME NEW S, NEW s \in Seq(S), NEW u \in Seq(S)
  PROVE  /\ s \o u \in Seq(S)
         /\ Range(s \o u) = Range(s) \cup Range(u)
         /\ IsInjective(s \o u) <=>
              IsInjective(s) /\ IsInjective(u) /\ Range(s) \cap Range(u) = {}
         /\ s \o u = <<>> <=> s = <<>> /\ u = <<>>
<1>1. /\ s \o u \in Seq(S) /\ Len(s \o u) = Len(s) + Len(u)
      /\ Len(s) \in Nat /\ Len(u) \in Nat
      /\ DOMAIN s = 1..Len(s) /\ DOMAIN u = 1..Len(u)
      /\ DOMAIN (s \o u) = 1..(Len(s) + Len(u))
      /\ \A i \in 1..(Len(s) + Len(u)) :
           (s \o u)[i] = IF i <= Len(s) THEN s[i] ELSE u[i - Len(s)]
  OBVIOUS
<1>2. /\ \A i \in DOMAIN s : i \in DOMAIN (s \o u) /\ (s \o u)[i] = s[i]
      /\ \A i \in DOMAIN u : i + Len(s) \in DOMAIN (s \o u) /\ (s \o u)[i + Len(s)] = u[i]
  BY <1>1, SMTT(30)
<1>3. \A i \in DOMAIN (s \o u) :
        \/ i \in DOMAIN s /\ (s \o u)[i] = s[i]
        \/ i - Len(s) \in DOMAIN u /\ (s \o u)[i] = u[i - Len(s)]
  BY <1>1
<1>4. Range(s \o u) = Range(s) \cup Range(u)
  <2>1. \A x \in Range(s \o u) : x \in Range(s) \cup Range(u)
    BY <1>3, Zenon DEF Range
  <2>2. \A x \in Range(s) : x \in Range(s \o u)
    BY <1>2, Zenon DEF Range
  <2>3. \A x \in Range(u) : x \in Range(s \o u)
    BY <1>2, Zenon DEF Range
  <2> QED
    BY <2>1, <2>2, <2>3, Zenon
<1>5. ASSUME IsInjective(s \o u)
      PROVE  IsInjective(s) /\ IsInjective(u) /\ Range(s) \cap Range(u) = {}
  <2>1. \A i, j \in DOMAIN (s \o u) : (s \o u)[i] = (s \o u)[j] => i = j
    BY <1>5, Zenon DEF IsInjective
  <2>2. IsInjective(s)
    BY <1>2, <2>1, Zenon DEF IsInjective
  <2>3. IsInjective(u)
    <3> SUFFICES ASSUME NEW i \in DOMAIN u, NEW j \in DOMAIN u, u[i] = u[j] PROVE i = j
      BY Zenon DEF IsInjective
    <3>1. i + Len(s) = j + Len(s)
      BY <1>2, <2>1, Zenon
    <3> QED
      BY <1>1, <3>1
  <2>4. ASSUME NEW i \in DOMAIN s, NEW j \in DOMAIN u, s[i] = u[j] PROVE FALSE
    <3>1. i = j + Len(s)
      BY <1>2, <2>1, <2>4, Zenon
    <3> QED
      BY <1>1, <3>1
  <2> QED
    BY <2>2, <2>3, <2>4, Zenon DEF Range
<1>6. ASSUME IsInjective(s), IsInjective(u), Range(s) \cap Range(u) = {}
      PROVE  IsInjective(s \o u)
  <2> SUFFICES ASSUME NEW i \in DOMAIN (s \o u), NEW j \in DOMAIN (s \o u),
                      (s \o u)[i] = (s \o u)[j]
               PROVE  i = j
    BY Zenon DEF IsInjective
  <2>1. \A k \in DOMAIN s, l \in DOMAIN u : s[k] # u[l]
    BY <1>6, Zenon DEF Range
  <2>2. CASE i \in DOMAIN s /\ j \in DOMAIN s
    BY <1>2, <1>6, <2>2, Zenon DEF IsInjective
  <2>3. CASE i - Len(s) \in DOMAIN u /\ j - Len(s) \in DOMAIN u
    <3>1. u[i - Len(s)] = u[j - Len(s)]
      BY <1>1, <2>3, SMTT(30)
    <3>2. i - Len(s) = j - Len(s)
      BY <1>6, <2>3, <3>1, Zenon DEF IsInjective
    <3> QED
      BY <1>1, <3>2
  <2> QED
    BY <1>1, <1>3, <2>1, <2>2, <2>3, Zenon
<1>7. s \o u = <<>> <=> s = <<>> /\ u = <<>>
  <2>1. /\ s \o u = <<>> <=> Len(s \o u) = 0
        /\ s = <<>> <=> Len(s) = 0
        /\ u = <<>> <=> Len(u) = 0
    BY <1>1
  <2> QED
    BY <1>1, <2>1
<1> QED
  BY <1>1, <1>4, <1>5, <1>6, <1>7, Zenon

(* list_del and __remove_wait_queue take one entry out and leave the rest. *)
LEMMA Deleted ==
  ASSUME NEW S, NEW s \in Seq(S), NEW i \in DOMAIN s
  PROVE  /\ Without(s, i) \in Seq(S)
         /\ IsInjective(s) => /\ IsInjective(Without(s, i))
                              /\ Range(Without(s, i)) = Range(s) \ {s[i]}
<1> DEFINE w == Without(s, i)
<1>1. /\ Len(s) \in Nat /\ DOMAIN s = 1..Len(s) /\ i \in 1..Len(s)
      /\ \A k \in 1..Len(s) : s[k] \in S
      /\ DOMAIN w = 1..(Len(s) - 1) /\ Len(s) - 1 \in Nat
      /\ \A k \in 1..(Len(s) - 1) : w[k] = IF k < i THEN s[k] ELSE s[k + 1]
  BY DEF Without
<1>2. w = [k \in 1..(Len(s) - 1) |-> IF k < i THEN s[k] ELSE s[k + 1]]
  BY Zenon DEF Without
<1> HIDE DEF w
<1>3. w \in Seq(S)
  <2>1. w \in [1..(Len(s) - 1) -> S]
    BY <1>1, <1>2
  <2> QED
    BY <1>1, <2>1
<1>4. ASSUME IsInjective(s)
      PROVE  IsInjective(w) /\ Range(w) = Range(s) \ {s[i]}
  <2>1. \A k, l \in 1..Len(s) : s[k] = s[l] => k = l
    BY <1>1, <1>4, Zenon DEF IsInjective
  <2>2. IsInjective(w)
    BY <1>1, <2>1 DEF IsInjective
  <2>3. ASSUME NEW k \in DOMAIN w PROVE w[k] \in Range(s) /\ w[k] # s[i]
    BY <1>1, <2>1, <2>3, SMTT(30) DEF Range
  <2>4. ASSUME NEW k \in DOMAIN s, k # i PROVE s[k] \in Range(w)
    <3>1. CASE k < i
      <4>1. k \in DOMAIN w /\ w[k] = s[k]
        BY <1>1, <3>1
      <4> QED
        BY <4>1, Zenon DEF Range
    <3>2. CASE k > i
      <4>1. k - 1 \in DOMAIN w /\ w[k - 1] = s[k]
        BY <1>1, <3>2
      <4> QED
        BY <4>1, Zenon DEF Range
    <3> QED
      BY <1>1, <2>4, <3>1, <3>2
  <2> QED
    BY <2>2, <2>3, <2>4, Zenon DEF Range
<1> QED
  BY <1>3, <1>4, Zenon DEF w

(* What the end of a scan takes over from ovflist.                         *)
LEMMA TakeOver ==
  ASSUME NEW S, NEW s \in Seq(S), NEW U \in SUBSET S, NEW q \in InOrder(s, U)
  PROVE  /\ q \in Seq(S) /\ Range(q) = U
         /\ IsInjective(s) => IsInjective(q)
<1>1. PICK n \in 0..Len(s) : q \in [1..n -> U]
  BY Zenon DEF InOrder
<1>2. n \in Nat /\ DOMAIN q = 1..n
  BY <1>1
<1>3. q \in [1..n -> S]
  BY <1>1, Zenon
<1>4. q \in Seq(S)
  BY <1>2, <1>3
<1>5. Range(q) = U
  BY Zenon DEF InOrder
<1>6. ASSUME IsInjective(s)
      PROVE  IsInjective(q)
  <2>1. \A i, j \in DOMAIN q : i < j =>
          \E k, l \in DOMAIN s : k < l /\ q[i] = s[k] /\ q[j] = s[l]
    BY Zenon DEF InOrder
  <2>2. \A k, l \in DOMAIN s : s[k] = s[l] => k = l
    BY <1>6, Zenon DEF IsInjective
  <2>3. \A i, j \in DOMAIN q : i < j => q[i] # q[j]
    <3> SUFFICES ASSUME NEW i \in DOMAIN q, NEW j \in DOMAIN q, i < j PROVE q[i] # q[j]
      BY Zenon
    <3>1. PICK k \in DOMAIN s, l \in DOMAIN s : k < l /\ q[i] = s[k] /\ q[j] = s[l]
      BY <2>1, Zenon
    <3>2. k # l
      BY <3>1
    <3> QED
      BY <2>2, <3>1, <3>2, Zenon
  <2> QED
    BY <1>2, <2>3 DEF IsInjective
<1> QED
  BY <1>4, <1>5, <1>6, Zenon

(* A set in some order, as ~TcpServer goes through its map.                *)
LEMMA Ordered ==
  ASSUME NEW S, NEW n \in Nat, NEW q \in Orders(S, n)
  PROVE  q \in Seq(S) /\ Range(q) = S /\ IsInjective(q)
<1>1. PICK k \in 0..n : q \in [1..k -> S]
  BY Zenon DEF Orders
<1>2. q \in Seq(S)
  BY <1>1
<1> QED
  BY <1>2, Zenon DEF Orders

-----------------------------------------------------------------------------
(* Wherever x and y are both on the list, x comes first.                   *)
Before(s, x, y) == \A i, j \in DOMAIN s : s[i] = x /\ s[j] = y => i < j

(* Adding to the end keeps x before y, unless it adds x behind y.          *)
LEMMA BeforeAdd ==
  ASSUME NEW S, NEW s \in Seq(S), NEW z \in S, NEW x, NEW y, x # y,
         Before(s, x, y), z = x => y \notin Range(s)
  PROVE  Before(Append(s, z), x, y)
<1>1. /\ Len(s) \in Nat /\ DOMAIN s = 1..Len(s)
      /\ DOMAIN Append(s, z) = 1..(Len(s) + 1)
      /\ \A i \in 1..Len(s) : Append(s, z)[i] = s[i]
      /\ Append(s, z)[Len(s) + 1] = z
  OBVIOUS
<1> DEFINE t == Append(s, z)
<1> HIDE DEF t
<1> SUFFICES ASSUME NEW i \in DOMAIN t, NEW j \in DOMAIN t, t[i] = x, t[j] = y
             PROVE  i < j
  BY Zenon DEF Before, t
<1>2. CASE i \in 1..Len(s) /\ j \in 1..Len(s)
  BY <1>1, <1>2, Zenon DEF Before, t
<1>3. CASE i = Len(s) + 1
  <2>1. z = x /\ y \notin Range(s)
    BY <1>1, <1>3, Zenon DEF t
  <2>2. j \notin 1..Len(s)
    BY <1>1, <2>1, Zenon DEF Range, t
  <2> QED
    BY <1>1, <1>3, <2>1, <2>2 DEF t
<1>4. CASE i \in 1..Len(s) /\ j = Len(s) + 1
  BY <1>1, <1>4
<1> QED
  BY <1>1, <1>2, <1>3, <1>4 DEF t

(* Taking from the head keeps x before y; when y is at the head, x is not  *)
(* on the list.                                                            *)
LEMMA BeforeTake ==
  ASSUME NEW S, NEW s \in Seq(S), s # <<>>, NEW x, NEW y, Before(s, x, y)
  PROVE  /\ Before(Tail(s), x, y)
         /\ Head(s) = y => x \notin Range(s)
<1>1. /\ Head(s) = s[1] /\ Len(s) \in Nat /\ Len(s) > 0
      /\ DOMAIN s = 1..Len(s) /\ DOMAIN Tail(s) = 1..(Len(s) - 1)
      /\ \A i \in 1..(Len(s) - 1) : Tail(s)[i] = s[i + 1]
  OBVIOUS
<1>2. Before(Tail(s), x, y)
  BY <1>1 DEF Before
<1>3. Head(s) = y => x \notin Range(s)
  BY <1>1 DEF Before, Range
<1> QED
  BY <1>2, <1>3, Zenon

(* So does adding a list without x.                                        *)
LEMMA BeforeSplice ==
  ASSUME NEW S, NEW s \in Seq(S), NEW u \in Seq(S), NEW x, NEW y,
         Before(s, x, y), x \notin Range(u)
  PROVE  Before(s \o u, x, y)
<1>1. /\ Len(s) \in Nat /\ Len(u) \in Nat
      /\ DOMAIN s = 1..Len(s) /\ DOMAIN u = 1..Len(u)
      /\ DOMAIN (s \o u) = 1..(Len(s) + Len(u))
      /\ \A i \in 1..(Len(s) + Len(u)) :
           (s \o u)[i] = IF i <= Len(s) THEN s[i] ELSE u[i - Len(s)]
  OBVIOUS
<1> DEFINE t == s \o u
<1> HIDE DEF t
<1> SUFFICES ASSUME NEW i \in DOMAIN t, NEW j \in DOMAIN t, t[i] = x, t[j] = y
             PROVE  i < j
  BY Zenon DEF Before, t
<1>2. i <= Len(s)
  <2> SUFFICES ASSUME i > Len(s) PROVE FALSE
    BY <1>1 DEF t
  <2>1. i - Len(s) \in DOMAIN u /\ u[i - Len(s)] = x
    BY <1>1 DEF t
  <2> QED
    BY <2>1, Zenon DEF Range
<1>3. CASE j <= Len(s)
  BY <1>1, <1>2, <1>3 DEF Before, t
<1> QED
  BY <1>1, <1>2, <1>3 DEF t
=============================================================================
