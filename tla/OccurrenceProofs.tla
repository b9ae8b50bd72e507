-------------------------- MODULE OccurrenceProofs --------------------------
(* Sequences used as channels: who is in them after a message is added or  *)
(* taken, and at most once.                                                *)
EXTENDS Occurrence, FiniteSetTheorems, TLAPS

LEMMA EmptyMember ==
  ASSUME NEW x
  PROVE  ~Contains(<<>>, x) /\ Once(<<>>, x)
BY DEF Contains, Once

LEMMA AppendMember ==
  ASSUME NEW S, NEW s \in Seq(S), NEW e \in S, NEW x
  PROVE  Contains(Append(s, e), x) <=> Contains(s, x) \/ x = e
<1>1. /\ Len(Append(s, e)) = Len(s) + 1 /\ Len(s) \in Nat
      /\ Append(s, e)[Len(s) + 1] = e
      /\ \A i \in 1..Len(s) : Append(s, e)[i] = s[i]
      /\ DOMAIN s = 1..Len(s) /\ DOMAIN Append(s, e) = 1..(Len(s) + 1)
  OBVIOUS
<1> QED BY <1>1 DEF Contains

LEMMA AppendOnce ==
  ASSUME NEW S, NEW s \in Seq(S), NEW e \in S, NEW x,
         Once(s, x), x = e => ~Contains(s, x)
  PROVE  Once(Append(s, e), x)
<1>1. /\ Len(s) \in Nat
      /\ Append(s, e)[Len(s) + 1] = e
      /\ \A i \in 1..Len(s) : Append(s, e)[i] = s[i]
      /\ DOMAIN s = 1..Len(s) /\ DOMAIN Append(s, e) = 1..(Len(s) + 1)
  OBVIOUS
<1> QED BY <1>1 DEF Contains, Once

LEMMA TailMember ==
  ASSUME NEW S, NEW s \in Seq(S), s # <<>>, NEW x
  PROVE  /\ Tail(s) \in Seq(S)
         /\ Head(s) \in S /\ Contains(s, Head(s))
         /\ Contains(Tail(s), x) => Contains(s, x)
         /\ Contains(s, x) => x = Head(s) \/ Contains(Tail(s), x)
         /\ Once(s, x) => Once(Tail(s), x)
         /\ Once(s, x) /\ x = Head(s) => ~Contains(Tail(s), x)
<1>1. /\ Len(s) \in Nat \ {0}
      /\ Head(s) = s[1]
      /\ \A i \in 1..(Len(s) - 1) : Tail(s)[i] = s[i + 1]
      /\ DOMAIN s = 1..Len(s) /\ DOMAIN Tail(s) = 1..(Len(s) - 1)
      /\ Tail(s) \in Seq(S)
  OBVIOUS
<1>2. Contains(s, Head(s)) /\ Head(s) \in S
  BY <1>1 DEF Contains
<1>3. Contains(Tail(s), x) => Contains(s, x)
  BY <1>1 DEF Contains
<1>4. Contains(s, x) => x = Head(s) \/ Contains(Tail(s), x)
  <2> SUFFICES ASSUME NEW i \in 1..Len(s), s[i] = x, i # 1
               PROVE  Contains(Tail(s), x)
    BY <1>1 DEF Contains
  <2>1. i - 1 \in 1..(Len(s) - 1) /\ Tail(s)[i - 1] = x
    BY <1>1
  <2> QED BY <2>1, <1>1 DEF Contains
<1>5. Once(s, x) => Once(Tail(s), x)
  <2> SUFFICES ASSUME Once(s, x), NEW i \in 1..(Len(s) - 1),
                      NEW j \in 1..(Len(s) - 1),
                      Tail(s)[i] = x, Tail(s)[j] = x
               PROVE  i = j
    BY <1>1 DEF Once
  <2>1. s[i + 1] = x /\ s[j + 1] = x /\ i + 1 \in 1..Len(s) /\ j + 1 \in 1..Len(s)
    BY <1>1
  <2> QED BY <2>1, <1>1 DEF Once
<1>6. Once(s, x) /\ x = Head(s) => ~Contains(Tail(s), x)
  <2> SUFFICES ASSUME Once(s, x), s[1] = x, NEW i \in 1..(Len(s) - 1),
                      Tail(s)[i] = x
               PROVE  FALSE
    BY <1>1 DEF Contains
  <2>1. s[i + 1] = x /\ i + 1 \in 1..Len(s) /\ 1 \in 1..Len(s) /\ i + 1 # 1
    BY <1>1
  <2> QED BY <2>1, <1>1 DEF Once
<1> QED BY <1>1, <1>2, <1>3, <1>4, <1>5, <1>6

(* A message pushed on a stack. *)
LEMMA PushMember ==
  ASSUME NEW S, NEW s \in Seq(S), NEW e \in S, NEW x
  PROVE  /\ <<e>> \o s \in Seq(S) /\ <<e>> \o s # <<>>
         /\ Contains(<<e>> \o s, x) <=> Contains(s, x) \/ x = e
         /\ Once(s, x) /\ (x = e => ~Contains(s, x)) => Once(<<e>> \o s, x)
<1> DEFINE p == <<e>> \o s
<1>1. /\ Len(s) \in Nat /\ Len(p) = Len(s) + 1
      /\ p[1] = e
      /\ \A i \in 2..(Len(s) + 1) : p[i] = s[i - 1]
      /\ p \in Seq(S) /\ p # <<>>
  OBVIOUS
<1> HIDE DEF p
<1>2. Contains(s, x) => Contains(p, x)
  <2> SUFFICES ASSUME NEW i \in 1..Len(s), s[i] = x PROVE Contains(p, x)
    BY DEF Contains
  <2>1. i + 1 \in 1..Len(p) /\ p[i + 1] = x
    BY <1>1
  <2> QED BY <2>1 DEF Contains
<1>3. x = e => Contains(p, x)
  BY <1>1 DEF Contains
<1>4. ASSUME NEW i \in 1..Len(p), p[i] = x
      PROVE  (i = 1 /\ x = e) \/ (i - 1 \in 1..Len(s) /\ s[i - 1] = x)
  BY <1>1, <1>4
<1>5. Contains(p, x) => Contains(s, x) \/ x = e
  BY <1>4 DEF Contains
<1>6. ASSUME Once(s, x), x = e => ~Contains(s, x),
             NEW i \in 1..Len(p), NEW j \in 1..Len(p), p[i] = x, p[j] = x
      PROVE  i = j
  BY <1>1, <1>4, <1>6 DEF Once, Contains
<1>7. Once(s, x) /\ (x = e => ~Contains(s, x)) => Once(p, x)
  BY <1>6 DEF Once
<1> QED BY <1>1, <1>2, <1>3, <1>5, <1>7 DEF p

-----------------------------------------------------------------------------
(* How many times a message is in a channel. *)
Places(s, x) == {i \in 1..Len(s) : s[i] = x}
Copies(s, x) == Cardinality(Places(s, x))

LEMMA CopiesFinite ==
  ASSUME NEW S, NEW s \in Seq(S), NEW x
  PROVE  /\ IsFiniteSet(Places(s, x)) /\ Copies(s, x) \in Nat
         /\ Copies(s, x) = 0 <=> ~Contains(s, x)
<1>1. Len(s) \in Nat /\ Places(s, x) \subseteq 1..Len(s)
  BY DEF Places
<1>2. IsFiniteSet(Places(s, x))
  <2>1. IsFiniteSet(1..Len(s))
    BY <1>1, FS_Interval
  <2> QED BY <1>1, <2>1, FS_Subset
<1>3. Copies(s, x) = 0 <=> Places(s, x) = {}
  BY <1>2, FS_EmptySet DEF Copies
<1>4. Places(s, x) = {} <=> ~Contains(s, x)
  BY DEF Places, Contains
<1> QED BY <1>2, <1>3, <1>4, FS_CardinalityType DEF Copies

(* A push adds one copy of what is pushed. *)
LEMMA CopiesPush ==
  ASSUME NEW S, NEW s \in Seq(S), NEW e \in S, NEW x
  PROVE  Copies(<<e>> \o s, x) = Copies(s, x) + (IF e = x THEN 1 ELSE 0)
<1> DEFINE p == <<e>> \o s
           T == {i \in 2..(Len(s) + 1) : p[i] = x}
           f == [i \in Places(s, x) |-> i + 1]
<1>1. /\ Len(s) \in Nat /\ Len(p) = Len(s) + 1
      /\ p[1] = e
      /\ \A i \in 1..Len(s) : p[i + 1] = s[i]
  OBVIOUS
<1> HIDE DEF p
<1>2. f \in Bijection(Places(s, x), T)
  <2>1. \A i \in Places(s, x) : f[i] = i + 1 /\ i \in 1..Len(s) /\ f[i] \in T
    BY <1>1 DEF Places
  <2>2. f \in [Places(s, x) -> T]
    BY <2>1
  <2>3. \A i, j \in Places(s, x) : f[i] = f[j] => i = j
    BY <2>1
  <2>4. ASSUME NEW t \in T PROVE \E i \in Places(s, x) : f[i] = t
    <3>1. t - 1 \in 1..Len(s) /\ (t - 1) + 1 = t
      BY <1>1
    <3>2. t - 1 \in Places(s, x)
      BY <1>1, <3>1 DEF Places
    <3> QED BY <3>1, <3>2
  <2> QED BY <2>2, <2>3, <2>4 DEF Bijection, Injection, Surjection, IsInjective
<1>3. IsFiniteSet(T) /\ Cardinality(T) = Copies(s, x)
  BY <1>2, CopiesFinite, FS_Bijection DEF ExistsBijection, Copies
<1>4. Places(p, x) = IF e = x THEN T \cup {1} ELSE T
  BY <1>1 DEF Places
<1>5. 1 \notin T
  BY <1>1
<1>6. Cardinality(T \cup {1}) = Cardinality(T) + 1
  BY <1>3, <1>5, FS_AddElement
<1> HIDE DEF T
<1> QED BY <1>3, <1>4, <1>6, CopiesFinite DEF Copies, p

(* Taking the head takes one copy of it. *)
LEMMA CopiesTail ==
  ASSUME NEW S, NEW s \in Seq(S), s # <<>>, NEW x
  PROVE  Copies(s, x) = Copies(Tail(s), x) + (IF Head(s) = x THEN 1 ELSE 0)
<1> DEFINE h == Head(s)
           r == Tail(s)
<1>1. r \in Seq(S) /\ h \in S /\ s = <<h>> \o r
  OBVIOUS
<1> HIDE DEF h, r
<1>2. Copies(<<h>> \o r, x) = Copies(r, x) + (IF h = x THEN 1 ELSE 0)
  BY <1>1, CopiesPush
<1>3. Copies(s, x) = Copies(r, x) + (IF h = x THEN 1 ELSE 0)
  BY <1>1, <1>2, Zenon
<1> QED BY <1>3 DEF h, r

=============================================================================
