----------------------------- MODULE ToolboxProofs -----------------------------
(***************************************************************************)
(* Theorems about the parts that web services use on their own, for every  *)
(* value of their constants: Matching with objects nested to any depth;    *)
(* ServiceCalls with any services and messages and paths of any length;    *)
(* TinySerializers with any number of threads and serializers nested in    *)
(* each other in any way.                                                  *)
(***************************************************************************)
EXTENDS Matching, ServiceCalls, TinySerializers, SequenceTheorems, FiniteSetTheorems,
  WellFoundedInduction, TLAPS

-----------------------------------------------------------------------------
(* The natural numbers. *)

\* The least of a set of numbers.
LEMMA LeastOfNat ==
  ASSUME NEW T \in SUBSET Nat, T # {}
  PROVE  \E i \in T : \A j \in T : i <= j
<1> DEFINE R == OpToRel(<, Nat)
<1>1. IsWellFoundedOn(R, Nat)
  BY NatLessThanWellFounded
<1>2. \A i, j \in Nat : <<i, j>> \in R <=> i < j
  BY DEF OpToRel
<1> HIDE DEF R
<1>3. PICK i \in T : \A j \in T : ~(<<j, i>> \in R)
  BY <1>1, WFMin
<1>4. \A j \in T : i \in Nat /\ j \in Nat /\ ~(j < i)
  BY <1>2, <1>3
<1>5. QED
  BY <1>4

\* Induction over the natural numbers, for sets.
LEMMA AllOfNat ==
  ASSUME NEW T, 0 \in T, \A n \in Nat : n \in T => n + 1 \in T
  PROVE  Nat \subseteq T
<1>1. SUFFICES ASSUME Nat \ T # {} PROVE FALSE
  OBVIOUS
<1>2. PICK n \in Nat \ T : \A m \in Nat \ T : n <= m
  BY <1>1, LeastOfNat
<1>3. n # 0 /\ n - 1 \in Nat /\ ~ (n <= n - 1) /\ n = (n - 1) + 1
  BY <1>2
<1>4. n - 1 \in T
  BY <1>2, <1>3
<1>5. QED
  BY <1>2, <1>3, <1>4

-----------------------------------------------------------------------------
(* Matching: its recursive functions. *)

\* A function on 0..k with one more value, and its values.
Longer(f, k, x) == [n \in 0..k + 1 |-> IF n \in 0..k THEN f[n] ELSE x]
LongerRange(f, k, x) == {f[n] : n \in 0..k} \cup {x}

LEMMA LongerType ==
  ASSUME NEW f, NEW k \in Nat, NEW x
  PROVE  Longer(f, k, x) \in [0..k + 1 -> LongerRange(f, k, x)]
BY DEF Longer, LongerRange

LEMMA LongerEnd ==
  ASSUME NEW f, NEW k \in Nat, NEW x
  PROVE  Longer(f, k, x)[k + 1] = x
BY DEF Longer

LEMMA LongerStart ==
  ASSUME NEW f, NEW k \in Nat, NEW x, NEW n \in 0..k
  PROVE  Longer(f, k, x)[n] = f[n]
BY DEF Longer

\* Places in a function that grows by one.
LEMMA BeforeToo ==
  ASSUME NEW k \in Nat
  PROVE  /\ \A n \in 0..k : n # 0 => n - 1 \in 0..k
         /\ k + 1 # 0 /\ (k + 1) - 1 = k /\ k \in 0..k
         /\ \A n \in 0..k + 1 : n \in 0..k \/ n = k + 1
OBVIOUS

\* The recursive functions of Matching exist.
LEMMA ObjectsExist ==
  ASSUME NEW m \in Nat
  PROVE  \E f : f = [n \in 0..m |-> IF n = 0 THEN {} ELSE Holding(f[n - 1])]
<1> DEFINE Body(f, n) == IF n = 0 THEN {} ELSE Holding(f[n - 1])
           T == {k \in Nat : \E f : f = [n \in 0..k |-> Body(f, n)]}
<1>1. 0 \in T
  <2>1. [n \in 0..0 |-> {}] = [n \in 0..0 |-> Body([i \in 0..0 |-> {}], n)]
    OBVIOUS
  <2>2. QED
    BY <2>1
<1>2. ASSUME NEW k \in Nat, k \in T PROVE k + 1 \in T
  <2>1. PICK f : f = [n \in 0..k |-> Body(f, n)]
    BY <1>2
  <2>2. PICK x : x = Body(f, k + 1)
    OBVIOUS
  <2> DEFINE g == Longer(f, k, x)
            W == LongerRange(f, k, x)
  <2>3. g \in [0..k + 1 -> W]
    BY LongerType
  <2>4. g[k + 1] = x
    BY LongerEnd
  <2>5. \A n \in 0..k : g[n] = f[n]
    BY LongerStart
  <2> HIDE DEF g, W
  <2>6. \A n \in 0..k : Body(g, n) = Body(f, n)
    BY <2>5, BeforeToo
  <2>7. Body(g, k + 1) = x
    BY <2>2, <2>5, BeforeToo
  <2> HIDE DEF Body
  <2>8. \A n \in 0..k + 1 : g[n] = Body(g, n)
    BY <2>1, <2>4, <2>5, <2>6, <2>7, BeforeToo
  <2>9. g = [n \in 0..k + 1 |-> Body(g, n)]
    BY <2>3, <2>8
  <2>10. QED
    BY <2>9
<1>3. QED
  BY <1>1, <1>2, AllOfNat

LEMMA MatchingExists ==
  ASSUME NEW m \in Nat
  PROVE  \E f : f = [n \in 0..m |-> IF n = 0 THEN {} ELSE {x \in Pairs(n) : MatchedBy(f[n - 1], x[1], x[2])}]
<1> DEFINE Body(f, n) == IF n = 0 THEN {} ELSE {x \in Pairs(n) : MatchedBy(f[n - 1], x[1], x[2])}
           T == {k \in Nat : \E f : f = [n \in 0..k |-> Body(f, n)]}
<1>1. 0 \in T
  <2>1. [n \in 0..0 |-> {}] = [n \in 0..0 |-> Body([i \in 0..0 |-> {}], n)]
    OBVIOUS
  <2>2. QED
    BY <2>1
<1>2. ASSUME NEW k \in Nat, k \in T PROVE k + 1 \in T
  <2>1. PICK f : f = [n \in 0..k |-> Body(f, n)]
    BY <1>2
  <2>2. PICK x : x = Body(f, k + 1)
    OBVIOUS
  <2> DEFINE g == Longer(f, k, x)
            W == LongerRange(f, k, x)
  <2>3. g \in [0..k + 1 -> W]
    BY LongerType
  <2>4. g[k + 1] = x
    BY LongerEnd
  <2>5. \A n \in 0..k : g[n] = f[n]
    BY LongerStart
  <2> HIDE DEF g, W
  <2>6. \A n \in 0..k : Body(g, n) = Body(f, n)
    BY <2>5, BeforeToo
  <2>7. Body(g, k + 1) = x
    BY <2>2, <2>5, BeforeToo
  <2> HIDE DEF Body
  <2>8. \A n \in 0..k + 1 : g[n] = Body(g, n)
    BY <2>1, <2>4, <2>5, <2>6, <2>7, BeforeToo
  <2>9. g = [n \in 0..k + 1 |-> Body(g, n)]
    BY <2>3, <2>8
  <2>10. QED
    BY <2>9
<1>3. QED
  BY <1>1, <1>2, AllOfNat

LEMMA AnchoredExists ==
  ASSUME NEW m \in Nat
  PROVE  \E f : f = [n \in 0..m |-> IF n = 0 THEN {} ELSE {p \in Objects[n] : AnchoredBy(f[n - 1], p)}]
<1> DEFINE Body(f, n) == IF n = 0 THEN {} ELSE {p \in Objects[n] : AnchoredBy(f[n - 1], p)}
           T == {k \in Nat : \E f : f = [n \in 0..k |-> Body(f, n)]}
<1>1. 0 \in T
  <2>1. [n \in 0..0 |-> {}] = [n \in 0..0 |-> Body([i \in 0..0 |-> {}], n)]
    OBVIOUS
  <2>2. QED
    BY <2>1
<1>2. ASSUME NEW k \in Nat, k \in T PROVE k + 1 \in T
  <2>1. PICK f : f = [n \in 0..k |-> Body(f, n)]
    BY <1>2
  <2>2. PICK x : x = Body(f, k + 1)
    OBVIOUS
  <2> DEFINE g == Longer(f, k, x)
            W == LongerRange(f, k, x)
  <2>3. g \in [0..k + 1 -> W]
    BY LongerType
  <2>4. g[k + 1] = x
    BY LongerEnd
  <2>5. \A n \in 0..k : g[n] = f[n]
    BY LongerStart
  <2> HIDE DEF g, W
  <2>6. \A n \in 0..k : Body(g, n) = Body(f, n)
    BY <2>5, BeforeToo
  <2>7. Body(g, k + 1) = x
    BY <2>2, <2>5, BeforeToo
  <2> HIDE DEF Body
  <2>8. \A n \in 0..k + 1 : g[n] = Body(g, n)
    BY <2>1, <2>4, <2>5, <2>6, <2>7, BeforeToo
  <2>9. g = [n \in 0..k + 1 |-> Body(g, n)]
    BY <2>3, <2>8
  <2>10. QED
    BY <2>9
<1>3. QED
  BY <1>1, <1>2, AllOfNat

LEMMA ComparisonExists ==
  ASSUME NEW m \in Nat
  PROVE  \E f : f = [n \in 0..m |-> IF n = 0 THEN <<>> ELSE [x \in Pairs(n) |-> Compared(f[n - 1], x[1], x[2])]]
<1> DEFINE Body(f, n) == IF n = 0 THEN <<>> ELSE [x \in Pairs(n) |-> Compared(f[n - 1], x[1], x[2])]
           T == {k \in Nat : \E f : f = [n \in 0..k |-> Body(f, n)]}
<1>1. 0 \in T
  <2>1. [n \in 0..0 |-> <<>>] = [n \in 0..0 |-> Body([i \in 0..0 |-> <<>>], n)]
    OBVIOUS
  <2>2. QED
    BY <2>1
<1>2. ASSUME NEW k \in Nat, k \in T PROVE k + 1 \in T
  <2>1. PICK f : f = [n \in 0..k |-> Body(f, n)]
    BY <1>2
  <2>2. PICK x : x = Body(f, k + 1)
    OBVIOUS
  <2> DEFINE g == Longer(f, k, x)
            W == LongerRange(f, k, x)
  <2>3. g \in [0..k + 1 -> W]
    BY LongerType
  <2>4. g[k + 1] = x
    BY LongerEnd
  <2>5. \A n \in 0..k : g[n] = f[n]
    BY LongerStart
  <2> HIDE DEF g, W
  <2>6. \A n \in 0..k : Body(g, n) = Body(f, n)
    BY <2>5, BeforeToo
  <2>7. Body(g, k + 1) = x
    BY <2>2, <2>5, BeforeToo
  <2> HIDE DEF Body
  <2>8. \A n \in 0..k + 1 : g[n] = Body(g, n)
    BY <2>1, <2>4, <2>5, <2>6, <2>7, BeforeToo
  <2>9. g = [n \in 0..k + 1 |-> Body(g, n)]
    BY <2>3, <2>8
  <2>10. QED
    BY <2>9
<1>3. QED
  BY <1>1, <1>2, AllOfNat

LEMMA RunExists ==
  ASSUME NEW m \in Nat, NEW C, NEW o, NEW p
  PROVE  \E f : f = [n \in 0..m |-> IF n = 0 THEN Begun(p) ELSE CompareItem(C, o, n, f[n - 1])]
<1> DEFINE Body(f, n) == IF n = 0 THEN Begun(p) ELSE CompareItem(C, o, n, f[n - 1])
           T == {k \in Nat : \E f : f = [n \in 0..k |-> Body(f, n)]}
<1>1. 0 \in T
  <2>1. [n \in 0..0 |-> Begun(p)] = [n \in 0..0 |-> Body([i \in 0..0 |-> Begun(p)], n)]
    OBVIOUS
  <2>2. QED
    BY <2>1
<1>2. ASSUME NEW k \in Nat, k \in T PROVE k + 1 \in T
  <2>1. PICK f : f = [n \in 0..k |-> Body(f, n)]
    BY <1>2
  <2>2. PICK x : x = Body(f, k + 1)
    OBVIOUS
  <2> DEFINE g == Longer(f, k, x)
            W == LongerRange(f, k, x)
  <2>3. g \in [0..k + 1 -> W]
    BY LongerType
  <2>4. g[k + 1] = x
    BY LongerEnd
  <2>5. \A n \in 0..k : g[n] = f[n]
    BY LongerStart
  <2> HIDE DEF g, W
  <2>6. \A n \in 0..k : Body(g, n) = Body(f, n)
    BY <2>5, BeforeToo
  <2>7. Body(g, k + 1) = x
    BY <2>2, <2>5, BeforeToo
  <2> HIDE DEF Body
  <2>8. \A n \in 0..k + 1 : g[n] = Body(g, n)
    BY <2>1, <2>4, <2>5, <2>6, <2>7, BeforeToo
  <2>9. g = [n \in 0..k + 1 |-> Body(g, n)]
    BY <2>3, <2>8
  <2>10. QED
    BY <2>9
<1>3. QED
  BY <1>1, <1>2, AllOfNat

\* The objects of each depth hold those of the depth before.
LEMMA ObjectsOfDepth ==
  /\ Objects[0] = {}
  /\ \A n \in 1..MaxDepth : Objects[n] = Holding(Objects[n - 1])
<1>1. Objects = [n \in 0..MaxDepth |-> IF n = 0 THEN {} ELSE Holding(Objects[n - 1])]
  BY ObjectsExist, MatchAssumption DEF Objects
<1>2. 0 \in 0..MaxDepth /\ \A n \in 1..MaxDepth : n \in 0..MaxDepth /\ n # 0
  BY MatchAssumption
<1>3. QED
  BY <1>1, <1>2

\* Objects match when their parts do.
LEMMA MatchingOfDepth ==
  /\ Matching[0] = {}
  /\ \A n \in 1..MaxDepth :
       Matching[n] = {x \in Pairs(n) : MatchedBy(Matching[n - 1], x[1], x[2])}
<1>1. Matching = [n \in 0..MaxDepth |-> IF n = 0 THEN {}
                    ELSE {x \in Pairs(n) : MatchedBy(Matching[n - 1], x[1], x[2])}]
  BY MatchingExists, MatchAssumption DEF Matching
<1>2. 0 \in 0..MaxDepth /\ \A n \in 1..MaxDepth : n \in 0..MaxDepth /\ n # 0
  BY MatchAssumption
<1>3. QED
  BY <1>1, <1>2

\* An expectation is anchored when its parts are.
LEMMA AnchoredOfDepth ==
  /\ AnchoredOf[0] = {}
  /\ \A n \in 1..MaxDepth : AnchoredOf[n] = {p \in Objects[n] : AnchoredBy(AnchoredOf[n - 1], p)}
<1>1. AnchoredOf = [n \in 0..MaxDepth |-> IF n = 0 THEN {}
                      ELSE {p \in Objects[n] : AnchoredBy(AnchoredOf[n - 1], p)}]
  BY AnchoredExists, MatchAssumption DEF AnchoredOf
<1>2. 0 \in 0..MaxDepth /\ \A n \in 1..MaxDepth : n \in 0..MaxDepth /\ n # 0
  BY MatchAssumption
<1>3. QED
  BY <1>1, <1>2

\* Objects are compared by comparing their parts.
LEMMA ComparisonOfDepth ==
  \A n \in 1..MaxDepth :
    Comparison[n] = [x \in Pairs(n) |-> Compared(Comparison[n - 1], x[1], x[2])]
<1>1. Comparison = [n \in 0..MaxDepth |-> IF n = 0 THEN <<>>
                      ELSE [x \in Pairs(n) |-> Compared(Comparison[n - 1], x[1], x[2])]]
  BY ComparisonExists, MatchAssumption DEF Comparison
<1>2. \A n \in 1..MaxDepth : n \in 0..MaxDepth /\ n # 0
  BY MatchAssumption
<1>3. QED
  BY <1>1, <1>2

\* What becomes of an item, object by object.
LEMMA TriedSteps ==
  ASSUME NEW C, NEW o, NEW item, NEW at, Len(o) + 1 - at \in Nat
  PROVE  /\ Tried(C, o, item, at)[0] = item
         /\ \A k \in 1..Len(o) + 1 - at :
              Tried(C, o, item, at)[k] = C[<<o[at + k - 1], Tried(C, o, item, at)[k - 1]>>].p
<1> DEFINE m == Len(o) + 1 - at
           tried == Tried(C, o, item, at)
<1>1. m \in Nat
  OBVIOUS
<1>2. \A i \in Nat :
        \E f : f = [n \in 0..i |-> IF n = 0 THEN item ELSE C[<<o[at + n - 1], f[n - 1]>>].p]
  <2> DEFINE Body(f, n) == IF n = 0 THEN item ELSE C[<<o[at + n - 1], f[n - 1]>>].p
             T == {k \in Nat : \E f : f = [n \in 0..k |-> Body(f, n)]}
  <2>1. 0 \in T
    <3>1. [n \in 0..0 |-> item] = [n \in 0..0 |-> Body([i \in 0..0 |-> item], n)]
      OBVIOUS
    <3>2. QED
      BY <3>1
  <2>2. ASSUME NEW k \in Nat, k \in T PROVE k + 1 \in T
    <3>1. PICK f : f = [n \in 0..k |-> Body(f, n)]
      BY <2>2
    <3>2. PICK x : x = Body(f, k + 1)
      OBVIOUS
    <3> DEFINE g == Longer(f, k, x)
              W == LongerRange(f, k, x)
    <3>3. g \in [0..k + 1 -> W]
      BY LongerType
    <3>4. g[k + 1] = x
      BY LongerEnd
    <3>5. \A n \in 0..k : g[n] = f[n]
      BY LongerStart
    <3> HIDE DEF g, W
    <3>6. \A n \in 0..k : Body(g, n) = Body(f, n)
      BY <3>5, BeforeToo
    <3>7. Body(g, k + 1) = x
      BY <3>2, <3>5, BeforeToo
    <3> HIDE DEF Body
    <3>8. \A n \in 0..k + 1 : g[n] = Body(g, n)
      BY <3>1, <3>4, <3>5, <3>6, <3>7, BeforeToo
    <3>9. g = [n \in 0..k + 1 |-> Body(g, n)]
      BY <3>3, <3>8
    <3>10. QED
      BY <3>9
  <2>3. QED
    BY <2>1, <2>2, AllOfNat
<1>3. tried = [k \in 0..m |-> IF k = 0 THEN item ELSE C[<<o[at + k - 1], tried[k - 1]>>].p]
  BY <1>2, <1>1 DEF Tried
<1> HIDE DEF m, tried
<1>4. 0 \in 0..m /\ \A k \in 1..m : k \in 0..m /\ k # 0
  BY <1>1
<1>5. tried[0] = item /\ \A k \in 1..m : tried[k] = C[<<o[at + k - 1], tried[k - 1]>>].p
  BY <1>3, <1>4
<1>6. QED
  BY <1>5 DEF m, tried

\* What becomes of a list, item by item.
LEMMA RunSteps ==
  ASSUME NEW C, NEW o, NEW p, Len(p) \in Nat
  PROVE  /\ Run(C, o, p)[0] = Begun(p)
         /\ \A i \in 1..Len(p) : Run(C, o, p)[i] = CompareItem(C, o, i, Run(C, o, p)[i - 1])
<1> DEFINE m == Len(p)
           run == Run(C, o, p)
<1>1. run = [i \in 0..m |-> IF i = 0 THEN Begun(p) ELSE CompareItem(C, o, i, run[i - 1])]
  BY RunExists DEF Run
<1>2. m \in Nat
  OBVIOUS
<1> HIDE DEF m, run
<1>3. 0 \in 0..m /\ \A k \in 1..m : k \in 0..m /\ k # 0
  BY <1>2
<1>4. run[0] = Begun(p) /\ \A i \in 1..m : run[i] = CompareItem(C, o, i, run[i - 1])
  BY <1>1, <1>3
<1>5. QED
  BY <1>4 DEF m, run

-----------------------------------------------------------------------------
(* Matching: what a comparison of parts is to be, and the dicts it is used for. *)

\* Whatever matches q matches p as well.
Follows(S, M, q, p) ==
  (q = Ellipsis <=> p = Ellipsis) /\ \A x \in S : <<x, q>> \in M => <<x, p>> \in M

\* What a comparison of parts is to be.
Right(S, M, C, A) ==
  /\ Missing \notin S
  /\ \A o \in S : <<o, Ellipsis>> \in M
  /\ \A o \in S : \A p \in S \ {Ellipsis} :
       /\ C[<<o, p>>].p \in S \ {Ellipsis} /\ Follows(S, M, C[<<o, p>>].p, p)
       /\ C[<<o, p>>].ok => <<o, p>> \in M
       /\ <<o, p>> \in M /\ p \in A => C[<<o, p>>].ok

LEMMA FollowsItself == ASSUME NEW S, NEW M, NEW p PROVE Follows(S, M, p, p)
BY DEF Follows

\* What follows what follows p follows p.
LEMMA FollowsOn ==
  ASSUME NEW S, NEW M, NEW p, NEW q, NEW r, Follows(S, M, r, q), Follows(S, M, q, p)
  PROVE  Follows(S, M, r, p)
BY DEF Follows

\* An item of a dict.
LEMMA ItemRight ==
  ASSUME NEW S, NEW M, NEW C, NEW A, Right(S, M, C, A), NEW o \in S, NEW p \in S
  PROVE  /\ Item(C, o, p).p \in S /\ Follows(S, M, Item(C, o, p).p, p)
         /\ Item(C, o, p).ok => <<o, p>> \in M
         /\ <<o, p>> \in M /\ p \in A => Item(C, o, p).ok
<1>1. CASE p = Ellipsis
  BY <1>1, FollowsItself DEF Item, Passes, Right
<1>2. CASE p # Ellipsis
  BY <1>2 DEF Item, Right
<1>3. QED
  BY <1>1, <1>2

Dicts(S) == [DictKeys -> S \cup {Missing}]

DictFollows(S, M, q, p) ==
  \A k \in DictKeys : /\ q[k] = Missing <=> p[k] = Missing
                      /\ p[k] # Missing => Follows(S, M, q[k], p[k])

\* The keys of a dict: those before the first that fails are compared and follow what
\* they were.
LEMMA CompareKeysRight ==
  ASSUME NEW S, NEW M, NEW C, NEW A, Right(S, M, C, A), NEW o \in Dicts(S), NEW p \in Dicts(S),
         NEW keys \in SUBSET DictKeys
  PROVE  LET r == CompareKeys(C, o, p, keys)
         IN  /\ r.p \in Dicts(S) /\ DictFollows(S, M, r.p, p)
             /\ \A k \in DictKeys \ keys : r.p[k] = p[k]
             /\ r.ok => \A k \in keys : k \in KeysOf(o) /\ k \in KeysOf(p) /\ <<o[k], p[k]>> \in M
             /\ (\A k \in keys : /\ k \in KeysOf(o) /\ k \in KeysOf(p)
                                 /\ <<o[k], p[k]>> \in M /\ p[k] \in A) => r.ok
<1> DEFINE fails(k) == k \notin KeysOf(o) \cap KeysOf(p) \/ ~Item(C, o[k], p[k]).ok
           reached == {k \in keys \cap KeysOf(o) \cap KeysOf(p) :
                        \E j \in DOMAIN KeyOrder :
                          KeyOrder[j] = k /\ \A i \in 1..j - 1 : KeyOrder[i] \in keys => ~fails(KeyOrder[i])}
           q == [k \in DictKeys |-> IF k \in reached THEN Item(C, o[k], p[k]).p ELSE p[k]]
           r == CompareKeys(C, o, p, keys)
<1>1. r = [ok |-> \A k \in keys : ~fails(k), p |-> q]
  BY DEF CompareKeys
<1>2. reached \subseteq keys \cap KeysOf(o) \cap KeysOf(p)
  OBVIOUS
<1> HIDE DEF reached
<1>3. \A k \in KeysOf(o) : k \in DictKeys /\ o[k] \in S
  BY DEF KeysOf, Dicts
<1>4. \A k \in KeysOf(p) : k \in DictKeys /\ p[k] \in S
  BY DEF KeysOf, Dicts
<1>5. \A k \in KeysOf(o) \cap KeysOf(p) :
        /\ Item(C, o[k], p[k]).p \in S /\ Follows(S, M, Item(C, o[k], p[k]).p, p[k])
        /\ Item(C, o[k], p[k]).ok => <<o[k], p[k]>> \in M
        /\ <<o[k], p[k]>> \in M /\ p[k] \in A => Item(C, o[k], p[k]).ok
  BY <1>3, <1>4, ItemRight
<1>6. ASSUME NEW k \in DictKeys
      PROVE  /\ q[k] \in S \cup {Missing} /\ (q[k] = Missing <=> p[k] = Missing)
             /\ p[k] # Missing => Follows(S, M, q[k], p[k])
             /\ k \notin keys => q[k] = p[k]
  <2>1. CASE k \in reached
    <3>1. k \in KeysOf(p) /\ q[k] = Item(C, o[k], p[k]).p
      BY <1>2, <2>1
    <3>2. QED
      BY <1>2, <1>5, <2>1, <3>1 DEF Right, KeysOf
  <2>2. CASE k \notin reached
    <3>1. q[k] = p[k]
      BY <2>2
    <3>2. QED
      BY <3>1, FollowsItself DEF Dicts
  <2>3. QED
    BY <2>1, <2>2
<1>7. q \in Dicts(S)
  <2>1. \A k \in DictKeys : (IF k \in reached THEN Item(C, o[k], p[k]).p ELSE p[k]) \in S \cup {Missing}
    BY <1>6
  <2>2. QED
    BY <2>1 DEF Dicts
<1>8. (\A k \in keys : ~fails(k)) => \A k \in keys : k \in KeysOf(o) /\ k \in KeysOf(p) /\ <<o[k], p[k]>> \in M
  BY <1>5
<1>9. (\A k \in keys : /\ k \in KeysOf(o) /\ k \in KeysOf(p)
                       /\ <<o[k], p[k]>> \in M /\ p[k] \in A) => (\A k \in keys : ~fails(k))
  BY <1>5
<1> HIDE DEF q, fails
<1>10. DictFollows(S, M, q, p) /\ \A k \in DictKeys \ keys : q[k] = p[k]
  BY <1>6 DEF DictFollows
<1>11. r.p = q /\ (r.ok <=> \A k \in keys : ~fails(k))
  BY <1>1
<1> HIDE DEF r
<1>12. QED
  BY <1>7, <1>8, <1>9, <1>10, <1>11 DEF r

\* What follows a dict matches no more than the dict.
LEMMA DictMatchesLess ==
  ASSUME NEW S, NEW M, NEW C, NEW A, Right(S, M, C, A), NEW o \in Dicts(S), NEW p \in Dicts(S),
         NEW q \in Dicts(S), DictFollows(S, M, q, p), DictMatches(M, o, q)
  PROVE  DictMatches(M, o, p)
<1>1. KeysOf(q) = KeysOf(p)
  BY DEF DictFollows, KeysOf
<1>2. \A k \in KeysOf(o) : k \in DictKeys /\ o[k] \in S
  BY DEF KeysOf, Dicts
<1>3. \A k \in KeysOf(p) : k \in DictKeys /\ Follows(S, M, q[k], p[k])
  BY DEF KeysOf, DictFollows
<1>4. \A k \in KeysOf(p) : \A x \in S : <<x, q[k]>> \in M => <<x, p[k]>> \in M
  BY <1>3 DEF Follows
<1>5. Dots \in DictKeys /\ Missing # Ellipsis
  BY MatchAssumption DEF Missing, Ellipsis
<1>6. (q[Dots] = Missing <=> p[Dots] = Missing) /\ (p[Dots] # Missing => (q[Dots] = Ellipsis <=> p[Dots] = Ellipsis))
  BY <1>5 DEF DictFollows, Follows
<1>7. p[Dots] \notin {Missing, Ellipsis} => Dots \in KeysOf(p)
  BY <1>5 DEF KeysOf
<1> DEFINE named == KeysOf(p) \ {Dots}
           more == KeysOf(o) \ KeysOf(p)
<1>8. /\ named \subseteq KeysOf(o)
      /\ \A k \in named : <<o[k], q[k]>> \in M
      /\ q[Dots] = Missing => more = {}
      /\ q[Dots] \notin {Missing, Ellipsis} => \E k \in more : more = {k} /\ <<o[k], q[Dots]>> \in M
  BY <1>1 DEF DictMatches
<1>9. \A k \in named : <<o[k], p[k]>> \in M
  BY <1>2, <1>4, <1>8
<1>10. ASSUME p[Dots] \notin {Missing, Ellipsis}
       PROVE  \E k \in more : more = {k} /\ <<o[k], p[Dots]>> \in M
  <2>1. PICK k \in more : more = {k} /\ <<o[k], q[Dots]>> \in M
    BY <1>6, <1>8, <1>10
  <2>2. o[k] \in S
    BY <1>2
  <2>3. QED
    BY <1>4, <1>7, <1>10, <2>1, <2>2
<1>11. QED
  BY <1>6, <1>8, <1>9, <1>10 DEF DictMatches

\* `...: v` in a dict: of finitely many keys one is left exactly when there are no two.
LEMMA OneIsLeft ==
  ASSUME NEW S \in SUBSET DictKeys
  PROVE  /\ Cardinality(S) = 1 <=> \E k \in S : S = {k}
         /\ Cardinality(S) = 1 => S = {CHOOSE k \in S : TRUE}
<1>1. IsFiniteSet(DictKeys)
  <2>1. IsFiniteSet(1..Len(KeyOrder))
    BY MatchAssumption, FS_Interval
  <2>2. KeyOrder \in [1..Len(KeyOrder) -> DictKeys]
    BY MatchAssumption
  <2>3. \A k \in DictKeys : \E i \in 1..Len(KeyOrder) : KeyOrder[i] = k
    BY <2>2 DEF DictKeys
  <2>4. KeyOrder \in Surjection(1..Len(KeyOrder), DictKeys)
    BY <2>2, <2>3 DEF Surjection
  <2>5. QED
    BY <2>1, <2>4, FS_Surjection
<1>2. IsFiniteSet(S)
  BY <1>1, FS_Subset
<1>3. Cardinality(S) = 1 <=> \E k : S = {k}
  BY <1>2, FS_Singleton
<1>4. QED
  BY <1>3

\* A dict is compared rightly when its items are.
LEMMA CompareDictsRight ==
  ASSUME NEW S, NEW M, NEW C, NEW A, Right(S, M, C, A), NEW o \in Dicts(S), NEW p \in Dicts(S)
  PROVE  LET r == CompareDicts(C, o, p)
         IN  /\ r.p \in Dicts(S) /\ DictFollows(S, M, r.p, p)
             /\ r.ok => DictMatches(M, o, p)
             /\ DictMatches(M, o, p) /\ (\A k \in KeysOf(p) : p[k] \in A) => r.ok
<1> DEFINE partial == Dots \in KeysOf(p)
           keys == IF partial THEN KeysOf(p) \ {Dots} ELSE KeysOf(p) \cup KeysOf(o)
           s == CompareKeys(C, o, p, keys)
           remaining == KeysOf(o) \ KeysOf(p)
           rest == C[<<o[CHOOSE k \in remaining : TRUE], p[Dots]>>]
           r == CompareDicts(C, o, p)
<1>1. r = IF ~s.ok \/ ~partial \/ p[Dots] = Ellipsis THEN s
          ELSE IF Cardinality(remaining) # 1 THEN Refuses(s.p)
          ELSE [ok |-> rest.ok, p |-> [s.p EXCEPT ![Dots] = rest.p]]
  BY DEF CompareDicts
<1>2. keys \subseteq DictKeys /\ remaining \subseteq DictKeys
  BY DEF KeysOf
<1>3. Dots \in DictKeys /\ Missing # Ellipsis
  BY MatchAssumption DEF Missing, Ellipsis
<1>4. partial <=> p[Dots] # Missing
  BY <1>3 DEF KeysOf
<1>5. /\ s.p \in Dicts(S) /\ DictFollows(S, M, s.p, p)
      /\ \A k \in DictKeys \ keys : s.p[k] = p[k]
      /\ s.ok => \A k \in keys : k \in KeysOf(o) /\ k \in KeysOf(p) /\ <<o[k], p[k]>> \in M
      /\ (\A k \in keys : /\ k \in KeysOf(o) /\ k \in KeysOf(p)
                          /\ <<o[k], p[k]>> \in M /\ p[k] \in A) => s.ok
  <2> HIDE DEF keys
  <2>1. QED
    BY <1>2, CompareKeysRight
<1>6. \A k \in KeysOf(o) : o[k] \in S
  BY DEF KeysOf, Dicts
<1>7. partial /\ p[Dots] # Ellipsis => p[Dots] \in S \ {Ellipsis}
  BY <1>3, <1>4 DEF Dicts
<1>8. Cardinality(remaining) = 1 => remaining = {CHOOSE k \in remaining : TRUE}
  BY <1>2, OneIsLeft
<1>9. (\E k \in remaining : remaining = {k}) => Cardinality(remaining) = 1
  BY <1>2, OneIsLeft
<1> HIDE DEF s
<1>10. CASE ~partial
  <2>1. r = s /\ keys = KeysOf(p) \cup KeysOf(o)
    BY <1>1, <1>10
  <2>2. DictMatches(M, o, p) <=> /\ KeysOf(p) = KeysOf(o)
                                 /\ \A k \in KeysOf(p) : <<o[k], p[k]>> \in M
    BY <1>4, <1>10 DEF DictMatches
  <2>3. QED
    BY <1>5, <2>1, <2>2
<1>11. CASE partial /\ (p[Dots] = Ellipsis \/ ~s.ok)
  <2>1. r = s /\ keys = KeysOf(p) \ {Dots}
    BY <1>1, <1>11
  <2>2. p[Dots] = Ellipsis =>
          (DictMatches(M, o, p) <=> /\ KeysOf(p) \ {Dots} \subseteq KeysOf(o)
                                    /\ \A k \in KeysOf(p) \ {Dots} : <<o[k], p[k]>> \in M)
    BY <1>3, <1>4, <1>11 DEF DictMatches
  <2>3. DictMatches(M, o, p) => /\ KeysOf(p) \ {Dots} \subseteq KeysOf(o)
                                /\ \A k \in KeysOf(p) \ {Dots} : <<o[k], p[k]>> \in M
    BY DEF DictMatches
  <2>4. QED
    BY <1>5, <1>11, <2>1, <2>2, <2>3
<1>12. CASE partial /\ p[Dots] # Ellipsis /\ s.ok
  <2>1. keys = KeysOf(p) \ {Dots}
    BY <1>12
  <2>2. \A k \in KeysOf(p) \ {Dots} : k \in KeysOf(o) /\ <<o[k], p[k]>> \in M
    BY <1>5, <1>12, <2>1
  <2>3. DictMatches(M, o, p) <=> \E k \in remaining : remaining = {k} /\ <<o[k], p[Dots]>> \in M
    BY <1>4, <1>12, <2>2 DEF DictMatches
  <2>4. CASE Cardinality(remaining) # 1
    <3>1. r = Refuses(s.p)
      BY <1>1, <1>12, <2>4
    <3>2. r.p = s.p /\ ~r.ok
      BY <3>1 DEF Refuses
    <3>3. QED
      BY <1>5, <1>9, <2>3, <2>4, <3>2
  <2>5. CASE Cardinality(remaining) = 1
    <3>1. PICK k \in remaining : remaining = {k} /\ rest = C[<<o[k], p[Dots]>>]
      BY <1>8, <2>5
    <3>2. o[k] \in S /\ p[Dots] \in S \ {Ellipsis}
      BY <1>6, <1>7, <1>12
    <3>3. /\ rest.p \in S \ {Ellipsis} /\ Follows(S, M, rest.p, p[Dots])
          /\ rest.ok => <<o[k], p[Dots]>> \in M
          /\ <<o[k], p[Dots]>> \in M /\ p[Dots] \in A => rest.ok
      BY <3>1, <3>2 DEF Right
    <3> HIDE DEF rest
    <3>4. r.ok = rest.ok /\ r.p = [s.p EXCEPT ![Dots] = rest.p]
      BY <1>1, <1>12, <2>5
    <3>5. r.p \in Dicts(S)
      BY <1>3, <1>5, <3>3, <3>4 DEF Dicts
    <3>6. DictFollows(S, M, r.p, p)
      <4>1. \A j \in DictKeys : r.p[j] = IF j = Dots THEN rest.p ELSE s.p[j]
        BY <1>5, <3>4 DEF Dicts
      <4>2. rest.p # Missing /\ p[Dots] # Missing
        BY <3>2, <3>3 DEF Right
      <4>3. QED
        BY <1>5, <3>3, <4>1, <4>2 DEF DictFollows
    <3>7. (DictMatches(M, o, p) <=> <<o[k], p[Dots]>> \in M)
      BY <2>3, <3>1
    <3>8. QED
      BY <1>12, <3>3, <3>4, <3>5, <3>6, <3>7
  <2>6. QED
    BY <2>4, <2>5
<1>13. QED
  BY <1>10, <1>11, <1>12

-----------------------------------------------------------------------------
(* Matching: lists. *)

ListFollows(S, M, q, p) ==
  Len(q) = Len(p) /\ \A i \in 1..Len(p) : Follows(S, M, q[i], p[i])

\* What follows a list matches no more than the list.
LEMMA ListMatchesLess ==
  ASSUME NEW S, NEW M, NEW o \in Seq(S), NEW p \in Seq(S), NEW q \in Seq(S),
         ListFollows(S, M, q, p), ListMatches(M, o, q)
  PROVE  ListMatches(M, o, p)
<1>1. DOMAIN p = 1..Len(p) /\ DOMAIN q = 1..Len(p) /\ Len(q) = Len(p) /\ Len(p) \in Nat
  BY DEF ListFollows
<1>2. \A i \in 1..Len(p) : (q[i] = Ellipsis <=> p[i] = Ellipsis)
  BY DEF ListFollows, Follows
<1> DEFINE items == {i \in DOMAIN p : p[i] # Ellipsis}
<1>3. {i \in DOMAIN q : q[i] # Ellipsis} = items
  BY <1>1, <1>2
<1>4. PICK f \in [items -> DOMAIN o] :
        /\ \A i \in items : <<o[f[i]], q[i]>> \in M
        /\ \A i, j \in items : i < j => f[i] < f[j]
        /\ \A i \in items : i - 1 \in items => f[i] = f[i - 1] + 1
        /\ 1 \in items => f[1] = 1
        /\ Len(p) \in items => f[Len(p)] = Len(o)
        /\ q = <<>> => o = <<>>
  <2> HIDE DEF items
  <2>1. QED
    BY <1>1, <1>3 DEF ListMatches
<1>5. \A i \in items : i \in 1..Len(p) /\ f[i] \in DOMAIN o
  BY <1>1
<1>6. \A i \in items : <<o[f[i]], p[i]>> \in M
  <2> HIDE DEF items
  <2>1. \A i \in items : o[f[i]] \in S
    BY <1>5
  <2>2. QED
    BY <1>4, <1>5, <2>1 DEF ListFollows, Follows
<1>7. p = <<>> => q = <<>>
  BY <1>1
<1> HIDE DEF items
<1>8. QED
  BY <1>4, <1>6, <1>7 DEF ListMatches, items

\* The item as it is before it is compared with the k-th object after o[at].
LEMMA TriedRight ==
  ASSUME NEW S, NEW M, NEW C, NEW A, Right(S, M, C, A), NEW o \in Seq(S),
         NEW item \in S \ {Ellipsis}, NEW at \in 1..Len(o) + 1
  PROVE  \A k \in 0..Len(o) + 1 - at :
           /\ Tried(C, o, item, at)[k] \in S \ {Ellipsis}
           /\ Follows(S, M, Tried(C, o, item, at)[k], item)
<1> DEFINE tried == Tried(C, o, item, at)
           Fine(k) == tried[k] \in S \ {Ellipsis} /\ Follows(S, M, tried[k], item)
           m == Len(o) + 1 - at
           T == {k \in Nat : k <= m => Fine(k)}
<1>1. m \in Nat
  OBVIOUS
<1>2. /\ tried[0] = item
      /\ \A k \in 1..m : tried[k] = C[<<o[at + k - 1], tried[k - 1]>>].p
  BY <1>1, TriedSteps
<1> HIDE DEF tried
<1>3. 0 \in T
  BY <1>2, FollowsItself
<1>4. ASSUME NEW k \in Nat, k \in T PROVE k + 1 \in T
  <2>1. SUFFICES ASSUME k + 1 <= m PROVE Fine(k + 1)
    OBVIOUS
  <2>2. k + 1 \in 1..m /\ (k + 1) - 1 = k /\ k <= m
    BY <1>1, <2>1
  <2>3. at + (k + 1) - 1 \in 1..Len(o)
    BY <2>1
  <2>4. Fine(k)
    BY <1>4, <2>2
  <2>5. PICK x \in S : x = o[at + (k + 1) - 1]
    BY <2>3
  <2>6. tried[k + 1] = C[<<x, tried[k]>>].p
    BY <1>2, <2>2, <2>5
  <2>7. tried[k + 1] \in S \ {Ellipsis} /\ Follows(S, M, tried[k + 1], tried[k])
    BY <2>4, <2>5, <2>6 DEF Right
  <2>8. QED
    BY <2>4, <2>7, FollowsOn
<1> HIDE DEF T
<1>5. Nat \subseteq T
  BY <1>3, <1>4, AllOfNat
<1>6. \A k \in 0..m : k \in T /\ k <= m
  BY <1>1, <1>5
<1>7. QED
  BY <1>6 DEF tried, T

\* What Seek finds is an object that the item matches as it then is.
LEMMA SeekRight ==
  ASSUME NEW S, NEW M, NEW C, NEW A, Right(S, M, C, A), NEW o \in Seq(S),
         NEW item \in S \ {Ellipsis}, NEW at \in 1..Len(o) + 1
  PROVE  LET r == Seek(C, o, item, at)
         IN  /\ r.p \in S \ {Ellipsis} /\ Follows(S, M, r.p, item)
             /\ r.ok => r.at \in at..Len(o)
<1> DEFINE tried == Tried(C, o, item, at)
           m == Len(o) + 1 - at
           hits == {k \in 0..Len(o) - at : C[<<o[at + k], tried[k]>>].ok}
           r == Seek(C, o, item, at)
<1>1. m \in Nat
  OBVIOUS
<1>2. \A k \in 0..m : tried[k] \in S \ {Ellipsis} /\ Follows(S, M, tried[k], item)
  BY TriedRight
<1>3. CASE hits = {}
  <2>1. r = [at |-> at, ok |-> FALSE, p |-> tried[m]]
    BY <1>3 DEF Seek
  <2>2. m \in 0..m
    BY <1>1
  <2> HIDE DEF tried, r, m, hits
  <2>3. QED
    BY <1>2, <2>1, <2>2 DEF r
<1>4. CASE hits # {}
  <2> DEFINE k == CHOOSE k \in hits : \A h \in hits : k <= h
  <2>1. hits \in SUBSET Nat
    OBVIOUS
  <2>2. k \in hits
    <3> HIDE DEF hits
    <3>1. \E i \in hits : \A h \in hits : i <= h
      BY <1>4, <2>1, LeastOfNat
    <3>2. QED
      BY <3>1
  <2>3. r = [at |-> at + k, ok |-> TRUE, p |-> tried[k + 1]]
    BY <1>4 DEF Seek
  <2>4. k \in 0..Len(o) - at
    BY <2>2
  <2> HIDE DEF k, hits, tried
  <2>5. k + 1 \in 0..m /\ at + k \in at..Len(o)
    BY <2>4
  <2> HIDE DEF r, m
  <2>6. QED
    BY <1>2, <2>3, <2>5 DEF r, tried
<1>5. QED
  BY <1>3, <1>4

Items(p, i) == {j \in 1..i : p[j] # Ellipsis}

\* The first i items can be laid over the objects before `at`.
LaidBy(M, o, p, i, at, f) ==
  /\ f \in [Items(p, i) -> DOMAIN o]
  /\ \A j \in Items(p, i) : <<o[f[j]], p[j]>> \in M /\ f[j] < at
  /\ \A j, k \in Items(p, i) : j < k => f[j] < f[k]
  /\ \A j \in Items(p, i) : j - 1 \in Items(p, i) => f[j] = f[j - 1] + 1
  /\ 1 \in Items(p, i) => f[1] = 1
  /\ i \in Items(p, i) => f[i] = at - 1

\* What holds of the comparison of a list after i items.
StateRight(S, M, o, p, i, s) ==
  /\ DOMAIN s = {"ok", "p", "at", "skip"}
  /\ s.p \in Seq(S) /\ ListFollows(S, M, s.p, p) /\ \A j \in i + 1..Len(p) : s.p[j] = p[j]
  /\ s.ok => /\ s.at \in 1..Len(o) + 1 /\ (i = 0 => s.at = 1)
             /\ s.skip <=> i > 0 /\ p[i] = Ellipsis
             /\ \E f : LaidBy(M, o, p, i, s.at, f)

\* One more item is laid over an object behind those used before.
LEMMA LaidOn ==
  ASSUME NEW S, NEW M, NEW o \in Seq(S), NEW p \in Seq(S), NEW i \in 1..Len(p),
         NEW at \in 1..Len(o) + 1, NEW f, LaidBy(M, o, p, i - 1, at, f),
         p[i] # Ellipsis, NEW b \in at..Len(o), <<o[b], p[i]>> \in M,
         i = 1 => b = 1, i - 1 \in Items(p, i - 1) => b = at
  PROVE  \E g : LaidBy(M, o, p, i, b + 1, g)
<1> DEFINE I == Items(p, i - 1)
           g == [j \in Items(p, i) |-> IF j = i THEN b ELSE f[j]]
<1>1. Items(p, i) = I \cup {i} /\ i \notin I
  BY DEF Items
<1>2. \A j \in I : j \in 1..i - 1 /\ j < i /\ j # i
  BY DEF Items
<1>3. b \in DOMAIN o /\ DOMAIN o \subseteq Nat /\ b \in Nat /\ at \in Nat
  OBVIOUS
<1>4. \A j \in I : f[j] \in DOMAIN o /\ f[j] \in Nat /\ f[j] < at
  BY <1>3 DEF LaidBy
<1>5. g[i] = b /\ \A j \in I : g[j] = f[j]
  BY <1>1, <1>2
<1>6. g \in [Items(p, i) -> DOMAIN o]
  BY <1>1, <1>2, <1>3, <1>4
<1> HIDE DEF g
<1>7. \A j \in Items(p, i) : <<o[g[j]], p[j]>> \in M /\ g[j] < b + 1
  <2>1. \A j \in I : <<o[g[j]], p[j]>> \in M
    BY <1>5 DEF LaidBy
  <2>2. \A j \in I : g[j] < b + 1
    BY <1>3, <1>4, <1>5
  <2>3. g[i] < b + 1 /\ <<o[g[i]], p[i]>> \in M
    BY <1>3, <1>5
  <2>4. QED
    BY <1>1, <2>1, <2>2, <2>3
<1>8. \A j, k \in Items(p, i) : j < k => g[j] < g[k]
  <2>1. \A j, k \in I : j < k => g[j] < g[k]
    BY <1>5 DEF LaidBy
  <2>2. \A j \in I : g[j] < g[i] /\ ~ (i < j)
    BY <1>2, <1>3, <1>4, <1>5
  <2>3. QED
    BY <1>1, <2>1, <2>2
<1>9. \A j \in Items(p, i) : j - 1 \in Items(p, i) => g[j] = g[j - 1] + 1
  <2>1. \A j \in I : j - 1 # i
    BY <1>2
  <2>2. \A j \in I : j - 1 \in I => g[j] = g[j - 1] + 1
    BY <1>5 DEF LaidBy
  <2>3. i - 1 # i
    OBVIOUS
  <2>4. i - 1 \in I => g[i] = g[i - 1] + 1
    <3>1. SUFFICES ASSUME i - 1 \in I PROVE g[i] = g[i - 1] + 1
      OBVIOUS
    <3>2. b = at /\ g[i - 1] = f[i - 1] /\ f[i - 1] = at - 1 /\ g[i] = b
      BY <1>5, <3>1 DEF LaidBy
    <3>3. QED
      BY <1>3, <3>2
  <2>5. QED
    BY <1>1, <2>1, <2>2, <2>3, <2>4
<1>10. 1 \in Items(p, i) => g[1] = 1
  BY <1>1, <1>5 DEF LaidBy
<1>11. i \in Items(p, i) => g[i] = (b + 1) - 1
  BY <1>3, <1>5
<1>12. QED
  BY <1>6, <1>7, <1>8, <1>9, <1>10, <1>11 DEF LaidBy

Found(C, o, item, at, skip) ==
  IF skip THEN Seek(C, o, item, at) ELSE [at |-> at, ok |-> at <= Len(o), p |-> item]
Settled(C, o, found) == IF found.ok THEN C[<<o[found.at], found.p>>] ELSE Refuses(found.p)

\* The object that an item is compared with at last, and what the comparison says.
LEMMA FoundRight ==
  ASSUME NEW S, NEW M, NEW C, NEW A, Right(S, M, C, A), NEW o \in Seq(S),
         NEW item \in S \ {Ellipsis}, NEW at \in 1..Len(o) + 1, NEW skip
  PROVE  LET found == Found(C, o, item, at, skip)
             r == Settled(C, o, found)
         IN  /\ r.p \in S \ {Ellipsis} /\ Follows(S, M, r.p, item)
             /\ r.ok => found.at \in at..Len(o) /\ <<o[found.at], item>> \in M
<1> DEFINE found == Found(C, o, item, at, skip)
           r == Settled(C, o, found)
<1>1. /\ found.p \in S \ {Ellipsis} /\ Follows(S, M, found.p, item)
      /\ found.ok => found.at \in at..Len(o)
  <2>1. CASE skip
    <3>1. found = Seek(C, o, item, at)
      BY <2>1 DEF Found
    <3> HIDE DEF found
    <3>2. QED
      BY <3>1, SeekRight
  <2>2. CASE ~skip
    <3>1. found = [at |-> at, ok |-> at <= Len(o), p |-> item]
      BY <2>2 DEF Found
    <3> HIDE DEF found
    <3>2. found.p = item /\ found.at = at /\ (found.ok <=> at <= Len(o))
      BY <3>1
    <3>3. at <= Len(o) => at \in at..Len(o)
      OBVIOUS
    <3>4. Follows(S, M, item, item)
      BY FollowsItself
    <3>5. QED
      BY <3>2, <3>3, <3>4
  <2>3. QED
    BY <2>1, <2>2
<1> HIDE DEF found
<1>2. CASE found.ok
  <2>1. PICK x \in S : x = o[found.at]
    BY <1>1, <1>2
  <2>2. r = C[<<x, found.p>>]
    BY <1>2, <2>1 DEF Settled
  <2> HIDE DEF r
  <2>3. /\ r.p \in S \ {Ellipsis} /\ Follows(S, M, r.p, found.p)
        /\ r.ok => <<x, found.p>> \in M
    BY <1>1, <2>2 DEF Right
  <2>4. Follows(S, M, r.p, item)
    BY <1>1, <2>3, FollowsOn
  <2>5. r.ok => <<x, item>> \in M
    BY <1>1, <2>3 DEF Follows
  <2>6. QED
    BY <1>1, <1>2, <2>1, <2>3, <2>4, <2>5 DEF r, found
<1>3. CASE ~found.ok
  <2>1. r = Refuses(found.p)
    BY <1>3 DEF Settled
  <2>2. r.p = found.p /\ ~r.ok
    BY <2>1 DEF Refuses
  <2> HIDE DEF r
  <2>3. QED
    BY <1>1, <2>2 DEF r, found
<1>4. QED
  BY <1>2, <1>3

\* An item of a list.
LEMMA StepRight ==
  ASSUME NEW S, NEW M, NEW C, NEW A, Right(S, M, C, A), NEW o \in Seq(S), NEW p \in Seq(S),
         NEW i \in 1..Len(p), NEW s, StateRight(S, M, o, p, i - 1, s)
  PROVE  StateRight(S, M, o, p, i, CompareItem(C, o, i, s))
<1> DEFINE t == CompareItem(C, o, i, s)
<1>1. s.p[i] = p[i] /\ p[i] \in S /\ s.p \in Seq(S) /\ Len(s.p) = Len(p)
  <2>1. i \in (i - 1) + 1..Len(p)
    OBVIOUS
  <2>2. QED
    BY <2>1 DEF StateRight, ListFollows
<1>2. \A j \in i + 1..Len(p) : s.p[j] = p[j]
  <2>1. \A j \in i + 1..Len(p) : j \in (i - 1) + 1..Len(p)
    OBVIOUS
  <2>2. QED
    BY <2>1 DEF StateRight
<1>3. i # 0 /\ i > 0
  OBVIOUS
<1>4. CASE ~s.ok
  <2>1. t = s
    BY <1>4 DEF CompareItem
  <2>2. QED
    BY <1>2, <1>4, <2>1 DEF StateRight
<1>5. CASE s.ok /\ p[i] = Ellipsis
  <2>1. t = [s EXCEPT !.skip = TRUE]
    BY <1>1, <1>5 DEF CompareItem
  <2>2. DOMAIN t = {"ok", "p", "at", "skip"} /\ t.p = s.p /\ t.at = s.at /\ t.skip /\ t.ok
    BY <1>5, <2>1 DEF StateRight
  <2>3. PICK f : LaidBy(M, o, p, i - 1, s.at, f)
    BY <1>5 DEF StateRight
  <2>4. Items(p, i) = Items(p, i - 1) /\ i \notin Items(p, i)
    <3>1. \A j \in 1..i : j \in 1..i - 1 \/ j = i
      OBVIOUS
    <3>2. \A j \in 1..i - 1 : j \in 1..i
      OBVIOUS
    <3>3. QED
      BY <1>5, <3>1, <3>2 DEF Items
  <2>5. LaidBy(M, o, p, i, s.at, f)
    BY <2>3, <2>4 DEF LaidBy
  <2> HIDE DEF t
  <2>6. QED
    BY <1>2, <1>3, <1>5, <2>2, <2>5 DEF StateRight, t
<1>6. CASE s.ok /\ p[i] # Ellipsis
  <2> DEFINE found == Found(C, o, p[i], s.at, s.skip)
             r == Settled(C, o, found)
  <2>1. t = [ok |-> r.ok, p |-> [s.p EXCEPT ![i] = r.p], at |-> found.at + 1, skip |-> FALSE]
    BY <1>1, <1>6 DEF CompareItem, Found, Settled
  <2>2. s.at \in 1..Len(o) + 1
    BY <1>6 DEF StateRight
  <2>3. /\ r.p \in S \ {Ellipsis} /\ Follows(S, M, r.p, p[i])
        /\ r.ok => found.at \in s.at..Len(o) /\ <<o[found.at], p[i]>> \in M
    BY <1>1, <1>6, <2>2, FoundRight
  <2>4. i - 1 = 0 => s.at = 1
    BY <1>6 DEF StateRight
  <2>5. ~s.skip => found.at = s.at
    BY DEF Found
  <2>6. s.skip <=> i - 1 > 0 /\ p[i - 1] = Ellipsis
    BY <1>6 DEF StateRight
  <2> HIDE DEF found, r
  <2>7. /\ DOMAIN t = {"ok", "p", "at", "skip"} /\ t.p = [s.p EXCEPT ![i] = r.p]
        /\ (t.ok <=> r.ok) /\ t.at = found.at + 1 /\ ~t.skip
    BY <2>1
  <2> HIDE DEF t
  <2>8. t.p \in Seq(S) /\ Len(t.p) = Len(p) /\ t.p[i] = r.p /\ \A j \in 1..Len(p) : j # i => t.p[j] = s.p[j]
    BY <1>1, <2>3, <2>7
  <2>9. ListFollows(S, M, t.p, p)
    BY <2>3, <2>8 DEF ListFollows, StateRight
  <2>10. \A j \in i + 1..Len(p) : t.p[j] = p[j]
    <3>1. \A j \in i + 1..Len(p) : j \in 1..Len(p) /\ j # i
      OBVIOUS
    <3>2. QED
      BY <1>2, <2>8, <3>1
  <2>11. ASSUME t.ok
         PROVE  t.at \in 1..Len(o) + 1 /\ \E f : LaidBy(M, o, p, i, t.at, f)
    <3>1. PICK f : LaidBy(M, o, p, i - 1, s.at, f)
      BY <1>6 DEF StateRight
    <3>2. found.at \in s.at..Len(o) /\ <<o[found.at], p[i]>> \in M
      BY <2>3, <2>7, <2>11
    <3>3. i = 1 => found.at = 1
      BY <2>4, <2>5, <2>6
    <3>4. i - 1 \in Items(p, i - 1) => found.at = s.at
      BY <2>5, <2>6 DEF Items
    <3>5. \E g : LaidBy(M, o, p, i, found.at + 1, g)
      BY <1>6, <2>2, <3>1, <3>2, <3>3, <3>4, LaidOn
    <3>6. QED
      BY <2>2, <2>7, <3>2, <3>5
  <2>12. QED
    BY <1>3, <1>6, <2>7, <2>8, <2>9, <2>10, <2>11 DEF StateRight, t
<1>7. QED
  BY <1>1, <1>4, <1>5, <1>6

\* After each item of a list.
LEMMA RunRight ==
  ASSUME NEW S, NEW M, NEW C, NEW A, Right(S, M, C, A), NEW o \in Seq(S), NEW p \in Seq(S)
  PROVE  \A i \in 0..Len(p) : StateRight(S, M, o, p, i, Run(C, o, p)[i])
<1> DEFINE run == Run(C, o, p)
           T == {i \in Nat : i <= Len(p) => StateRight(S, M, o, p, i, run[i])}
<1>1. Len(p) \in Nat
  OBVIOUS
<1>2. run[0] = Begun(p) /\ \A i \in 1..Len(p) : run[i] = CompareItem(C, o, i, run[i - 1])
  BY <1>1, RunSteps
<1> HIDE DEF run
<1>3. 0 \in T
  <2>1. Items(p, 0) = {}
    BY DEF Items
  <2>2. LaidBy(M, o, p, 0, 1, <<>>)
    <3>1. <<>> \in [{} -> DOMAIN o]
      OBVIOUS
    <3>2. 0 \notin Items(p, 0) /\ 1 \notin Items(p, 0)
      BY <2>1
    <3>3. QED
      BY <2>1, <3>1, <3>2 DEF LaidBy
  <2>3. ListFollows(S, M, p, p)
    BY FollowsItself DEF ListFollows
  <2>4. 1 \in 1..Len(o) + 1
    OBVIOUS
  <2>5. StateRight(S, M, o, p, 0, Begun(p))
    BY <2>2, <2>3, <2>4 DEF StateRight, Begun
  <2>6. QED
    BY <1>2, <2>5
<1>4. ASSUME NEW i \in Nat, i \in T PROVE i + 1 \in T
  <2>1. SUFFICES ASSUME i + 1 <= Len(p) PROVE StateRight(S, M, o, p, i + 1, run[i + 1])
    OBVIOUS
  <2>2. i + 1 \in 1..Len(p) /\ (i + 1) - 1 = i /\ i <= Len(p)
    BY <1>1, <2>1
  <2>3. StateRight(S, M, o, p, (i + 1) - 1, run[i])
    BY <1>4, <2>2
  <2>4. run[i + 1] = CompareItem(C, o, i + 1, run[i])
    BY <1>2, <2>2
  <2>5. QED
    BY <2>2, <2>3, <2>4, StepRight
<1> HIDE DEF T
<1>5. Nat \subseteq T
  BY <1>3, <1>4, AllOfNat
<1>6. \A i \in 0..Len(p) : i \in T /\ i <= Len(p)
  BY <1>1, <1>5
<1>7. QED
  BY <1>6 DEF run, T

\* An item that matches what stands at its own place is found there.
LEMMA ItemFound ==
  ASSUME NEW S, NEW M, NEW C, NEW A, Right(S, M, C, A), NEW o \in Seq(S), NEW p \in Seq(S),
         NEW i \in 1..Len(p), NEW s, StateRight(S, M, o, p, i - 1, s), s.ok, s.at = i,
         i = 1 \/ p[i - 1] # Ellipsis,
         p[i] # Ellipsis => i <= Len(o) /\ <<o[i], p[i]>> \in M /\ p[i] \in A
  PROVE  /\ CompareItem(C, o, i, s).ok
         /\ p[i] # Ellipsis => CompareItem(C, o, i, s).at = i + 1
<1> DEFINE t == CompareItem(C, o, i, s)
<1>1. s.p[i] = p[i] /\ p[i] \in S
  <2>1. i \in (i - 1) + 1..Len(p)
    OBVIOUS
  <2>2. QED
    BY <2>1 DEF StateRight
<1>2. CASE p[i] = Ellipsis
  <2>1. t = [s EXCEPT !.skip = TRUE]
    BY <1>1, <1>2 DEF CompareItem
  <2>2. t.ok
    BY <2>1 DEF StateRight
  <2>3. QED
    BY <1>2, <2>2
<1>3. CASE p[i] # Ellipsis
  <2> DEFINE found == Found(C, o, p[i], s.at, s.skip)
             r == Settled(C, o, found)
  <2>1. t = [ok |-> r.ok, p |-> [s.p EXCEPT ![i] = r.p], at |-> found.at + 1, skip |-> FALSE]
    BY <1>1, <1>3 DEF CompareItem, Found, Settled
  <2>2. ~s.skip
    <3>1. i - 1 > 0 => i # 1
      OBVIOUS
    <3>2. QED
      BY <3>1 DEF StateRight
  <2>3. found = [at |-> i, ok |-> i <= Len(o), p |-> p[i]]
    BY <2>2 DEF Found
  <2> HIDE DEF found
  <2>4. found.at = i /\ found.p = p[i] /\ found.ok
    BY <1>3, <2>3
  <2>5. r = C[<<o[i], p[i]>>]
    BY <2>4 DEF Settled
  <2>6. PICK x \in S : x = o[i]
    <3>1. i \in 1..Len(o)
      BY <1>3
    <3>2. QED
      BY <3>1
  <2> HIDE DEF r
  <2>7. r.ok
    BY <1>1, <1>3, <2>5, <2>6 DEF Right
  <2>8. t.ok /\ t.at = i + 1
    BY <2>1, <2>4, <2>7
  <2>9. QED
    BY <2>8
<1>4. QED
  BY <1>2, <1>3

\* Without a gap before its end, a list matches place by place.
LEMMA PlaceByPlace ==
  ASSUME NEW S, NEW M, NEW o \in Seq(S), NEW p \in Seq(S), ListMatches(M, o, p),
         \A i \in 1..Len(p) : p[i] = Ellipsis => i = Len(p)
  PROVE  /\ \A i \in 1..Len(p) : p[i] # Ellipsis => i <= Len(o) /\ <<o[i], p[i]>> \in M
         /\ Len(p) > 0 /\ p[Len(p)] # Ellipsis => Len(o) = Len(p)
<1> DEFINE items == {i \in DOMAIN p : p[i] # Ellipsis}
<1>1. PICK f \in [items -> DOMAIN o] :
        /\ \A i \in items : <<o[f[i]], p[i]>> \in M
        /\ \A i \in items : i - 1 \in items => f[i] = f[i - 1] + 1
        /\ 1 \in items => f[1] = 1
        /\ Len(p) \in items => f[Len(p)] = Len(o)
  BY DEF ListMatches
<1>2. \A i \in 1..Len(p) : i \in items <=> p[i] # Ellipsis
  OBVIOUS
<1>3. items \subseteq 1..Len(p)
  OBVIOUS
<1> HIDE DEF items
<1> DEFINE T == {i \in Nat : i + 1 \in items => f[i + 1] = i + 1}
<1>4. 0 \in T
  BY <1>1
<1>5. ASSUME NEW i \in Nat, i \in T PROVE i + 1 \in T
  <2>1. SUFFICES ASSUME (i + 1) + 1 \in items PROVE f[(i + 1) + 1] = (i + 1) + 1
    OBVIOUS
  <2>2. (i + 1) + 1 \in 1..Len(p) /\ ((i + 1) + 1) - 1 = i + 1
    BY <1>3, <2>1
  <2>3. i + 1 \in 1..Len(p) /\ i + 1 # Len(p)
    BY <2>2
  <2>4. i + 1 \in items
    BY <1>2, <2>3
  <2>5. f[i + 1] = i + 1
    BY <1>5, <2>4
  <2>6. QED
    BY <1>1, <2>1, <2>2, <2>4, <2>5
<1> HIDE DEF T
<1>6. Nat \subseteq T
  BY <1>4, <1>5, AllOfNat
<1>7. \A i \in items : f[i] = i
  <2>1. \A i \in items : i - 1 \in Nat /\ (i - 1) + 1 = i
    BY <1>3
  <2>2. \A i \in items : i - 1 \in T
    BY <1>6, <2>1
  <2>3. QED
    BY <2>1, <2>2 DEF T
<1>8. \A i \in items : i \in 1..Len(o) /\ <<o[i], p[i]>> \in M
  BY <1>1, <1>7
<1>9. Len(p) > 0 => Len(p) \in 1..Len(p)
  OBVIOUS
<1>10. QED
  BY <1>1, <1>2, <1>7, <1>8, <1>9

\* A list is compared rightly when its items are.
LEMMA CompareItemsRight ==
  ASSUME NEW S, NEW M, NEW C, NEW A, Right(S, M, C, A), NEW o \in Seq(S), NEW p \in Seq(S)
  PROVE  LET r == CompareItems(C, o, p)
         IN  /\ r.p \in Seq(S) /\ ListFollows(S, M, r.p, p)
             /\ r.ok => ListMatches(M, o, p)
             /\ ListMatches(M, o, p) /\ (\A i \in DOMAIN p : p[i] \in A /\ (p[i] = Ellipsis => i = Len(p)))
                  => r.ok
<1> DEFINE run == Run(C, o, p)
           s == run[Len(p)]
           r == CompareItems(C, o, p)
<1>1. Len(p) \in Nat /\ DOMAIN p = 1..Len(p) /\ Len(p) \in 0..Len(p) /\ Len(o) \in Nat
  OBVIOUS
<1>2. \A i \in 0..Len(p) : StateRight(S, M, o, p, i, run[i])
  BY RunRight
<1>3. r = [ok |-> s.ok /\ Ends(o, s.at, s.skip), p |-> s.p]
  BY DEF CompareItems
<1>4. run[0] = Begun(p) /\ \A i \in 1..Len(p) : run[i] = CompareItem(C, o, i, run[i - 1])
  BY <1>1, RunSteps
<1> HIDE DEF run
<1>5. r.p = s.p /\ (r.ok <=> s.ok /\ Ends(o, s.at, s.skip))
  <2> DEFINE ended == s.ok /\ Ends(o, s.at, s.skip)
  <2>1. r = [ok |-> ended, p |-> s.p] /\ ended \in BOOLEAN
    BY <1>3
  <2> HIDE DEF r, s, ended
  <2>2. r.p = s.p /\ r.ok = ended
    BY <2>1
  <2>3. QED
    BY <2>2 DEF ended
<1> HIDE DEF r
<1>6. StateRight(S, M, o, p, Len(p), s)
  BY <1>1, <1>2
<1>7. r.p \in Seq(S) /\ ListFollows(S, M, r.p, p)
  BY <1>5, <1>6 DEF StateRight
<1>8. ASSUME r.ok PROVE ListMatches(M, o, p)
  <2>1. s.ok /\ (s.skip \/ s.at = Len(o) + 1)
    BY <1>5, <1>8 DEF Ends
  <2>2. PICK f : LaidBy(M, o, p, Len(p), s.at, f)
    BY <1>6, <2>1 DEF StateRight
  <2> DEFINE items == {i \in DOMAIN p : p[i] # Ellipsis}
  <2>3. Items(p, Len(p)) = items
    BY <1>1 DEF Items
  <2>4. Len(p) \in items => f[Len(p)] = Len(o)
    <3>1. SUFFICES ASSUME Len(p) \in items PROVE f[Len(p)] = Len(o)
      OBVIOUS
    <3>2. ~s.skip
      BY <1>6, <2>1, <3>1 DEF StateRight
    <3>3. s.at = Len(o) + 1
      BY <2>1, <3>2
    <3>4. f[Len(p)] = s.at - 1
      BY <2>2, <2>3, <3>1 DEF LaidBy
    <3>5. QED
      BY <1>1, <3>3, <3>4
  <2>5. p = <<>> => o = <<>>
    <3>1. SUFFICES ASSUME Len(p) = 0 PROVE o = <<>>
      OBVIOUS
    <3>2. ~s.skip /\ s.at = 1
      BY <1>6, <2>1, <3>1 DEF StateRight
    <3>3. Len(o) = 0
      BY <1>1, <2>1, <3>2
    <3>4. QED
      BY <3>3
  <2>6. /\ f \in [items -> DOMAIN o]
        /\ \A i \in items : <<o[f[i]], p[i]>> \in M
        /\ \A i, j \in items : i < j => f[i] < f[j]
        /\ \A i \in items : i - 1 \in items => f[i] = f[i - 1] + 1
        /\ 1 \in items => f[1] = 1
    BY <2>2, <2>3 DEF LaidBy
  <2> HIDE DEF items
  <2>7. QED
    BY <2>4, <2>5, <2>6 DEF ListMatches, items
<1>9. ASSUME ListMatches(M, o, p), \A i \in DOMAIN p : p[i] \in A /\ (p[i] = Ellipsis => i = Len(p))
      PROVE  r.ok
  <2>1. /\ \A i \in 1..Len(p) : p[i] # Ellipsis => i <= Len(o) /\ <<o[i], p[i]>> \in M
        /\ Len(p) > 0 /\ p[Len(p)] # Ellipsis => Len(o) = Len(p)
    BY <1>1, <1>9, PlaceByPlace
  <2> DEFINE Sure(i) == run[i].ok /\ (i = 0 \/ p[i] # Ellipsis => run[i].at = i + 1)
             T == {i \in Nat : i <= Len(p) => Sure(i)}
  <2>2. 0 \in T
    BY <1>4 DEF Begun
  <2>3. ASSUME NEW i \in Nat, i \in T PROVE i + 1 \in T
    <3>1. SUFFICES ASSUME i + 1 <= Len(p) PROVE Sure(i + 1)
      OBVIOUS
    <3>2. /\ i + 1 \in 1..Len(p) /\ (i + 1) - 1 = i /\ i <= Len(p) /\ i \in 0..Len(p)
          /\ i # Len(p) /\ i + 1 # 0 /\ (i = 0 => i + 1 = 1) /\ (i # 0 => i \in 1..Len(p))
      <4> DEFINE n == Len(p)
      <4>1. n \in Nat /\ i + 1 <= n
        BY <1>1, <3>1
      <4> HIDE DEF n
      <4>2. /\ i + 1 \in 1..n /\ (i + 1) - 1 = i /\ i <= n /\ i \in 0..n
            /\ i # n /\ i + 1 # 0 /\ (i = 0 => i + 1 = 1) /\ (i # 0 => i \in 1..n)
        BY <4>1
      <4>3. QED
        BY <4>2 DEF n
    <3>3. i = 0 \/ p[i] # Ellipsis
      BY <1>1, <1>9, <3>2
    <3>4. run[i].ok /\ run[i].at = i + 1
      BY <2>3, <3>2, <3>3
    <3>5. StateRight(S, M, o, p, (i + 1) - 1, run[i])
      BY <1>2, <3>2
    <3>6. p[i + 1] # Ellipsis => i + 1 <= Len(o) /\ <<o[i + 1], p[i + 1]>> \in M /\ p[i + 1] \in A
      BY <1>1, <1>9, <2>1, <3>2
    <3>7. i + 1 = 1 \/ p[(i + 1) - 1] # Ellipsis
      BY <3>2, <3>3
    <3>8. /\ CompareItem(C, o, i + 1, run[i]).ok
          /\ p[i + 1] # Ellipsis => CompareItem(C, o, i + 1, run[i]).at = (i + 1) + 1
      BY <3>2, <3>4, <3>5, <3>6, <3>7, ItemFound
    <3>9. run[i + 1] = CompareItem(C, o, i + 1, run[i])
      BY <1>4, <3>2
    <3>10. QED
      BY <3>2, <3>8, <3>9
  <2> HIDE DEF T
  <2>4. Nat \subseteq T
    BY <2>2, <2>3, AllOfNat
  <2>5. s.ok /\ (Len(p) = 0 \/ p[Len(p)] # Ellipsis => s.at = Len(p) + 1)
    <3>1. Len(p) \in T
      BY <1>1, <2>4
    <3>2. QED
      BY <1>1, <3>1 DEF T
  <2>6. CASE Len(p) = 0
    <3>1. p = <<>>
      BY <2>6
    <3>2. Len(o) = 0
      BY <1>9, <3>1 DEF ListMatches
    <3>3. QED
      BY <1>5, <2>5, <2>6, <3>2 DEF Ends
  <2>7. CASE Len(p) > 0 /\ p[Len(p)] = Ellipsis
    <3>1. s.skip
      BY <1>6, <2>5, <2>7 DEF StateRight
    <3>2. QED
      BY <1>5, <2>5, <3>1 DEF Ends
  <2>8. CASE Len(p) > 0 /\ p[Len(p)] # Ellipsis
    BY <1>5, <2>1, <2>5, <2>8 DEF Ends
  <2>9. QED
    BY <1>1, <2>6, <2>7, <2>8
<1>10. QED
  BY <1>7, <1>8, <1>9 DEF r

-----------------------------------------------------------------------------
(* Matching: objects of one depth more. *)

\* A set without its ellipsis matches no more than with it.
LEMMA CompareSetsRight ==
  ASSUME NEW o \in SUBSET (Atoms \cup {Dots}), NEW p \in SUBSET (Atoms \cup {Dots})
  PROVE  LET r == CompareSets(o, p)
         IN  /\ r.p \in SUBSET (Atoms \cup {Dots})
             /\ \A x \in SUBSET (Atoms \cup {Dots}) : SetMatches(x, r.p) => SetMatches(x, p)
             /\ r.ok <=> SetMatches(o, p)
<1>1. CASE Dots \notin p
  BY <1>1 DEF CompareSets, SetMatches
<1>2. CASE Dots \in p /\ p \ {Dots} \subseteq o
  BY <1>2 DEF CompareSets, SetMatches, Passes
<1>3. CASE Dots \in p /\ ~(p \ {Dots} \subseteq o)
  BY <1>3 DEF CompareSets, SetMatches, Refuses
<1>4. QED
  BY <1>1, <1>2, <1>3

\* What an object of each type contains.
LEMMA Kinds ==
  ASSUME NEW S, NEW x \in Holding(S), x # Ellipsis
  PROVE  /\ x = <<x[1], x[2]>> /\ x[1] \in {"leaf", "set", "list", "dict"}
         /\ x[1] = "set" => x[2] \in SUBSET (Atoms \cup {Dots})
         /\ x[1] = "list" => x[2] \in Seq(S)
         /\ x[1] = "dict" => x[2] \in Dicts(S)
<1>1. CASE x \in {"leaf"} \X Atoms
  BY <1>1
<1>2. CASE x \in {"set"} \X SUBSET (Atoms \cup {Dots})
  BY <1>2
<1>3. CASE x \in {"list"} \X Seq(S)
  BY <1>3
<1>4. CASE x \in {"dict"} \X Dicts(S)
  BY <1>4
<1>5. QED
  BY <1>1, <1>2, <1>3, <1>4 DEF Holding, Dicts

LEMMA Held ==
  ASSUME NEW S
  PROVE  /\ Ellipsis \in Holding(S)
         /\ \A x \in SUBSET (Atoms \cup {Dots}) : <<"set", x>> \in Holding(S) \ {Ellipsis}
         /\ \A x \in Seq(S) : <<"list", x>> \in Holding(S) \ {Ellipsis}
         /\ \A x \in Dicts(S) : <<"dict", x>> \in Holding(S) \ {Ellipsis}
BY DEF Holding, Dicts, Ellipsis

\* An expectation matches what is of its own type.
LEMMA MatchedAsKind ==
  ASSUME NEW M, NEW x, NEW q, q # Ellipsis
  PROVE  /\ q[1] = "set" => (MatchedBy(M, x, q) <=> x[1] = "set" /\ SetMatches(x[2], q[2]))
         /\ q[1] = "list" => (MatchedBy(M, x, q) <=> x[1] = "list" /\ ListMatches(M, x[2], q[2]))
         /\ q[1] = "dict" => (MatchedBy(M, x, q) <=> x[1] = "dict" /\ DictMatches(M, x[2], q[2]))
BY Zenon DEF MatchedBy

\* Objects are compared rightly when their parts are.
LEMMA ComparedRight ==
  ASSUME NEW S, NEW M, NEW C, NEW A, Right(S, M, C, A),
         NEW o \in Holding(S), NEW p \in Holding(S) \ {Ellipsis}
  PROVE  LET r == Compared(C, o, p)
         IN  /\ r.p \in Holding(S) \ {Ellipsis}
             /\ \A x \in Holding(S) : MatchedBy(M, x, r.p) => MatchedBy(M, x, p)
             /\ r.ok => MatchedBy(M, o, p)
             /\ MatchedBy(M, o, p) /\ AnchoredBy(A, p) => r.ok
<1> DEFINE r == Compared(C, o, p)
<1>1. /\ p = <<p[1], p[2]>> /\ p[1] \in {"leaf", "set", "list", "dict"}
      /\ p[1] = "set" => p[2] \in SUBSET (Atoms \cup {Dots})
      /\ p[1] = "list" => p[2] \in Seq(S)
      /\ p[1] = "dict" => p[2] \in Dicts(S)
  BY Kinds
<1>2. ASSUME NEW x \in Holding(S), x[1] = p[1]
      PROVE  /\ p[1] = "set" => x[2] \in SUBSET (Atoms \cup {Dots})
             /\ p[1] = "list" => x[2] \in Seq(S)
             /\ p[1] = "dict" => x[2] \in Dicts(S)
  <2>1. x # Ellipsis
    BY <1>1, <1>2 DEF Ellipsis
  <2>2. QED
    BY <1>2, <2>1, Kinds
<1>3. CASE o[1] # p[1] \/ o[1] = "leaf"
  <2>1. r = [ok |-> o = p, p |-> p]
    BY <1>3 DEF Compared
  <2>2. MatchedBy(M, o, p) <=> o = p
    BY <1>1, <1>3 DEF MatchedBy
  <2> HIDE DEF r
  <2>3. r.p = p /\ (r.ok <=> o = p)
    BY <2>1
  <2>4. QED
    BY <2>2, <2>3 DEF r
<1>4. CASE o[1] = p[1] /\ o[1] = "set"
  <2> DEFINE s == CompareSets(o[2], p[2])
  <2>1. r = [ok |-> s.ok, p |-> <<p[1], s.p>>]
    BY <1>4 DEF Compared
  <2>2. p[2] \in SUBSET (Atoms \cup {Dots}) /\ o[2] \in SUBSET (Atoms \cup {Dots})
    BY <1>1, <1>2, <1>4
  <2>3. /\ s.p \in SUBSET (Atoms \cup {Dots})
        /\ \A x \in SUBSET (Atoms \cup {Dots}) : SetMatches(x, s.p) => SetMatches(x, p[2])
        /\ s.ok <=> SetMatches(o[2], p[2])
    BY <2>2, CompareSetsRight
  <2> HIDE DEF s, r
  <2>4. r.p = <<"set", s.p>> /\ r.ok = s.ok
    BY <1>4, <2>1
  <2>5. r.p \in Holding(S) \ {Ellipsis}
    BY <2>3, <2>4, Held
  <2>6. ASSUME NEW q \in {p, r.p}, NEW x \in Holding(S)
        PROVE  MatchedBy(M, x, q) <=> x[1] = "set" /\ SetMatches(x[2], q[2])
    <3>1. p # Ellipsis /\ p[1] = "set"
      BY <1>4
    <3>2. r.p # Ellipsis /\ r.p[1] = "set"
      BY <2>4, <2>5
    <3>3. q # Ellipsis /\ q[1] = "set"
      BY <2>6, <3>1, <3>2
    <3>4. QED
      BY <3>3, MatchedAsKind
  <2>7. r.p[2] = s.p
    BY <2>4
  <2>8. QED
    BY <1>2, <1>4, <2>3, <2>4, <2>5, <2>6, <2>7 DEF r
<1>5. CASE o[1] = p[1] /\ o[1] = "list"
  <2> DEFINE s == CompareItems(C, o[2], p[2])
  <2>1. r = [ok |-> s.ok, p |-> <<p[1], s.p>>]
    BY <1>5 DEF Compared
  <2>2. p[2] \in Seq(S) /\ o[2] \in Seq(S)
    BY <1>1, <1>2, <1>5
  <2>3. /\ s.p \in Seq(S) /\ ListFollows(S, M, s.p, p[2])
        /\ s.ok => ListMatches(M, o[2], p[2])
        /\ ListMatches(M, o[2], p[2]) /\ (\A i \in DOMAIN p[2] : p[2][i] \in A /\ (p[2][i] = Ellipsis => i = Len(p[2])))
             => s.ok
    BY <2>2, CompareItemsRight
  <2>4. \A x \in Seq(S) : ListMatches(M, x, s.p) => ListMatches(M, x, p[2])
    BY <2>2, <2>3, ListMatchesLess
  <2> HIDE DEF s, r
  <2>5. r.p = <<"list", s.p>> /\ r.ok = s.ok
    BY <1>5, <2>1
  <2>6. r.p \in Holding(S) \ {Ellipsis}
    BY <2>3, <2>5, Held
  <2>7. ASSUME NEW q \in {p, r.p}, NEW x \in Holding(S)
        PROVE  MatchedBy(M, x, q) <=> x[1] = "list" /\ ListMatches(M, x[2], q[2])
    <3>1. p # Ellipsis /\ p[1] = "list"
      BY <1>5
    <3>2. r.p # Ellipsis /\ r.p[1] = "list"
      BY <2>5, <2>6
    <3>3. q # Ellipsis /\ q[1] = "list"
      BY <2>7, <3>1, <3>2
    <3>4. QED
      BY <3>3, MatchedAsKind
  <2>8. r.p[2] = s.p
    BY <2>5
  <2>9. AnchoredBy(A, p) => \A i \in DOMAIN p[2] : p[2][i] \in A /\ (p[2][i] = Ellipsis => i = Len(p[2]))
    BY <1>5 DEF AnchoredBy
  <2>10. QED
    BY <1>2, <1>5, <2>3, <2>4, <2>5, <2>6, <2>7, <2>8, <2>9 DEF r
<1>6. CASE o[1] = p[1] /\ o[1] = "dict"
  <2> DEFINE s == CompareDicts(C, o[2], p[2])
  <2>1. r = [ok |-> s.ok, p |-> <<p[1], s.p>>]
    BY <1>6 DEF Compared
  <2>2. p[2] \in Dicts(S) /\ o[2] \in Dicts(S)
    BY <1>1, <1>2, <1>6
  <2>3. /\ s.p \in Dicts(S) /\ DictFollows(S, M, s.p, p[2])
        /\ s.ok => DictMatches(M, o[2], p[2])
        /\ DictMatches(M, o[2], p[2]) /\ (\A k \in KeysOf(p[2]) : p[2][k] \in A) => s.ok
    BY <2>2, CompareDictsRight
  <2>4. \A x \in Dicts(S) : DictMatches(M, x, s.p) => DictMatches(M, x, p[2])
    BY <2>2, <2>3, DictMatchesLess
  <2> HIDE DEF s, r
  <2>5. r.p = <<"dict", s.p>> /\ r.ok = s.ok
    BY <1>6, <2>1
  <2>6. r.p \in Holding(S) \ {Ellipsis}
    BY <2>3, <2>5, Held
  <2>7. ASSUME NEW q \in {p, r.p}, NEW x \in Holding(S)
        PROVE  MatchedBy(M, x, q) <=> x[1] = "dict" /\ DictMatches(M, x[2], q[2])
    <3>1. p # Ellipsis /\ p[1] = "dict"
      BY <1>6
    <3>2. r.p # Ellipsis /\ r.p[1] = "dict"
      BY <2>5, <2>6
    <3>3. q # Ellipsis /\ q[1] = "dict"
      BY <2>7, <3>1, <3>2
    <3>4. QED
      BY <3>3, MatchedAsKind
  <2>8. r.p[2] = s.p
    BY <2>5
  <2>9. AnchoredBy(A, p) => \A k \in KeysOf(p[2]) : p[2][k] \in A
    BY <1>6 DEF AnchoredBy
  <2>10. QED
    BY <1>2, <1>6, <2>3, <2>4, <2>5, <2>6, <2>7, <2>8, <2>9 DEF r
<1>7. QED
  BY <1>1, <1>3, <1>4, <1>5, <1>6

-----------------------------------------------------------------------------
(* Matching: objects of every depth. *)

\* assert_matches on objects nested n deep, for every n: it passes only what matches, and
\* all of that if no item of a list follows an ellipsis; and what it makes of the
\* expectation matches no more than the expectation.
THEOREM RightAtDepth ==
  \A n \in 0..MaxDepth : Right(Objects[n], Matching[n], Comparison[n], AnchoredOf[n])
<1> DEFINE T == {n \in Nat : n <= MaxDepth => Right(Objects[n], Matching[n], Comparison[n], AnchoredOf[n])}
<1>1. 0 \in T
  BY ObjectsOfDepth DEF Right
<1>2. ASSUME NEW k \in Nat, k \in T PROVE k + 1 \in T
  <2>1. SUFFICES ASSUME k + 1 <= MaxDepth
                 PROVE  Right(Objects[k + 1], Matching[k + 1], Comparison[k + 1], AnchoredOf[k + 1])
    OBVIOUS
  <2>2. k + 1 \in 1..MaxDepth /\ (k + 1) - 1 = k /\ k <= MaxDepth
    BY <2>1, MatchAssumption
  <2> DEFINE S == Objects[k]
             M == Matching[k]
             C == Comparison[k]
             A == AnchoredOf[k]
             N == k + 1
  <2>3. Right(S, M, C, A)
    BY <1>2, <2>2
  <2>4. /\ Objects[N] = Holding(S)
        /\ Matching[N] = {x \in Pairs(N) : MatchedBy(M, x[1], x[2])}
        /\ AnchoredOf[N] = {p \in Objects[N] : AnchoredBy(A, p)}
        /\ Comparison[N] = [x \in Pairs(N) |-> Compared(C, x[1], x[2])]
    BY <2>2, ObjectsOfDepth, MatchingOfDepth, AnchoredOfDepth, ComparisonOfDepth
  <2>5. Pairs(N) = Holding(S) \X Holding(S)
    BY <2>4 DEF Pairs
  <2> HIDE DEF S, M, C, A, N
  <2>6. \A o, p \in Holding(S) : <<o, p>> \in Matching[N] <=> MatchedBy(M, o, p)
    BY <2>4, <2>5
  <2>7. \A o, p \in Holding(S) : Comparison[N][<<o, p>>] = Compared(C, o, p)
    BY <2>4, <2>5
  <2>8. Missing \notin Holding(S)
    BY DEF Missing, Holding, Ellipsis
  <2>9. \A o \in Holding(S) : MatchedBy(M, o, Ellipsis)
    BY DEF MatchedBy
  <2>10. Ellipsis \in Holding(S)
    BY Held
  <2>11. ASSUME NEW o \in Holding(S), NEW p \in Holding(S) \ {Ellipsis}
         PROVE  LET r == Comparison[N][<<o, p>>]
                IN  /\ r.p \in Holding(S) \ {Ellipsis} /\ Follows(Holding(S), Matching[N], r.p, p)
                    /\ r.ok => <<o, p>> \in Matching[N]
                    /\ <<o, p>> \in Matching[N] /\ p \in AnchoredOf[N] => r.ok
    <3> DEFINE r == Compared(C, o, p)
    <3>1. /\ r.p \in Holding(S) \ {Ellipsis}
          /\ \A x \in Holding(S) : MatchedBy(M, x, r.p) => MatchedBy(M, x, p)
          /\ r.ok => MatchedBy(M, o, p)
          /\ MatchedBy(M, o, p) /\ AnchoredBy(A, p) => r.ok
      BY <2>3, ComparedRight
    <3>2. Comparison[N][<<o, p>>] = r
      BY <2>7
    <3> HIDE DEF r
    <3>3. Follows(Holding(S), Matching[N], r.p, p)
      BY <2>6, <3>1 DEF Follows
    <3>4. QED
      BY <2>4, <2>6, <3>1, <3>2, <3>3
  <2>12. Right(Holding(S), Matching[N], Comparison[N], AnchoredOf[N])
    BY <2>6, <2>8, <2>9, <2>10, <2>11 DEF Right
  <2>13. QED
    BY <2>4, <2>12 DEF N
<1> HIDE DEF T
<1>3. Nat \subseteq T
  BY <1>1, <1>2, AllOfNat
<1>4. \A n \in 0..MaxDepth : n \in T /\ n <= MaxDepth
  BY <1>3, MatchAssumption
<1>5. QED
  BY <1>4 DEF T

-----------------------------------------------------------------------------
(* Matching: the test. *)

\* A swap at a path of one key.
LEMMA SwappedOne ==
  ASSUME NEW d, NEW k, NEW v
  PROVE  Swapped(d, <<k>>, v) = <<"dict", [d[2] EXCEPT ![k] = v]>>
<1> DEFINE way == <<k>>
           down == CHOOSE f : f = [i \in 0..Len(way) - 1 |-> IF i = 0 THEN d[2] ELSE f[i - 1][way[i]][2]]
           up == CHOOSE f : f = [i \in 1..Len(way) + 1 |->
                                   IF i > Len(way) THEN v
                                   ELSE <<"dict", [down[i - 1] EXCEPT ![way[i]] = f[i + 1]]>>]
<1>1. Len(way) = 1 /\ way[1] = k
  OBVIOUS
<1>2. down[0] = d[2]
  <2> DEFINE Body(f, i) == IF i = 0 THEN d[2] ELSE f[i - 1][way[i]][2]
  <2>1. \E f : f = [i \in 0..0 |-> Body(f, i)]
    <3>1. [i \in 0..0 |-> d[2]] = [i \in 0..0 |-> Body([j \in 0..0 |-> d[2]], i)]
      OBVIOUS
    <3>2. QED
      BY <3>1
  <2>2. \E f : f = [i \in 0..Len(way) - 1 |-> Body(f, i)]
    BY <1>1, <2>1
  <2>3. down = [i \in 0..Len(way) - 1 |-> Body(down, i)]
    BY <2>2
  <2> HIDE DEF down
  <2>4. down = [i \in 0..0 |-> Body(down, i)]
    BY <1>1, <2>3
  <2>5. QED
    BY <2>4
<1>3. Swapped(d, <<k>>, v) = up[1]
  BY DEF Swapped
<1> HIDE DEF down
<1>4. up[1] = <<"dict", [down[0] EXCEPT ![k] = v]>>
  <2> DEFINE x == <<"dict", [down[0] EXCEPT ![k] = v]>>
             g == [i \in 1..2 |-> IF i = 2 THEN v ELSE x]
             Body(f, i) == IF i > Len(way) THEN v ELSE <<"dict", [down[i - 1] EXCEPT ![way[i]] = f[i + 1]]>>
  <2>1. g[2] = v /\ g[1] = x
    OBVIOUS
  <2>2. \A i \in 1..2 : g[i] = Body(g, i)
    <3> HIDE DEF g, way
    <3>1. Body(g, 2) = v
      BY <1>1
    <3>2. Body(g, 1) = x
      BY <1>1, <2>1
    <3> HIDE DEF Body, x
    <3>3. \A i \in 1..2 : i = 1 \/ i = 2
      OBVIOUS
    <3>4. QED
      BY <2>1, <3>1, <3>2, <3>3
  <2>3. g = [i \in 1..2 |-> Body(g, i)]
    <3> HIDE DEF Body, x
    <3>1. QED
      BY <2>2
  <2>4. \E f : f = [i \in 1..Len(way) + 1 |-> Body(f, i)]
    <3> HIDE DEF Body, g, way
    <3>1. QED
      BY <1>1, <2>3
  <2>5. up = [i \in 1..Len(way) + 1 |-> Body(up, i)]
    BY <2>4
  <2> HIDE DEF up, way
  <2>6. up = [i \in 1..2 |-> Body(up, i)]
    BY <1>1, <2>5
  <2>7. up[1] = Body(up, 1) /\ up[2] = Body(up, 2)
    <3> HIDE DEF Body
    <3>1. QED
      BY <2>6
  <2>8. QED
    BY <1>1, <2>7
<1>5. QED
  BY <1>2, <1>3, <1>4

\* The invariant: what the test passes may match less than what it has written, but
\* never more.
MatchIInv ==
  /\ {written, expected} \subseteq Objects[MaxDepth] \ {Ellipsis}
  /\ Follows(Objects[MaxDepth], Matching[MaxDepth], expected, written)
  /\ PassingMatches /\ RefusedForAReason

LEMMA MatchInitial == MatchInit => MatchIInv
<1> SUFFICES ASSUME MatchInit PROVE MatchIInv
  OBVIOUS
<1>1. written \in Objects[MaxDepth] \ {Ellipsis} /\ expected = written
  BY MatchAssumption DEF MatchInit
<1>2. verdict.o = Ellipsis
  BY DEF MatchInit, NoVerdict
<1>3. QED
  BY <1>1, <1>2, FollowsItself DEF MatchIInv, PassingMatches, RefusedForAReason

LEMMA MatchStep == MatchIInv /\ [MatchNext]_matchVars => MatchIInv'
<1> SUFFICES ASSUME MatchIInv, [MatchNext]_matchVars PROVE MatchIInv'
  OBVIOUS
<1> DEFINE S == Objects[MaxDepth]
           M == Matching[MaxDepth]
           C == Comparison[MaxDepth]
           A == AnchoredOf[MaxDepth]
<1>1. Right(S, M, C, A)
  BY RightAtDepth, MatchAssumption
<1>2. Originals \subseteq S \ {Ellipsis}
  BY MatchAssumption
<1>3. ASSUME NEW o \in Originals, Compare(o) PROVE MatchIInv'
  <2> DEFINE r == C[<<o, expected>>]
  <2>1. expected' = r.p /\ verdict' = [o |-> o, ok |-> r.ok, fresh |-> expected = written] /\ written' = written
    BY <1>3 DEF Compare, AssertMatches
  <2>2. o \in S /\ expected \in S \ {Ellipsis} /\ written \in S \ {Ellipsis} /\ Follows(S, M, expected, written)
    BY <1>2 DEF MatchIInv
  <2> HIDE DEF S, M, C, A
  <2>3. /\ r.p \in S \ {Ellipsis} /\ Follows(S, M, r.p, expected)
        /\ r.ok => <<o, expected>> \in M
        /\ <<o, expected>> \in M /\ expected \in A => r.ok
    BY <1>1, <2>2 DEF Right
  <2> HIDE DEF r
  <2>4. Follows(S, M, r.p, written)
    BY <2>2, <2>3, FollowsOn
  <2>5. verdict'.o = o /\ verdict'.ok = r.ok /\ (verdict'.fresh <=> expected = written)
    BY <2>1
  <2>6. PassingMatches'
    BY <2>1, <2>2, <2>3, <2>5 DEF PassingMatches, Matches, Follows, M
  <2>7. RefusedForAReason'
    BY <2>1, <2>3, <2>5 DEF RefusedForAReason, Matches, Anchored, M, A
  <2>8. QED
    BY <2>1, <2>2, <2>3, <2>4, <2>6, <2>7 DEF MatchIInv, S, M
<1>4. ASSUME NEW o \in Originals, NEW k \in DictKeys, NEW v \in Values, Derive(o, k, v) PROVE MatchIInv'
  <2> DEFINE U == Objects[MaxDepth - 1]
  <2>1. S = Holding(U) /\ v \in U
    BY MatchAssumption, ObjectsOfDepth
  <2>2. written' = <<"dict", [o[2] EXCEPT ![k] = v]>> /\ expected' = written' /\ verdict' = NoVerdict
    BY <1>4, SwappedOne DEF Derive
  <2> HIDE DEF S, U
  <2>3. o[2] \in Dicts(U)
    BY <1>2, <1>4, <2>1, Kinds DEF Derive
  <2>4. [o[2] EXCEPT ![k] = v] \in Dicts(U)
    BY <2>1, <2>3 DEF Dicts
  <2>5. written' \in S \ {Ellipsis}
    BY <2>1, <2>2, <2>4, Held
  <2>6. verdict'.o = Ellipsis
    BY <2>2 DEF NoVerdict
  <2>7. PassingMatches' /\ RefusedForAReason'
    BY <2>6 DEF PassingMatches, RefusedForAReason
  <2>8. Follows(S, M, expected', written')
    BY <2>2, FollowsItself
  <2>9. QED
    BY <2>2, <2>5, <2>7, <2>8 DEF MatchIInv, S
<1>5. CASE UNCHANGED matchVars
  BY <1>5 DEF MatchIInv, PassingMatches, RefusedForAReason, Follows, matchVars
<1>6. QED
  BY <1>3, <1>4, <1>5 DEF MatchNext

\* A comparison changes the object that a test passes, and the test passes it again:
\* at any time it matches only what it was written to match.
THEOREM MatchInvariance == MatchSpec => []MatchIInv
<1>1. MatchIInv /\ [MatchNext]_matchVars => MatchIInv'
  BY MatchStep
<1>2. QED
  BY MatchInitial, <1>1, PTL DEF MatchSpec

\* assert_matches passes only what the expectation, as the test wrote it, matches,
\* whatever earlier comparisons have made of the object.
THEOREM PassIsRight == MatchSpec => []PassingMatches
<1>1. MatchIInv => PassingMatches
  BY DEF MatchIInv
<1>2. QED
  BY <1>1, MatchInvariance, PTL

\* assert_matches refuses what an expectation matches only where an item of a list
\* follows an ellipsis or where the expectation has been passed before.
THEOREM RefusalHasAReason == MatchSpec => []RefusedForAReason
<1>1. MatchIInv => RefusedForAReason
  BY DEF MatchIInv
<1>2. QED
  BY <1>1, MatchInvariance, PTL

-----------------------------------------------------------------------------
(* ServiceCalls. *)

USE CallsAssumption

(* The inductive invariant, in parts. *)

AllDetails ==
  [form : {"text", "list", "text by field", "list by field"},
   field : {"non_field_errors", "name", "detail"}, says : Messages]
Codes == Services \X OwnCodes
Replies == [kind : {"error"}, code : Codes, detail : AllDetails]
Hops == [at : Services, seen : {Secret(s) : s \in Services} \cup {Absent}, forwards : BOOLEAN]

CallsTypeOK ==
  /\ path \in Seq(Hops)
  /\ answer \in Replies \cup {NoAnswer, Crashed}

\* An error says what its origin has said.
Traced ==
  answer.kind = "error" =>
    /\ answer.code = origin.code
    /\ answer.detail.says = origin.detail.says
    /\ answer.detail.field = origin.detail.field
    /\ answer.detail.form \in {origin.detail.form, "list by field"}

\* Where the secret that the i-th service of a path has been given comes from.
Signed(p, i) ==
  \E j \in 1..i - 1 :
    /\ p[i].seen = Secret(p[j].at)
    /\ j = 1 \/ ~p[j + 1].forwards
    /\ \A n \in j + 2..i : p[n].forwards

\* The first service is called from outside, every other one by a service.
AllSigned ==
  /\ path # <<>> => path[1].seen = Absent
  /\ \A i \in 2..Len(path) : Signed(path, i)

\* The request is only over when it is answered.
OverIsAnswered == path = <<>> => answer # NoAnswer

CallsIInv == CallsTypeOK /\ Traced /\ AllSigned /\ OverIsAnswered

-----------------------------------------------------------------------------
(* What an answer is made of. *)

LEMMA KindOfReply ==
  ASSUME NEW a \in Replies \cup {NoAnswer, Crashed}, a.kind = "error"
  PROVE  a \in Replies
BY DEF NoAnswer, Crashed

LEMMA DetailsKnown == Details \subseteq AllDetails
BY DEF Details, AllDetails

\* BaseCustomError and the handler keep field and words of a detail.
LEMMA SerializerErrorKeeps ==
  ASSUME NEW d \in AllDetails
  PROVE  /\ AsSerializerError(Coerced(d)) \in AllDetails
         /\ AsSerializerError(Coerced(d)).says = d.says
         /\ AsSerializerError(Coerced(d)).field = d.field
         /\ AsSerializerError(Coerced(d)).form = "list by field"
<1>1. /\ Coerced(d) \in AllDetails
      /\ Coerced(d).says = d.says /\ Coerced(d).field = d.field
  BY DEF Coerced, AllDetails
<1>2. QED
  BY <1>1 DEF AsSerializerError, AllDetails

LEMMA DrfDataKnown ==
  ASSUME NEW d \in AllDetails
  PROVE  DrfData(d) \in AllDetails
BY DEF DrfData, AllDetails

\* What a service raises itself has its own name once.
LEMMA RaisedReply ==
  ASSUME NEW kind \in {"custom", "other"}, NEW s \in Services, NEW d \in Details
  PROVE  Handled(kind, s, d, <<"CODE">>) \in Replies
<1>0. d \in AllDetails
  BY DetailsKnown
<1>1. ErrorCode(kind, s, <<"CODE">>) \in Codes
  <2>1. CASE kind = "custom"
    <3> DEFINE S == Services \cup {"CODE"}
               c == <<s>> \o <<"CODE">>
               t == <<s, "CODE">>
    <3>1. c = t
      <4>1. <<s>> \in Seq(S) /\ <<"CODE">> \in Seq(S) /\ t \in Seq(S)
        OBVIOUS
      <4>2. Len(<<s>>) = 1 /\ Len(<<"CODE">>) = 1 /\ Len(t) = 2 /\ t[1] = s /\ t[2] = "CODE"
        OBVIOUS
      <4>3. /\ c \in Seq(S) /\ Len(c) = 2
            /\ \A i \in 1..2 : c[i] = IF i <= 1 THEN <<s>>[i] ELSE <<"CODE">>[i - 1]
        BY <4>1, <4>2, ConcatProperties
      <4>4. c[1] = s /\ c[2] = "CODE"
        BY <4>3
      <4>5. \A i \in 1..Len(c) : c[i] = t[i]
        BY <4>2, <4>3, <4>4
      <4>6. QED
        BY <4>1, <4>2, <4>3, <4>5, SeqEqual
    <3>2. <<s, "CODE">> \in Codes
      BY DEF Codes, OwnCodes
    <3>3. QED
      BY <2>1, <3>1, <3>2 DEF ErrorCode
  <2>2. CASE kind = "other"
    BY <2>2 DEF ErrorCode, Codes, OwnCodes
  <2>3. QED
    BY <2>1, <2>2
<1>2. (IF kind = "other" THEN DrfData(d) ELSE AsSerializerError(Coerced(d))) \in AllDetails
  BY <1>0, SerializerErrorKeeps, DrfDataKnown
<1>3. QED
  BY <1>1, <1>2 DEF Handled, Replies

\* A code names a service, and only in front.
LEMMA CodeNamesOnce ==
  ASSUME NEW c \in Codes
  PROVE  Head(c) \in Services /\ \A i \in DOMAIN c \ {1} : c[i] \notin Services
<1>1. PICK s \in Services, o \in OwnCodes : c = <<s, o>>
  BY DEF Codes
<1>2. DOMAIN c = {1, 2} /\ Head(c) = s /\ c[2] = o
  BY <1>1
<1>3. QED
  BY <1>1, <1>2

-----------------------------------------------------------------------------
(* Paths. *)

LEMMA HereIsAHop ==
  ASSUME CallsTypeOK, path # <<>>
  PROVE  Len(path) \in Nat \ {0} /\ Here \in Hops /\ Here.at \in Services
<1>1. Len(path) \in Nat \ {0} /\ path[Len(path)] \in Hops
  BY DEF CallsTypeOK
<1>2. QED
  BY <1>1 DEF Here, Hops

\* A path that is cut short or grows at its end keeps what is said of the others.
LEMMA SignedStays ==
  ASSUME NEW p, NEW q, NEW i \in Nat, Signed(p, i), \A n \in 1..i : q[n] = p[n]
  PROVE  Signed(q, i)
<1>1. PICK j \in 1..i - 1 :
        /\ p[i].seen = Secret(p[j].at)
        /\ j = 1 \/ ~p[j + 1].forwards
        /\ \A n \in j + 2..i : p[n].forwards
  BY DEF Signed
<1>2. i \in 1..i /\ j \in 1..i /\ j + 1 \in 1..i /\ \A n \in j + 2..i : n \in 1..i
  BY <1>1
<1>3. QED
  BY <1>1, <1>2 DEF Signed

\* The secret of the caller, or what was forwarded to it; the first service has
\* nothing to forward.
LEMMA RequestSigned ==
  ASSUME CallsTypeOK, AllSigned, NEW s \in Services, NEW forwards \in BOOLEAN, path # <<>>,
         Request(s, forwards)
  PROVE  path' \in Seq(Hops) /\ AllSigned'
<1> DEFINE n == Len(path)
           sent == Sent(Secret(Here.at), IF forwards THEN Here.seen ELSE Absent)
           hop == [at |-> s, forwards |-> forwards, seen |-> sent]
<1>1. /\ n \in Nat \ {0} /\ Len(path) = n /\ path \in Seq(Hops)
      /\ Here \in Hops /\ Here.at \in Services /\ Here = path[n]
  BY HereIsAHop DEF Here, CallsTypeOK
<1> HIDE DEF n
<1>2. hop \in Hops
  <2>1. Here.seen \in {Secret(z) : z \in Services} \cup {Absent}
    BY <1>1 DEF Hops
  <2>2. sent \in {Secret(z) : z \in Services} \cup {Absent}
    BY <1>1, <2>1 DEF Sent
  <2>3. QED
    BY <2>2 DEF Hops
<1>3. path' = Append(path, hop)
  BY DEF Request
<1> HIDE DEF hop
<1>4. /\ path' \in Seq(Hops) /\ Len(path') = n + 1 /\ path'[n + 1] = hop
      /\ \A i \in 1..n : path'[i] = path[i]
  BY <1>1, <1>2, <1>3
<1>5. path'[1].seen = Absent
  <2>1. 1 \in 1..n
    BY <1>1
  <2>2. QED
    BY <1>4, <2>1 DEF AllSigned
<1>6. ASSUME NEW i \in 2..n
      PROVE  Signed(path', i)
  <2>1. Signed(path, i) /\ i \in Nat /\ \A m \in 1..i : path'[m] = path[m]
    BY <1>1, <1>4, <1>6 DEF AllSigned
  <2>2. QED
    BY <2>1, SignedStays
<1>7. Signed(path', n + 1)
  <2>1. /\ hop.seen = sent /\ hop.forwards = forwards
        /\ n \in 1..n /\ n + 1 - 1 = n
    BY <1>1 DEF hop
  <2>2. CASE ~forwards \/ (Here.seen = Absent /\ n = 1)
    <3>1. sent = Secret(path[n].at)
      BY <1>1, <2>2 DEF Sent
    <3>2. path'[n + 1].seen = Secret(path'[n].at) /\ (n = 1 \/ ~path'[n + 1].forwards)
      BY <1>4, <2>1, <2>2, <3>1
    <3>3. \A m \in n + 2..n + 1 : path'[m].forwards
      BY <1>1
    <3>4. QED
      BY <2>1, <3>2, <3>3 DEF Signed
  <2>3. CASE forwards /\ ~(Here.seen = Absent /\ n = 1)
    <3>1. n \in 2..n
      <4>1. n # 1
        <5>1. path[1].seen = Absent
          BY DEF AllSigned
        <5>2. n = 1 => Here.seen = Absent
          BY <1>1, <5>1
        <5>3. QED
          BY <2>3, <5>2
      <4>2. n \in Nat \ {0}
        BY <1>1
      <4>3. QED
        BY <4>1, <4>2
    <3>2. PICK j \in 1..n - 1 :
            /\ path'[n].seen = Secret(path'[j].at)
            /\ j = 1 \/ ~path'[j + 1].forwards
            /\ \A m \in j + 2..n : path'[m].forwards
      BY <1>6, <3>1 DEF Signed
    <3>3. path'[n] = Here /\ path'[j] = path[j] /\ path[j].at \in Services /\ j \in 1..n
      <4>1. j \in 1..n
        BY <1>1, <3>2
      <4>2. path[j] \in Hops
        BY <1>1, <4>1
      <4>3. QED
        BY <1>1, <1>4, <4>1, <4>2 DEF Hops
    <3>4. Here.seen # Absent /\ sent = Here.seen
      BY <2>3, <3>2, <3>3 DEF Sent
    <3>5. path'[n + 1].seen = Secret(path'[j].at)
      BY <1>4, <2>1, <3>2, <3>3, <3>4
    <3>6. \A m \in j + 2..n + 1 : path'[m].forwards
      <4>1. SUFFICES ASSUME NEW m \in j + 2..n + 1 PROVE path'[m].forwards
        OBVIOUS
      <4>2. CASE m = n + 1
        BY <1>4, <2>1, <2>3, <4>2
      <4>3. CASE m # n + 1
        <5>1. m \in j + 2..n
          BY <1>1, <3>3, <4>3
        <5>2. QED
          BY <3>2, <5>1
      <4>4. QED
        BY <4>2, <4>3
    <3>7. QED
      BY <2>1, <3>2, <3>3, <3>5, <3>6 DEF Signed
  <2>4. QED
    BY <2>2, <2>3
<1>8. \A i \in 2..Len(path') : Signed(path', i)
  <2>1. \A i \in 2..n + 1 : i = n + 1 \/ i \in 2..n
    BY <1>1
  <2>2. QED
    BY <1>4, <1>6, <1>7, <2>1
<1>9. QED
  BY <1>4, <1>5, <1>8 DEF AllSigned, Signed

LEMMA AnswersPath ==
  ASSUME CallsTypeOK, AllSigned, path # <<>>, NEW reply, Answers(reply)
  PROVE  path' \in Seq(Hops) /\ AllSigned' /\ answer' = reply
<1> DEFINE n == Len(path) - 1
<1>1. n \in Nat /\ Len(path) = n + 1 /\ path \in Seq(Hops)
  BY HereIsAHop DEF CallsTypeOK
<1>2. path' = SubSeq(path, 1, n) /\ answer' = reply
  BY DEF Answers
<1> HIDE DEF n
<1>3. 1 \in Int /\ n \in Int /\ \A i \in 1..n : path[i] \in Hops
  BY <1>1
<1>4. /\ SubSeq(path, 1, n) \in Seq(Hops)
      /\ Len(SubSeq(path, 1, n)) = (IF 1 <= n THEN n - 1 + 1 ELSE 0)
      /\ \A i \in 1..n - 1 + 1 : SubSeq(path, 1, n)[i] = path[1 + i - 1]
  BY <1>3, SubSeqProperties
<1>5. path' \in Seq(Hops) /\ Len(path') = n /\ \A i \in 1..n : path'[i] = path[i]
  <2>1. n - 1 + 1 = n /\ \A i \in 1..n : 1 + i - 1 = i
    BY <1>1
  <2>2. QED
    BY <1>1, <1>2, <1>4, <2>1
<1>6. path' # <<>> => path'[1].seen = Absent
  <2>1. path' # <<>> => 1 \in 1..n
    BY <1>1, <1>5
  <2>2. QED
    BY <1>5, <2>1 DEF AllSigned
<1>7. ASSUME NEW i \in 2..n PROVE Signed(path', i)
  <2>1. Signed(path, i) /\ i \in Nat /\ \A m \in 1..i : path'[m] = path[m]
    BY <1>1, <1>5, <1>7 DEF AllSigned
  <2>2. QED
    BY <2>1, SignedStays
<1>8. QED
  BY <1>2, <1>5, <1>6, <1>7 DEF AllSigned, Signed

-----------------------------------------------------------------------------
(* The invariant is inductive. *)

LEMMA CallsInitIInv == CallsInit => CallsIInv
<1>1. SUFFICES ASSUME CallsInit PROVE CallsIInv
  OBVIOUS
<1>2. PICK s \in Services : path = <<[at |-> s, seen |-> Absent, forwards |-> FALSE]>>
  BY <1>1 DEF CallsInit
<1> DEFINE hop == [at |-> s, seen |-> Absent, forwards |-> FALSE]
<1>3. hop \in Hops /\ hop.seen = Absent
  BY DEF Hops
<1> HIDE DEF hop
<1>4. path \in Seq(Hops) /\ Len(path) = 1 /\ path[1] = hop
  <2>1. path = <<hop>>
    BY <1>2 DEF hop
  <2>2. QED
    BY <1>3, <2>1
<1>5. CallsTypeOK /\ Traced
  BY <1>1, <1>4 DEF CallsInit, CallsTypeOK, Traced, NoAnswer
<1>6. AllSigned /\ OverIsAnswered
  BY <1>3, <1>4 DEF AllSigned, OverIsAnswered
<1>7. QED
  BY <1>5, <1>6 DEF CallsIInv

LEMMA CallsNextIInv == CallsIInv /\ [CallsNext]_callVars => CallsIInv'
<1>1. SUFFICES ASSUME CallsIInv, [CallsNext]_callVars PROVE CallsIInv'
  OBVIOUS
<1>0. CallsTypeOK /\ Traced /\ AllSigned /\ OverIsAnswered
  BY <1>1 DEF CallsIInv
<1>2. ASSUME NEW s \in Services, NEW forwards \in BOOLEAN, Request(s, forwards)
      PROVE  CallsIInv'
  <2>1. path # <<>>
    BY <1>0, <1>2 DEF Request, OverIsAnswered
  <2>2. path' \in Seq(Hops) /\ AllSigned'
    BY <1>0, <1>2, <2>1, RequestSigned
  <2>3. UNCHANGED <<answer, origin>>
    BY <1>2 DEF Request
  <2>4. path' # <<>>
    <3>1. path \in Seq(Hops)
      BY <1>0 DEF CallsTypeOK
    <3>2. \A h : Append(path, h) # <<>>
      BY <3>1
    <3>3. QED
      BY <1>2, <3>2 DEF Request
  <2>5. QED
    BY <1>0, <2>2, <2>3, <2>4 DEF CallsIInv, CallsTypeOK, Traced, OverIsAnswered
<1>3. ASSUME NEW kind \in {"custom", "other"}, NEW d \in Details, Raise(kind, d)
      PROVE  CallsIInv'
  <2> DEFINE r == Handled(kind, Here.at, d, <<"CODE">>)
  <2>1. path # <<>> /\ Answers(r) /\ origin' = answer'
    BY <1>3 DEF Raise
  <2>2. path' \in Seq(Hops) /\ AllSigned' /\ answer' = r
    BY <1>0, <2>1, AnswersPath
  <2>3. r \in Replies
    BY <1>0, <2>1, HereIsAHop, RaisedReply
  <2>4. CallsTypeOK'
    BY <2>2, <2>3 DEF CallsTypeOK
  <2>5. Traced' /\ OverIsAnswered'
    BY <2>1, <2>2, <2>3 DEF Traced, OverIsAnswered, Replies, NoAnswer
  <2>6. QED
    BY <2>2, <2>4, <2>5 DEF CallsIInv
<1>4. CASE Crash
  <2>1. path # <<>> /\ Answers(Crashed)
    BY <1>4 DEF Crash
  <2>2. path' \in Seq(Hops) /\ AllSigned' /\ answer' = Crashed
    BY <1>0, <2>1, AnswersPath
  <2>3. QED
    BY <2>2 DEF CallsIInv, CallsTypeOK, Traced, OverIsAnswered, Crashed, NoAnswer
<1>5. CASE Proxy
  <2> DEFINE r == Handled("proxy", Here.at, answer.detail, answer.code)
  <2>1. path # <<>> /\ Answers(r) /\ answer.kind = "error" /\ origin' = origin
    BY <1>5 DEF Proxy
  <2>2. path' \in Seq(Hops) /\ AllSigned' /\ answer' = r
    BY <1>0, <2>1, AnswersPath
  <2>3. answer \in Replies
    BY <1>0, <2>1, KindOfReply DEF CallsTypeOK
  <2>4. answer.code \in Codes /\ answer.detail \in AllDetails
    BY <2>3 DEF Replies
  <2>5. /\ r.kind = "error" /\ r.code = answer.code
        /\ r.detail = AsSerializerError(Coerced(answer.detail)) /\ r.detail \in AllDetails
        /\ r \in Replies
    BY <2>4, SerializerErrorKeeps DEF Handled, ErrorCode, Replies
  <2>6. CallsTypeOK'
    BY <2>2, <2>5 DEF CallsTypeOK
  <2>7. /\ answer'.code = answer.code /\ answer'.detail.form = "list by field"
        /\ answer'.detail.says = answer.detail.says
        /\ answer'.detail.field = answer.detail.field
    BY <2>2, <2>4, <2>5, SerializerErrorKeeps
  <2>8. Traced' /\ OverIsAnswered'
    <3>1. Traced'
      BY <1>0, <2>1, <2>7 DEF Traced
    <3>2. answer'.kind = "error"
      BY <2>2, <2>5
    <3>3. QED
      BY <3>1, <3>2 DEF OverIsAnswered, NoAnswer
  <2>9. QED
    BY <2>2, <2>6, <2>8 DEF CallsIInv
<1>6. CASE Ignore
  BY <1>0, <1>6 DEF Ignore, CallsIInv, CallsTypeOK, Traced, AllSigned, Signed, OverIsAnswered, NoAnswer
<1>7. CASE UNCHANGED callVars
  BY <1>0, <1>7 DEF callVars, CallsIInv, CallsTypeOK, Traced, AllSigned, Signed, OverIsAnswered
<1>8. QED
  BY <1>1, <1>2, <1>3, <1>4, <1>5, <1>6, <1>7 DEF CallsNext

-----------------------------------------------------------------------------
(* Theorems. *)

\* The inductive invariant: types, where an error comes from, and whose secret each
\* service was called with.
THEOREM CallsInvariance == CallsSpec => []CallsIInv
<1>1. QED
  BY CallsInitIInv, CallsNextIInv, PTL DEF CallsSpec

\* custom_exception_handler and the HTTP clients: an error keeps the code, named
\* once, and the detail of the service it comes from through any number of proxies,
\* and a request names the service that sent it or the first that passed it on.
THEOREM SourceIsNamed == CallsSpec => []NamesTheSource
<1>1. CallsIInv => NamesTheSource
  <2>1. SUFFICES ASSUME CallsIInv PROVE NamesTheSource
    OBVIOUS
  <2>2. ASSUME answer.kind = "error"
        PROVE  /\ answer.code = origin.code
               /\ Head(answer.code) \in Services
               /\ \A i \in DOMAIN answer.code \ {1} : answer.code[i] \notin Services
               /\ answer.detail.says = origin.detail.says
               /\ answer.detail.field = origin.detail.field
               /\ answer.detail.form \in {origin.detail.form, "list by field"}
    <3>1. answer \in Replies
      BY <2>1, <2>2, KindOfReply DEF CallsIInv, CallsTypeOK
    <3>2. answer.code \in Codes
      BY <3>1 DEF Replies
    <3>3. /\ Head(answer.code) \in Services
          /\ \A i \in DOMAIN answer.code \ {1} : answer.code[i] \notin Services
      BY <3>2, CodeNamesOnce
    <3>4. QED
      BY <2>1, <2>2, <3>3 DEF CallsIInv, Traced
  <2>3. ASSUME NEW i \in DOMAIN path \ {1}
        PROVE  \E j \in 1..i - 1 :
                 /\ path[i].seen = Secret(path[j].at)
                 /\ j = 1 \/ ~path[j + 1].forwards
                 /\ \A n \in j + 2..i : path[n].forwards
    <3>1. i \in 2..Len(path)
      <4>1. DOMAIN path = 1..Len(path) /\ Len(path) \in Nat
        BY <2>1 DEF CallsIInv, CallsTypeOK
      <4>2. QED
        BY <2>3, <4>1
    <3>2. QED
      BY <2>1, <3>1 DEF CallsIInv, AllSigned, Signed
  <2>4. QED
    BY <2>2, <2>3 DEF NamesTheSource
<1>2. QED
  BY <1>1, CallsInvariance, PTL

-----------------------------------------------------------------------------
(* TinySerializers: the inductive invariant, in parts. *)

Fields ==
  [name : STRING, kind : STRING, source : Seq(STRING), inner : Serializers \cup {Nobody}]

\* What the name of an attribute consists of.
NameParts == STRING \cup {Id}

\* What may be read and converted when the tiny serializers B are built.
Reads(B) == [name : STRING, from : Seq(NameParts), inner : B \cup {NotTiny}]
TinySet(B) == [of : Serializers, reads : Seq(Reads(B))]
Frames(B) == [of : Serializers, made : Seq(Reads(B))]
Results(B) == [for : Serializers \cup {Nobody}, tiny : B \cup {NotTiny}]

TinyTypeOK ==
  /\ built \subseteq TinySet(built)
  /\ stack \in [Threads -> Seq(Frames(built))]
  /\ returned \in [Threads -> Results(built)]

\* What is made of a serializer is right, as far as it goes.
RightField(B, read, f) ==
  /\ read.name = f.name
  /\ f.inner = Nobody => read.from = Attribute(f) \/ Misread(f)
  /\ f.inner # Nobody =>
       read.from = f.source /\ read.inner \in B /\ ClassName[read.inner.of] = ClassName[f.inner]

RightSoFar(B, s, made) ==
  /\ Len(made) <= Len(FieldsOf[s])
  /\ \A i \in 1..Len(made) : RightField(B, made[i], FieldsOf[s][i])

\* Each call below the top waits for what the next one makes of its next field.
NextField(frame) == FieldsOf[frame.of][Len(frame.made) + 1]

Waiting(frame, s) ==
  Len(frame.made) < Len(FieldsOf[frame.of]) /\ NextField(frame).inner = s

StackRight(B, frames) ==
  /\ \A i \in 1..Len(frames) : RightSoFar(B, frames[i].of, frames[i].made)
  /\ \A i \in 1..Len(frames) - 1 : Waiting(frames[i], frames[i + 1].of)

BuiltRight(B) ==
  \A x \in B : RightSoFar(B, x.of, x.reads) /\ Len(x.reads) = Len(FieldsOf[x.of])

CacheRight ==
  \A n \in DOMAIN created : created[n] \in built /\ ClassName[created[n].of] = n

ReturnedRight ==
  \A t \in Threads : returned[t].for # Nobody =>
    returned[t].tiny \in built /\ ClassName[returned[t].tiny.of] = ClassName[returned[t].for]

TinyIInv ==
  /\ TinyTypeOK
  /\ BuiltRight(built)
  /\ \A t \in Threads : StackRight(built, stack[t])
  /\ CacheRight
  /\ ReturnedRight

-----------------------------------------------------------------------------
(* The conversion of a field's source. *)

LEMMA FieldsKnown ==
  ASSUME NEW s \in Serializers
  PROVE  /\ FieldsOf[s] \in Seq(Fields) /\ Len(FieldsOf[s]) \in Nat
         /\ \A i \in 1..Len(FieldsOf[s]) : FieldsOf[s][i] \in Fields
<1>1. FieldsOf[s] \in Seq(Fields)
  BY TinyAssumption DEF Fields
<1>2. QED
  BY <1>1

LEMMA SeqWidens ==
  ASSUME NEW S, NEW T, S \subseteq T, NEW s \in Seq(S)
  PROVE  s \in Seq(T)
OBVIOUS

\* What is before the first "_id" of a name.
LEMMA CutBefore ==
  ASSUME NEW name \in Seq(STRING), \A i \in Cuts(name) : i >= Len(name)
  PROVE  IF Cuts(name) = {} THEN Cut(name) = name
         ELSE /\ name # <<>> /\ name[Len(name)] = Id
              /\ Cut(name) = SubSeq(name, 1, Len(name) - 1)
<1>1. Len(name) \in Nat /\ DOMAIN name = 1..Len(name)
  OBVIOUS
<1>2. CASE Cuts(name) = {}
  <2>1. Cut(name) = SubSeq(name, 1, Len(name))
    BY <1>2 DEF Cut
  <2>2. SubSeq(name, 1, Len(name)) = name
    OBVIOUS
  <2>3. QED
    BY <1>2, <2>1, <2>2
<1>3. CASE Cuts(name) # {}
  <2>1. PICK i \in Cuts(name) : TRUE
    BY <1>3
  <2>2. i \in 1..Len(name) /\ i >= Len(name) /\ name[i] = Id
    BY <1>1, <2>1 DEF Cuts
  <2>3. Len(name) \in 1..Len(name) /\ name[Len(name)] = Id
    BY <1>1, <2>2
  <2>4. Cuts(name) = {Len(name)}
    <3>1. ASSUME NEW j \in Cuts(name) PROVE j = Len(name)
      <4>1. j \in 1..Len(name) /\ j >= Len(name)
        BY <1>1 DEF Cuts
      <4>2. \A m \in Nat : \A k \in 1..m : k >= m => k = m
        OBVIOUS
      <4>3. QED
        BY <1>1, <4>1, <4>2
    <3>2. Len(name) \in Cuts(name)
      BY <1>1, <2>3 DEF Cuts
    <3>3. QED
      BY <3>1, <3>2
  <2>5. (CHOOSE k \in Cuts(name) : \A j \in Cuts(name) : k <= j) = Len(name)
    BY <1>1, <2>4
  <2>6. Cut(name) = SubSeq(name, 1, Len(name) - 1)
    BY <1>3, <2>5 DEF Cut
  <2>7. QED
    BY <1>3, <2>3, <2>6
<1>4. QED
  BY <1>2, <1>3

LEMMA OneElement == ASSUME NEW S, NEW x \in S PROVE <<x>> \in Seq(S)
OBVIOUS

LEMMA LastPutBack ==
  ASSUME NEW S, NEW name \in Seq(S), name # <<>>
  PROVE  SubSeq(name, 1, Len(name) - 1) \o <<name[Len(name)]>> = name
<1> DEFINE n == Len(name) - 1
           front == SubSeq(name, 1, n)
           last == <<name[Len(name)]>>
<1>1. n \in Nat /\ Len(name) = n + 1
  OBVIOUS
<1>2. front \in Seq(S) /\ Len(front) = n /\ \A i \in 1..n : front[i] = name[i]
  <2>1. 1 \in Int /\ n \in Int /\ \A i \in 1..n : name[i] \in S
    BY <1>1
  <2> HIDE DEF n
  <2>2. /\ front \in Seq(S)
        /\ Len(front) = (IF 1 <= n THEN n - 1 + 1 ELSE 0)
        /\ \A i \in 1..n - 1 + 1 : front[i] = name[1 + i - 1]
    BY <2>1, SubSeqProperties
  <2>3. n - 1 + 1 = n /\ (~(1 <= n) => n = 0) /\ \A i \in 1..n : 1 + i - 1 = i
    BY <1>1
  <2>4. QED
    BY <2>2, <2>3
<1>3. last \in Seq(S) /\ Len(last) = 1 /\ last[1] = name[n + 1]
  BY <1>1
<1> HIDE DEF n, front, last
<1>4. /\ front \o last \in Seq(S) /\ Len(front \o last) = n + 1
      /\ \A i \in 1..n + 1 : (front \o last)[i] = IF i <= n THEN front[i] ELSE last[i - n]
  <2>1. /\ front \o last \in Seq(S)
        /\ Len(front \o last) = Len(front) + Len(last)
        /\ \A i \in 1..Len(front) + Len(last) :
             (front \o last)[i] = IF i <= Len(front) THEN front[i] ELSE last[i - Len(front)]
    BY <1>2, <1>3, ConcatProperties
  <2>2. QED
    BY <1>2, <1>3, <2>1
<1>5. \A i \in 1..n + 1 : (front \o last)[i] = name[i]
  <2>1. TAKE i \in 1..n + 1
  <2>2. CASE i <= n
    <3>1. i \in 1..n
      BY <1>1, <2>2
    <3>2. QED
      BY <1>2, <1>4, <2>2, <3>1
  <2>3. CASE ~(i <= n)
    <3>1. i = n + 1 /\ i - n = 1
      BY <1>1, <2>3
    <3>2. QED
      BY <1>3, <1>4, <2>3, <3>1
  <2>4. QED
    BY <2>2, <2>3
<1>6. front \o last = name
  BY <1>1, <1>4, <1>5, SeqEqual
<1>7. QED
  BY <1>6 DEF front, last, n

LEMMA SourceParts == ASSUME NEW name \in Seq(STRING) PROVE name \in Seq(NameParts)
<1>1. STRING \subseteq NameParts
  BY DEF NameParts
<1>2. QED
  BY <1>1, SeqWidens

\* make_tiny_primary_key_related and make_tiny_any_field: but for a misread one, a
\* field is read where the serializer reads it.
LEMMA ConvertedReadsTheSame ==
  ASSUME NEW f \in Fields
  PROVE  Converted(f) \in Seq(NameParts) /\ (Converted(f) = Attribute(f) \/ Misread(f))
<1>0. f.source \in Seq(STRING) /\ Len(f.source) \in Nat
  BY DEF Fields
<1>1. CASE f.kind \notin KeyKinds
  <2>1. f.source \in Seq(NameParts)
    BY <1>0, SourceParts
  <2>2. QED
    BY <1>1, <2>1 DEF Converted, Attribute, KeyKinds
<1>2. CASE f.kind \in KeyKinds
  <2>1. Converted(f) \in Seq(NameParts)
    <3>1. \A m \in Int : SubSeq(f.source, 1, m) \in Seq(STRING) \/ m > Len(f.source)
      BY <1>0
    <3>2. Cut(f.source) \in Seq(STRING)
      <4>1. CASE Cuts(f.source) = {}
        BY <1>0, <3>1, <4>1 DEF Cut
      <4>2. CASE Cuts(f.source) # {}
        <5> DEFINE P(i) == \A j \in Cuts(f.source) : i <= j
                   k == CHOOSE i \in Cuts(f.source) : P(i)
        <5>1. Cuts(f.source) \subseteq 1..Len(f.source)
          BY <1>0 DEF Cuts
        <5>2. \E i \in Cuts(f.source) : P(i)
          <6>1. Cuts(f.source) \subseteq Nat
            BY <1>0, <5>1
          <6>2. QED
            BY <4>2, <6>1, LeastOfNat
        <5>3. k \in 1..Len(f.source)
          BY <5>1, <5>2
        <5> HIDE DEF k
        <5>4. k - 1 \in Int /\ ~(k - 1 > Len(f.source))
          BY <1>0, <5>3
        <5>5. Cut(f.source) = SubSeq(f.source, 1, k - 1)
          BY <4>2 DEF Cut, k
        <5>6. QED
          BY <3>1, <5>4, <5>5
      <4>3. QED
        BY <4>1, <4>2
    <3>3. <<Id>> \in Seq(NameParts) /\ Cut(f.source) \in Seq(NameParts)
      <4>1. Id \in NameParts /\ STRING \subseteq NameParts
        BY DEF NameParts
      <4>2. QED
        BY <3>2, <4>1, OneElement, SeqWidens
    <3>4. Cut(f.source) \o <<Id>> \in Seq(NameParts)
      BY <3>3, ConcatProperties
    <3>5. QED
      BY <1>2, <3>4 DEF Converted
  <2>2. ASSUME ~Misread(f) PROVE Converted(f) = Attribute(f)
    <3>0. f.kind = "primary key"
      BY <1>2, <2>2 DEF Misread, KeyKinds
    <3>1. \A i \in Cuts(f.source) : i >= Len(f.source)
      <4>1. Cuts(f.source) \subseteq 1..Len(f.source)
        BY <1>0 DEF Cuts
      <4>2. \A i \in Cuts(f.source) : ~(i < Len(f.source))
        BY <3>0, <2>2 DEF Misread
      <4>3. QED
        BY <1>0, <4>1, <4>2
    <3>2. CASE Cuts(f.source) = {}
      <4>1. Cut(f.source) = f.source
        BY <1>0, <3>1, <3>2, CutBefore
      <4>2. ~(f.source # <<>> /\ f.source[Len(f.source)] = Id)
        <5>1. ASSUME f.source # <<>> PROVE f.source[Len(f.source)] # Id
          <6>1. Len(f.source) \in DOMAIN f.source
            BY <1>0, <5>1
          <6>2. QED
            BY <3>2, <6>1 DEF Cuts
        <5>2. QED
          BY <5>1
      <4>3. QED
        BY <1>2, <3>0, <4>1, <4>2 DEF Converted, Attribute
    <3>3. CASE Cuts(f.source) # {}
      <4>1. /\ f.source # <<>> /\ f.source[Len(f.source)] = Id
            /\ Cut(f.source) = SubSeq(f.source, 1, Len(f.source) - 1)
        BY <1>0, <3>1, <3>3, CutBefore
      <4>2. Cut(f.source) \o <<Id>> = f.source
        BY <1>0, <4>1, LastPutBack
      <4>3. QED
        BY <1>2, <3>0, <4>1, <4>2 DEF Converted, Attribute
    <3>4. QED
      BY <3>2, <3>3
  <2>3. QED
    BY <2>1, <2>2
<1>3. QED
  BY <1>1, <1>2

-----------------------------------------------------------------------------
(* What is right stays so when more serializers are built. *)

LEMMA Wider ==
  ASSUME NEW B, NEW C, B \subseteq C
  PROVE  /\ TinySet(B) \subseteq TinySet(C)
         /\ Results(B) \subseteq Results(C)
         /\ \A frames \in Seq(Frames(B)) : frames \in Seq(Frames(C))
<1>1. Reads(B) \subseteq Reads(C)
  BY DEF Reads
<1>2. \A made \in Seq(Reads(B)) : made \in Seq(Reads(C))
  BY <1>1, SeqWidens
<1>3. TinySet(B) \subseteq TinySet(C) /\ Frames(B) \subseteq Frames(C)
  BY <1>2 DEF TinySet, Frames
<1>4. Results(B) \subseteq Results(C)
  BY DEF Results
<1>5. QED
  BY <1>3, <1>4, SeqWidens

LEMMA RightStays ==
  ASSUME NEW B, NEW C, B \subseteq C, NEW s, NEW made, RightSoFar(B, s, made)
  PROVE  RightSoFar(C, s, made)
BY DEF RightSoFar, RightField

LEMMA StackStays ==
  ASSUME NEW B, NEW C, B \subseteq C, NEW frames, StackRight(B, frames)
  PROVE  StackRight(C, frames)
BY RightStays DEF StackRight

-----------------------------------------------------------------------------
(* The three ways in which a stack of calls changes. *)

LEMMA FrameKnown ==
  ASSUME NEW B, NEW frames \in Seq(Frames(B)), NEW i \in 1..Len(frames)
  PROVE  /\ frames[i] \in Frames(B) /\ frames[i].of \in Serializers
         /\ frames[i].made \in Seq(Reads(B)) /\ Len(frames[i].made) \in Nat
         /\ Len(FieldsOf[frames[i].of]) \in Nat
<1>1. frames[i] \in Frames(B)
  OBVIOUS
<1>2. frames[i].of \in Serializers /\ frames[i].made \in Seq(Reads(B))
  BY <1>1 DEF Frames
<1>3. QED
  BY <1>1, <1>2, FieldsKnown

LEMMA NextKnown ==
  ASSUME NEW B, NEW frame \in Frames(B), Len(frame.made) < Len(FieldsOf[frame.of])
  PROVE  NextField(frame) \in Fields
<1>1. frame.of \in Serializers /\ frame.made \in Seq(Reads(B))
  BY DEF Frames
<1>2. Len(frame.made) \in Nat /\ Len(FieldsOf[frame.of]) \in Nat
  BY <1>1, FieldsKnown
<1>3. Len(frame.made) + 1 \in 1..Len(FieldsOf[frame.of])
  BY <1>2
<1>4. QED
  BY <1>1, <1>3, FieldsKnown DEF NextField

\* A call begins.
LEMMA FirstFrame ==
  ASSUME NEW B, NEW s \in Serializers
  PROVE  Frame(s) \in Frames(B) /\ Frame(s).of = s /\ RightSoFar(B, s, Frame(s).made)
<1>1. <<>> \in Seq(Reads(B)) /\ Len(<<>>) = 0
  OBVIOUS
<1>2. Len(FieldsOf[s]) \in Nat
  BY FieldsKnown
<1>3. QED
  BY <1>1, <1>2 DEF Frame, Frames, RightSoFar

LEMMA StackBegins ==
  ASSUME NEW B, NEW s \in Serializers
  PROVE  <<Frame(s)>> \in Seq(Frames(B)) /\ StackRight(B, <<Frame(s)>>)
<1> DEFINE frame == Frame(s)
<1>1. frame \in Frames(B) /\ RightSoFar(B, frame.of, frame.made)
  BY FirstFrame
<1> HIDE DEF frame
<1>2. <<frame>> \in Seq(Frames(B)) /\ Len(<<frame>>) = 1 /\ <<frame>>[1] = frame
  BY <1>1
<1>3. StackRight(B, <<frame>>)
  BY <1>1, <1>2 DEF StackRight
<1>4. QED
  BY <1>2, <1>3 DEF frame

LEMMA StackPushes ==
  ASSUME NEW B, NEW frames \in Seq(Frames(B)), frames # <<>>, StackRight(B, frames),
         NEW s \in Serializers, Waiting(frames[Len(frames)], s)
  PROVE  Append(frames, Frame(s)) \in Seq(Frames(B)) /\ StackRight(B, Append(frames, Frame(s)))
<1> DEFINE frame == Frame(s)
           n == Len(frames)
           new == Append(frames, frame)
<1>1. frame \in Frames(B) /\ frame.of = s /\ RightSoFar(B, frame.of, frame.made)
  BY FirstFrame
<1>2. n \in Nat \ {0} /\ n = Len(frames)
  OBVIOUS
<1> HIDE DEF frame, n
<1>3. /\ new \in Seq(Frames(B)) /\ Len(new) = n + 1 /\ new[n + 1] = frame
      /\ \A i \in 1..n : new[i] = frames[i]
  BY <1>1, <1>2
<1> HIDE DEF new
<1>4. \A i \in 1..n + 1 : RightSoFar(B, new[i].of, new[i].made)
  <2>1. \A i \in 1..n + 1 : i \in 1..n \/ i = n + 1
    BY <1>2
  <2>2. QED
    BY <1>1, <1>2, <1>3, <2>1 DEF StackRight
<1>5. ASSUME NEW i \in 1..n
      PROVE  Waiting(new[i], new[i + 1].of)
  <2>1. CASE i = n
    BY <1>1, <1>2, <1>3, <2>1
  <2>2. CASE i # n
    <3>1. i \in 1..n - 1 /\ i + 1 \in 1..n
      BY <1>2, <2>2
    <3>2. QED
      BY <1>2, <1>3, <3>1 DEF StackRight
  <2>3. QED
    BY <2>1, <2>2
<1>6. StackRight(B, new)
  <2>1. Len(new) - 1 = n
    BY <1>2, <1>3
  <2>2. QED
    BY <1>3, <1>4, <1>5, <2>1 DEF StackRight
<1>7. QED
  BY <1>3, <1>6 DEF new, frame

\* The top of the stack gets its next field.
LEMMA TopAdds ==
  ASSUME NEW B, NEW frame \in Frames(B), RightSoFar(B, frame.of, frame.made),
         Len(frame.made) < Len(FieldsOf[frame.of]),
         NEW read \in Reads(B), RightField(B, read, NextField(frame)),
         NEW new, new = [frame EXCEPT !.made = Append(@, read)]
  PROVE  /\ new \in Frames(B) /\ new.of = frame.of
         /\ RightSoFar(B, new.of, new.made)
<1> DEFINE n == Len(frame.made)
           made == Append(frame.made, read)
<1>1. frame.of \in Serializers /\ frame.made \in Seq(Reads(B))
  BY DEF Frames
<1>2. n \in Nat /\ n = Len(frame.made) /\ Len(FieldsOf[frame.of]) \in Nat
  BY <1>1, FieldsKnown
<1> HIDE DEF n
<1>3. /\ made \in Seq(Reads(B)) /\ Len(made) = n + 1 /\ made[n + 1] = read
      /\ \A i \in 1..n : made[i] = frame.made[i]
  BY <1>1, <1>2
<1>4. new.of = frame.of /\ new.made = made /\ new \in Frames(B)
  BY <1>1, <1>3 DEF Frames
<1> HIDE DEF made
<1>5. n + 1 <= Len(FieldsOf[frame.of])
  BY <1>2
<1>6. \A i \in 1..n + 1 : RightField(B, made[i], FieldsOf[frame.of][i])
  <2>1. \A i \in 1..n + 1 : i \in 1..n \/ i = n + 1
    BY <1>2
  <2>2. \A i \in 1..n : RightField(B, frame.made[i], FieldsOf[frame.of][i])
    BY <1>2 DEF RightSoFar
  <2>3. RightField(B, read, FieldsOf[frame.of][n + 1])
    BY <1>2 DEF NextField
  <2>4. QED
    BY <1>3, <2>1, <2>2, <2>3
<1>7. QED
  BY <1>3, <1>4, <1>5, <1>6 DEF RightSoFar

LEMMA StackAdds ==
  ASSUME NEW B, NEW frames \in Seq(Frames(B)), frames # <<>>, StackRight(B, frames),
         Len(frames[Len(frames)].made) < Len(FieldsOf[frames[Len(frames)].of]),
         NEW read \in Reads(B), RightField(B, read, NextField(frames[Len(frames)]))
  PROVE  Adding(frames, read) \in Seq(Frames(B)) /\ StackRight(B, Adding(frames, read))
<1> DEFINE n == Len(frames)
           frame == frames[n]
           top == [frame EXCEPT !.made = Append(@, read)]
           new == Adding(frames, read)
<1>1. n \in Nat \ {0} /\ n = Len(frames) /\ n \in 1..n
  OBVIOUS
<1>2. frame = frames[n] /\ frame \in Frames(B) /\ RightSoFar(B, frame.of, frame.made)
  <2>1. n \in 1..Len(frames)
    BY <1>1
  <2>2. QED
    BY <2>1 DEF StackRight
<1>3. top \in Frames(B) /\ top.of = frame.of /\ RightSoFar(B, top.of, top.made)
  BY <1>2, TopAdds
<1>4. new = [frames EXCEPT ![n] = top]
  BY DEF Adding
<1> HIDE DEF n, frame, top, new
<1>5. /\ new \in Seq(Frames(B)) /\ Len(new) = n /\ new[n] = top
      /\ \A i \in 1..n : i # n => new[i] = frames[i]
  BY <1>1, <1>3, <1>4
<1>6. \A i \in 1..n : RightSoFar(B, new[i].of, new[i].made)
  BY <1>1, <1>3, <1>5 DEF StackRight
<1>7. ASSUME NEW i \in 1..n - 1
      PROVE  Waiting(new[i], new[i + 1].of)
  <2>1. i \in 1..n /\ i # n /\ i + 1 \in 1..n
    BY <1>1
  <2>2. Waiting(frames[i], frames[i + 1].of)
    BY <1>1 DEF StackRight
  <2>3. new[i] = frames[i] /\ new[i + 1].of = frames[i + 1].of
    BY <1>2, <1>3, <1>5, <2>1
  <2>4. QED
    BY <2>2, <2>3
<1>8. QED
  BY <1>5, <1>6, <1>7 DEF StackRight, new

\* A nested call ends.
LEMMA StackPops ==
  ASSUME NEW B, NEW frames \in Seq(Frames(B)), frames # <<>>, StackRight(B, frames),
         NEW below, below = SubSeq(frames, 1, Len(frames) - 1), below # <<>>
  PROVE  /\ below \in Seq(Frames(B)) /\ StackRight(B, below)
         /\ Len(below) = Len(frames) - 1 /\ below[Len(below)] = frames[Len(frames) - 1]
         /\ Waiting(below[Len(below)], frames[Len(frames)].of)
<1> DEFINE n == Len(frames) - 1
<1>1. n \in Nat /\ Len(frames) = n + 1 /\ below = SubSeq(frames, 1, n)
  OBVIOUS
<1> HIDE DEF n
<1>2. below \in Seq(Frames(B)) /\ Len(below) = n /\ \A i \in 1..n : below[i] = frames[i]
  <2>1. 1 \in Int /\ n \in Int /\ \A i \in 1..n : frames[i] \in Frames(B)
    BY <1>1
  <2>2. /\ SubSeq(frames, 1, n) \in Seq(Frames(B))
        /\ Len(SubSeq(frames, 1, n)) = (IF 1 <= n THEN n - 1 + 1 ELSE 0)
        /\ \A i \in 1..n - 1 + 1 : SubSeq(frames, 1, n)[i] = frames[1 + i - 1]
    BY <2>1, SubSeqProperties
  <2>3. n - 1 + 1 = n /\ (~(1 <= n) => n = 0) /\ \A i \in 1..n : 1 + i - 1 = i
    BY <1>1
  <2>4. QED
    BY <1>1, <2>2, <2>3
<1>3. n \in 1..n /\ n + 1 - 1 = n
  BY <1>1, <1>2
<1>4. \A i \in 1..n : i \in 1..n + 1 /\ i \in 1..n + 1 - 1
  BY <1>1
<1>5. \A i \in 1..n : RightSoFar(B, below[i].of, below[i].made)
  BY <1>1, <1>2, <1>4 DEF StackRight
<1>6. \A i \in 1..n : Waiting(below[i], frames[i + 1].of)
  BY <1>1, <1>2, <1>4 DEF StackRight
<1>7. \A i \in 1..n - 1 : Waiting(below[i], below[i + 1].of)
  <2>1. \A i \in 1..n - 1 : i \in 1..n /\ i + 1 \in 1..n
    BY <1>1
  <2>2. QED
    BY <1>2, <1>6, <2>1
<1>8. StackRight(B, below)
  BY <1>2, <1>5, <1>7 DEF StackRight
<1>9. QED
  BY <1>1, <1>2, <1>3, <1>6, <1>8

-----------------------------------------------------------------------------
(* The invariant is inductive: one lemma for each operation. *)

LEMMA TopKnown ==
  ASSUME TinyTypeOK, NEW t \in Threads, Busy(t)
  PROVE  /\ stack[t] \in Seq(Frames(built)) /\ stack[t] # <<>>
         /\ Len(stack[t]) \in 1..Len(stack[t]) /\ Len(stack[t]) \in Nat
         /\ Top(t) = stack[t][Len(stack[t])] /\ Top(t) \in Frames(built)
         /\ Top(t).of \in Serializers /\ Top(t).made \in Seq(Reads(built))
         /\ Field(t) = NextField(Top(t))
<1>1. stack[t] \in Seq(Frames(built)) /\ stack[t] # <<>>
  BY DEF TinyTypeOK, Busy
<1>2. Len(stack[t]) \in 1..Len(stack[t]) /\ Len(stack[t]) \in Nat
  BY <1>1
<1>3. QED
  BY <1>1, <1>2, FrameKnown DEF Top, Field, NextField

\* An operation that builds no serializer and changes one stack at most.
LEMMA StackOnly ==
  ASSUME TinyIInv, NEW t \in Threads, NEW frames \in Seq(Frames(built)),
         StackRight(built, frames), stack' = [stack EXCEPT ![t] = frames],
         UNCHANGED <<created, returned, built>>
  PROVE  TinyIInv'
<1>1. TinyTypeOK'
  BY DEF TinyIInv, TinyTypeOK
<1>2. \A u \in Threads : StackRight(built, stack'[u])
  BY DEF TinyIInv, TinyTypeOK
<1>3. BuiltRight(built)' /\ CacheRight' /\ ReturnedRight'
  BY DEF TinyIInv, CacheRight, ReturnedRight
<1>4. (\A u \in Threads : StackRight(built, stack[u]))'
  BY <1>2
<1>5. QED
  BY <1>1, <1>3, <1>4 DEF TinyIInv

LEMMA MakeTinyKeeps ==
  ASSUME TinyIInv, NEW t \in Threads, NEW s \in Serializers, MakeTiny(t, s)
  PROVE  TinyIInv'
<1>0. TinyTypeOK /\ CacheRight /\ ReturnedRight
  BY DEF TinyIInv
<1>1. CASE Cached(s)
  <2> DEFINE result == [for |-> s, tiny |-> created[ClassName[s]]]
  <2>1. returned' = [returned EXCEPT ![t] = result] /\ UNCHANGED <<stack, created, built>>
    BY <1>1 DEF MakeTiny
  <2>2. /\ result.for = s /\ result.tiny \in built
        /\ ClassName[result.tiny.of] = ClassName[s]
    BY <1>0, <1>1 DEF Cached, CacheRight
  <2>3. result \in Results(built)
    BY <2>2 DEF Results
  <2> HIDE DEF result
  <2>4. TinyTypeOK'
    BY <1>0, <2>1, <2>3 DEF TinyTypeOK
  <2>5. ReturnedRight'
    <3>1. \A u \in Threads : returned'[u] = IF u = t THEN result ELSE returned[u]
      BY <1>0, <2>1 DEF TinyTypeOK
    <3>2. QED
      BY <1>0, <2>1, <2>2, <3>1 DEF ReturnedRight
  <2>6. QED
    BY <2>1, <2>4, <2>5 DEF TinyIInv, CacheRight
<1>2. CASE ~Cached(s)
  <2>1. stack' = [stack EXCEPT ![t] = <<Frame(s)>>] /\ UNCHANGED <<returned, created, built>>
    BY <1>2 DEF MakeTiny
  <2>2. QED
    BY <2>1, StackBegins, StackOnly
<1>3. QED
  BY <1>1, <1>2

LEMMA MoreToDo ==
  ASSUME TinyIInv, NEW t \in Threads, More(t)
  PROVE  /\ Busy(t) /\ TinyTypeOK /\ StackRight(built, stack[t])
         /\ Len(Top(t).made) < Len(FieldsOf[Top(t).of])
         /\ Field(t) \in Fields
<1>1. Busy(t) /\ TinyTypeOK /\ StackRight(built, stack[t])
  BY DEF TinyIInv, More
<1>2. Len(Top(t).made) < Len(FieldsOf[Top(t).of])
  BY DEF More
<1>3. QED
  BY <1>1, <1>2, TopKnown, NextKnown

LEMMA ConvertFieldKeeps ==
  ASSUME TinyIInv, NEW t \in Threads, ConvertField(t)
  PROVE  TinyIInv'
<1> DEFINE f == Field(t)
           read == [name |-> f.name, from |-> Converted(f), inner |-> NotTiny]
<1>1. /\ More(t) /\ f.inner = Nobody
      /\ stack' = [stack EXCEPT ![t] = Adding(stack[t], read)]
      /\ UNCHANGED <<created, returned, built>>
  <2>1. TinyTypeOK
    BY DEF TinyIInv
  <2>2. QED
    BY <2>1 DEF ConvertField, TinyTypeOK
<1>2. f \in Fields
  BY <1>1, MoreToDo
<1>3. read \in Reads(built) /\ RightField(built, read, f)
  <2>1. Converted(f) \in Seq(NameParts) /\ (Converted(f) = Attribute(f) \/ Misread(f))
    BY <1>2, ConvertedReadsTheSame
  <2>2. f.name \in STRING
    BY <1>2 DEF Fields
  <2>3. read \in Reads(built)
    BY <2>1, <2>2 DEF Reads
  <2>4. RightField(built, read, f)
    BY <1>1, <2>1 DEF RightField
  <2>5. QED
    BY <2>3, <2>4
<1> HIDE DEF read
<1>4. Adding(stack[t], read) \in Seq(Frames(built)) /\ StackRight(built, Adding(stack[t], read))
  BY <1>1, <1>3, MoreToDo, TopKnown, StackAdds
<1>5. QED
  BY <1>1, <1>4, StackOnly

LEMMA NestKeeps ==
  ASSUME TinyIInv, NEW t \in Threads, Nest(t)
  PROVE  TinyIInv'
<1> DEFINE f == Field(t)
           s == f.inner
<1>1. /\ More(t) /\ s # Nobody
      /\ UNCHANGED <<created, returned, built>>
  BY DEF Nest
<1>2. f \in Fields /\ s \in Serializers /\ f.name \in STRING /\ f.source \in Seq(NameParts)
  <2>1. f \in Fields
    BY <1>1, MoreToDo
  <2>2. f.source \in Seq(STRING)
    BY <2>1 DEF Fields
  <2>3. QED
    BY <1>1, <2>1, <2>2, SourceParts DEF Fields
<1>3. stack \in [Threads -> Seq(Frames(built))] /\ CacheRight
  BY DEF TinyIInv, TinyTypeOK
<1>4. CASE Cached(s)
  <2> DEFINE tiny == created[ClassName[s]]
             read == [name |-> f.name, from |-> f.source, inner |-> tiny]
  <2>1. stack' = [stack EXCEPT ![t] = Adding(stack[t], read)]
    BY <1>3, <1>4 DEF Nest
  <2>2. tiny \in built /\ ClassName[tiny.of] = ClassName[s]
    BY <1>3, <1>4 DEF Cached, CacheRight
  <2> HIDE DEF tiny
  <2>3. read \in Reads(built) /\ RightField(built, read, f)
    BY <1>1, <1>2, <2>2 DEF Reads, RightField
  <2> HIDE DEF read
  <2>4. /\ Adding(stack[t], read) \in Seq(Frames(built))
        /\ StackRight(built, Adding(stack[t], read))
    BY <1>1, <2>3, MoreToDo, TopKnown, StackAdds
  <2>5. QED
    BY <1>1, <2>1, <2>4, StackOnly
<1>5. CASE ~Cached(s)
  <2>1. stack' = [stack EXCEPT ![t] = Append(stack[t], Frame(s))]
    BY <1>3, <1>5 DEF Nest
  <2>2. Waiting(stack[t][Len(stack[t])], s)
    BY <1>1, MoreToDo, TopKnown DEF Waiting
  <2>3. /\ Append(stack[t], Frame(s)) \in Seq(Frames(built))
        /\ StackRight(built, Append(stack[t], Frame(s)))
    BY <1>1, <1>2, <2>2, MoreToDo, TopKnown, StackPushes
  <2>4. QED
    BY <1>1, <2>1, <2>3, StackOnly
<1>6. QED
  BY <1>4, <1>5

LEMMA AbortKeeps ==
  ASSUME TinyIInv, NEW t \in Threads, Abort(t)
  PROVE  TinyIInv'
<1>1. stack' = [stack EXCEPT ![t] = <<>>] /\ UNCHANGED <<created, returned, built>>
  BY DEF Abort
<1>2. <<>> \in Seq(Frames(built)) /\ StackRight(built, <<>>)
  BY DEF StackRight
<1>3. QED
  BY <1>1, <1>2, StackOnly

LEMMA FinishKeeps ==
  ASSUME TinyIInv, NEW t \in Threads, Finish(t)
  PROVE  TinyIInv'
<1> DEFINE frame == Top(t)
           tiny == Tiny(frame.of, frame.made)
           name == ClassName[frame.of]
<1>0. TinyTypeOK /\ BuiltRight(built) /\ CacheRight /\ ReturnedRight
  BY DEF TinyIInv
<1>1. /\ Busy(t) /\ ~More(t) /\ built' = built \cup {tiny}
      /\ created' = [n \in DOMAIN created \cup {name} |-> IF n = name THEN tiny ELSE created[n]]
  BY DEF Finish
<1>2. /\ frame \in Frames(built) /\ frame.of \in Serializers
      /\ frame.made \in Seq(Reads(built)) /\ RightSoFar(built, frame.of, frame.made)
  BY <1>0, <1>1, TopKnown DEF TinyIInv, StackRight
<1>3. tiny.of = frame.of /\ tiny.reads = frame.made /\ tiny \in TinySet(built)
  BY <1>2 DEF Tiny, TinySet
<1>4. Len(frame.made) = Len(FieldsOf[frame.of])
  <2>1. ~(Len(frame.made) < Len(FieldsOf[frame.of]))
    BY <1>1 DEF More
  <2>2. Len(frame.made) \in Nat /\ Len(FieldsOf[frame.of]) \in Nat
    BY <1>2, FieldsKnown
  <2>3. Len(frame.made) <= Len(FieldsOf[frame.of])
    BY <1>2 DEF RightSoFar
  <2>4. QED
    BY <2>1, <2>2, <2>3
<1> HIDE DEF tiny
<1>5. built \subseteq built' /\ tiny \in built'
  BY <1>1
<1>6. built' \subseteq TinySet(built') /\ BuiltRight(built')
  <2>1. \A x \in built' : x \in built \/ x = tiny
    BY <1>1
  <2>2. built' \subseteq TinySet(built')
    BY <1>0, <1>3, <1>5, <2>1, Wider DEF TinyTypeOK
  <2>3. \A x \in built : RightSoFar(built', x.of, x.reads) /\ Len(x.reads) = Len(FieldsOf[x.of])
    BY <1>0, <1>5, RightStays DEF BuiltRight
  <2>4. RightSoFar(built', tiny.of, tiny.reads) /\ Len(tiny.reads) = Len(FieldsOf[tiny.of])
    BY <1>2, <1>3, <1>4, <1>5, RightStays
  <2>5. QED
    BY <2>1, <2>2, <2>3, <2>4 DEF BuiltRight
<1>7. CacheRight'
  BY <1>0, <1>1, <1>3, <1>5 DEF CacheRight
<1>8. /\ stack \in [Threads -> Seq(Frames(built'))] /\ returned \in [Threads -> Results(built')]
      /\ \A u \in Threads : StackRight(built', stack[u])
      /\ \A u \in Threads : returned[u].for # Nobody =>
           returned[u].tiny \in built' /\ ClassName[returned[u].tiny.of] = ClassName[returned[u].for]
  <2>1. stack \in [Threads -> Seq(Frames(built'))]
    BY <1>0, <1>5, Wider DEF TinyTypeOK
  <2>2. returned \in [Threads -> Results(built')]
    BY <1>0, <1>5, Wider DEF TinyTypeOK
  <2>3. \A u \in Threads : StackRight(built', stack[u])
    BY <1>5, StackStays DEF TinyIInv
  <2>4. QED
    BY <1>0, <1>5, <2>1, <2>2, <2>3 DEF ReturnedRight
<1>9. CASE Below(t) = <<>>
  <2> DEFINE result == [for |-> frame.of, tiny |-> tiny]
  <2>1. stack' = [stack EXCEPT ![t] = <<>>] /\ returned' = [returned EXCEPT ![t] = result]
    BY <1>9 DEF Finish, tiny
  <2>2. <<>> \in Seq(Frames(built')) /\ StackRight(built', <<>>)
    BY DEF StackRight
  <2>3. result \in Results(built') /\ result.tiny = tiny /\ result.for = frame.of
    BY <1>2, <1>5 DEF Results
  <2> HIDE DEF result, frame
  <2>4. TinyTypeOK'
    BY <1>6, <1>8, <2>1, <2>2, <2>3 DEF TinyTypeOK
  <2>5. ReturnedRight'
    <3>1. \A u \in Threads : returned'[u] = IF u = t THEN result ELSE returned[u]
      BY <1>8, <2>1
    <3>2. QED
      BY <1>3, <1>5, <1>8, <2>3, <3>1 DEF ReturnedRight
  <2>6. \A u \in Threads : StackRight(built', stack'[u])
    <3>1. \A u \in Threads : stack'[u] = IF u = t THEN <<>> ELSE stack[u]
      BY <1>8, <2>1
    <3>2. QED
      BY <1>8, <2>2, <3>1
  <2>7. QED
    BY <1>6, <1>7, <2>4, <2>5, <2>6 DEF TinyIInv
<1>10. CASE Below(t) # <<>>
  <2> DEFINE below == Below(t)
             waiting == below[Len(below)]
             f == NextField(waiting)
             read == [name |-> f.name, from |-> f.source, inner |-> tiny]
  <2>1. /\ stack[t] \in Seq(Frames(built')) /\ stack[t] # <<>> /\ StackRight(built', stack[t])
        /\ below = SubSeq(stack[t], 1, Len(stack[t]) - 1) /\ below # <<>>
    BY <1>1, <1>8, <1>10 DEF Busy, Below
  <2>2. /\ below \in Seq(Frames(built')) /\ StackRight(built', below)
        /\ waiting = stack[t][Len(stack[t]) - 1]
        /\ Waiting(waiting, frame.of)
    <3> HIDE DEF below
    <3>1. Top(t) = stack[t][Len(stack[t])]
      BY DEF Top
    <3>2. QED
      BY <2>1, <3>1, StackPops
  <2>3. stack' = [stack EXCEPT ![t] = Adding(below, read)] /\ returned' = returned
    BY <1>10, <2>2 DEF Finish, NextField, tiny
  <2>4. waiting \in Frames(built') /\ Len(waiting.made) < Len(FieldsOf[waiting.of])
        /\ f.inner = frame.of
    <3> HIDE DEF below
    <3>1. Len(below) \in 1..Len(below)
      BY <2>1, <2>2
    <3>2. QED
      BY <2>2, <3>1, FrameKnown DEF Waiting
  <2> HIDE DEF below, waiting
  <2>5. f \in Fields /\ f.source \in Seq(NameParts) /\ f.name \in STRING
    <3>1. f \in Fields
      BY <2>4, NextKnown
    <3>2. f.source \in Seq(STRING)
      BY <3>1 DEF Fields
    <3>3. QED
      BY <3>1, <3>2, SourceParts DEF Fields
  <2> HIDE DEF f, frame
  <2>6. read \in Reads(built') /\ RightField(built', read, f)
    <3>1. f.inner # Nobody
      BY <1>2, <2>4, TinyAssumption
    <3>2. QED
      BY <1>3, <1>5, <2>4, <2>5, <3>1 DEF Reads, RightField
  <2> HIDE DEF read
  <2>7. Adding(below, read) \in Seq(Frames(built')) /\ StackRight(built', Adding(below, read))
    BY <2>1, <2>2, <2>4, <2>6, StackAdds DEF waiting, f
  <2>8. TinyTypeOK'
    BY <1>6, <1>8, <2>3, <2>7 DEF TinyTypeOK
  <2>9. \A u \in Threads : StackRight(built', stack'[u])
    <3>1. \A u \in Threads : stack'[u] = IF u = t THEN Adding(below, read) ELSE stack[u]
      BY <1>8, <2>3
    <3>2. QED
      BY <1>8, <2>7, <3>1
  <2>10. ReturnedRight'
    BY <1>8, <2>3 DEF ReturnedRight
  <2>11. QED
    BY <1>6, <1>7, <2>8, <2>9, <2>10 DEF TinyIInv
<1>11. QED
  BY <1>9, <1>10

LEMMA TinyInitIInv == TinyInit => TinyIInv
<1>1. SUFFICES ASSUME TinyInit PROVE TinyIInv
  OBVIOUS
<1>2. built = {} /\ DOMAIN created = {}
  BY <1>1 DEF TinyInit, Empty
<1>3. \A t \in Threads : stack[t] = <<>> /\ returned[t] = [for |-> Nobody, tiny |-> NotTiny]
  BY <1>1 DEF TinyInit
<1>4. TinyTypeOK
  BY <1>1, <1>2 DEF TinyInit, TinyTypeOK, Results
<1>5. \A t \in Threads : StackRight(built, stack[t])
  BY <1>3 DEF StackRight
<1>6. QED
  BY <1>2, <1>3, <1>4, <1>5 DEF TinyIInv, BuiltRight, CacheRight, ReturnedRight

LEMMA TinyNextIInv == TinyIInv /\ [TinyNext]_tinyVars => TinyIInv'
<1>1. SUFFICES ASSUME TinyIInv, [TinyNext]_tinyVars PROVE TinyIInv'
  OBVIOUS
<1>2. CASE UNCHANGED tinyVars
  BY <1>1, <1>2 DEF tinyVars, TinyIInv, TinyTypeOK, CacheRight, ReturnedRight
<1>3. CASE TinyNext
  BY <1>1, <1>3, MakeTinyKeeps, ConvertFieldKeeps, NestKeeps, FinishKeeps, AbortKeeps
  DEF TinyNext
<1>4. QED
  BY <1>1, <1>2, <1>3

THEOREM TinyInvariance == TinySpec => []TinyIInv
BY TinyInitIInv, TinyNextIInv, PTL DEF TinySpec

\* make_tiny, with any serializers nested in each other in any way, called by any
\* number of threads: what is built, cached and returned is complete and reads what the
\* original reads, but for misread keys and namesakes.
THEOREM TinyReadsTheSame == TinySpec => []ReadsTheSame
<1>1. TinyIInv => ReadsTheSame
  <2>1. SUFFICES ASSUME TinyIInv PROVE ReadsTheSame
    OBVIOUS
  <2>2. ASSUME NEW x \in built
        PROVE  /\ x.of \in Serializers /\ Len(x.reads) = Len(FieldsOf[x.of])
               /\ \A i \in DOMAIN x.reads : ReadsField(x.reads[i], FieldsOf[x.of][i])
    <3>1. x.of \in Serializers /\ x.reads \in Seq(Reads(built))
      BY <2>1 DEF TinyIInv, TinyTypeOK, TinySet
    <3>2. DOMAIN x.reads = 1..Len(x.reads)
      BY <3>1
    <3>3. RightSoFar(built, x.of, x.reads) /\ Len(x.reads) = Len(FieldsOf[x.of])
      BY <2>1 DEF TinyIInv, BuiltRight
    <3>4. \A i \in 1..Len(x.reads) : RightField(built, x.reads[i], FieldsOf[x.of][i])
      BY <3>3 DEF RightSoFar
    <3>5. QED
      BY <3>1, <3>2, <3>3, <3>4 DEF RightField, ReadsField
  <2>3. QED
    BY <2>1, <2>2 DEF ReadsTheSame, TinyIInv, CacheRight, ReturnedRight
<1>2. QED
  BY <1>1, TinyInvariance, PTL
=============================================================================
