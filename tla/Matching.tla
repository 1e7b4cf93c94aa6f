------------------------------ MODULE Matching ------------------------------
(***************************************************************************)
(* assert_matches of toolset.testing, and the way a test uses it: the test *)
(* writes down what it expects, with an ellipsis where it does not care,   *)
(* and compares it with several objects.                                   *)
(*                                                                         *)
(* An object is a pair of its type and its contents; list and tuple are    *)
(* one type, as the comparison does not tell them apart.                   *)
(***************************************************************************)
EXTENDS Naturals, Sequences, FiniteSets

CONSTANTS
  Atoms,        \* numbers, strings and what else is compared as a whole
  KeyOrder,     \* the keys of dicts, in the order in which sets iterate over them
  MaxDepth,     \* bound on how deep objects are nested
  Originals,    \* the objects a test compares
  Partials,     \* what it may expect of them
  Values,       \* what it may swap into a copy of one of the objects
  MaxCompares   \* bound on the comparisons with one expectation

Dots == "..."                \* the ellipsis as a key of a dict or an element of a set
Ellipsis == <<"...", Dots>>  \* as a value
Missing == <<"missing", Dots>>
DictKeys == {KeyOrder[i] : i \in DOMAIN KeyOrder}
KeysOf(d) == {k \in DictKeys : d[k] # Missing}

\* The objects that hold members of S and nothing else; a dict maps every key to its
\* value or to Missing.
Holding(S) ==
  {Ellipsis} \cup ({"leaf"} \X Atoms) \cup ({"set"} \X SUBSET (Atoms \cup {Dots}))
    \cup ({"list"} \X Seq(S)) \cup ({"dict"} \X [DictKeys -> S \cup {Missing}])

\* Those that are nested at most n deep.
Objects[n \in 0..MaxDepth] == IF n = 0 THEN {} ELSE Holding(Objects[n - 1])

ASSUME MatchAssumption ==
  /\ MaxDepth \in Nat \ {0} /\ MaxCompares \in Nat
  /\ KeyOrder \in Seq(DictKeys) /\ Dots \in DictKeys
  /\ Originals \cup Partials \subseteq Objects[MaxDepth] \ {Ellipsis}
  /\ Values \subseteq Objects[MaxDepth - 1]

VARIABLES
  written,   \* what the test has written
  expected,  \* the object it passes, which comparisons change
  compared,  \* how many comparisons there were with it
  verdict    \* history: the latest comparison

matchVars == <<written, expected, compared, verdict>>

-----------------------------------------------------------------------------
(* What a match is.  M holds the pairs of parts that match. *)

\* A list matches when its items can be laid over the original in order, with gaps
\* only where there is an ellipsis.
ListMatches(M, o, p) ==
  LET items == {i \in DOMAIN p : p[i] # Ellipsis}
  IN  \E f \in [items -> DOMAIN o] :
        /\ \A i \in items : <<o[f[i]], p[i]>> \in M
        /\ \A i, j \in items : i < j => f[i] < f[j]
        /\ \A i \in items : i - 1 \in items => f[i] = f[i - 1] + 1
        /\ 1 \in items => f[1] = 1
        /\ Len(p) \in items => f[Len(p)] = Len(o)
        /\ p = <<>> => o = <<>>

\* In a dict, `...: ...` allows more keys and `...: v` exactly one more, with value v.
DictMatches(M, o, p) ==
  LET named == KeysOf(p) \ {Dots}
      more == KeysOf(o) \ KeysOf(p)
  IN  /\ named \subseteq KeysOf(o)
      /\ \A k \in named : <<o[k], p[k]>> \in M
      /\ p[Dots] = Missing => more = {}
      /\ p[Dots] \notin {Missing, Ellipsis} =>
           \E k \in more : more = {k} /\ <<o[k], p[Dots]>> \in M

SetMatches(o, p) == IF Dots \in p THEN p \ {Dots} \subseteq o ELSE p = o

MatchedBy(M, o, p) ==
  \/ p = Ellipsis
  \/ p[1] = "leaf" /\ p = o
  \/ p[1] = "set" /\ o[1] = "set" /\ SetMatches(o[2], p[2])
  \/ p[1] = "list" /\ o[1] = "list" /\ ListMatches(M, o[2], p[2])
  \/ p[1] = "dict" /\ o[1] = "dict" /\ DictMatches(M, o[2], p[2])

Pairs(n) == Objects[n] \X Objects[n]

\* The matching pairs of each depth.
Matching[n \in 0..MaxDepth] ==
  IF n = 0 THEN {} ELSE {x \in Pairs(n) : MatchedBy(Matching[n - 1], x[1], x[2])}

Matches(o, p) == <<o, p>> \in Matching[MaxDepth]

-----------------------------------------------------------------------------
(* How the code finds out.  A comparison returns what has become of p; C is the   *)
(* comparison of the parts.                                                        *)

Passes(p) == [ok |-> TRUE, p |-> p]
Refuses(p) == [ok |-> FALSE, p |-> p]

\* Mutant: the ellipsis of a set stands for at least one element.
CompareSetsProper(o, p) ==
  CASE Dots \notin p -> [ok |-> p = o, p |-> p]
    [] p \ {Dots} \subseteq o /\ p \ {Dots} # o -> Passes(p)
    [] OTHER -> Refuses(p \ {Dots})

\* Of a set that does not match the ellipsis is removed, for the error message.
CompareSets(o, p) ==
  CASE Dots \notin p -> [ok |-> p = o, p |-> p]
    [] Dots \in p /\ p \ {Dots} \subseteq o -> Passes(p)
    [] OTHER -> Refuses(p \ {Dots})

\* An item of a dict: the ellipsis matches anything.
Item(C, o, p) == IF p = Ellipsis THEN Passes(p) ELSE C[<<o, p>>]

\* Keys are compared one after the other until one fails or is in one dict only.
CompareKeys(C, o, p, keys) ==
  LET fails(k) == k \notin KeysOf(o) \cap KeysOf(p) \/ ~Item(C, o[k], p[k]).ok
      reached == {k \in keys \cap KeysOf(o) \cap KeysOf(p) :
                    \E j \in DOMAIN KeyOrder :
                      KeyOrder[j] = k /\ \A i \in 1..j - 1 : KeyOrder[i] \in keys => ~fails(KeyOrder[i])}
  IN  [ok |-> \A k \in keys : ~fails(k),
       p |-> [k \in DictKeys |-> IF k \in reached THEN Item(C, o[k], p[k]).p ELSE p[k]]]

CompareDicts(C, o, p) ==
  LET partial == Dots \in KeysOf(p)
      keys == IF partial THEN KeysOf(p) \ {Dots} ELSE KeysOf(p) \cup KeysOf(o)
      r == CompareKeys(C, o, p, keys)
      remaining == KeysOf(o) \ KeysOf(p)
  IN  IF ~r.ok \/ ~partial \/ p[Dots] = Ellipsis THEN r
      ELSE IF Cardinality(remaining) # 1 THEN Refuses(r.p)
      ELSE LET rest == C[<<o[CHOOSE k \in remaining : TRUE], p[Dots]>>]
           IN  [ok |-> rest.ok, p |-> [r.p EXCEPT ![Dots] = rest.p]]

\* What becomes of an item that is compared with one object after the other.
Tried(C, o, item, at) ==
  LET tried[k \in 0..Len(o) + 1 - at] ==
        IF k = 0 THEN item ELSE C[<<o[at + k - 1], tried[k - 1]>>].p
  IN  tried

\* After an ellipsis: the first object from `at` on that the item matches.
Seek(C, o, item, at) ==
  LET tried == Tried(C, o, item, at)
      hits == {k \in 0..Len(o) - at : C[<<o[at + k], tried[k]>>].ok}
  IN  IF hits = {} THEN [at |-> at, ok |-> FALSE, p |-> tried[Len(o) + 1 - at]]
      ELSE LET k == CHOOSE k \in hits : \A h \in hits : k <= h
           IN  [at |-> at + k, ok |-> TRUE, p |-> tried[k + 1]]

\* Mutant: objects that are left over do not matter.
EndsLoosely(o, at, skip) == TRUE

\* No object is left over when the items are.
Ends(o, at, skip) == skip \/ at = Len(o) + 1

\* The i-th item against the objects from s.at on.  What Seek has found is compared
\* once more, and never given up for a later match.
CompareItem(C, o, i, s) ==
  CASE ~s.ok -> s
    [] s.ok /\ s.p[i] = Ellipsis -> [s EXCEPT !.skip = TRUE]
    [] s.ok /\ s.p[i] # Ellipsis ->
         LET found == IF s.skip THEN Seek(C, o, s.p[i], s.at)
                      ELSE [at |-> s.at, ok |-> s.at <= Len(o), p |-> s.p[i]]
             r == IF found.ok THEN C[<<o[found.at], found.p>>] ELSE Refuses(found.p)
         IN  [ok |-> r.ok, p |-> [s.p EXCEPT ![i] = r.p], at |-> found.at + 1, skip |-> FALSE]

\* The comparison of a list after each of its items.
Begun(p) == [ok |-> TRUE, p |-> p, at |-> 1, skip |-> FALSE]
Run(C, o, p) ==
  LET run[i \in 0..Len(p)] == IF i = 0 THEN Begun(p) ELSE CompareItem(C, o, i, run[i - 1])
  IN  run

CompareItems(C, o, p) ==
  LET s == Run(C, o, p)[Len(p)]
  IN  [ok |-> s.ok /\ Ends(o, s.at, s.skip), p |-> s.p]

Compared(C, o, p) ==
  IF o[1] # p[1] \/ o[1] = "leaf" THEN [ok |-> o = p, p |-> p]
  ELSE LET r == CASE o[1] = "dict" -> CompareDicts(C, o[2], p[2])
                  [] o[1] = "set" -> CompareSets(o[2], p[2])
                  [] o[1] = "list" -> CompareItems(C, o[2], p[2])
       IN  [ok |-> r.ok, p |-> <<p[1], r.p>>]

\* The comparisons of each depth.
Comparison[n \in 0..MaxDepth] ==
  IF n = 0 THEN <<>> ELSE [x \in Pairs(n) |-> Compared(Comparison[n - 1], x[1], x[2])]

AssertMatches(o, p) == Comparison[MaxDepth][<<o, p>>]

\* copy_dict_with_swap_value: a deep copy of a dict with the value at a path replaced.
Swapped(d, path, value) ==
  LET down[i \in 0..Len(path) - 1] == IF i = 0 THEN d[2] ELSE down[i - 1][path[i]][2]
      up[i \in 1..Len(path) + 1] ==
        IF i > Len(path) THEN value
        ELSE <<"dict", [down[i - 1] EXCEPT ![path[i]] = up[i + 1]]>>
  IN  up[1]

-----------------------------------------------------------------------------
(* The test. *)

NoVerdict == [o |-> Ellipsis, ok |-> TRUE, fresh |-> TRUE]

MatchInit ==
  /\ written \in Partials
  /\ expected = written /\ compared = 0 /\ verdict = NoVerdict

\* It derives what it expects from an object by swapping one value of it.
Derive(o, k, value) ==
  /\ compared = 0 /\ written = expected /\ o[1] = "dict" /\ k \in KeysOf(o[2])
  /\ written' = Swapped(o, <<k>>, value)
  /\ expected' = written' /\ verdict' = NoVerdict
  /\ UNCHANGED compared

Compare(o) ==
  /\ compared < MaxCompares
  /\ LET r == AssertMatches(o, expected)
     IN  /\ expected' = r.p
         /\ verdict' = [o |-> o, ok |-> r.ok, fresh |-> expected = written]
  /\ compared' = compared + 1
  /\ UNCHANGED written

MatchNext ==
  \/ \E o \in Originals : Compare(o)
  \/ \E o \in Originals, k \in DictKeys, v \in Values :
       Derive(o, k, v)

MatchSpec == MatchInit /\ [][MatchNext]_matchVars

-----------------------------------------------------------------------------
(* Correctness. *)

\* No item follows an ellipsis in any list.
AnchoredBy(A, p) ==
  /\ p[1] = "list" => \A i \in DOMAIN p[2] : p[2][i] \in A /\ (p[2][i] = Ellipsis => i = Len(p[2]))
  /\ p[1] = "dict" => \A k \in KeysOf(p[2]) : p[2][k] \in A

AnchoredOf[n \in 0..MaxDepth] ==
  IF n = 0 THEN {} ELSE {p \in Objects[n] : AnchoredBy(AnchoredOf[n - 1], p)}

Anchored(p) == p \in AnchoredOf[MaxDepth]

\* A comparison that passes says so rightly of what the test has written, whatever
\* earlier comparisons have made of the object it passes.
PassingMatches == verdict.o # Ellipsis /\ verdict.ok => Matches(verdict.o, written)

\* What matches is refused only where an item follows an ellipsis, or where an
\* earlier comparison has taken the ellipsis out of a set.
RefusedForAReason ==
  verdict.o # Ellipsis /\ ~verdict.ok /\ Matches(verdict.o, written) =>
    ~verdict.fresh \/ ~Anchored(written)

\* "Returns True if object match or match partially with ellipsis": an expectation
\* that has not been used before passes on what it matches.
MatchingPasses ==
  verdict.o # Ellipsis /\ verdict.fresh /\ Matches(verdict.o, written) => verdict.ok
=============================================================================
