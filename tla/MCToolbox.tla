----------------------------- MODULE MCToolbox -----------------------------
(* The parts of the toolset that are used on their own, in one instance: a  *)
(* program is at work with soft deleted tables, with tiny serializers, with *)
(* assert_matches, or as one of several services.                           *)
EXTENDS SoftDelete, Matching, TinySerializers, ServiceCalls, TLC

\* SoftDelete: a plain name, and one that has the prefix of the twins inside, so
\* that its trigger takes the plain one for the original.
MCTables == {<<"old_", "items">>, <<"old_", "deleted_", "items">>}
MCMaxId == [t \in MCTables |-> IF Len(t) = 2 THEN 2 ELSE 1]

Symmetry == Permutations(Codes)

\* Matching: short lists, sets, lists of sets, and dicts of one or two keys.
Leaves == {<<"leaf", "a">>, <<"leaf", "b">>}
SetOf(S) == <<"set", S>>
ListsOf(S, n) == {<<"list", l>> : l \in UNION {[1..k -> S] : k \in 0..n}}
DictsOf(K, S) == {<<"dict", f>> : f \in {f \in [DictKeys -> S \cup {Missing}] : KeysOf(f) \subseteq K}}

MCAtoms == {"a", "b"}
MCKeyOrder == <<"y", "x", Dots>>
MCOriginals ==
  ListsOf(Leaves, 3) \cup ListsOf({SetOf(S) : S \in SUBSET {"a", "b"}}, 2)
    \cup DictsOf({"x", "y"}, {<<"leaf", "a">>, SetOf({"a"}), SetOf({"b"})})
MCPartials ==
  ListsOf(Leaves \cup {Ellipsis}, 3)
    \cup ListsOf({SetOf({"a"}), SetOf({"a", Dots}), SetOf({"a", "b", Dots}), Ellipsis}, 2)
    \cup DictsOf({"x", "y", Dots}, {<<"leaf", "a">>, SetOf({"a", Dots}), Ellipsis})
MCValues == {Ellipsis, SetOf({"a", Dots}), <<"list", <<Ellipsis>>>>}

\* TinySerializers: two classes of one name, a source with "_id" inside, a reverse
\* relation, and a field that cannot be converted, after nested serializers that can.
CONSTANTS user, usersApi, item, profile, order

MCSerializers == {user, usersApi, item, profile, order}
MCClassName ==
  user :> "User" @@ usersApi :> "User" @@ item :> "Item" @@ profile :> "Profile" @@ order :> "Order"

Plain(n, k, source) == [name |-> n, kind |-> k, source |-> source, inner |-> Nobody]
Nested(n, s) == [name |-> n, kind |-> "nested", source |-> <<n>>, inner |-> s]
MCFieldsOf ==
     user :> <<Plain("login", "other", <<"login">>), Plain("boss", "primary key", <<"boss">>)>>
  @@ usersApi :> <<Plain("mail", "other", <<"mail">>)>>
  @@ item :> <<Plain("owner", "primary key", <<"owner", "_id">>), Nested("user", user)>>
  @@ profile :> <<Plain("idea", "primary key", <<"my", "_id", "ea">>),
                  Plain("card", "reverse key", <<"card">>)>>
  @@ order :> <<Nested("item", item), Nested("user", usersApi),
                Plain("state", "own arguments", <<"state">>)>>

VARIABLE part

allVars == <<vars, matchVars, tinyVars, callVars, part>>

\* What a program does not use stays as it was.
ToolboxInit ==
  /\ part \in {"soft delete", "matching", "serializers", "services"}
  /\ Init /\ TinyInit /\ MatchInit /\ CallsInit
  /\ part # "matching" => written = CHOOSE p \in Partials : TRUE
  /\ part # "services" => Here.at = CHOOSE s \in Services : TRUE

ToolboxNext ==
  \/ part = "soft delete" /\ Next /\ UNCHANGED <<matchVars, tinyVars, callVars, part>>
  \/ part = "matching" /\ MatchNext /\ UNCHANGED <<vars, tinyVars, callVars, part>>
  \/ part = "serializers" /\ TinyNext /\ UNCHANGED <<vars, matchVars, callVars, part>>
  \/ part = "services" /\ CallsNext /\ UNCHANGED <<vars, matchVars, tinyVars, part>>

ToolboxSpec == ToolboxInit /\ [][ToolboxNext]_allVars
=============================================================================
