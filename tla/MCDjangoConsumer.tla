-------------------------- MODULE MCDjangoConsumer --------------------------
(* Instances of DjangoConsumer for TLC. *)
EXTENDS DjangoConsumer, TLC

CONSTANTS m1, m2, m3

\* Two ordinary bodies; one that a callback sees but that cannot be given an
\* "error"; one that is no JSON, and one that is not even text.
Objects     == m1 :> "object" @@ m2 :> "object"
ObjectOther == m1 :> "object" @@ m2 :> "other"
Mixed       == m1 :> "object" @@ m2 :> "undecodable" @@ m3 :> "malformed"

\* Copies and consumers are interchangeable.
Symmetric == Permutations(Copies) \cup Permutations(Consumers)
=============================================================================
