---------------------------- MODULE MCAioConsumer ----------------------------
(* Instances of AioConsumer for TLC. *)
EXTENDS AioConsumer, TLC

CONSTANTS m1, m2, m3

\* One ordinary body; two that a callback sees, the second of which cannot be
\* given an "error"; one that a callback sees, one that is not even text and one
\* that is no JSON.
OneObject   == m1 :> "object"
ObjectOther == m1 :> "object" @@ m2 :> "other"
Mixed       == m1 :> "other" @@ m2 :> "undecodable" @@ m3 :> "malformed"

\* Copies, tasks and consumers are interchangeable.
Symmetric == Permutations(Copies) \cup Permutations(Tasks) \cup Permutations(Consumers)
=============================================================================
