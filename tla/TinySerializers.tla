--------------------------- MODULE TinySerializers ---------------------------
(***************************************************************************)
(* make_tiny of toolset.drf.serializers, called by the threads of a web    *)
(* server: it converts a serializer's fields one by one, descends into the *)
(* serializers nested in it, and keeps what it has made in a cache that    *)
(* all threads share, under the name of the serializer's class.            *)
(*                                                                         *)
(* The name of an attribute is a sequence of parts; "_id" is one of them.  *)
(***************************************************************************)
EXTENDS Naturals, Sequences, FiniteSets

CONSTANTS
  Threads,      \* the threads that call make_tiny
  Serializers,  \* the serializer classes
  ClassName,    \* the name of each of them
  FieldsOf,     \* its fields, in order; inner is the serializer nested in a field
  Nobody,       \* stands for "no serializer"
  MaxCalls      \* bound on the calls of each thread

ASSUME TinyAssumption ==
  /\ Nobody \notin Serializers
  /\ DOMAIN ClassName = Serializers
  /\ FieldsOf \in [Serializers -> Seq([name : STRING, kind : STRING, source : Seq(STRING),
                                       inner : Serializers \cup {Nobody}])]
  /\ MaxCalls \in Nat

VARIABLES
  created,   \* created_serializers: the cache
  stack,     \* the calls of make_tiny each thread is in: [of, made]
  returned,  \* history: what its last call was for, and the result
  calls,     \* history: the calls of each thread
  built      \* history: the tiny serializers that were ever made

tinyVars == <<created, stack, returned, calls, built>>

Empty == [n \in {} |-> Nobody]

\* A tiny serializer: the one it was made from, and where each field reads its value.
Tiny(s, made) == [of |-> s, reads |-> made]
NotTiny == Tiny(Nobody, <<>>)

TinyInit ==
  /\ created = Empty
  /\ stack = [t \in Threads |-> <<>>]
  /\ returned = [t \in Threads |-> [for |-> Nobody, tiny |-> NotTiny]]
  /\ calls = [t \in Threads |-> 0]
  /\ built = {}

-----------------------------------------------------------------------------
(* The conversion of one field. *)

Id == "_id"
Cuts(name) == {i \in DOMAIN name : name[i] = Id}

\* source.split("_id"): the part before the first one, wherever it stands.
Cut(name) ==
  SubSeq(name, 1, IF Cuts(name) = {} THEN Len(name)
                  ELSE (CHOOSE i \in Cuts(name) : \A j \in Cuts(name) : i <= j) - 1)

\* Mutant: the key is read through its relation.
ConvertedRelated(f) == f.source

\* A PrimaryKeyRelatedField, of a foreign key or of a reverse one-to-one relation.
KeyKinds == {"primary key", "reverse key"}

\* It is read from the attribute of a column; any other field from its own source,
\* as extract_field_attributes hands it on (a choice becomes a string).
Converted(f) == IF f.kind \in KeyKinds THEN Cut(f.source) \o <<Id>> ELSE f.source

\* Where the serializer itself reads a field: a foreign key has a column, named like it
\* with "_id", from which DRF takes the key; a reverse relation has none, and DRF reads
\* the related object.
Attribute(f) ==
  IF f.kind # "primary key" \/ (f.source # <<>> /\ f.source[Len(f.source)] = Id)
    THEN f.source ELSE f.source \o <<Id>>

\* A class with its own arguments, e.g. a subclass of ChoiceField, cannot be made
\* with the common ones: the constructor raises.
Raising(f) == f.kind = "own arguments"

-----------------------------------------------------------------------------
(* make_tiny. *)

Top(t) == stack[t][Len(stack[t])]
Below(t) == SubSeq(stack[t], 1, Len(stack[t]) - 1)
Field(t) == FieldsOf[Top(t).of][Len(Top(t).made) + 1]
Busy(t) == stack[t] # <<>>
More(t) == Busy(t) /\ Len(Top(t).made) < Len(FieldsOf[Top(t).of])
Frame(s) == [of |-> s, made |-> <<>>]
Cached(s) == ClassName[s] \in DOMAIN created

\* The frame on top of frames gets its next field.
Adding(frames, field) ==
  [frames EXCEPT ![Len(frames)].made = Append(@, field)]

MakeTiny(t, s) ==
  /\ ~Busy(t) /\ calls[t] < MaxCalls
  /\ calls' = [calls EXCEPT ![t] = @ + 1]
  /\ \/ /\ Cached(s)
        /\ returned' = [returned EXCEPT ![t] = [for |-> s, tiny |-> created[ClassName[s]]]]
        /\ UNCHANGED stack
     \/ /\ ~Cached(s)
        /\ stack' = [stack EXCEPT ![t] = <<Frame(s)>>]
        /\ UNCHANGED returned
  /\ UNCHANGED <<created, built>>

ConvertField(t) ==
  /\ More(t) /\ Field(t).inner = Nobody /\ ~Raising(Field(t))
  /\ stack' = [stack EXCEPT ![t] = Adding(@, [name |-> Field(t).name, from |-> Converted(Field(t)),
                                              inner |-> NotTiny])]
  /\ UNCHANGED <<created, returned, calls, built>>

\* A nested serializer, alone or in a list: the cached one, or make_tiny again.
Nest(t) ==
  /\ More(t) /\ Field(t).inner # Nobody
  /\ LET s == Field(t).inner
     IN  \/ /\ Cached(s)
            /\ stack' = [stack EXCEPT ![t] =
                 Adding(@, [name |-> Field(t).name, from |-> Field(t).source,
                            inner |-> created[ClassName[s]]])]
         \/ /\ ~Cached(s)
            /\ stack' = [stack EXCEPT ![t] = Append(@, Frame(s))]
  /\ UNCHANGED <<created, returned, calls, built>>

\* The class is made and stored, also over one another thread has stored meanwhile.
Finish(t) ==
  /\ Busy(t) /\ ~More(t)
  /\ LET tiny == Tiny(Top(t).of, Top(t).made)
         name == ClassName[Top(t).of]
     IN  /\ created' = [n \in DOMAIN created \cup {name} |->
                          IF n = name THEN tiny ELSE created[n]]
         /\ built' = built \cup {tiny}
         /\ IF Below(t) = <<>>
              THEN /\ stack' = [stack EXCEPT ![t] = <<>>]
                   /\ returned' = [returned EXCEPT ![t] = [for |-> Top(t).of, tiny |-> tiny]]
              ELSE LET frame == stack[t][Len(stack[t]) - 1]
                       field == FieldsOf[frame.of][Len(frame.made) + 1]
                   IN  /\ stack' = [stack EXCEPT ![t] =
                            Adding(Below(t), [name |-> field.name, from |-> field.source,
                                              inner |-> tiny])]
                       /\ UNCHANGED returned
  /\ UNCHANGED calls

\* The exception ends all the nested calls; what they have stored stays.
Abort(t) ==
  /\ More(t) /\ Field(t).inner = Nobody /\ Raising(Field(t))
  /\ stack' = [stack EXCEPT ![t] = <<>>]
  /\ UNCHANGED <<created, returned, calls, built>>

TinyNext ==
  \E t \in Threads :
    \/ \E s \in Serializers : MakeTiny(t, s)
    \/ ConvertField(t) \/ Nest(t) \/ Finish(t) \/ Abort(t)

TinySpec == TinyInit /\ [][TinyNext]_tinyVars

-----------------------------------------------------------------------------
(* Correctness. *)

\* "_id" in the source of a foreign key, before its end; a relation without a column.
Misread(f) ==
  \/ f.kind = "primary key" /\ \E i \in Cuts(f.source) : i < Len(f.source)
  \/ f.kind = "reverse key"

\* A field is read where the original reads it, but for a misread one; what is nested
\* in it was made of a serializer of the same name.
ReadsField(read, f) ==
  /\ read.name = f.name
  /\ IF f.inner = Nobody THEN read.from = Attribute(f) \/ Misread(f)
     ELSE /\ read.from = f.source
          /\ read.inner \in built /\ ClassName[read.inner.of] = ClassName[f.inner]

\* Whatever the threads convert at once, and wherever one of them fails, every tiny
\* serializer is complete and reads what its original reads, and so are those nested
\* in it; make_tiny returns and caches nothing else, each for a class of its name.
ReadsTheSame ==
  /\ \A x \in built :
       /\ x.of \in Serializers /\ Len(x.reads) = Len(FieldsOf[x.of])
       /\ \A i \in DOMAIN x.reads : ReadsField(x.reads[i], FieldsOf[x.of][i])
  /\ \A n \in DOMAIN created : created[n] \in built /\ ClassName[created[n].of] = n
  /\ \A t \in Threads : returned[t].for # Nobody =>
       returned[t].tiny \in built
         /\ ClassName[returned[t].tiny.of] = ClassName[returned[t].for]
=============================================================================
