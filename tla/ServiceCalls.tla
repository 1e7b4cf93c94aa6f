---------------------------- MODULE ServiceCalls ----------------------------
(***************************************************************************)
(* Services that call each other with the HTTP clients of toolset.aio and  *)
(* toolset.sync and answer errors through custom_exception_handler of      *)
(* toolset.drf: a request goes down from service to service, and the error *)
(* of one comes back through those that proxy it.                          *)
(*                                                                         *)
(* A detail has a form (text, a list of texts, or either by field) and     *)
(* what it says.                                                           *)
(***************************************************************************)
EXTENDS Naturals, Sequences, FiniteSets

CONSTANTS
  Services,   \* SERVICE_NAME of each service
  Messages,   \* what a detail can say
  Absent,     \* stands for "not given"
  MaxHops     \* bound on the length of a path

\* The secret of a service, with its name in it.
Secret(s) == <<"X-SERVICE-SECRET", s>>

\* Codes after the name of the service: that of an error of the service's own, and
\* that of all others.
OwnCodes == {"CODE", "DEFAULT_EXCEPTION"}

\* No header and no code is taken for the name of a service.
ASSUME CallsAssumption ==
  /\ \A s \in Services : Absent # Secret(s)
  /\ Services \cap OwnCodes = {}
  /\ MaxHops \in Nat

VARIABLES
  path,     \* the services that are handling the request: [at, seen]
  answer,   \* what the last of them has answered its caller
  origin    \* history: the answer of the service the error comes from

callVars == <<path, answer, origin>>

Details ==
  [form : {"text", "list"}, field : {"non_field_errors"}, says : Messages]
    \cup [form : {"text by field", "list by field"}, field : {"name"}, says : Messages]
NoAnswer == [kind |-> "none"]

CallsInit ==
  /\ \E s \in Services : path = <<[at |-> s, seen |-> Absent, forwards |-> FALSE]>>
  /\ answer = NoAnswer /\ origin = NoAnswer

-----------------------------------------------------------------------------
(* Requests. *)

Here == path[Len(path)]

\* {**secret_headers, **headers}: what the call gives wins.  The session of the
\* synchronous client merges in the same way.
Sent(own, given) == IF given = Absent THEN own ELSE given

\* A service calls another, with headers of its own or those it was called with.
Request(s, forwards) ==
  /\ answer = NoAnswer /\ Len(path) < MaxHops
  /\ path' = Append(path, [at |-> s, forwards |-> forwards,
                           seen |-> Sent(Secret(Here.at), IF forwards THEN Here.seen ELSE Absent)])
  /\ UNCHANGED <<answer, origin>>

-----------------------------------------------------------------------------
(* Errors. *)

\* BaseCustomError.__init__: what is no dict becomes a list.
Coerced(d) == [d EXCEPT !.form = IF @ = "text" THEN "list" ELSE @]

\* _custom_as_serializer_error: everything becomes lists of texts by field.
AsSerializerError(d) == [d EXCEPT !.form = "list by field"]

\* Mutant: a proxied code gets the name of the service too.
CodeAlwaysNamed(kind, s, code) == <<s>> \o code

\* What the handler makes of the code: a proxy's stays as it is.
ErrorCode(kind, s, code) ==
  CASE kind = "proxy" -> code
    [] kind = "custom" -> <<s>> \o code
    [] kind = "other" -> <<s, "DEFAULT_EXCEPTION">>

\* What DRF's handler makes of an exception that is not the library's.
DrfData(d) == IF d.form = "text" THEN [d EXCEPT !.form = "text by field", !.field = "detail"] ELSE d

\* custom_exception_handler; without a detail or a code the error's class gives them.
Handled(kind, s, d, code) ==
  [kind |-> "error", code |-> ErrorCode(kind, s, code),
   detail |-> IF kind = "other" THEN DrfData(d) ELSE AsSerializerError(Coerced(d))]

\* DRF has no answer to what is no APIException.
Crashed == [kind |-> "crash"]

\* The service answers; the call is over for it.
Answers(reply) ==
  /\ answer' = reply
  /\ path' = SubSeq(path, 1, Len(path) - 1)

\* It raises an error of its own, instead of an answer it may have got.
Raise(kind, d) ==
  /\ path # <<>>
  /\ Answers(Handled(kind, Here.at, d, <<"CODE">>))
  /\ origin' = answer'

Crash ==
  /\ path # <<>>
  /\ Answers(Crashed)
  /\ origin' = NoAnswer

\* It raises a BaseProxyCustomError with the detail and error_code it was answered.
Proxy ==
  /\ answer.kind = "error" /\ path # <<>>
  /\ Answers(Handled("proxy", Here.at, answer.detail, answer.code))
  /\ UNCHANGED origin

\* It goes on as if nothing had happened.
Ignore ==
  /\ answer # NoAnswer /\ path # <<>>
  /\ answer' = NoAnswer /\ origin' = NoAnswer
  /\ UNCHANGED path

CallsNext ==
  \/ \E s \in Services, forwards \in BOOLEAN : Request(s, forwards)
  \/ \E kind \in {"custom", "other"}, d \in Details : Raise(kind, d)
  \/ Crash \/ Proxy \/ Ignore

CallsSpec == CallsInit /\ [][CallsNext]_callVars

-----------------------------------------------------------------------------
(* Correctness. *)

\* However many services proxy an error, it arrives with the code of the service it
\* comes from, named once, and with its detail, of which only texts became lists.  A
\* request names the service that sent it, or the first of those that passed it on.
NamesTheSource ==
  /\ answer.kind = "error" =>
       /\ answer.code = origin.code
       /\ Head(answer.code) \in Services
       /\ \A i \in DOMAIN answer.code \ {1} : answer.code[i] \notin Services
       /\ answer.detail.says = origin.detail.says
       /\ answer.detail.field = origin.detail.field
       /\ answer.detail.form \in {origin.detail.form, "list by field"}
  /\ \A i \in DOMAIN path \ {1} :
       \E j \in 1..i - 1 :
         /\ path[i].seen = Secret(path[j].at)
         /\ j = 1 \/ ~path[j + 1].forwards
         /\ \A n \in j + 2..i : path[n].forwards
=============================================================================
