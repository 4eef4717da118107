------------------------------- MODULE Scope --------------------------------
(***************************************************************************)
(* policy/scope: the scope language of API keys, the operation gate        *)
(* (kind "scope") and the instance gate (kind "resource").                 *)
(*                                                                         *)
(* A token is the sequence of the words and separators it is made of, for  *)
(* example <<"db", ":", "blog", ".", "read">>; the empty sequence is the   *)
(* empty string.  A gate is the record of its kind's options; evaluating   *)
(* answers "match", "miss" or "error", as in module Policy.                *)
(***************************************************************************)
EXTENDS Integers, Sequences, FiniteSetsExt, Functions

Everything == {<<"*">>, <<"all">>}

Holds(token, word) == \E i \in DOMAIN token : token[i] = word

\* The last separator cuts a token in two.
cutLast(token, sep) ==
  LET i == Max({0} \cup {k \in DOMAIN token : token[k] = sep})
  IN  [before |-> IF i = 0 THEN token ELSE SubSeq(token, 1, i - 1),
       after  |-> IF i = 0 THEN <<>> ELSE SubSeq(token, i + 1, Len(token)),
       found  |-> i # 0]

isOp(seg) == seg \in {<<"read">>, <<"write">>, <<"admin">>}

\* A colon separates the operation; a dot does so only before a known one.
splitToken(token) ==
  LET colon == cutLast(token, ":")
      dot   == cutLast(token, ".")
  IN  IF colon.found THEN colon
      ELSE IF dot.found /\ isOp(dot.after) /\ dot.before # <<>> THEN dot
      ELSE [before |-> token, after |-> <<>>, found |-> FALSE]

\* The tokens that parse accepts; what it returns for them is splitToken.
Parses(token) ==
  \/ token \in Everything
  \/ /\ token # <<>> /\ ~Holds(token, "*")
     /\ LET cut == splitToken(token)
        IN  cut.found => /\ cut.before # <<>> /\ cut.before \notin Everything
                         /\ isOp(cut.after)

\* Has and Contains: values of an unregistered domain are free.
Known(vocabulary, domain, name) ==
  domain \in DOMAIN vocabulary => name \in vocabulary[domain]

Registered(gate, vocabulary, domain) ==
  gate.requireVocabulary => domain \in DOMAIN vocabulary

DomainOf(req, default) == IF req.vocabulary = "" THEN default ELSE req.vocabulary

-----------------------------------------------------------------------------
(* The operation gate. *)

hasWildcard(held) == held \cap Everything # {}

\* A token without an operation grants every operation; asking for none is
\* granted by a token for any.
satisfies(held, resource, op, allowWildcard) ==
  \/ allowWildcard /\ hasWildcard(held)
  \/ \E t \in held \ Everything :
       LET cut == splitToken(t)
       IN  cut.before = resource /\ (~cut.found \/ op = <<>> \/ cut.after = op)

ScopeValid(gate, vocabulary, req) ==
  LET domain == DomainOf(req, "scope")
  IN  /\ req.match = "all" => req.values # <<>>
      /\ Registered(gate, vocabulary, domain)
      /\ \A want \in Range(req.values) :
           IF want \in Everything THEN ~gate.disallowWildcard
           ELSE Parses(want) /\ Known(vocabulary, domain, splitToken(want).before)

Wanted(gate, held, want) ==
  IF want \in Everything THEN ~gate.disallowWildcard /\ hasWildcard(held)
  ELSE satisfies(held, splitToken(want).before, splitToken(want).after, ~gate.disallowWildcard)

\* The first value that settles the answer ends the loop: a miss under "all",
\* a match otherwise, and a value that does not parse in any case.
ScopeEvaluate(gate, held, req) ==
  LET settles(i) == \/ ~Parses(req.values[i])
                    \/ Wanted(gate, held, req.values[i]) = (req.match # "all")
      at == {i \in DOMAIN req.values : settles(i)}
  IN  IF at = {} THEN (IF req.match = "all" THEN "match" ELSE "miss")
      ELSE IF ~Parses(req.values[Min(at)]) THEN "error"
      ELSE IF req.match = "all" THEN "miss" ELSE "match"

-----------------------------------------------------------------------------
(* The instance gate. *)

\* <resource> or <resource>:<op>.
ParsesResourceValue(value) ==
  LET cut == cutLast(value, ":") IN cut.found => cut.before # <<>> /\ isOp(cut.after)

ResourceValid(gate, vocabulary, req) ==
  /\ Len(req.values) = 1
  /\ LET value    == req.values[1]
         resource == cutLast(value, ":").before
         domain   == DomainOf(req, "resource")
     IN  /\ ParsesResourceValue(value)
         /\ resource # <<>> /\ resource \notin Everything /\ ~Holds(resource, ":")
         /\ Registered(gate, vocabulary, domain)
         /\ Known(vocabulary, domain, resource)

\* A slip: tokens for operations name instances, too.
GrantsInstanceForOps(held, resource, target, op, allowWildcard) ==
  \/ allowWildcard /\ hasWildcard(held)
  \/ \E t \in held \ Everything :
       LET cut == splitToken(t)
       IN  cut.before = resource /\ (~cut.found \/ cut.after \in {<<"*">>, target, op})

\* The whole resource, the instance, or the instance in the asked direction.
GrantsInstanceFor(held, resource, target, op, allowWildcard) ==
  \/ allowWildcard /\ hasWildcard(held)
  \/ \E t \in held \ Everything :
       LET cut == splitToken(t)
           dir == cutLast(cut.after, ".")
       IN  /\ cut.before = resource
           /\ \/ ~cut.found \/ cut.after = <<"*">>
              \/ /\ ~isOp(cut.after)
                 /\ IF op # <<>> /\ dir.found /\ isOp(dir.after)
                    THEN dir.before = target /\ dir.after = op
                    ELSE cut.after = target

\* A request that names no instance is an error, never a miss.
ResourceEvaluate(gate, held, req, target) ==
  LET value == req.values[1]
      cut   == cutLast(value, ":")
  IN  IF ~ParsesResourceValue(value) \/ target = <<>> THEN "error"
      ELSE IF GrantsInstanceFor(held, cut.before, target, cut.after, ~gate.disallowWildcard)
           THEN "match" ELSE "miss"

\* What FieldID reads from a field of the message.  An integer is never
\* missing.  Reading an unsigned one panics, which is answered like an error.
FieldID(field, id) ==
  CASE field = "string" -> id
    [] field = "signed" -> IF id = <<>> THEN <<"0">> ELSE id
    [] OTHER            -> <<>>

\* QueryID, PathID, and FieldID on an HTTP request: the parameter as it is.
ParamID(id) == id

=============================================================================
