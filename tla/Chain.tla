------------------------------- MODULE Chain -------------------------------
(***************************************************************************)
(* interceptor/chain.go: the assembly of the interceptor chain.  A stage   *)
(* has a name, an order and an interceptor for unary calls, for streams,   *)
(* or for both; the chain that results is immutable and a gRPC server runs *)
(* the interceptors of one transport in the order of the stages.           *)
(***************************************************************************)
EXTENDS Integers, Sequences

NoName == ""

Authn == "authn"
Authz == "authz"

\* interceptor.ChainOptions; the zero value demands nothing.
NoOptions == [First |-> NoName, Last |-> NoName, Required |-> {}]

\* DefaultChainOptions.
DefaultChainOptions == [First    |-> "clientinfo",
                        Last     |-> "validate",
                        Required |-> {"clientinfo", "validate"}]

Stage(name, order) == [name |-> name, order |-> order, unary |-> TRUE, stream |-> TRUE]

\* AssembleWith accepts the stages.
AssembleWith(options, stages) ==
  LET names == {stages[i].name : i \in DOMAIN stages}
  IN  /\ stages # <<>>
      /\ NoName \notin names
      /\ \A i, j \in DOMAIN stages : stages[i].name = stages[j].name => i = j
      /\ \A i \in DOMAIN stages : stages[i].unary \/ stages[i].stream
      /\ \A i, j \in DOMAIN stages : i < j => stages[i].order <= stages[j].order
      /\ stages[1].order >= -1
      /\ options.First \in {NoName, stages[1].name}
      /\ options.Last \in {NoName, stages[Len(stages)].name}
      /\ options.Required \subseteq names

\* Unary and Stream return the interceptors of a transport, in order: those of
\* the stages that have one.
Serves(stage, streaming) == IF streaming THEN stage.stream ELSE stage.unary

Has(chain, name) == \E i \in DOMAIN chain : chain[i].name = name /\ chain[i].unary

HasStream(chain, name) == \E i \in DOMAIN chain : chain[i].name = name /\ chain[i].stream

\* The chain of a server whose Config.Chain is nil.
DefaultChain == << Stage("recovery", 0), Stage("requestid", 10), Stage("clientinfo", 20),
                   Stage(Authn, 30), Stage(Authz, 70), Stage("validate", 80) >>

=============================================================================
