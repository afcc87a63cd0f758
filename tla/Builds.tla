------------------------------- MODULE Builds -------------------------------
(* BuildState::store_path_to_path_info: how a store path an evaluator wants  *)
(* to read is looked up, fetched or built, its inputs first, recursively.    *)
(* Evaluators share the path info service. Any call of a service may fail,   *)
(* which fails the request; an evaluator that dies looks the same to others. *)
(*                                                                           *)
(* A store path is a number, numbers sort as the paths do. What a builder    *)
(* writes to an output is a record: the output, the paths its bytes mention  *)
(* and the paths that were there for the build (`seen`, for the properties). *)
EXTENDS Naturals, Sequences, SequencesExt, FiniteSets

CONSTANTS Evaluators,
          Derivations,   \* id -> [outputs: paths by output name, sources, inputs: paths in order]
          Fetches,       \* the paths of the known fetches
          Sources,       \* imported paths that are in the store from the start
          Mentions,      \* output path -> the sets of paths its bytes may mention
          MaxRequests

Built == UNION {ToSet(Derivations[d].outputs) : d \in DOMAIN Derivations}
Paths == Built \cup Fetches \cup UNION {ToSet(Derivations[d].sources) : d \in DOMAIN Derivations}

VARIABLES infos,      \* the path info service: path -> the set of its PathInfo, if any
          replaces,   \* whether put replaces what is there; bigtable keeps it
          known,      \* evaluator -> the derivations in its KnownPaths
          stack,      \* evaluator -> the calls of store_path_to_path_info in progress, innermost first
          answer,     \* evaluator -> how its last request ended
          requests
vars == <<infos, replaces, known, stack, answer, requests>>

Nobody == 0
NoNode == [at |-> Nobody, mentions |-> {}, seen |-> {}]
PathInfo(p, node, references, deriver) ==
  [store_path |-> p, node |-> node, references |-> references, deriver |-> deriver]
Plain(p) == PathInfo(p, [NoNode EXCEPT !.at = p], {}, Nobody)

Call(p) == [path |-> p, at |-> "get", drv |-> Nobody, queue |-> <<>>, visited |-> {},
            resolved |-> {}, results |-> <<>>, result |-> {}]

Init ==
  /\ infos = [p \in Paths |-> IF p \in Sources THEN {Plain(p)} ELSE {}]
  /\ replaces \in BOOLEAN
  /\ known = [e \in Evaluators |-> {}] /\ stack = [e \in Evaluators |-> <<>>]
  /\ answer = [e \in Evaluators |-> "none"] /\ requests = 0

(* The evaluator produces a derivation: its inputs are known by then.        *)
Learn(e, d) ==
  /\ stack[e] = <<>> /\ d \notin known[e]
  /\ \A p \in ToSet(Derivations[d].inputs) :
       \E i \in known[e] : p \in ToSet(Derivations[i].outputs)
  /\ known' = [known EXCEPT ![e] = @ \cup {d}]
  /\ UNCHANGED <<infos, replaces, stack, answer, requests>>

Request(e, p) ==
  /\ stack[e] = <<>> /\ requests < MaxRequests /\ requests' = requests + 1
  /\ stack' = [stack EXCEPT ![e] = <<Call(p)>>]
  /\ answer' = [answer EXCEPT ![e] = "none"]
  /\ UNCHANGED <<infos, replaces, known>>

-----------------------------------------------------------------------------
Top(e) == Head(stack[e])
Goto(e, call) == stack' = [stack EXCEPT ![e] = <<call>> \o Tail(@)]

(* An error unwinds every call of the request.                               *)
Fail(e, why) ==
  /\ stack' = [stack EXCEPT ![e] = <<>>] /\ answer' = [answer EXCEPT ![e] = why]

\* Store paths in their order.
Sorted(S) == [i \in 1 .. Cardinality(S) |-> CHOOSE p \in S : Cardinality({r \in S : r < p}) = i - 1]

(* The loop body of get_all_inputs: references met for the first time are    *)
(* queued. They come in the order of the path info, that is sorted.          *)
Follow(call, references) ==
  [call EXCEPT !.queue = @ \o Sorted(references \ call.visited),
               !.visited = @ \cup references]

(* The call on top ends with Some or None; the caller is get_all_inputs,     *)
(* which insists on Some, or whoever made the request.                       *)
Return(e, found) ==
  IF Len(stack[e]) = 1
  THEN Fail(e, IF found = {} THEN "absent" ELSE "found")
  ELSE IF found = {} THEN Fail(e, "error")
  ELSE LET info == CHOOSE i \in found : TRUE
           caller == stack[e][2]
       IN  /\ stack' = [stack EXCEPT ![e] =
                 <<[Follow(caller, info.references) EXCEPT !.resolved = @ \cup {info}]>> \o Tail(Tail(@))]
           /\ UNCHANGED answer

(* descend_to: for an input the sub path is the root, for the request itself *)
(* there may be nothing at it, or a directory is missing.                    *)
Descend(e, info) ==
  \/ Return(e, {info})
  \/ Len(stack[e]) = 1 /\ (Return(e, {}) \/ Fail(e, "error"))

DrvOf(e, p) == {d \in known[e] : p \in ToSet(Derivations[d].outputs)}

(* Fetches come before derivations: the fetches here are those of fetchurl   *)
(* derivations, for which both are known.                                    *)
Get(e) ==
  \E call \in {Top(e)} :
      /\ call.at = "get"
      /\ \/ Fail(e, "error")
         \/ \E info \in infos[call.path] : Descend(e, info)
         \/ /\ infos[call.path] = {}
            /\ IF DrvOf(e, call.path) = {} THEN Return(e, {})
               ELSE /\ UNCHANGED answer
                    /\ IF call.path \in Fetches THEN Goto(e, [call EXCEPT !.at = "fetch"])
                       ELSE LET d == CHOOSE d \in DrvOf(e, call.path) : TRUE
                            IN  Goto(e, [call EXCEPT !.at = "inputs", !.drv = d,
                                  !.queue = Derivations[d].sources \o Derivations[d].inputs])
      /\ UNCHANGED infos

Put(info) ==
  infos' = [infos EXCEPT ![info.store_path] = IF replaces \/ @ = {} THEN {info} ELSE @]

(* Fetcher::ingest_and_persist.                                              *)
Fetch(e) ==
  /\ Top(e).at = "fetch"
  /\ \/ Fail(e, "error") /\ UNCHANGED infos
     \/ Put(Plain(Top(e).path)) /\ Descend(e, Plain(Top(e).path))

(* One turn of get_all_inputs, up to the nested call it makes.               *)
Inputs(e) ==
  \E call \in {Top(e)} :
      /\ call.at = "inputs"
      /\ IF call.queue = <<>> THEN Goto(e, [call EXCEPT !.at = "build"])
         ELSE stack' = [stack EXCEPT ![e] =
                <<Call(Head(call.queue)), [call EXCEPT !.queue = Tail(@)]>> \o Tail(@)]
      /\ UNCHANGED <<infos, answer>>

-----------------------------------------------------------------------------
(* derivation_into_build_request: outputs come in the order of their names,  *)
(* needles are the outputs and then the inputs, sorted.                      *)
Outputs(call) == Derivations[call.drv].outputs
Provided(call) == {i.store_path : i \in call.resolved}
refscan_needles(call) == Outputs(call) \o Sorted(Provided(call))

\* Mutated form: needles are looked up among the inputs first.
all_possible_refs_InputsFirst(call) == Sorted(Provided(call)) \o Outputs(call)

all_possible_refs(call) == Outputs(call) \o Sorted(Provided(call))

(* do_build: the builder writes what it likes to each output, and the        *)
(* service reports the needles it finds in it, in the order of the request.  *)
Build(e) ==
  LET call == Top(e)
      seen == ToSet(Outputs(call)) \cup Provided(call)
      Result(p, mentions) ==
        [node |-> [at |-> p, mentions |-> mentions, seen |-> seen],
         needles |-> {n \in DOMAIN refscan_needles(call) : refscan_needles(call)[n] \in mentions}]
  IN  /\ call.at = "build"
      /\ \/ Fail(e, "error")
         \/ \E m \in [ToSet(Outputs(call)) -> UNION {Mentions[p] : p \in ToSet(Outputs(call))}] :
              /\ \A p \in DOMAIN m : m[p] \in Mentions[p]
              /\ Goto(e, [call EXCEPT !.at = "outputs",
                    !.results = [i \in DOMAIN Outputs(call) |-> Result(Outputs(call)[i], m[Outputs(call)[i]])]])
              /\ UNCHANGED answer
      /\ UNCHANGED infos

output_paths(call) == Outputs(call)

(* One turn of the loop over the results: the nar is calculated, references  *)
(* are looked up, the PathInfo is put. It is remembered if it is the one     *)
(* that was asked for; after the last one that is what the call returns.     *)
Persist(e) ==
  LET call == Top(e)
      i == Len(Outputs(call)) - Len(call.results) + 1
      p == output_paths(call)[i]
      info == PathInfo(p, Head(call.results).node,
                       {all_possible_refs(call)[n] : n \in Head(call.results).needles}, call.drv)
  IN  /\ call.at = "outputs"
      /\ \/ call.results # <<>> /\ Fail(e, "error") /\ UNCHANGED infos
         \/ /\ call.results # <<>> /\ Put(info) /\ UNCHANGED answer
            /\ Goto(e, [call EXCEPT !.results = Tail(@),
                                    !.result = IF p = call.path THEN {info} ELSE @])
         \/ /\ call.results = <<>> /\ call.result = {}
            /\ Fail(e, "build didn't produce store path") /\ UNCHANGED infos
         \/ \E out \in call.result :
              call.results = <<>> /\ Descend(e, out) /\ UNCHANGED infos

Step(e) ==
  /\ stack[e] # <<>>
  /\ Get(e) \/ Fetch(e) \/ Inputs(e) \/ Build(e) \/ Persist(e)
  /\ UNCHANGED <<replaces, known, requests>>

Idle == \A e \in Evaluators : stack[e] = <<>>
Over == Idle /\ requests = MaxRequests /\ UNCHANGED vars

Next ==
  \/ \E e \in Evaluators : \/ \E d \in DOMAIN Derivations : Learn(e, d)
                           \/ \E p \in Paths : Request(e, p)
                           \/ Step(e)
  \/ Over

(* A request is a future that is polled until it is done.                    *)
Spec == Init /\ [][Next]_vars /\ \A e \in Evaluators : WF_vars(Step(e))

-----------------------------------------------------------------------------
TypeOK ==
  /\ \A p \in Paths : Cardinality(infos[p]) \in {0, 1} /\ \A i \in infos[p] : i.references \subseteq Paths
  /\ known \in [Evaluators -> SUBSET DOMAIN Derivations] /\ requests \in 0..MaxRequests
  /\ \A e \in Evaluators : answer[e] \in {"none", "found", "absent", "error"}

\* A builder is given its inputs together with everything they refer to: no
\* path that an input's PathInfo lists is missing in the build, whichever
\* evaluator produced it and whatever had to be built or fetched for it.
InputsClosed ==
  \A e \in Evaluators : \A k \in DOMAIN stack[e] :
    stack[e][k].at = "build" =>
      LET call == stack[e][k]
      IN  /\ ToSet(Derivations[call.drv].inputs) \subseteq Provided(call)
          /\ \A i \in call.resolved : i.references \subseteq Provided(call)

\* A PathInfo lists exactly the paths its contents mention, of those that were
\* there for the build: indices of needles are resolved against the same list
\* that was sent with the request.
ReferencesExact ==
  \A p \in Paths : \A i \in infos[p] : i.references = i.node.mentions \cap i.node.seen

\* What is registered for an output is what the builder wrote to that output:
\* outputs of one build are never swapped.
NodeOfPath == \A p \in Paths : \A i \in infos[p] : i.node.at = p

\* The store is closed under references, except that an output may still wait
\* for another output of the same build, which are registered one by one: a
\* failure in between leaves the first without the second.
ReferencesPresent ==
  \A p \in Paths : \A i \in infos[p] : \A r \in i.references :
    infos[r] # {} \/ \E d \in DOMAIN Derivations : {p, r} \subseteq ToSet(Derivations[d].outputs)

\* Every request ends, although references form cycles and a nested request
\* may have to rebuild what an interrupted one left incomplete.
Busy(e) == stack[e] # <<>>
RequestsEnd == \A e \in Evaluators : Busy(e) ~> ~Busy(e)
=============================================================================
