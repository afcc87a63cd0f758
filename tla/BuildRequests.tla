---------------------------- MODULE BuildRequests ----------------------------
(* From a Derivation to the BuildRequest a build service gets, directly or   *)
(* as a protobuf message that is checked on arrival: environment, passAsFile,*)
(* structured attributes, placeholders, needles and constraints.             *)
(*                                                                           *)
(* A text is a sequence of words. A placeholder for an output is the word    *)
(* Placeholder(name), the path it stands for the word PathOf(path). Paths    *)
(* are numbers, ordered as the paths are; other strings are ordered as in    *)
(* Alphabet. Maps are functions, so that only lists can be out of order.     *)
EXTENDS Naturals, Sequences, SequencesExt, FiniteSets, TLC

CONSTANTS Alphabet,      \* every key and file name, sorted
          Derivations,   \* the derivations to convert, see the fields used below
          NixEnvironment \* the variables set for every build

Sorted(S) == SelectSeq(Alphabet, LAMBDA k : k \in S)
Placeholder(name) == "placeholder of " \o name
PathOf(p) == "path " \o ToString(p)
AttrFile(k) == "build/.attr-" \o k
Pairs(f) == [i \in 1..Cardinality(DOMAIN f) |-> <<Sorted(DOMAIN f)[i], f[Sorted(DOMAIN f)[i]]>>]
Without(f, k) == [x \in DOMAIN f \ {k} |-> f[x]]

VARIABLES drv,       \* the derivation
          at,        \* "drv", "request", "message", "received" or an error
          request, message, received
vars == <<drv, at, request, message, received>>

Nothing == [outputs |-> <<>>]
Init ==
  /\ drv \in Derivations /\ at = "drv"
  /\ request = Nothing /\ message = Nothing /\ received = Nothing

-----------------------------------------------------------------------------
(* Outputs are given by name, in the order of their names.                   *)
Names(d) == {d.outputs[i].name : i \in DOMAIN d.outputs}
OutputPath(d, n) == (CHOOSE o \in ToSet(d.outputs) : o.name = n).path

replace_placeholders(text, d) ==
  [i \in DOMAIN text |->
     IF \E n \in Names(d) : text[i] = Placeholder(n)
     THEN PathOf(OutputPath(d, CHOOSE n \in Names(d) : text[i] = Placeholder(n)))
     ELSE text[i]]

(* The environment and the files, put together step by step; "error" when    *)
(* the conversion fails.                                                     *)
Environment(env, files, status) == [env |-> env, files |-> files, status |-> status]

PassOneAsFile(e, k) ==
  IF k \notin DOMAIN e.env THEN [e EXCEPT !.status = "error"]
  ELSE [e EXCEPT !.files = (AttrFile(k) :> e.env[k]) @@ @,
                 !.env = (k \o "Path" :> <<AttrFile(k)>>) @@ Without(@, k)]

(* split(' '): there is always a first word, even if it is empty.            *)
Split(text) == IF text = <<>> THEN <<"">> ELSE text

handle_pass_as_file(e) ==
  IF "passAsFile" \notin DOMAIN e.env THEN e
  ELSE FoldSeq(LAMBDA k, acc : IF acc.status = "error" THEN acc ELSE PassOneAsFile(acc, k),
               e, Reverse(Split(e.env["passAsFile"])))

(* A JSON value is [type, elements, text]: "simple", "fraction" (a float     *)
(* that is no integer), "list" or "object" with the types of its elements in *)
(* order, and the words in it.                                               *)
is_good_simple_value(type) == type = "simple"
is_valid_sh_var_name(k) == k # "A=B"

(* write_attrs_sh_file: what cannot be declared is left out. The first       *)
(* element of a list that is not simple decides: one that is itself a list   *)
(* or an object makes is_good_simple_value panic.                            *)
Bad(v) == SelectSeq(v.elements, LAMBDA t : ~is_good_simple_value(t))
Declared(k, v) ==
  /\ is_valid_sh_var_name(k)
  /\ IF v.type \in {"list", "object"} THEN Bad(v) = <<>> ELSE is_good_simple_value(v.type)
Panics(k, v) ==
  is_valid_sh_var_name(k) /\ v.type = "list" /\ Bad(v) # <<>> /\ Head(Bad(v)) \in {"list", "object"}

(* The outputs are added to the attributes; both files are written out.      *)
handle_structured_attrs(e, d) ==
  LET outputs == [type |-> "object", elements |-> [i \in DOMAIN d.outputs |-> "simple"],
                  text |-> [i \in DOMAIN d.outputs |-> PathOf(d.outputs[i].path)]]
      json == ("outputs" :> outputs)
                @@ [k \in DOMAIN d.json |-> [d.json[k] EXCEPT !.text = replace_placeholders(@, d)]]
      Written(keys) == FlattenSeq([i \in 1..Cardinality(keys) |->
                         <<Sorted(keys)[i]>> \o json[Sorted(keys)[i]].text])
  IN  IF \E k \in DOMAIN json : Panics(k, json[k]) THEN [e EXCEPT !.status = "panic"]
      ELSE Environment(
             ("NIX_ATTRS_JSON_FILE" :> <<"build/.attrs.json">>) @@
             ("NIX_ATTRS_SH_FILE" :> <<"build/.attrs.sh">>) @@ e.env,
             ("build/.attrs.json" :> Written(DOMAIN json)) @@
             ("build/.attrs.sh" :> Written({k \in DOMAIN json : Declared(k, json[k])})), "ok")

BuildEnvironment(d) ==
  LET own == [k \in DOMAIN d.env |-> replace_placeholders(d.env[k], d)]
      none == [f \in {} |-> <<>>]
  IN  IF d.structured THEN handle_structured_attrs(Environment(NixEnvironment, none, "ok"), d)
      ELSE handle_pass_as_file(Environment(own @@ NixEnvironment, none, "ok"))

Constraints(d) ==
  {<<"System", d.system>>, <<"ProvideBinSh", "">>}
    \cup (IF Len(d.outputs) = 1 /\ d.fixed THEN {<<"NetworkAccess", "">>} ELSE {})

CommandArgs(d) == [i \in DOMAIN d.command |-> replace_placeholders(d.command[i], d)]

derivation_into_build_request ==
  LET e == BuildEnvironment(drv)
      inputs == SetToSortSeq(drv.inputs, <)
      outputs == [i \in DOMAIN drv.outputs |-> drv.outputs[i].path]
  IN  /\ at = "drv"
      /\ IF e.status # "ok" THEN at' = e.status /\ UNCHANGED request
         ELSE /\ at' = "request"
              /\ request' = [command_args |-> CommandArgs(drv), environment_vars |-> Pairs(e.env),
                             additional_files |-> Pairs(e.files), outputs |-> outputs,
                             refscan_needles |-> outputs \o inputs, inputs |-> drv.inputs,
                             scratch_paths |-> <<"build", "nix/store">>,
                             inputs_dir |-> "nix/store", working_dir |-> "build",
                             constraints |-> Constraints(drv)]
      /\ UNCHANGED <<drv, message, received>>

-----------------------------------------------------------------------------
(* The message has one field per kind of constraint, and inputs as a list.   *)
Unset == <<>>
System(constraints) == {c[2] : c \in {c \in constraints : c[1] = "System"}}
Send ==
  /\ at = "request" /\ at' = "message"
  /\ message' = [request EXCEPT !.inputs = SetToSortSeq(@, <),
       !.constraints = IF @ = {} THEN Unset
         ELSE <<[system |-> System(@), min_memory |-> 0,
                 network_access |-> <<"NetworkAccess", "">> \in @,
                 provide_bin_sh |-> <<"ProvideBinSh", "">> \in @]>>]
  /\ UNCHANGED <<drv, request, received>>

is_sorted(seq) == \A i \in 1..Len(seq) - 1 : seq[i] <= seq[i + 1]
Keys(pairs) == [i \in DOMAIN pairs |-> pairs[i][1]]
Places(texts) == [i \in DOMAIN texts |-> IndexFirstSubSeq(<<texts[i]>>, Alphabet)]

ReceivedConstraints(c) ==
  {<<"System", s>> : s \in c.system} \cup {<<"MinMemory", c.min_memory>>}
    \cup (IF c.network_access THEN {<<"NetworkAccess", "">>} ELSE {})
    \cup (IF c.provide_bin_sh THEN {<<"ProvideBinSh", "">>} ELSE {})

(* No "." or "..", no slash too many, and none in front.                     *)
is_clean_relative_path(p) == p \notin {"/build", "build/", "build//x", "./build", "build/../x"}
AllClean(paths) == \A i \in DOMAIN paths : is_clean_relative_path(paths[i])

(* TryFrom<BuildRequest>: the checks in their order.                         *)
Checks(m) ==
  << [ok |-> \A i \in 1..Len(m.inputs) - 1 : m.inputs[i] < m.inputs[i + 1],
      error |-> "InputNodesNotSorted"],
     [ok |-> is_clean_relative_path(m.working_dir), error |-> "InvalidWorkingDir"],
     [ok |-> AllClean(m.scratch_paths), error |-> "InvalidScratchPath"],
     [ok |-> is_sorted(Places(m.scratch_paths)), error |-> "ScratchPathsNotSorted"],
     [ok |-> is_clean_relative_path(m.inputs_dir), error |-> "InvalidInputsDir"],
     [ok |-> AllClean([i \in DOMAIN m.outputs |-> PathOf(m.outputs[i])]), error |-> "InvalidOutputPath"],
     [ok |-> is_sorted(m.outputs), error |-> "OutputsNotSorted"],
     [ok |-> \A i \in DOMAIN m.environment_vars : m.environment_vars[i][1] \notin {"", "A=B"},
      error |-> "InvalidEnvVar"],
     [ok |-> is_sorted(Places(Keys(m.environment_vars))), error |-> "EnvVarNotSorted"],
     [ok |-> m.constraints = Unset \/ Head(m.constraints).system \notin {{}, {""}},
      error |-> "InvalidBuildConstraints"],
     [ok |-> AllClean(Keys(m.additional_files)), error |-> "InvalidAdditionalFilePath"],
     [ok |-> is_sorted(Places(Keys(m.additional_files))), error |-> "AdditionalFilesNotSorted"] >>
Refusal(m) ==
  LET failed == SelectSeq(Checks(m), LAMBDA c : ~c.ok)
  IN  IF failed = <<>> THEN "none" ELSE Head(failed).error

Receive ==
  /\ at = "message"
  /\ IF Refusal(message) # "none" THEN at' = Refusal(message) /\ UNCHANGED received
     ELSE /\ at' = "received"
          /\ received' = [message EXCEPT !.inputs = ToSet(@),
               !.constraints = IF @ = Unset THEN {} ELSE ReceivedConstraints(Head(@))]
  /\ UNCHANGED <<drv, request, message>>

Over == at \notin {"drv", "request", "message"} /\ UNCHANGED vars
Next == derivation_into_build_request \/ Send \/ Receive \/ Over
Spec == Init /\ [][Next]_vars

-----------------------------------------------------------------------------
TypeOK ==
  /\ drv \in Derivations
  /\ at \in {"drv", "request", "message", "received", "error", "panic"}
              \cup (IF message = Nothing THEN {} ELSE {c.error : c \in ToSet(Checks(message))})

Requested == request # Nothing
Value(pairs, k) == {pairs[i][2] : i \in {i \in DOMAIN pairs : pairs[i][1] = k}}
Listed == IF "passAsFile" \in DOMAIN drv.env THEN ToSet(drv.env["passAsFile"]) ELSE {}
Taken == {k \o "Path" : k \in Listed}

\* A variable of the derivation reaches the builder: in the environment, where
\* it wins over what Nix sets for every build, or, if passAsFile lists it, in
\* the file that the variable with "Path" appended names. (A variable whose
\* name is taken by such a path is replaced by it; a list that also names the
\* variable for such a path is left out.)
VariablesArrive ==
  Requested /\ ~drv.structured /\ Listed \cap Taken = {} =>
    \A k \in DOMAIN drv.env \ Taken :
      LET value == replace_placeholders(drv.env[k], drv)
      IN  IF k \in Listed
          THEN /\ Value(request.environment_vars, k) = {}
               /\ \E file \in Value(request.environment_vars, k \o "Path") :
                    Value(request.additional_files, Head(file)) = {value}
          ELSE Value(request.environment_vars, k) = {value}

\* No placeholder of an output survives in what the builder gets to see:
\* arguments, variables or files.
PlaceholdersResolved ==
  Requested =>
    \A n \in Names(drv) :
      /\ \A i \in DOMAIN request.command_args : Placeholder(n) \notin ToSet(request.command_args[i])
      /\ \A i \in DOMAIN request.environment_vars :
           Placeholder(n) \notin ToSet(request.environment_vars[i][2])
      /\ \A i \in DOMAIN request.additional_files :
           Placeholder(n) \notin ToSet(request.additional_files[i][2])

\* A remote build service gets the request a local one would get: nothing is
\* lost or reordered by the message, and only the default for the memory, zero,
\* is spelled out.
RemoteAsLocal ==
  at = "received" =>
    received = [request EXCEPT !.constraints = @ \cup {<<"MinMemory", 0>>}]

=============================================================================
