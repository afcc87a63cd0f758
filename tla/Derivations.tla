---------------------------- MODULE Derivations ----------------------------
(***************************************************************************)
(* builtins.derivationStrict and the other builtins that announce store    *)
(* paths, and KnownPaths, the table of what an evaluation has announced.   *)
(*                                                                         *)
(* Digests are terms: a digest is the record of what was hashed, so two    *)
(* digests are equal exactly when the same thing was hashed (collisions    *)
(* are left out, and that ATerm text determines the derivation).  A store  *)
(* path is the term of its fingerprint and its name.  A string value has a *)
(* literal part, the store paths its text mentions and its context.        *)
(***************************************************************************)
EXTENDS Naturals, Sequences, FiniteSets, SequencesExt

CONSTANTS
    Families,        \* the kinds of evaluation, a record of bounds for each:
                     \*   calls: the attribute sets given to derivationStrict
                     \*   kept: the shares of a string that reach a call
                     \*   most: how many strings are put together
                     \*   derivations, announced: how many are made
                     \*   appended: the tags of the elements that appendContext is given
    Hashes           \* the hashes fetches may be given

VARIABLES
    derivations,        \* KnownPaths: drv path -> hash modulo and derivation
    outputs_to_drvpath, \* KnownPaths: output path -> one drv path
    outputs_to_fetches, \* KnownPaths: output path -> fetch
    strings,            \* the strings with context the builtins returned
    untracked,          \* history: derivations given text without its context
    family,             \* the kind of this evaluation
    outcome             \* of the last call: value, catchable, error or panic

vars == <<derivations, outputs_to_drvpath, outputs_to_fetches, strings,
          untracked, family, outcome>>

Empty == [x \in {} |-> x]

(* What was hashed or formatted: a constructor, a label and the parts.     *)
Term(tag, label, of) == [tag |-> tag, label |-> label, of |-> of]

Value(kind, lit, text, context, names) ==
    [kind |-> kind, lit |-> lit, text |-> text, context |-> context, names |-> names]

Plain(path)        == [tag |-> "plain", name |-> "", path |-> path]
Single(drv, name)  == [tag |-> "single", name |-> name, path |-> drv]
WholeDrv(drv)      == [tag |-> "derivation", name |-> "", path |-> drv]

-----------------------------------------------------------------------------
(* Store paths *)

fod_digest(mode, hash, path) == Term("fixed:out", mode, {Term("hash", hash, {})} \union path)

ValidName(name) == name \notin {"", "?"}

Sha256(hash) == hash \in {"sha256-a", "sha256-b"}

build_text_path(name, content, references) ==
    Term("text", name, {content} \union {Term("reference", "", {r}) : r \in references})

build_ca_path(name, recursive, hash) ==
    IF recursive /\ Sha256(hash)
    THEN Term("source", name, {Term("hash", hash, {})})
    ELSE Term("output:out", name,
              {fod_digest(IF recursive THEN "recursive" ELSE "flat", hash, {})})

build_output_path(name, modulo, output) == Term("output:" \o output, name, {modulo})

-----------------------------------------------------------------------------
(* Derivation *)

Unset == [path |-> {}, hash |-> {}, mode |-> "flat"]

with_single_output == [o \in {"out"} |-> Unset]

from_fod_hash(hash, mode) == [o \in {"out"} |-> [path |-> {}, hash |-> {hash}, mode |-> mode]]

(* Outputs::try_from_iter, for outputs that are not fixed.                 *)
ValidOutputs(names) ==
    /\ names # <<>>
    /\ Len(names) = 1 => names[1] = "out"
    /\ IsInjective(names)

is_fixed(drv) == DOMAIN drv.outputs = {"out"} /\ drv.outputs["out"].hash # {}

(* The mutant leaves the input sources out of the ATerm.                   *)
WrittenSources_None(drv) == {}

WrittenSources(drv) == {Term("source", "", {s}) : s \in drv.input_sources}

(* The ATerm of a derivation, given what is written for each of its input  *)
(* derivations.  Equal entries are written as often as they occur.         *)
serialize_with_replacements(drv, written) ==
    LET entry(i) == {written[i]} \union {Term("name", o, {}) : o \in drv.input_derivations[i]}
        alike(i) == {j \in DOMAIN drv.input_derivations : entry(j) = entry(i)}
    IN Term("Derive", drv.system.lit,
            {Term("output", o, {Term("path", "", drv.outputs[o].path)}
                 \union {Term(drv.outputs[o].mode, h, {}) : h \in drv.outputs[o].hash}) :
                     o \in DOMAIN drv.outputs}
            \union {Term("input", ToString(Cardinality(alike(i))), entry(i)) :
                     i \in DOMAIN drv.input_derivations}
            \union WrittenSources(drv)
            \union {Term("builder", drv.builder.lit, drv.builder.text),
                    Term("args", drv.arguments.lit, drv.arguments.text)}
            \union {Term("env", k, {Term(drv.environment[k].lit, "", drv.environment[k].text)}) :
                     k \in DOMAIN drv.environment})

serialize(drv) == serialize_with_replacements(drv, [i \in DOMAIN drv.input_derivations |-> i])

OutDigest(drv) == LET out == drv.outputs["out"]
                  IN fod_digest(out.mode, CHOOSE h \in out.hash : TRUE, out.path)

hash_derivation_modulo(drv, hashes) ==
    IF is_fixed(drv) THEN OutDigest(drv) ELSE serialize_with_replacements(drv, hashes)

calculate_output_paths(drv, name, modulo) ==
    LET path(o) == IF is_fixed(drv)
                   THEN build_ca_path(name, drv.outputs[o].mode = "recursive",
                                      CHOOSE h \in drv.outputs[o].hash : TRUE)
                   ELSE build_output_path(IF o = "out" THEN name ELSE name \o "-" \o o, modulo, o)
    IN [drv EXCEPT !.outputs = [o \in DOMAIN @ |-> [@[o] EXCEPT !.path = {path(o)}]],
                   !.environment = [k \in DOMAIN @ |->
                        IF k \in DOMAIN drv.outputs THEN [lit |-> "", text |-> {path(k)}]
                                                    ELSE @[k]]]

calculate_derivation_path(drv, name) ==
    build_text_path(name \o ".drv", serialize(drv),
                    DOMAIN drv.input_derivations \union drv.input_sources)

validate(drv) == drv.system.lit # "" /\ (drv.builder.lit # "" \/ drv.builder.text # {})

-----------------------------------------------------------------------------
(* The arguments of derivationStrict *)

(* All attribute names in use, in the order iter_sorted visits them.       *)
SortedNames == <<"__ignoreNulls", "__json", "__structuredAttrs", "args", "builder",
    "executable", "name", "out", "outputHash", "outputHashMode", "outputs", "src",
    "system", "url">>

Is(attrs, k, kind) == k \in DOMAIN attrs /\ attrs[k].kind = kind
Structured(attrs)  == Is(attrs, "__structuredAttrs", "true")
IgnoreNulls(attrs) == Is(attrs, "__ignoreNulls", "true")

(* strong_importing_coerce_to_string                                       *)
Coerced(v) ==
    [lit |-> IF v.kind = "true" THEN "1" ELSE v.lit, text |-> v.text]

Fails(acc, why) == [acc EXCEPT !.stop = why]

Mimicked(acc, k, v) == acc.context \union v.context

(* One attribute goes where it belongs, and its context to the inputs.     *)
Argument(attrs, acc, k) ==
    LET v        == attrs[k]
        inEnv    == [acc EXCEPT !.environment = (k :> Coerced(v)) @@ @, !.context = Mimicked(acc, k, v)]
        inJson   == [acc EXCEPT !.json = @ \union {Term(k, v.kind \o v.lit, v.text)},
                                !.context = Mimicked(acc, k, v)]
        stored   == IF Structured(attrs) THEN inJson ELSE inEnv
    IN CASE acc.stop # "" \/ (IgnoreNulls(attrs) /\ v.kind = "null") -> acc
         [] OTHER ->
       CASE k = "args" /\ v.kind = "list" ->
               [acc EXCEPT !.arguments = Coerced(v), !.context = Mimicked(acc, k, v)]
         [] k = "args" /\ v.kind = "throwing" -> Fails(acc, "catchable")
         [] k = "args" /\ v.kind \notin {"list", "throwing"} -> Fails(acc, "error")
         [] k = "outputs" ->
               IF v.kind # "names" \/ ~ValidOutputs(v.names) THEN Fails(acc, "error")
               ELSE [stored EXCEPT !.outputs = [o \in ToSet(v.names) |-> Unset]]
         [] k \in {"builder", "system"} ->
               IF v.kind = "throw" THEN Fails(acc, "catchable")
               ELSE IF k = "builder" THEN [stored EXCEPT !.builder = Coerced(v)]
                                     ELSE [stored EXCEPT !.system = Coerced(v)]
         [] k = "__ignoreNulls" \/ (k = "__structuredAttrs" /\ Structured(attrs)) -> acc
         [] k = "__json" /\ ~Structured(attrs) -> Fails(acc, "error")
         [] OTHER -> IF v.kind = "throw" THEN Fails(acc, "catchable") ELSE stored

Nothing == [lit |-> "", text |-> {}]

Arguments(attrs) ==
    LET start == [stop |-> "", environment |-> Empty, json |-> {}, context |-> {},
                  outputs |-> with_single_output, arguments |-> Nothing,
                  builder |-> Nothing, system |-> Nothing]
        step(acc, k) == Argument(attrs, acc, k)
    IN FoldLeft(step, start, SelectSeq(SortedNames, LAMBDA k : k \in DOMAIN attrs))

select_string(attrs, k) == IF k \in DOMAIN attrs THEN Coerced(attrs[k]).lit ELSE ""

(* outputHash and outputHashMode replace the single output by a fixed one. *)
FixedOutput(attrs, acc) ==
    LET hash == select_string(attrs, "outputHash")
        mode == select_string(attrs, "outputHashMode")
    IN CASE acc.stop # "" \/ hash = "" -> acc
         [] OTHER -> IF \/ DOMAIN acc.outputs # {"out"}
                        \/ mode \notin {"", "flat", "recursive"}
                        \/ hash \notin Hashes
                     THEN Fails(acc, "error")
                     ELSE [acc EXCEPT !.outputs =
                               from_fod_hash(hash, IF mode = "" THEN "flat" ELSE mode)]

Known(drv) == drv \in DOMAIN derivations

(* populate_inputs: what the context stands for becomes an input.          *)
populate_inputs(context) ==
    LET drvs == {e.path : e \in {x \in context : x.tag # "plain"}}
    IN [input_sources |-> {e.path : e \in {x \in context : x.tag # "single"}},
        input_derivations |-> [d \in drvs |->
            {e.name : e \in {x \in context : x.tag = "single" /\ x.path = d}}
            \union (IF WholeDrv(d) \in context
                    THEN DOMAIN derivations[d].drv.outputs ELSE {})]]

(* The derivation before its output paths are known.  Every output has an  *)
(* empty variable, whatever attribute had its name.                        *)
Populated(attrs, acc) ==
    LET inputs == populate_inputs(acc.context)
        blank  == [o \in DOMAIN acc.outputs |-> Nothing] @@ acc.environment
        json   == "__json" :> [lit |-> "", text |-> {Term("json", "", acc.json)}]
    IN [outputs |-> acc.outputs, arguments |-> acc.arguments,
        builder |-> acc.builder, system |-> acc.system,
        input_sources |-> inputs.input_sources,
        input_derivations |-> inputs.input_derivations,
        environment |-> IF Structured(attrs) THEN json @@ blank ELSE blank]

-----------------------------------------------------------------------------
(* Fetches *)

(* Fetch::store_path                                                       *)
FetchPath(fetch, name) ==
    build_ca_path(name, fetch.kind \in {"Tarball", "NAR", "Executable"}, fetch.hash)

(* fetchurl_derivation_to_fetch: nothing when the derivation is no fetch.  *)
fetchurl_derivation_to_fetch(drv) ==
    LET env == drv.environment
        out == drv.outputs["out"]
    IN IF \/ drv.arguments # Nothing \/ drv.system.lit # "builtin" \/ ~is_fixed(drv)
          \/ "name" \notin DOMAIN env \/ "url" \notin DOMAIN env
       THEN {}
       ELSE {[name |-> env["name"].lit, hash |-> CHOOSE h \in out.hash : TRUE,
              kind |-> IF out.mode = "flat" THEN "URL"
                       ELSE IF "executable" \in DOMAIN env /\ env["executable"].lit = "1"
                       THEN "Executable" ELSE "NAR"]}

FetchOf(drv) == IF drv.builder.lit = "builtin:fetchurl" THEN fetchurl_derivation_to_fetch(drv)
                                                        ELSE {}

add_fetch(fetch) == (FetchPath(fetch, fetch.name) :> fetch) @@ outputs_to_fetches

-----------------------------------------------------------------------------
(* KnownPaths::add_derivation *)

Modulo(drv) == [i \in DOMAIN drv.input_derivations |-> derivations[i].modulo]

add_derivation(path, drv) ==
    LET new == UNION {drv.outputs[o].path : o \in DOMAIN drv.outputs}
    IN /\ derivations' = (path :> [modulo |-> hash_derivation_modulo(drv, Modulo(drv)), drv |-> drv])
                         @@ derivations
       /\ outputs_to_drvpath' = outputs_to_drvpath @@ [p \in new |-> path]

-----------------------------------------------------------------------------
(* The builtins *)

Returned(path, context) == [path |-> path, context |-> context]

(* What an expression can make of the strings it holds: their              *)
(* concatenation, its context alone, or its text alone                     *)
(* (unsafeDiscardStringContext).                                           *)
Strings(most) ==
    {Value("string", "", IF "text" \in share THEN {s.path : s \in A} ELSE {},
           IF "context" \in share THEN UNION {s.context : s \in A} ELSE {}, <<>>) :
        A \in {B \in SUBSET strings : Cardinality(B) <= most}, share \in Families[family].kept}

Fill(call, s) == [k \in DOMAIN call |->
    IF call[k].kind = "hole" THEN [s EXCEPT !.kind = IF k = "args" THEN "list" ELSE "string",
                                            !.lit = call[k].lit]
                             ELSE call[k]]

Refused(why) == /\ outcome' = why
                /\ UNCHANGED <<derivations, outputs_to_drvpath, outputs_to_fetches, strings, untracked>>

(* What the builtin computes before it touches KnownPaths.                 *)
Draft(attrs) ==
    LET acc == FixedOutput(attrs, Arguments(attrs))
    IN CASE Is(attrs, "name", "throw") -> Fails(acc, "catchable")
         [] ~Is(attrs, "name", "throw") /\ attrs["name"].lit = "" -> Fails(acc, "error")
         [] OTHER -> acc

(* The derivation is known, and the strings for it and its outputs are     *)
(* returned.                                                               *)
Register(attrs, drv, path) ==
    /\ outputs_to_fetches' = IF FetchOf(drv) = {} THEN outputs_to_fetches
                             ELSE add_fetch(CHOOSE f \in FetchOf(drv) : TRUE)
    /\ add_derivation(path, drv)
    /\ strings' = strings \union {Returned(path, {WholeDrv(path)})} \union
          {Returned(CHOOSE p \in drv.outputs[o].path : TRUE, {Single(path, o)}) :
               o \in DOMAIN drv.outputs}
    /\ untracked' = untracked \union
          {p \in {path} : \E k \in DOMAIN attrs : attrs[k].text # {} /\ attrs[k].context = {}}
    /\ outcome' = "value"

(* builtins.derivationStrict.  A derivation that is not known panics in    *)
(* populate_inputs if all its outputs are wanted, or else in the lookup of *)
(* its hash.                                                               *)
Unknown(tag, context) == \E e \in context : e.tag = tag /\ ~Known(e.path)
DerivationStrict(attrs) ==
    LET name == attrs["name"].lit IN
    \E draft \in {Draft(attrs)} :
       \/ draft.stop # "" /\ Refused(draft.stop)
       \/ draft.stop = "" /\ Unknown("derivation", draft.context) /\ Refused("panic")
       \/ /\ draft.stop = "" /\ ~Unknown("derivation", draft.context)
          /\ \E unset \in {Populated(attrs, draft)} :
             \/ ~validate(unset) /\ Refused("error")
             \/ validate(unset) /\ Unknown("single", draft.context) /\ Refused("panic")
             \/ /\ validate(unset) /\ ~Unknown("single", draft.context)
                /\ \E drv \in {calculate_output_paths(unset, name, hash_derivation_modulo(unset, Modulo(unset)))} :
                   IF ~ValidName(name) \/ (drv.builder.lit = "builtin:fetchurl" /\ FetchOf(drv) = {})
                   THEN Refused("error")
                   ELSE \E path \in {calculate_derivation_path(drv, name)} : Register(attrs, drv, path)

(* A call with a hole in it is made with every string.                     *)
CallDerivationStrict ==
    \E call \in Families[family].calls :
        /\ Cardinality(DOMAIN derivations) < Families[family].derivations
        /\ \E s \in Strings(IF \E k \in DOMAIN call : call[k].kind = "hole"
                            THEN Families[family].most ELSE 0) :
              \E attrs \in {Fill(call, s)} : DerivationStrict(attrs)

(* fetchurl and fetchTarball with a hash: fetch_lazy only announces them.  *)
FetchLazily(kind, hash) ==
    LET fetch == [name |-> "a", hash |-> hash, kind |-> kind]
        path  == FetchPath(fetch, "a")
    IN /\ Cardinality(strings) < Families[family].announced
       /\ outputs_to_fetches' = add_fetch(fetch)
       /\ strings' = strings \union {Returned(path, {Plain(path)})}
       /\ outcome' = "value"
       /\ UNCHANGED <<derivations, outputs_to_drvpath, untracked>>

(* builtins.toFile: its content may mention sources, not derivations.      *)
ToFile(content) ==
    IF \E e \in content.context : e.tag # "plain"
    THEN Refused("error")
    ELSE LET path == build_text_path("file", Term("content", content.lit, content.text),
                                     {e.path : e \in content.context})
         IN /\ strings' = strings \union {Returned(path, {Plain(path)})}
            /\ outcome' = "value"
            /\ UNCHANGED <<derivations, outputs_to_drvpath, outputs_to_fetches, untracked>>

CallToFile == /\ Cardinality(strings) < Families[family].announced
              /\ \E s \in Strings(1) : ToFile(s)

(* builtins.appendContext: an expression adds an element that it made up,   *)
(* which nothing checks.  A string without context stays without.  One      *)
(* string of an evaluation gets one (a bound).                              *)
Nowhere == Term("text", "nowhere.drv", {})
MadeUp(e) == e.path = Nowhere
appendContext(s, e) == Returned(s.path, IF s.context = {} THEN {} ELSE s.context \union {e})
CallAppendContext ==
    /\ \A s \in strings : ~\E e \in s.context : MadeUp(e)
    /\ \E s \in strings, tag \in Families[family].appended :
          strings' = strings \union {appendContext(s, [tag |-> tag, name |-> IF tag = "single" THEN "out" ELSE "", path |-> Nowhere])}
    /\ UNCHANGED <<derivations, outputs_to_drvpath, outputs_to_fetches, untracked, outcome>>

Init == /\ derivations = Empty
        /\ outputs_to_drvpath = Empty
        /\ outputs_to_fetches = Empty
        /\ strings = {}
        /\ family \in DOMAIN Families
        /\ untracked = {}
        /\ outcome = "value"

Builtin == \/ CallDerivationStrict
           \/ \E kind \in {"URL", "Tarball"}, hash \in Hashes :
                 (kind = "Tarball" => Sha256(hash)) /\ FetchLazily(kind, hash)
           \/ CallToFile \/ CallAppendContext

(* After a refused call the evaluation (the REPL, or a tryEval) goes on    *)
(* from the state before the call, which needs no second look.             *)
Next == outcome = "value" /\ Builtin /\ UNCHANGED family

Spec == Init /\ [][Next]_vars

-----------------------------------------------------------------------------
(* Properties *)

OutputPaths(drv, names) == UNION {drv.outputs[o].path : o \in names}

(* The paths a derivation's builder is told of.                            *)
Mentions(drv) == drv.builder.text \union drv.arguments.text
    \union UNION {drv.environment[k].text : k \in DOMAIN drv.environment \ {"__json"}}
    \union (IF "__json" \in DOMAIN drv.environment
            THEN UNION {t.of : t \in UNION {j.of : j \in drv.environment["__json"].text}}
            ELSE {})

(* What a derivation gets as inputs, however its inputs are made: paths    *)
(* with the number of inputs that provide them.                            *)
InputPaths(drv) ==
    LET paths(i) == OutputPaths(derivations[i].drv, drv.input_derivations[i])
    IN {[paths |-> paths(i),
         times |-> Cardinality({j \in DOMAIN drv.input_derivations : paths(j) = paths(i)})] :
            i \in DOMAIN drv.input_derivations}

BuildOf(drv) ==
    IF is_fixed(drv) THEN [outputs |-> drv.outputs, inputs |-> {}, rest |-> {}]
    ELSE [outputs |-> [o \in DOMAIN drv.outputs |-> Unset],
          inputs  |-> InputPaths(drv),
          rest    |-> {[k \in DOMAIN drv.environment \ DOMAIN drv.outputs |-> drv.environment[k]],
                       [k \in {"builder", "args", "system"} |->
                           CASE k = "builder" -> drv.builder [] k = "args" -> drv.arguments
                             [] k = "system" -> drv.system],
                       [k \in {"sources"} |-> [lit |-> "", text |-> drv.input_sources]]}]

TypeOK ==
    /\ \A d \in DOMAIN derivations : derivations[d].drv.outputs # Empty
    /\ DOMAIN outputs_to_drvpath =
          UNION {OutputPaths(derivations[d].drv, DOMAIN derivations[d].drv.outputs) :
                     d \in DOMAIN derivations}
    /\ outcome \in {"value", "catchable", "error", "panic"}

(* The builtins that make store paths hand out no context that names a     *)
(* derivation KnownPaths does not have: populate_inputs and the lookup of  *)
(* an input's hash panic only if an expression made up an element with     *)
(* appendContext.                                                          *)
InputsKnown ==
    /\ \A s \in strings : \A e \in s.context : e.tag = "plain" \/ Known(e.path) \/ MadeUp(e)
    /\ outcome = "panic" => \E s \in strings : \E e \in s.context : MadeUp(e)

(* The hash KnownPaths keeps for a derivation is the one its definition by *)
(* recursion over the input derivations gives, with all output paths in.   *)
RECURSIVE ModuloByDefinition(_)
ModuloByDefinition(d) ==
    LET drv == derivations[d].drv
    IN IF is_fixed(drv) THEN OutDigest(drv)
       ELSE serialize_with_replacements(drv, [i \in DOMAIN drv.input_derivations |-> ModuloByDefinition(i)])

ModuloIsRecursive ==
    \A d \in DOMAIN derivations : derivations[d].modulo = ModuloByDefinition(d)

(* Two derivations that produce the same output path do the same build     *)
(* with the same inputs, so that it does not matter which one              *)
(* get_drv_path_for_output_path finds.                                     *)
SameOutputSameBuild ==
    \A d, e \in DOMAIN derivations :
        OutputPaths(derivations[d].drv, DOMAIN derivations[d].drv.outputs) \intersect
        OutputPaths(derivations[e].drv, DOMAIN derivations[e].drv.outputs) # {}
            => BuildOf(derivations[d].drv) = BuildOf(derivations[e].drv)

(* The other way round: how a fixed-output input is fetched does not reach *)
(* the output paths of what depends on it, at any depth.                   *)
FetchIndifferent ==
    \A d, e \in DOMAIN derivations :
        /\ d.label = e.label
        /\ ~is_fixed(derivations[d].drv)
        /\ BuildOf(derivations[d].drv) = BuildOf(derivations[e].drv)
        => derivations[d].drv.outputs = derivations[e].drv.outputs

(* A derivation whose strings kept their context has as an input every     *)
(* store path its environment, arguments or builder mention.               *)
MentionsAreInputs ==
    \A d \in DOMAIN derivations \ untracked :
        LET drv == derivations[d].drv
        IN Mentions(drv) \subseteq
               drv.input_sources
               \union OutputPaths(drv, DOMAIN drv.outputs)
               \union UNION {OutputPaths(derivations[i].drv, drv.input_derivations[i]) :
                                 i \in DOMAIN drv.input_derivations}

(* The fetch a builtin:fetchurl derivation stands for is filed under the   *)
(* output path of the derivation, so that looking for the output finds it. *)
FetchUnderOutput ==
    \A d \in DOMAIN derivations :
        derivations[d].drv.builder.lit = "builtin:fetchurl" =>
            OutputPaths(derivations[d].drv, {"out"}) \subseteq DOMAIN outputs_to_fetches
=============================================================================
