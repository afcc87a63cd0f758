----------------------------- MODULE NixStrings -----------------------------
(***************************************************************************)
(* Strings of the Nix evaluator and the string context they carry          *)
(* (snix/eval/src/value/string, the string builtins, string coercion).     *)
(*                                                                         *)
(* A string is a pointer to a cell that holds its bytes and an optional    *)
(* context: the store paths a derivation that uses the string must depend  *)
(* on.  Strings without a context share their cell, by interning and by    *)
(* cloning; strings with one own theirs, which is freed with them.         *)
(*                                                                         *)
(* An expression is evaluated one operation at a time; every result is     *)
(* bound to the next variable of env, as nested lets would.  Text is a     *)
(* sequence of tokens: separators, letters and the hash parts of store     *)
(* paths (Refs), which no operation takes apart.                           *)
(***************************************************************************)
EXTENDS Integers, Sequences, FiniteSets, SequencesExt

CONSTANTS Literals,         \* the variables bound first: [text, context]
          Froms,            \* what replaceStrings looks for: sequences of texts
          INTERN_THRESHOLD, \* the longest text that is interned
          MaxOps, MaxLen    \* bounds: operations, tokens of a text

VARIABLES cells,    \* the heap of strings: id |-> [text, context]
          interner, \* ids of the interned cells
          env,      \* the values of the variables bound so far: ids of cells
          waived,   \* per variable: the references whose tracking the
                    \* expression gave up (specification only)
          replaced  \* the last call of replaceStrings (specification only)

vars == <<cells, interner, env, waived, replaced>>

None == {}

Drv == "drvA"
Plain(p) == [type |-> "Plain", path |-> p, name |-> ""]
Derivation(d) == [type |-> "Derivation", path |-> d, name |-> ""]
Single(o, d) == [type |-> "Single", path |-> d, name |-> o]

Refs == {"src", "drvA", "outA", "devA"}
Outputs == [outA |-> "out", devA |-> "dev"]

(***************************************************************************)
(* NixString: allocation, interning, cloning.                              *)
(***************************************************************************)
Fresh(cs) == CHOOSE i \in 1 .. Cardinality(DOMAIN cs) + 1 : i \notin DOMAIN cs

new_inner(m, text, context) ==
    LET i == Fresh(m.cells)
    IN  [m EXCEPT !.cells = @ @@ (i :> [text |-> text, context |-> context]), !.id = i]

intern(m, text) ==
    LET found == {i \in m.interner : m.cells[i].text = text}
        made == new_inner(m, text, None)
    IN  IF found # {} THEN [m EXCEPT !.id = CHOOSE i \in found : TRUE]
        ELSE [made EXCEPT !.interner = @ \cup {made.id}]

new(m, text, context) ==
    IF Len(text) <= INTERN_THRESHOLD /\ context = None THEN intern(m, text)
    ELSE new_inner(m, text, context)

clone(m, id) ==
    IF m.cells[id].context # None
    THEN new_inner(m, m.cells[id].text, m.cells[id].context)
    ELSE [m EXCEPT !.id = id]

take_context(m) == [m EXCEPT !.cells[m.id].context = None]

(* to_contextful_str clones the string, take_context empties the clone: what *)
(* the strings of a sequence of variables leave in memory once read that way *)
Memory == [cells |-> cells, interner |-> interner, id |-> 0]

Reading(ids) ==
    FoldLeft(LAMBDA m, i : take_context(clone(m, i)), Memory, ids)

text(x) == cells[env[x]].text
context(x) == cells[env[x]].context

(***************************************************************************)
(* Values an operation is applied to: a variable, a path, a derivation (an *)
(* attribute set whose outPath and drvPath are variables), a list, a set,  *)
(* an integer, an error that tryEval can catch.                            *)
(***************************************************************************)
Var(x) == [kind |-> "string", var |-> x, elems |-> <<>>]
Path == [kind |-> "path", var |-> 0, elems |-> <<>>]
Package(out, drv) == [kind |-> "derivation", var |-> 0, elems |-> <<Var(out), Var(drv)>>]
List(elems) == [kind |-> "list", var |-> 0, elems |-> elems]
Set(elems) == [kind |-> "set", var |-> 0, elems |-> elems]
ToStringSet(elem) == [kind |-> "__toString", var |-> 0, elems |-> <<elem>>]
Number == [kind |-> "int", var |-> 0, elems |-> <<>>]
Throw == [kind |-> "throw", var |-> 0, elems |-> <<>>]

Imported == <<"/", "src">>

(* what an operation yields: a string, with the variables it read on the way, *)
(* or no string: an error, a catchable error                                  *)
Ok(t, c, r) == [result |-> "string", text |-> t, context |-> c, reads |-> r]
Failed(r) == [result |-> r, text |-> <<>>, context |-> None, reads |-> <<>>]
IsString(o) == o.result = "string"

Joined(o, p) == Ok(o.text \o p.text, o.context \cup p.context, o.reads \o p.reads)

(***************************************************************************)
(* Value::coerce_to_string_: a stack of values still to coerce, a result   *)
(* and a context that grow, and whether the first element of a list is     *)
(* still to come.                                                          *)
(***************************************************************************)
RECURSIVE Coercing(_, _, _, _, _)
Coercing(vals, strong, import_paths, head, acc) ==
    LET v == Head(vals)
        rest == Tail(vals)
        space == IF head = "seen" THEN <<" ">> ELSE <<>>
        next == IF head = "first" THEN "seen" ELSE head
        Push(t, c, r) ==
            Coercing(rest, strong, import_paths, next, Joined(acc, Ok(space \o t, c, r)))
    IN  IF vals = <<>> THEN acc
        ELSE CASE v.kind = "string" -> Push(text(v.var), context(v.var), <<v.var>>)
               [] v.kind = "path" /\ import_paths -> Push(Imported, {Plain("src")}, <<>>)
               [] v.kind = "path" /\ ~import_paths -> Push(<<"/", "x">>, None, <<>>)
               [] v.kind \in {"__toString", "derivation"} ->
                    Coercing(<<v.elems[1]>> \o rest, strong, import_paths, head, acc)
               [] v.kind = "int" /\ strong -> Push(<<"1">>, None, <<>>)
               [] v.kind = "list" /\ strong ->
                    Coercing(v.elems \o rest, strong, import_paths,
                             IF head = "none" THEN "first" ELSE head, acc)
               [] v.kind = "throw" -> Failed("catchable")
               [] OTHER -> Failed("error")

coerce_to_string(v, strong, import_paths) ==
    Coercing(<<v>>, strong, import_paths, "none", Ok(<<>>, None, <<>>))

(* add_values, string + anything: the bytes and the contexts of both *)
concat(x, v) ==
    LET o == coerce_to_string(v, FALSE, TRUE)
    IN  IF IsString(o) THEN Joined(Ok(text(x), context(x), <<x>>), o) ELSE o

(* add_values, path + anything, as toString gives it: a path has no context *)
add_to_path(v) ==
    LET o == coerce_to_string(v, FALSE, FALSE)
    IN  IF IsString(o) THEN Ok(<<"/", "x">> \o o.text, None, o.reads) ELSE o

(* "${a}${b}": the compiler coerces every part, run_interpolate pops them *)
run_interpolate_LastContext(parts) ==
    LET os == [i \in DOMAIN parts |-> coerce_to_string(parts[i], FALSE, TRUE)]
    IN  IF \A i \in DOMAIN os : IsString(os[i])
        THEN [FoldLeft(Joined, Ok(<<>>, None, <<>>), os) EXCEPT !.context = Last(os).context]
        ELSE Failed("error")

run_interpolate(parts) ==
    LET os == [i \in DOMAIN parts |-> coerce_to_string(parts[i], FALSE, TRUE)]
        bad == {i \in DOMAIN os : ~IsString(os[i])}
    IN  IF bad = {} THEN FoldLeft(Joined, Ok(<<>>, None, <<>>), os)
        ELSE os[CHOOSE i \in bad : \A j \in bad : i <= j]

concatStringsSep(sep, elems) ==
    LET s == Ok(text(sep), None, <<>>)
        Next_(acc, i) ==
            LET o == coerce_to_string(elems[i], FALSE, TRUE)
            IN  CASE ~IsString(acc) -> acc
                  [] IsString(acc) /\ ~IsString(o) -> o
                  [] OTHER -> Joined(IF i = 1 THEN acc ELSE Joined(acc, s), o)
    IN  FoldLeft(Next_, Ok(<<>>, context(sep), <<sep>>), [i \in DOMAIN elems |-> i])

(***************************************************************************)
(* Builtins on one string.                                                 *)
(***************************************************************************)
Inherit(o, t) == [o EXCEPT !.text = t]

Slashes(t) == {i \in DOMAIN t : t[i] = "/"}

baseNameOf(v) ==
    LET o == coerce_to_string(v, FALSE, FALSE)
        s == Slashes(o.text)
    IN  IF ~IsString(o) \/ s = {} THEN o
        ELSE Inherit(o, SubSeq(o.text, Max(s) + 1, Len(o.text)))

dirOf(x) ==
    LET o == coerce_to_string(Var(x), FALSE, FALSE)
        s == Slashes(o.text)
    IN  Inherit(o, IF s = {} THEN <<".">>
                   ELSE IF Max(s) = 1 THEN <<"/">> ELSE SubSeq(o.text, 1, Max(s) - 1))

substring(beg, len, v) ==
    LET o == coerce_to_string(v, FALSE, TRUE)
        size == Len(o.text)
        end == IF len < 0 \/ beg + len > size THEN size ELSE beg + len
    IN  CASE ~IsString(o) -> o
          [] IsString(o) /\ beg < 0 -> Failed("error")
          [] IsString(o) /\ beg >= size -> Inherit(o, <<>>)
          [] OTHER -> Inherit(o, SubSeq(o.text, beg + 1, end))

(* split by the regex (t): the pieces before a match inherit the context, the *)
(* captured text and the last piece have none                                 *)
split(t, x) ==
    LET at == SetToSortSeq({i \in DOMAIN text(x) : text(x)[i] = t}, <)
        From(k) == IF k = 1 THEN 1 ELSE at[k - 1] + 1
    IN  [k \in 1 .. Len(at) |-> Ok(SubSeq(text(x), From(k), at[k] - 1), context(x), <<x>>)]
        \o <<Ok(SubSeq(text(x), From(Len(at) + 1), Len(text(x))), None, <<x>>)>>

(* match with a group before t: the groups have no context *)
match(t, x) ==
    LET at == {i \in DOMAIN text(x) : text(x)[i] = t}
    IN  IF at = {} THEN Failed("null")
        ELSE Ok(SubSeq(text(x), 1, Max(at) - 1), None, <<x>>)

(***************************************************************************)
(* replaceStrings: at every position the first pair whose from matches; an *)
(* empty from is applied once per position, and once more at the end.      *)
(***************************************************************************)
Matches(from, t, i) == i + Len(from) <= Len(t) /\ IsPrefix(from, SubSeq(t, i + 1, Len(t)))

RECURSIVE Replacing(_, _, _, _, _, _)
Replacing(t, from, to, i, empty, acc) ==
    LET hits == {k \in DOMAIN from : Matches(from[k], t, i) /\ ~(empty /\ from[k] = <<>>)}
        k == Min(hits)
    IN  CASE i >= Len(t) -> acc
          [] i < Len(t) /\ hits # {} ->
               Replacing(t, from, to, i + Len(from[k]), from[k] = <<>>,
                         Joined(acc, Ok(text(to[k]), context(to[k]), <<to[k]>>)))
          [] OTHER -> Replacing(t, from, to, i + 1, FALSE, Inherit(acc, Append(acc.text, t[i + 1])))

AtEnd(from, to, acc) ==
    LET hits == {k \in DOMAIN from : from[k] = <<>>}
    IN  IF hits = {} THEN acc
        ELSE Joined(acc, Ok(text(to[Min(hits)]), context(to[Min(hits)]), <<to[Min(hits)]>>))

replaceStrings(from, to, x) ==
    AtEnd(from, to, Replacing(text(x), from, to, 0, FALSE, Ok(<<>>, context(x), <<x>>)))

(***************************************************************************)
(* Contexts as values: getContext groups the elements by store path,       *)
(* appendContext turns such a set back into elements.                      *)
(***************************************************************************)
getContext(c) ==
    [p \in {e.path : e \in c} |->
        [path |-> Plain(p) \in c, allOutputs |-> Derivation(p) \in c,
         outputs |-> {e.name : e \in {e \in c : e.path = p /\ e.type = "Single"}}]]

AddedContext(attrs) ==
    UNION {(IF attrs[p].path THEN {Plain(p)} ELSE {})
           \cup (IF attrs[p].allOutputs THEN {Derivation(p)} ELSE {})
           \cup {Single(o, p) : o \in attrs[p].outputs} : p \in DOMAIN attrs}

(* the elements are added to a context that is there, not to a missing one *)
appendContext(v, attrs) ==
    LET o == coerce_to_string(v, TRUE, TRUE)
    IN  IF IsString(o) /\ o.context # None
        THEN [o EXCEPT !.context = @ \cup AddedContext(attrs)] ELSE o

unsafeDiscardStringContext(v) ==
    LET o == coerce_to_string(v, FALSE, TRUE) IN [o EXCEPT !.context = None]

unsafeDiscardOutputDependency(v) ==
    LET o == coerce_to_string(v, FALSE, TRUE)
    IN  [o EXCEPT !.context = {IF e.type = "Derivation" THEN Plain(e.path) ELSE e : e \in @}]

(***************************************************************************)
(* toJSON and toXML: the text mentions what the strings in the value do.   *)
(***************************************************************************)
RECURSIVE into_contextful_json(_)
into_contextful_json(v) ==
    CASE v.kind = "string" -> Ok(text(v.var), context(v.var), <<v.var>>)
      [] v.kind = "path" -> Ok(Imported, {Plain("src")}, <<>>)
      [] v.kind = "int" -> Ok(<<"1">>, None, <<>>)
      [] v.kind = "__toString" -> coerce_to_string(v, FALSE, FALSE)
      [] v.kind = "derivation" -> into_contextful_json(v.elems[1])
      [] v.kind = "throw" -> Failed("catchable")
      [] v.kind \in {"list", "set"} ->
           LET os == [i \in DOMAIN v.elems |-> into_contextful_json(v.elems[i])]
               bad == {i \in DOMAIN os : ~IsString(os[i])}
           IN  IF bad # {} THEN os[Min(bad)] ELSE FoldLeft(Joined, Ok(<<>>, None, <<>>), os)

toJSON(v) == into_contextful_json(v)

(* XmlEmitter: the text written, the context gathered, the derivations seen; *)
(* lost is what a repeated derivation mentions as an outPath not seen before *)
Emit(w, o) == [w EXCEPT !.out = Joined(@, o)]

RECURSIVE value_variant_to_xml(_, _)
value_variant_to_xml(w, v) ==
    CASE v.kind = "string" -> Emit(w, Ok(text(v.var), context(v.var), <<v.var>>))
      [] v.kind = "path" -> Emit(w, Ok(<<"/", "x">>, None, <<>>))
      [] v.kind = "int" -> Emit(w, Ok(<<"1">>, None, <<>>))
      [] v.kind = "__toString" -> Emit(w, Ok(<<"function">>, None, <<>>))
      [] v.kind \in {"list", "set"} -> FoldLeft(value_variant_to_xml, w, v.elems)
      [] v.kind = "derivation" ->
           LET out == v.elems[1].var
               drv == v.elems[2].var
               tag == Emit(w, Ok(text(drv) \o text(out), None, <<>>))
           IN  IF text(drv) # <<>> /\ \A s \in w.seen : s[1] # text(drv)
               THEN FoldLeft(value_variant_to_xml,
                             [tag EXCEPT !.seen = @ \cup {<<text(drv), text(out)>>}],
                             <<v.elems[2], v.elems[1]>>)
               ELSE [Emit(tag, Ok(<<"repeated">>, None, <<>>)) EXCEPT
                       !.lost = @ \cup (IF <<text(drv), text(out)>> \in w.seen THEN {}
                                        ELSE Refs \cap ToSet(text(out)))]

(* a value that holds an error cannot be deep-forced *)
RECURSIVE Throws(_)
Throws(v) == v.kind = "throw" \/ \E i \in DOMAIN v.elems : Throws(v.elems[i])

toXML(v) ==
    value_variant_to_xml([out |-> Ok(<<>>, None, <<>>), seen |-> {}, lost |-> {}], v)

(***************************************************************************)
(* Evaluation: the next variable is bound to the result of an operation.   *)
(***************************************************************************)
Mentioned(t) == Refs \cap ToSet(t)

Init ==
    /\ LET m == FoldLeft(LAMBDA acc, l : LET n == new(acc.mem, l.text, l.context)
                                         IN  [mem |-> n, env |-> Append(acc.env, n.id)],
                         [mem |-> [cells |-> << >>, interner |-> {}, id |-> 0], env |-> <<>>],
                         Literals)
       IN  cells = m.mem.cells /\ interner = m.mem.interner /\ env = m.env
    /\ waived = [x \in DOMAIN Literals |-> {}]
    /\ replaced = <<>>

(* strings without an owner are freed, or leaked: either way out of reach *)
Store(m) ==
    /\ env' = Append(env, m.id)
    /\ interner' = m.interner
    /\ cells' = [i \in ToSet(env') \cup m.interner |-> m.cells[i]]

Bind(o, waives) ==
    /\ IsString(o) /\ Len(o.text) <= MaxLen
    /\ Store(new(Reading([i \in DOMAIN o.reads |-> env[o.reads[i]]]), o.text, o.context))
    /\ waived' = Append(waived, Mentioned(o.text) \cap
                                (waives \cup UNION {waived[o.reads[i]] : i \in DOMAIN o.reads}))

Variables == DOMAIN env
Packages == {Package(x, 2) : x \in {1, Len(env)}}
Coercible == {Var(x) : x \in Variables} \cup Packages \cup {Path}
Pairs == {<<v, w>> : v, w \in Coercible}
Nested == {List(p) : p \in Pairs} \cup {Set(p) : p \in Pairs}
          \cup {ToStringSet(v) : v \in Coercible} \cup {List(<<Number, List(<<Path, Throw>>)>>)}

Operate(o) == Bind(o, {}) /\ UNCHANGED replaced

Copy == \E x \in Variables :
    /\ Store(clone(Memory, env[x]))
    /\ waived' = Append(waived, waived[x])
    /\ UNCHANGED replaced

Add == \E x \in Variables, v \in Coercible : Operate(concat(x, v))
Interpolate == \E p \in Pairs : Operate(run_interpolate(p))
ConcatStringsSep == \E x \in Variables, p \in Pairs : Operate(concatStringsSep(x, p))
BaseNameOf == \E v \in Coercible : Operate(baseNameOf(v))
DirOf == \E x \in Variables : Operate(dirOf(x))
Substring == \E v \in Coercible, beg \in 0 .. 2, len \in -1 .. 1 : Operate(substring(beg, len, v))
Stringify == \E v \in Coercible \cup Nested : Operate(coerce_to_string(v, TRUE, FALSE))
ToJSON == \E v \in Nested : Operate(toJSON(v))
ToXML == \E v \in Nested :
    ~Throws(v) /\ Bind(toXML(v).out, toXML(v).lost) /\ UNCHANGED replaced
AddToPath == \E v \in Coercible : Bind(add_to_path(v), Refs) /\ UNCHANGED replaced
AppendContext == \E x, y \in Variables : Operate(appendContext(Var(x), getContext(context(y))))

Split == \E x \in Variables : \E k \in DOMAIN split("/", x) :
    /\ Bind(split("/", x)[k], IF k = Len(split("/", x)) THEN Refs ELSE {})
    /\ UNCHANGED replaced

Match == \E x \in Variables : Bind(match("/", x), Refs) /\ UNCHANGED replaced

DiscardContext == \E v \in Coercible :
    Bind(unsafeDiscardStringContext(v), Refs) /\ UNCHANGED replaced

DiscardOutputDependency == \E v \in Coercible :
    Bind(unsafeDiscardOutputDependency(v), DOMAIN Outputs) /\ UNCHANGED replaced

ReplaceStrings == \E x \in Variables, from \in Froms :
    \E to \in [DOMAIN from -> Variables] :
       LET o == replaceStrings(from, to, x)
       IN  /\ Bind(o, {})
           /\ replaced' = <<text(x), from, [k \in DOMAIN to |-> text(to[k])], o.text>>

Next ==
    /\ Len(env) < Len(Literals) + MaxOps
    /\ \/ Copy \/ Add \/ AddToPath \/ Interpolate \/ ConcatStringsSep
       \/ BaseNameOf \/ DirOf \/ Substring \/ Split \/ Match
       \/ Stringify \/ ToJSON \/ ToXML
       \/ AppendContext \/ DiscardContext \/ DiscardOutputDependency \/ ReplaceStrings

Spec == Init /\ [][Next]_vars

(***************************************************************************)
(* Properties.                                                             *)
(***************************************************************************)
TypeOK ==
    /\ interner \subseteq DOMAIN cells /\ ToSet(env) \subseteq DOMAIN cells
    /\ Len(waived) = Len(env)
    /\ \A i \in interner : Len(cells[i].text) <= INTERN_THRESHOLD

(* A string with a context is freed when its value is dropped               *)
(* (value/string/mod.rs, Drop), so no other value and no interner entry may *)
(* point to the same cell, whatever was cloned, shared and emptied before.  *)
UniquelyOwned ==
    \A i \in DOMAIN cells : cells[i].context # None =>
        i \notin interner /\ Cardinality({x \in Variables : env[x] = i}) = 1

Covered(ref, c) ==
    \/ Plain(ref) \in c \/ Derivation(ref) \in c
    \/ ref \in DOMAIN Outputs /\ {Derivation(Drv), Single(Outputs[ref], Drv)} \cap c # {}

(* No dependency is lost: a string mentions a store path only if its context  *)
(* makes a derivation that uses the string depend on that path, unless the    *)
(* expression dropped the context itself (unsafeDiscardStringContext,         *)
(* unsafeDiscardOutputDependency), took a part that never has one (split's    *)
(* last piece, match's groups), went through a path (path + string), or gave  *)
(* toXML a derivation twice, the second time with another outPath.            *)
Tracked ==
    \A x \in Variables : \A ref \in Mentioned(text(x)) \ waived[x] : Covered(ref, context(x))

(* appendContext adds what getContext took apart: the string it returns has  *)
(* both contexts, no element lost or made up on the way. This needs a string *)
(* that has a context; one that has none gets none, although appendContext   *)
(* "adds a given string context to the string" (build-references.md:106).    *)
ContextRoundTrips ==
    \A x, y \in Variables :
        appendContext(Var(x), getContext(context(y))).context =
            IF context(x) = None THEN None ELSE context(x) \cup context(y)

(* replaceStrings, by recursion on the rest of the string *)
RECURSIVE Replace(_, _, _, _)
Replace(from, to, t, may) ==
    LET fits == {k \in DOMAIN from : IsPrefix(from[k], t) /\ (from[k] = <<>> => may)}
        k == Min(fits)
    IN  CASE t = <<>> -> LET e == {j \in DOMAIN from : from[j] = <<>>}
                         IN  IF e = {} THEN <<>> ELSE to[Min(e)]
          [] t # <<>> /\ fits = {} -> <<Head(t)>> \o Replace(from, to, Tail(t), TRUE)
          [] OTHER -> to[k] \o Replace(from, to, SubSeq(t, Len(from[k]) + 1, Len(t)),
                                       from[k] # <<>>)

(* The index loop of replaceStrings, with its flag against matching an empty *)
(* from twice and its special case at the end, computes the leftmost         *)
(* replacement that tries the pairs in order.                                *)
ReplacesLeftmost ==
    replaced # <<>> => replaced[4] = Replace(replaced[2], replaced[3], replaced[1], TRUE)

=============================================================================
