---------------------------- MODULE NixSemantics ----------------------------
(***************************************************************************)
(* The Nix language: the expressions and values that the evaluator's       *)
(* modules share, and what an expression means.                            *)
(*                                                                         *)
(* Expressions stand for the syntax trees of the rnix parser, an external  *)
(* crate: a record whose field k names the kind of node.  Names and        *)
(* strings are TLA+ strings.  Values stand for the variants of the enum    *)
(* Value (eval/src/value/mod.rs), tagged by the field t; a thunk is the    *)
(* index of a cell of the VM's heap.                                       *)
(*                                                                         *)
(* What a Nix expression means, without bytecode, slots, upvalues, heap or *)
(* frames: a call-by-name evaluator over environments.  An environment is  *)
(* a sequence of scopes, the innermost last: the fields of a let or a      *)
(* recursive set, the arguments of a function, or the set of a with.  The  *)
(* compiler and the VM are checked against it; nothing here is read off    *)
(* their code.  Evaluation is cut off at a depth, the parameter d: deeper  *)
(* than any terminating program of the instances goes.                     *)
(***************************************************************************)
EXTENDS Integers, Sequences, FiniteSets, SequencesExt

CONSTANTS
    Globals,        \* the global scope: a function from names to values
    NameOrder       \* the attribute names, in the order of their bytes

-----------------------------------------------------------------------------
(* Expressions (rnix::ast::Expr).                                          *)
Lit(i)            == [k |-> "int", v |-> i]
Chars(s)          == [k |-> "chars", v |-> s]
Text(s)           == [k |-> "str", parts |-> <<Chars(s)>>]
Quote(parts)      == [k |-> "str", parts |-> parts]
Id(n)             == [k |-> "ident", n |-> n]
Not(e)            == [k |-> "unary", op |-> "!", e |-> e]
Neg(e)            == [k |-> "unary", op |-> "-", e |-> e]
Bin(l, op, r)     == [k |-> "bin", op |-> op, l |-> l, r |-> r]
Elems(es)         == [k |-> "list", es |-> es]
If(c, a, b)       == [k |-> "if", c |-> c, a |-> a, b |-> b]
AssertThen(c, b)  == [k |-> "assert", c |-> c, b |-> b]
With(ns, b)       == [k |-> "with", ns |-> ns, b |-> b]
App(f, x)         == [k |-> "apply", f |-> f, x |-> x]
Fn(n, b)          == [k |-> "lambda", p |-> [p |-> "ident", n |-> n], b |-> b]

(* Attribute paths: a static name, or an interpolated expression.          *)
Key(n)            == [a |-> "ident", n |-> n]
DynKey(e)         == [a |-> "dyn", e |-> e]
Absent            == [k |-> "none"]
Sel(e, path)      == [k |-> "select", e |-> e, path |-> path, or |-> Absent]
SelOr(e, path, d) == [k |-> "select", e |-> e, path |-> path, or |-> d]
Has(e, path)      == [k |-> "has", e |-> e, path |-> path]

(* Binding sets: the inherits and the attrpath-value pairs, in order.      *)
Bind(path, e)     == [path |-> path, v |-> e]
Def(n, e)         == Bind(<<Key(n)>>, e)
Inherit(ns)       == [from |-> Absent, names |-> ns]
InheritFrom(e, ns) == [from |-> e, names |-> ns]
Set(inh, ents)    == [k |-> "attrs", kind |-> "Attrs", inherits |-> inh, entries |-> ents]
RecSet(inh, ents) == [k |-> "attrs", kind |-> "RecAttrs", inherits |-> inh, entries |-> ents]
Let(inh, ents, b) == [k |-> "let", kind |-> "LetIn", inherits |-> inh, entries |-> ents, b |-> b]
LegacyLet(ents)   == [k |-> "legacy", kind |-> "RecAttrs", inherits |-> <<>>, entries |-> ents]

(* A function with a set pattern: its formals with their defaults, the     *)
(* name bound by @ ("" when there is none), and the ellipsis.              *)
Formal(n, d)      == [n |-> n, d |-> d]
PatFn(bind, formals, ellipsis, b) ==
    [k |-> "lambda", b |-> b,
     p |-> [p |-> "pattern", bind |-> bind, entries |-> formals, ellipsis |-> ellipsis]]

-----------------------------------------------------------------------------
(* Values (enum Value, eval/src/value/mod.rs).                             *)
Null            == [t |-> "null", v |-> 0]
Bool(b)         == [t |-> "bool", v |-> b]
Integer(i)      == [t |-> "int", v |-> i]
String(s)       == [t |-> "string", v |-> s]
Path(p)         == [t |-> "path", v |-> p]
List(l)         == [t |-> "list", v |-> l]
Attrs(f)        == [t |-> "set", v |-> f]
ClosureOf(l, ups, withs) == [t |-> "lambda", v |-> [l |-> l, up |-> ups, withs |-> withs]]
Builtin(n, args) == [t |-> "builtin", v |-> [n |-> n, args |-> args]]
Thunk(i)        == [t |-> "thunk", v |-> i]
Catchable(c)    == [t |-> "catchable", v |-> c]
AttrNotFound    == [t |-> "notfound", v |-> 0]
DeferredUpvalue(i) == [t |-> "deferred", v |-> i]
UnresolvedPath(p) == [t |-> "unresolved", v |-> p]
FinaliseRequest(b) == [t |-> "finalise", v |-> b]

NoAttrs         == [n \in {} |-> 0]

(* The number of arguments of a builtin.                                   *)
Arity == [n \in {"throw", "abort", "tryEval", "toString", "length", "head", "tail", "attrNames",
                 "attrValues", "listToAttrs", "concatLists", "typeOf", "functionArgs",
                 "genericClosure", "isAttrs", "isBool", "isFunction", "isInt", "isList", "isNull",
                 "isPath", "isString"} |-> 1]
         @@ [n \in {"foldl'"} |-> 3]
         @@ [n \in {"seq", "deepSeq", "map", "filter", "all", "any", "elemAt", "genList", "hasAttr",
                    "getAttr", "removeAttrs", "intersectAttrs", "mapAttrs", "concatMap",
                    "partition", "groupBy", "sort", "elem", "catAttrs", "zipAttrsWith", "add",
                    "sub", "mul", "div", "lessThan", "concatStringsSep", "trace",
                    "addErrorContext"} |-> 2]

-----------------------------------------------------------------------------
(* Meaning. *)
Delay(e, env)   == [t |-> "delay", v |-> [e |-> e, env |-> env]]
Applied(f, x)   == [t |-> "applied", v |-> [f |-> f, x |-> x]]
Error(kind)     == [t |-> "error", v |-> kind]
Bad(v)          == v.t \in {"catchable", "error"}
TypeError       == Error("TypeError")
NamesIn(s)      == SelectSeq(NameOrder, LAMBDA n : n \in s)

-----------------------------------------------------------------------------
(* Sets: the field of each name, with the bindings of the same head merged *)
(* into one set, and whether it is inherited from the outer environment.   *)
IsStatic(b)     == b.path[1].a = "ident"
Heads(s)        == {s.entries[i].path[1].n : i \in {j \in DOMAIN s.entries : IsStatic(s.entries[j])}}
Inherited(s)    == UNION {Range(s.inherits[i].names) : i \in DOMAIN s.inherits}
Merged(bs) ==
    LET nested(b) == IF Len(b.path) > 1 THEN Set(<<>>, <<Bind(Tail(b.path), b.v)>>) ELSE b.v
    IN  IF Len(bs) = 1 THEN nested(bs[1])
        ELSE [nested(bs[1]) EXCEPT
                !.inherits = FlattenSeq([i \in DOMAIN bs |-> nested(bs[i]).inherits]),
                !.entries = FlattenSeq([i \in DOMAIN bs |-> nested(bs[i]).entries])]
Fields(s) ==
    [n \in Heads(s) \union Inherited(s) |->
        IF n \in Heads(s)
        THEN [e |-> Merged(SelectSeq(s.entries, LAMBDA b : IsStatic(b) /\ b.path[1].n = n)), outer |-> FALSE]
        ELSE LET i == CHOOSE i \in DOMAIN s.inherits : n \in Range(s.inherits[i].names)
             IN  IF s.inherits[i].from = Absent THEN [e |-> Id(n), outer |-> TRUE]
                 ELSE [e |-> Sel(s.inherits[i].from, <<Key(n)>>), outer |-> FALSE]]
Inside(s, env) == IF s.kind = "Attrs" THEN env ELSE Append(env, [s |-> "rec", b |-> Fields(s)])

-----------------------------------------------------------------------------
(* Six judgements that depend on each other.                               *)
RECURSIVE Judge(_, _, _, _)
Ev(d, e, env)      == Judge("eval", d, e, env)
Forced(d, v)       == Judge("force", d, v, 0)
Apply(d, f, x)     == Judge("apply", d, f, x)
Equals(d, a, b)    == Judge("equal", d, a, b)
Less(d, a, b)      == Judge("less", d, a, b)
Str(d, v, strong)  == Judge("string", d, v, strong)

Delayed(d, v) ==
    CASE v.t = "delay"   -> Ev(d - 1, v.v.e, v.v.env)
      [] v.t = "applied" -> Apply(d - 1, v.v.f, v.v.x)
      [] OTHER -> v

\* The first bad value of a sequence, or else v.
Unless(vs, v) ==
    IF \E i \in DOMAIN vs : Bad(vs[i])
    THEN vs[CHOOSE i \in DOMAIN vs : Bad(vs[i]) /\ \A j \in 1..(i - 1) : ~Bad(vs[j])] ELSE v
ForcedAll(d, vs) == [i \in DOMAIN vs |-> Forced(d, vs[i])]

\* A name is that of the innermost scope that binds it, or a global, or an
\* attribute of the innermost with that has it.
FromWiths(d, n, sets) ==
    LET has == {i \in DOMAIN sets : Bad(sets[i]) \/ sets[i].t # "set" \/ n \in DOMAIN sets[i].v}
        top == CHOOSE i \in has : \A j \in has : j <= i
    IN  CASE has = {} -> Error("UnknownDynamicVariable")
          [] has # {} /\ Bad(sets[top]) -> sets[top]
          [] OTHER -> IF sets[top].t # "set" THEN TypeError ELSE Forced(d, sets[top].v[n])
Lookup(d, n, env) ==
    LET at == {i \in DOMAIN env : env[i].s # "with" /\ n \in DOMAIN env[i].b}
        i  == CHOOSE j \in at : \A k \in at : k <= j
        ws == SelectSeq(env, LAMBDA s : s.s = "with")
    IN  CASE at # {} -> (IF env[i].s = "arg" THEN Forced(d, env[i].b[n])
                         ELSE LET f == env[i].b[n]
                              IN  Ev(d - 1, f.e, SubSeq(env, 1, IF f.outer THEN i - 1 ELSE i)))
          [] at = {} /\ n \in DOMAIN Globals -> Globals[n]
          [] OTHER -> FromWiths(d, n, [j \in DOMAIN ws |-> Forced(d, ws[j].b)])

-----------------------------------------------------------------------------
(* Operations on values.                                                   *)
Equality(d, a, b) ==
    LET All(ns, l, r) ==
            LET rs == [i \in DOMAIN ns |-> Equals(d, Forced(d, l[ns[i]]), Forced(d, r[ns[i]]))]
                no == {i \in DOMAIN ns : Bad(rs[i]) \/ rs[i].v = FALSE}
            IN  IF no = {} THEN Bool(TRUE) ELSE rs[CHOOSE i \in no : \A j \in no : i <= j]
    IN  CASE Bad(a) \/ Bad(b) -> Unless(<<a, b>>, a)
          [] ~Bad(a) /\ ~Bad(b) /\ a.t # b.t -> Bool(FALSE)
          [] a.t = b.t /\ a.t \in {"null", "bool", "int", "string", "path"} -> Bool(a.v = b.v)
          [] a.t = "list" /\ b.t = "list" ->
                IF Len(a.v) = Len(b.v) THEN All([i \in DOMAIN a.v |-> i], a.v, b.v) ELSE Bool(FALSE)
          [] a.t = "set" /\ b.t = "set" ->
                IF DOMAIN a.v = DOMAIN b.v THEN All(NamesIn(DOMAIN a.v), a.v, b.v) ELSE Bool(FALSE)
          [] OTHER -> IF a.t = b.t /\ ~Bad(a) /\ a.t \in {"fn", "builtin"} THEN Bool(FALSE) ELSE a

\* a < b: numbers, and lists by their first different elements.
Ordering(d, a, b) ==
    CASE Bad(a) \/ Bad(b) -> Unless(<<a, b>>, a)
      [] a.t = "int" /\ b.t = "int" -> Bool(a.v < b.v)
      [] a.t = "list" /\ b.t = "list" ->
            LET n    == IF Len(a.v) < Len(b.v) THEN Len(a.v) ELSE Len(b.v)
                rs   == [i \in 1..n |-> Equals(d, Forced(d, a.v[i]), Forced(d, b.v[i]))]
                diff == {i \in 1..n : Bad(rs[i]) \/ rs[i].v = FALSE}
                at   == CHOOSE i \in diff : \A j \in diff : i <= j
            IN  IF diff = {} THEN Bool(Len(a.v) < Len(b.v))
                ELSE IF Bad(rs[at]) THEN rs[at]
                ELSE Less(d, Forced(d, a.v[at]), Forced(d, b.v[at]))
      [] OTHER -> Error("Incomparable")

\* Conversion to a string; of numbers, booleans, null and lists if strong.
Conversion(d, v, strong) ==
    CASE v.t = "string" -> v
      [] v.t = "path" -> String(v.v)
      [] v.t = "set" /\ "__toString" \in DOMAIN v.v -> Str(d, Apply(d, v.v["__toString"], v), strong)
      [] v.t = "set" /\ "__toString" \notin DOMAIN v.v /\ "outPath" \in DOMAIN v.v ->
            Str(d, Forced(d, v.v["outPath"]), strong)
      [] strong /\ v.t = "null" -> String("")
      [] strong /\ v.t = "bool" -> String(IF v.v THEN "1" ELSE "")
      [] strong /\ v.t = "int"  -> String(ToString(v.v))
      [] strong /\ v.t = "list" ->
            LET ss == [i \in DOMAIN v.v |-> Str(d, Forced(d, v.v[i]), TRUE)]
            IN  Unless(ss, String(FoldLeft(LAMBDA acc, s : IF acc = "" THEN s.v ELSE acc \o " " \o s.v, "", ss)))
      [] Bad(v) -> v
      [] OTHER -> Error("NotCoercibleToString")

Abs(i) == IF i < 0 THEN -i ELSE i
Quotient(a, b) == IF (a < 0) = (b < 0) THEN Abs(a) \div Abs(b) ELSE -(Abs(a) \div Abs(b))
Ints(op, a, b) ==
    CASE Bad(a) \/ Bad(b) -> Unless(<<a, b>>, a)
      [] ~Bad(a) /\ ~Bad(b) /\ op = "/" /\ b.t = "int" /\ b.v = 0 -> Error("DivisionByZero")
      [] ~Bad(a) /\ ~Bad(b) /\ ~(a.t = "int" /\ b.t = "int") -> TypeError
      [] OTHER -> (CASE op = "+" -> Integer(a.v + b.v) [] op = "-" -> Integer(a.v - b.v)
                     [] op = "*" -> Integer(a.v * b.v)
                     [] OTHER -> IF b.v = 0 THEN Error("DivisionByZero") ELSE Integer(Quotient(a.v, b.v)))
Plus(d, a, b) ==
    IF Bad(a) \/ Bad(b) THEN Unless(<<a, b>>, a)
    ELSE IF a.t = "int" THEN Ints("+", a, b)
    ELSE LET s == Str(d, a, FALSE)
             r == Str(d, b, FALSE)
         IN  Unless(<<s, r>>, [t |-> IF a.t = "path" THEN "path" ELSE "string", v |-> s.v \o r.v])
Negated(v) == CASE Bad(v) -> v [] v.t = "bool" -> Bool(~v.v) [] OTHER -> TypeError
Strict2(op, d, a, b) ==
    CASE op = "+"  -> Plus(d, a, b)
      [] op \in {"-", "*", "/"} -> Ints(op, a, b)
      [] op = "==" -> Equals(d, a, b)
      [] op = "!=" -> Negated(Equals(d, a, b))
      [] op = "<"  -> Less(d, a, b)
      [] op = ">"  -> Less(d, b, a)
      [] op = "<=" -> Negated(Less(d, b, a))
      [] op = ">=" -> Negated(Less(d, a, b))
      [] op = "++" -> (IF Bad(a) \/ Bad(b) THEN Unless(<<a, b>>, a)
                       ELSE IF a.t = "list" /\ b.t = "list" THEN List(a.v \o b.v) ELSE TypeError)
      [] OTHER     -> (IF Bad(a) \/ Bad(b) THEN Unless(<<a, b>>, a)
                       ELSE IF a.t = "set" /\ b.t = "set" THEN Attrs(b.v @@ a.v) ELSE TypeError)

-----------------------------------------------------------------------------
(* The builtins, each as its manual defines it.                            *)
LazyArgs(n) == CASE n \in {"tryEval", "toString", "map", "genList", "mapAttrs"} -> {1}
                 [] n = "foldl'" -> {2} [] OTHER -> {}
ArgTypes(n) ==
    CASE n \in {"throw", "abort"} -> <<"string">>
      [] n \in {"length", "head", "tail", "concatLists", "listToAttrs"} -> <<"list">>
      [] n \in {"attrNames", "genericClosure"} -> <<"set">>
      [] n = "elemAt" -> <<"list", "int">>
      [] n \in {"hasAttr", "getAttr"} -> <<"string", "set">>
      [] n \in {"mapAttrs"} -> <<"", "set">>
      [] n = "removeAttrs" -> <<"set", "list">>
      [] n = "intersectAttrs" -> <<"set", "set">>
      [] n = "foldl'" -> <<"", "", "list">>
      [] n \in {"map", "filter", "all", "any", "concatMap", "sort", "elem", "partition", "groupBy"} -> <<"", "list">>
      [] n = "genList" -> <<"", "int">>
      [] OTHER -> <<>>
Apply2(d, f, x, y) == Apply(d, Apply(d, f, x), y)
\* The elements of list for which f gives TRUE; a bad or wrong verdict is the result.
Verdicts(d, f, list, type) ==
    [i \in DOMAIN list |-> LET r == Apply(d, f, list[i]) IN IF Bad(r) \/ r.t = type THEN r ELSE TypeError]
Chosen(list, rs, b) == List([i \in 1..Len(SelectSeq([j \in DOMAIN list |-> j], LAMBDA j : rs[j].v = b)) |->
                            list[SelectSeq([j \in DOMAIN list |-> j], LAMBDA j : rs[j].v = b)[i]]])
\* The verdicts up to the first that is bad or decides.
Decided(rs, b) ==
    LET stop == {i \in DOMAIN rs : Bad(rs[i]) \/ rs[i].v = b}
    IN  IF stop = {} THEN Bool(~b) ELSE rs[CHOOSE i \in stop : \A j \in stop : i <= j]
Foldl(d, f, z, list) == FoldLeft(LAMBDA acc, x : IF Bad(acc) THEN acc ELSE Forced(d, Apply2(d, f, acc, x)), z, list)
\* Insertion of x into a sorted list, before the first element it is less than.
Insert(d, f, sorted, x) ==
    LET after == {i \in DOMAIN sorted : Apply2(d, f, x, sorted[i]).v = TRUE}
        at    == IF after = {} THEN Len(sorted) + 1 ELSE CHOOSE i \in after : \A j \in after : i <= j
    IN  InsertAt(sorted, at, x)
Items(v) == IF v.t = "list" THEN v.v
            ELSE LET ns == NamesIn(DOMAIN v.v) IN [i \in DOMAIN ns |-> v.v[ns[i]]]
\* A value forced k levels deep: the first bad value inside it is the result.
Levels == 4
Whole(v, vs) ==
    Unless(vs, IF v.t = "list" THEN List(vs)
               ELSE LET ns == NamesIn(DOMAIN v.v)
                    IN  Attrs([n \in DOMAIN v.v |-> vs[CHOOSE i \in DOMAIN ns : ns[i] = n]]))
RECURSIVE Deep(_, _, _)
Deep(d, v, k) ==
    IF k = 0 \/ v.t \notin {"list", "set"} THEN v
    ELSE LET xs == Items(v) IN Whole(v, [i \in DOMAIN xs |-> Deep(d, Forced(d, xs[i]), k - 1)])
Named(d, list) == [i \in DOMAIN list |-> LET s == Forced(d, list[i]) IN
    IF Bad(s) THEN s ELSE IF s.t # "set" THEN TypeError
    ELSE IF {"name", "value"} \subseteq DOMAIN s.v THEN Forced(d, s.v["name"]) ELSE Error("AttributeNotFound")]

\* The items reachable from work, in the order they are found: one of each key.
RECURSIVE Reached(_, _, _, _)
Reached(d, f, work, found) ==
    LET item == Forced(d, Head(work))
        old  == \E i \in DOMAIN found :
                    Equals(d, Forced(d, found[i].v["key"]), Forced(d, item.v["key"])).v = TRUE
    IN  IF work = <<>> THEN List(found)
        ELSE IF old THEN Reached(d, f, Tail(work), found)
        ELSE Reached(d, f, Tail(work) \o Apply(d, f, item).v, Append(found, item))

Prim(d, n, a) ==
    LET list == a[Len(a)].v
        rs(type) == Verdicts(d, a[1], list, type)
    IN CASE n = "throw" -> Catchable(a[1].v)
         [] n = "abort" -> Error("Abort")
         [] n = "seq"   -> a[2]
         [] n = "deepSeq" -> LET v == Deep(d, a[1], Levels) IN IF Bad(v) THEN v ELSE a[2]
         [] n = "tryEval" -> LET v == Forced(d, a[1]) IN
                IF v.t = "error" THEN v
                ELSE Attrs([f \in {"success", "value"} |->
                        IF f = "success" THEN Bool(v.t # "catchable")
                        ELSE IF v.t = "catchable" THEN Bool(FALSE) ELSE v])
         [] n = "toString" -> Str(d, Forced(d, a[1]), TRUE)
         [] n = "length" -> Integer(Len(list))
         [] n = "head" -> IF list = <<>> THEN Error("IndexOutOfBounds") ELSE Forced(d, Head(list))
         [] n = "tail" -> IF list = <<>> THEN Error("TailEmptyList") ELSE List(Tail(list))
         [] n = "elemAt" -> IF a[2].v \in 0..(Len(a[1].v) - 1) THEN Forced(d, a[1].v[a[2].v + 1])
                            ELSE Error("IndexOutOfBounds")
         [] n = "attrNames" -> List([i \in DOMAIN NamesIn(DOMAIN list) |-> String(NamesIn(DOMAIN list)[i])])
         [] n = "hasAttr" -> Bool(a[1].v \in DOMAIN list)
         [] n = "getAttr" -> IF a[1].v \in DOMAIN list THEN Forced(d, list[a[1].v]) ELSE Error("AttributeNotFound")
         [] n = "intersectAttrs" -> Attrs([k \in DOMAIN a[1].v \intersect DOMAIN list |-> list[k]])
         [] n = "removeAttrs" -> LET ks == ForcedAll(d, list) IN
                Unless(ks, IF \E i \in DOMAIN ks : ks[i].t # "string" THEN TypeError
                           ELSE Attrs([k \in DOMAIN a[1].v \ {ks[i].v : i \in DOMAIN ks} |-> a[1].v[k]]))
         [] n = "map"      -> List([i \in DOMAIN list |-> Applied(a[1], list[i])])
         [] n = "genList"  -> List([i \in 1..list |-> Applied(a[1], Integer(i - 1))])
         [] n = "mapAttrs" -> Attrs([k \in DOMAIN list |-> Applied(Applied(a[1], String(k)), list[k])])
         [] n = "filter"   -> Unless(rs("bool"), Chosen(list, rs("bool"), TRUE))
         [] n = "partition" -> Unless(rs("bool"), Attrs([k \in {"right", "wrong"} |->
                                    Chosen(list, rs("bool"), k = "right")]))
         [] n \in {"all", "any"} -> Decided(rs("bool"), n = "any")
         [] n = "concatMap" -> Unless(rs("list"), List(FlattenSeq([i \in DOMAIN list |-> rs("list")[i].v])))
         [] n = "groupBy"   -> LET ks == rs("string") IN
                Unless(ks, Attrs([k \in {ks[i].v : i \in DOMAIN ks} |-> Chosen(list, ks, k)]))
         [] n = "concatLists" -> LET ls == ForcedAll(d, list) IN
                Unless(ls, IF \E i \in DOMAIN ls : ls[i].t # "list" THEN TypeError
                           ELSE List(FlattenSeq([i \in DOMAIN ls |-> ls[i].v])))
         [] n = "foldl'" -> Forced(d, Foldl(d, a[1], a[2], list))
         [] n = "elem" -> Decided([i \in DOMAIN list |-> Equals(d, a[1], Forced(d, list[i]))], TRUE)
         [] n = "sort" -> List(FoldLeft(LAMBDA acc, x : Insert(d, a[1], acc, x), <<>>, list))
         [] n = "listToAttrs" -> LET ks == Named(d, list) IN
                Unless(ks, IF \E i \in DOMAIN ks : ks[i].t # "string" THEN TypeError
                           ELSE Attrs([k \in {ks[i].v : i \in DOMAIN ks} |->
                                Forced(d, list[CHOOSE i \in DOMAIN ks : /\ ks[i].v = k
                                                            /\ \A j \in 1..(i - 1) : ks[j].v # k]).v["value"]]))
         [] n = "genericClosure" -> Reached(d, Forced(d, list["operator"]), Forced(d, list["startSet"]).v, <<>>)
         [] n = "lessThan" -> Less(d, a[1], a[2])
         [] n = "typeOf" -> String(IF a[1].t \in {"fn", "builtin"} THEN "lambda" ELSE a[1].t)
         [] n = "isFunction" -> Bool(a[1].t \in {"fn", "builtin"})
         [] n = "isString" -> Bool(a[1].t = "string")
         [] OTHER -> Ints(CASE n = "add" -> "+" [] n = "sub" -> "-" [] n = "mul" -> "*" [] OTHER -> "/", a[1], a[2])
\* The arguments are forced last to first, except the lazy ones.
Applying(d, n, args) ==
    LET a == [i \in DOMAIN args |-> IF i \in LazyArgs(n) THEN args[i] ELSE Forced(d, args[i])]
        strict == SelectSeq(Reverse([i \in DOMAIN args |-> i]), LAMBDA i : i \notin LazyArgs(n))
    IN  Unless([j \in DOMAIN strict |-> a[strict[j]]],
               IF \E i \in DOMAIN ArgTypes(n) : ArgTypes(n)[i] \notin {"", a[i].t} THEN TypeError
               ELSE Prim(d, n, a))

-----------------------------------------------------------------------------
(* Functions.  The names a pattern binds are one recursive scope: its      *)
(* defaults may refer to each other, and to the whole argument.            *)
\* An argument is bound as an expression that gives it: a one-field select.
Matched(d, p, x, env) ==
    LET s == Forced(d, x)
        names == {p.entries[i].n : i \in DOMAIN p.entries}
        default == [n \in names |-> p.entries[CHOOSE i \in DOMAIN p.entries : p.entries[i].n = n].d]
    IN  CASE Bad(s) -> s
          [] ~Bad(s) /\ s.t # "set" -> TypeError
          [] OTHER ->
             IF ~p.ellipsis /\ ~(DOMAIN s.v \subseteq names) THEN Error("UnexpectedArgumentFormals")
             ELSE IF \E n \in names \ DOMAIN s.v : default[n] = Absent THEN Error("AttributeNotFound")
             ELSE List(env \o
                <<[s |-> "arg", b |-> (IF p.bind = "" THEN NoAttrs ELSE p.bind :> s)
                                     @@ [n \in names \intersect DOMAIN s.v |-> s.v[n]]],
                  [s |-> "rec", b |-> [n \in names \ DOMAIN s.v |-> [e |-> default[n], outer |-> FALSE]]]>>)
Application(d, f0, x) ==
    LET f == Forced(d, f0)
    IN  IF d <= 0 THEN Error("InfiniteRecursion") ELSE
        CASE f.t = "fn" /\ f.v.p.p = "ident" ->
                Ev(d - 1, f.v.b, Append(f.v.env, [s |-> "arg", b |-> f.v.p.n :> x]))
          [] f.t = "fn" /\ f.v.p.p = "pattern" ->
                LET env == Matched(d, f.v.p, x, f.v.env)
                IN  IF Bad(env) THEN env ELSE Ev(d - 1, f.v.b, env.v)
          [] f.t = "builtin" -> IF Len(f.v.args) + 1 < Arity[f.v.n] THEN Builtin(f.v.n, Append(f.v.args, x))
                                ELSE Applying(d, f.v.n, Append(f.v.args, x))
          [] f.t = "set" /\ "__functor" \in DOMAIN f.v -> Apply2(d, f.v["__functor"], f, x)
          [] Bad(f) -> f
          [] OTHER -> Error("NotCallable")

-----------------------------------------------------------------------------
(* Expressions.                                                            *)
KeyName(d, k, env) == IF k.a = "ident" THEN String(k.n) ELSE Ev(d - 1, k.e, env)
\* The value at a path: missing is what a missing attribute gives.
Walk(d, v, path, env, missing) ==
    FoldLeft(LAMBDA acc, k :
        LET n == KeyName(d, k, env) IN
        CASE acc.t = "missing" \/ Bad(acc) -> acc
          [] acc.t # "missing" /\ ~Bad(acc) /\ Bad(n) -> n
          [] OTHER -> IF n.t # "string" THEN TypeError
                      ELSE IF acc.t # "set" THEN (IF missing THEN [t |-> "missing", v |-> 0] ELSE TypeError)
                      ELSE IF n.v \in DOMAIN acc.v THEN Forced(d, acc.v[n.v])
                      ELSE IF missing THEN [t |-> "missing", v |-> 0] ELSE Error("AttributeNotFound"), v, path)
\* Whether v is a set with the attribute n, which is not forced.
Present(v, n) == CASE Bad(v) -> v
                   [] ~Bad(v) /\ Bad(n) -> n
                   [] OTHER -> IF n.t # "string" THEN TypeError
                               ELSE IF v.t = "set" THEN Bool(n.v \in DOMAIN v.v) ELSE Bool(FALSE)
Truth(v, then) == IF Bad(v) THEN v ELSE IF v.t # "bool" THEN TypeError ELSE then
Dynamic(d, s, env) ==
    LET bs == SelectSeq(s.entries, LAMBDA b : ~IsStatic(b))
    IN  [i \in DOMAIN bs |-> <<Ev(d - 1, bs[i].path[1].e, env),
                               IF Len(bs[i].path) = 1 THEN bs[i].v
                               ELSE Set(<<>>, <<Bind(Tail(bs[i].path), bs[i].v)>>)>>]
KeyOf(v) == IF Bad(v) \/ v.t \in {"string", "null"} THEN v ELSE TypeError
\* The fields fs and the dynamic ones, those with a key that is not null.
Together(fs, env, in, dyn, keys) ==
    LET live == {i \in DOMAIN keys : keys[i].t = "string"}
    IN  IF \E i \in live : keys[i].v \in DOMAIN fs \/ \E j \in live \ {i} : keys[j].v = keys[i].v
        THEN Error("DuplicateAttrsKey")
        ELSE Attrs([n \in DOMAIN fs |-> Delay(fs[n].e, IF fs[n].outer THEN env ELSE in)]
                   @@ [n \in {keys[i].v : i \in live} |-> Delay(dyn[CHOOSE i \in live : keys[i].v = n][2], in)])
Keyed(fs, env, in, dyn, keys) == Unless(keys, Together(fs, env, in, dyn, keys))
WithDynamic(fs, env, in, dyn) == Keyed(fs, env, in, dyn, [i \in DOMAIN dyn |-> KeyOf(dyn[i][1])])
SetIn(d, s, env, in) == WithDynamic(Fields(s), env, in, Dynamic(d, s, in))
SetOf(d, s, env) == SetIn(d, s, env, Inside(s, env))
Evaluation(d, e, env) ==
    LET Sub(x) == Ev(d - 1, x, env) IN
    IF d <= 0 THEN Error("InfiniteRecursion")
    ELSE CASE e.k = "int"   -> Integer(e.v)
           [] e.k = "chars" -> String(e.v)
           [] e.k = "str"   -> LET ss == [i \in DOMAIN e.parts |-> Str(d, Sub(e.parts[i]), FALSE)]
                               IN  Unless(ss, String(FoldLeft(LAMBDA acc, x : acc \o x.v, "", ss)))
           [] e.k = "ident" -> Lookup(d, e.n, env)
           [] e.k = "unary" -> (IF e.op = "!" THEN Negated(Sub(e.e)) ELSE Ints("-", Integer(0), Sub(e.e)))
           [] e.k = "bin"   ->
                (CASE e.op = "&&" -> Truth(Sub(e.l), IF Sub(e.l).v = TRUE THEN Truth(Sub(e.r), Sub(e.r)) ELSE Sub(e.l))
                   [] e.op = "||" -> Truth(Sub(e.l), IF Sub(e.l).v = TRUE THEN Sub(e.l) ELSE Truth(Sub(e.r), Sub(e.r)))
                   [] e.op = "->" -> Truth(Sub(e.l), IF Sub(e.l).v = TRUE THEN Truth(Sub(e.r), Sub(e.r)) ELSE Bool(TRUE))
                   [] OTHER -> Strict2(e.op, d, Sub(e.l), Sub(e.r)))
           [] e.k = "list"   -> List([i \in DOMAIN e.es |-> Delay(e.es[i], env)])
           [] e.k = "if"     -> Truth(Sub(e.c), IF Sub(e.c).v = TRUE THEN Sub(e.a) ELSE Sub(e.b))
           [] e.k = "assert" -> Truth(Sub(e.c), IF Sub(e.c).v = TRUE THEN Sub(e.b) ELSE Catchable("assertion failed"))
           [] e.k = "with"   -> Ev(d - 1, e.b, Append(env, [s |-> "with", b |-> Delay(e.ns, env)]))
           [] e.k = "apply"  -> Apply(d - 1, Delay(e.f, env), Delay(e.x, env))
           [] e.k = "lambda" -> [t |-> "fn", v |-> [p |-> e.p, b |-> e.b, env |-> env]]
           [] e.k = "select" -> LET v == Walk(d, Sub(e.e), e.path, env, e.or # Absent)
                                IN  IF v.t = "missing" THEN Sub(e.or) ELSE v
           [] e.k = "has"    -> Present(Walk(d, Sub(e.e), Front(e.path), env, TRUE), KeyName(d, Last(e.path), env))
           [] e.k = "attrs"  -> SetOf(d, e, env)
           [] e.k = "let"    -> Ev(d - 1, e.b, Inside(e, env))
           [] OTHER          -> Walk(d, SetOf(d, e, env), <<Key("body")>>, env, FALSE)

Judge(j, d, x, y) ==
    CASE j = "eval"  -> Evaluation(d, x, y)
      [] j = "force" -> Delayed(d, x)
      [] j = "apply" -> Application(d, x, y)
      [] j = "equal" -> Equality(d, x, y)
      [] j = "less"  -> Ordering(d, x, y)
      [] OTHER       -> Conversion(d, x, y)

-----------------------------------------------------------------------------
(* The programs rejected before they run: a name that no scope, global or  *)
(* with can give, or a field defined twice.                                *)
Twice(s) ==
    \E n \in Heads(s) :
        LET bs == SelectSeq(s.entries, LAMBDA b : IsStatic(b) /\ b.path[1].n = n)
        IN  Len(bs) > 1 /\ \E i \in DOMAIN bs : Len(bs[i].path) = 1 /\ bs[i].v.k # "attrs"
Keys(path) == LET ks == SelectSeq(path, LAMBDA k : k.a = "dyn") IN [i \in DOMAIN ks |-> ks[i].e]
RECURSIVE Rejected(_, _, _)
Rejected(e, bound, dyn) ==
    LET AnyOf(es, b) == \E i \in DOMAIN es : Rejected(es[i], b, dyn)
        Sets(b) == LET fs == Fields(e)
                       in == IF e.kind = "Attrs" THEN b ELSE b \union DOMAIN fs
                       dyns == SelectSeq(e.entries, LAMBDA x : ~IsStatic(x))
                   IN  \/ Twice(e) \/ (dyns # <<>> /\ e.kind = "LetIn")
                       \/ \E n \in DOMAIN fs : Rejected(fs[n].e, IF fs[n].outer THEN b ELSE in, dyn)
                       \/ \E i \in DOMAIN dyns : AnyOf(<<dyns[i].v>> \o Keys(dyns[i].path), in)
    IN  CASE e.k \in {"int", "chars", "none"} -> FALSE
          [] e.k = "ident"  -> e.n \notin bound \union DOMAIN Globals /\ ~dyn
          [] e.k = "str"    -> AnyOf(e.parts, bound)
          [] e.k = "unary"  -> AnyOf(<<e.e>>, bound)
          [] e.k = "bin"    -> AnyOf(<<e.l, e.r>>, bound)
          [] e.k = "list"   -> AnyOf(e.es, bound)
          [] e.k = "if"     -> AnyOf(<<e.c, e.a, e.b>>, bound)
          [] e.k = "assert" -> AnyOf(<<e.c, e.b>>, bound)
          [] e.k = "with"   -> AnyOf(<<e.ns>>, bound) \/ Rejected(e.b, bound, TRUE)
          [] e.k = "apply"  -> AnyOf(<<e.f, e.x>>, bound)
          [] e.k = "lambda" /\ e.p.p = "ident" -> AnyOf(<<e.b>>, bound \union {e.p.n})
          [] e.k = "lambda" /\ e.p.p = "pattern" ->
                AnyOf(<<e.b>> \o [i \in DOMAIN e.p.entries |-> e.p.entries[i].d],
                    bound \union {e.p.bind} \union {e.p.entries[i].n : i \in DOMAIN e.p.entries})
          [] e.k = "select" -> AnyOf(<<e.e, e.or>> \o Keys(e.path), bound)
          [] e.k = "has"    -> AnyOf(<<e.e>> \o Keys(e.path), bound)
          [] e.k = "let"    -> Sets(bound) \/ AnyOf(<<e.b>>, bound \union DOMAIN Fields(e))
          [] OTHER          -> Sets(bound)

=============================================================================
