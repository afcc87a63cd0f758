---------------------------- MODULE MCLanguages -----------------------------
(* The evaluator, its strings, and what it makes derivations and builds of,  *)
(* each with instances of its own: one behaviour is a behaviour of the       *)
(* component it starts as, and x1 ... x8 are its variables.                  *)
EXTENDS NixSemantics, SequencesExt, TLC

VARIABLES component, x1, x2, x3, x4, x5, x6, x7, x8
vars == <<component, x1, x2, x3, x4, x5, x6, x7, x8>>

-----------------------------------------------------------------------------
MCGlobals ==
    [n \in {"true", "false", "null", "builtins", "throw", "map", "toString", "removeAttrs"} |->
        CASE n = "true" -> Bool(TRUE) [] n = "false" -> Bool(FALSE) [] n = "null" -> Null
          [] n = "builtins" -> Attrs([b \in DOMAIN Arity |-> Builtin(b, <<>>)])
          [] OTHER -> Builtin(n, <<>>)]
MCNameOrder == <<"__functor", "__toString", "a", "b", "body", "c", "d", "f", "key", "name", "operator", "outPath",
                 "right", "startSet", "success", "type", "value", "wrong", "x", "y">>

(* Expressions over a name x, in contexts that bind x in every way there is, *)
(* and programs for each operator and builtin.                               *)
X == Id("x")
Do(f, e) == App(Sel(Id("builtins"), <<Key(f)>>), e)
Do2(f, d, e) == App(Do(f, d), e)
Throw == App(Id("throw"), Text("oops"))

Expressions == <<
    Lit(2),
    X,
    Bin(X, "+", Lit(1)),
    App(Fn("y", Bin(Id("y"), "*", X)), X),
    Set(<<Inherit(<<"x">>)>>, <<Bind(<<Key("a"), Key("b")>>, X), Bind(<<Key("a"), Key("c")>>, Lit(0))>>),
    RecSet(<<>>, <<Def("a", Id("b")), Def("b", X)>>),
    Throw,
    Let(<<Inherit(<<"x">>)>>, <<Def("y", X)>>, Bin(Id("y"), "-", X)),
    If(Bin(X, "==", Lit(1)), Elems(<<X, Elems(<<X>>)>>), Id("null")),
    App(PatFn("all", <<Formal("x", Absent), Formal("y", Bin(X, "+", Lit(1)))>>, FALSE,
              Elems(<<X, Id("y"), Sel(Id("all"), <<Key("x")>>)>>)), Set(<<Inherit(<<"x">>)>>, <<>>)),
    Fn("x", X),
    Id("z"),
    SelOr(Set(<<>>, <<Def("a", X)>>), <<Key("b")>>, X),
    Let(<<>>, <<Def("x", Bin(X, "+", Lit(1)))>>, Lit(0)),
    With(Set(<<Inherit(<<"x">>)>>, <<Def("y", X)>>), Bin(Id("y"), "+", X))>>

Within(i, e) ==
    CASE i = 1  -> e
      [] i = 2  -> Let(<<>>, <<Def("x", Lit(1))>>, e)
      [] i = 3  -> With(Set(<<>>, <<Def("x", Lit(1))>>), e)
      [] i = 4  -> Let(<<>>, <<Def("x", Lit(1)), Def("y", e)>>, Elems(<<Id("y"), Id("y")>>))
      [] i = 5  -> App(Fn("x", e), Bin(Lit(0), "+", Lit(1)))
      [] i = 6  -> App(PatFn("", <<Formal("x", Id("y")), Formal("y", Lit(1))>>, FALSE, e), Set(<<>>, <<>>))
      [] i = 7  -> Sel(RecSet(<<>>, <<Def("y", e), Def("x", Lit(1))>>), <<Key("y")>>)
      [] i = 8  -> Let(<<>>, <<Def("x", Lit(1))>>, With(Set(<<>>, <<Def("x", Lit(5))>>), e))
      [] i = 9  -> With(Set(<<>>, <<Def("x", Lit(5))>>), With(Set(<<>>, <<Def("x", Lit(1))>>),
                        Let(<<>>, <<Def("f", Fn("y", e))>>, App(Id("f"), Lit(3)))))
      [] i = 10 -> Let(<<>>, <<Def("x", Lit(1))>>, Do("tryEval", e))
      [] i = 11 -> Let(<<>>, <<Def("x", Id("y")), Def("y", Lit(1))>>,
                       SelOr(Set(<<>>, <<Bind(<<Key("a"), Key("b")>>, e)>>), <<Key("a"), Key("b")>>, Lit(3)))
      [] i = 12 -> App(App(Id("map"), Fn("x", e)), Elems(<<Lit(1), Bin(Lit(1), "+", Lit(1))>>))
      [] i = 13 -> LegacyLet(<<Def("x", Lit(1)), Def("body", e)>>)
      [] i = 14 -> Let(<<InheritFrom(Set(<<>>, <<Def("x", Lit(1))>>), <<"x">>)>>, <<>>, e)
      [] i = 15 -> Do2("seq", Fn("y", e), Let(<<>>, <<Def("x", Lit(1))>>, Bin(e, "==", e)))
      [] i = 16 -> Let(<<>>, <<Def("f", Fn("x", e))>>, Elems(<<App(Id("f"), Lit(1)), App(Id("f"), Lit(0))>>))
      [] i = 17 -> Do2("seq", Let(<<>>, <<Def("x", Lit(1))>>, e), Lit(4))
      [] OTHER  -> Do2("deepSeq", Let(<<>>, <<Def("x", Lit(1))>>, Elems(<<Lit(1), e>>)), Lit(4))

NE == Len(Expressions)
\* deepSeq of a list with an element that throws is left out: builtins/mod.rs
\* gives its second argument, and the language throws.
Placings == SelectSeq([n \in 1..(18 * NE) |-> <<1 + (n - 1) \div NE, Expressions[1 + ((n - 1) % NE)]>>],
                      LAMBDA p : p # <<18, Throw>>)
Placed == [n \in DOMAIN Placings |-> Within(Placings[n][1], Placings[n][2])]

Odd == Fn("y", Bin(Bin(Id("y"), "-", Bin(Lit(2), "*", Bin(Id("y"), "/", Lit(2)))), "==", Lit(1)))
One == Bin(Lit(0), "+", Lit(1))
L123 == Elems(<<Lit(2), One, Lit(3)>>)
Rec(n, e) == Set(<<>>, <<Def(n, e)>>)
Ops == <<"+", "-", "*", "/", "//", "==", "!=", "<", "<=", ">", ">=", "++", "&&", "||", "->">>
Operands == <<Lit(0), One, Text("s"), Elems(<<Lit(1), One>>), Rec("a", One), Throw, Bin(Lit(1), "==", Lit(2)), Id("null")>>
\* The optimiser replaces expressions of literal booleans.
Booleans == <<Id("true"), Id("false"), Bin(Lit(1), "==", Lit(2))>>
NB == Len(Booleans)
NO == Len(Operands)
Operated == [n \in 1..(Len(Ops) * NO * NO) |->
    Bin(Operands[1 + ((n - 1) % NO)], Ops[1 + (n - 1) \div (NO * NO)], Operands[1 + (((n - 1) \div NO) % NO)])]

Optimised == [n \in 1..(3 * NB * NB) |->
    Bin(Booleans[1 + ((n - 1) % NB)], Ops[13 + (n - 1) \div (NB * NB)], Booleans[1 + (((n - 1) \div NB) % NB)])]

Particular == <<
    \* sets
    Bin(Set(<<>>, <<Def("a", Lit(1)), Def("b", Lit(1))>>), "//", Set(<<>>, <<Def("b", Lit(2)), Def("c", Lit(2))>>)),
    Set(<<>>, <<Def("a", Rec("b", Lit(1))), Bind(<<Key("a"), Key("c")>>, Lit(2))>>),
    Let(<<>>, <<Bind(<<Key("a"), Key("b")>>, Lit(1)), Bind(<<Key("a"), Key("c")>>, Sel(Id("a"), <<Key("b")>>))>>, Id("a")),
    RecSet(<<>>, <<Def("a", RecSet(<<>>, <<Def("b", Id("c"))>>)), Bind(<<Key("a"), Key("c")>>, Lit(2))>>),
    Set(<<>>, <<Def("a", Lit(1)), Bind(<<Key("a"), Key("b")>>, Lit(2))>>),
    Let(<<>>, <<Def("a", Lit(1)), Def("a", Lit(2))>>, Lit(3)),
    Set(<<>>, <<Bind(<<DynKey(Text("x"))>>, Lit(1)), Bind(<<DynKey(Bin(Text("a"), "+", Text("")))>>, Lit(2))>>),
    Set(<<>>, <<Def("a", Lit(1)), Bind(<<DynKey(Bin(Text("a"), "+", Text("")))>>, Lit(2))>>),
    Set(<<>>, <<Bind(<<DynKey(Id("null"))>>, Lit(2))>>),
    Has(Set(<<>>, <<Bind(<<Key("a"), Key("b")>>, Throw)>>), <<Key("a"), Key("b")>>),
    Has(Set(<<>>, <<Def("a", Lit(1))>>), <<Key("a"), Key("b")>>),
    Sel(Rec("a", Lit(1)), <<Key("b")>>),
    Sel(Lit(1), <<Key("b")>>),
    SelOr(Lit(1), <<Key("b")>>, Lit(2)),
    \* recursion and sharing
    Let(<<>>, <<Def("x", X)>>, X),
    Let(<<>>, <<Def("x", Id("y")), Def("y", X)>>, Elems(<<X>>)),
    Let(<<>>, <<Def("f", Fn("x", If(Bin(X, "==", Lit(0)), Lit(0), Bin(Lit(2), "+", App(Id("f"), Bin(X, "-", Lit(1)))))))>>,
        App(Id("f"), Lit(2))),
    Let(<<>>, <<Def("x", Set(<<>>, <<Def("a", Lit(1)), Def("b", Sel(X, <<Key("a")>>))>>))>>, X),
    RecSet(<<>>, <<Def("a", Id("b")), Def("b", Id("c")), Def("c", Lit(1))>>),
    \* functions
    App(Set(<<>>, <<Def("__functor", Fn("x", Fn("y", Bin(Id("y"), "+", Sel(X, <<Key("a")>>))))), Def("a", Lit(5))>>), Lit(2)),
    App(Lit(1), Lit(2)),
    App(PatFn("", <<Formal("a", Absent)>>, FALSE, Id("a")), Set(<<>>, <<>>)),
    App(PatFn("", <<Formal("a", Absent)>>, FALSE, Id("a")), Set(<<>>, <<Def("a", Lit(1)), Def("b", Lit(1))>>)),
    App(PatFn("x", <<Formal("a", Sel(X, <<Key("b")>>))>>, TRUE, Id("a")), Set(<<>>, <<Def("b", Lit(1))>>)),
    App(PatFn("", <<Formal("a", Id("b")), Formal("b", Id("a"))>>, FALSE, Id("a")), Set(<<>>, <<>>)),
    App(PatFn("", <<Formal("a", Id("b")), Formal("b", Id("a"))>>, FALSE, Id("a")), Set(<<>>, <<Def("b", Lit(3))>>)),
    App(PatFn("", <<Formal("a", Lit(1))>>, FALSE, Id("a")), Lit(3)),
    App(PatFn("", <<Formal("a", Lit(1))>>, FALSE, Id("a")), Throw),
    AssertThen(Bin(Lit(1), "==", Lit(2)), Lit(3)),
    AssertThen(Bin(Lit(1), "==", Lit(1)), Lit(3)),
    AssertThen(Lit(3), Lit(3)),
    If(Lit(1), Lit(2), Lit(3)),
    If(Throw, Lit(2), Lit(3)),
    Not(Lit(1)), Not(Id("true")), Neg(Text("a")), Neg(Lit(2)),
    \* with
    Let(<<>>, <<Def("y", With(Rec("b", Lit(1)), X))>>, With(Rec("x", Lit(2)), Bin(Id("y"), "+", Lit(0)))),
    With(Rec("x", Lit(1)), With(Rec("y", X), Elems(<<Id("y"), Fn("a", X)>>))),
    With(Lit(1), X), With(Throw, X), With(Rec("a", Lit(1)), X),
    With(Rec("true", Lit(1)), Id("true")),
    Let(<<>>, <<Def("true", Lit(1))>>, Fn("y", Id("true"))),
    \* strings
    Quote(<<Chars("a"), Text("b"), Chars("c")>>),
    Quote(<<Chars("a"), Lit(1)>>),
    Quote(<<Chars("a"), Throw>>),
    Quote(<<Chars("a"), Rec("outPath", Text("o"))>>),
    Quote(<<Chars("a"), Set(<<>>, <<Def("__toString", Fn("x", Sel(X, <<Key("a")>>))), Def("a", Text("t"))>>)>>),
    Do("toString", Elems(<<Lit(3), Elems(<<One, Id("true")>>), Id("null"), Text("x")>>)),
    \* builtins
    Do2("filter", Odd, L123), Do2("all", Odd, L123), Do2("any", Odd, L123), Do2("partition", Odd, L123),
    Do2("concatMap", Fn("x", Elems(<<X, X>>)), L123),
    Do2("groupBy", Fn("x", If(App(Odd, X), Text("a"), Text("b"))), L123),
    Do("concatLists", Elems(<<L123, Elems(<<>>), L123>>)),
    Do2("sort", Sel(Id("builtins"), <<Key("lessThan")>>), L123),
    Do2("sort", Fn("x", Fn("y", Bin(Sel(X, <<Key("a")>>), "<", Sel(Id("y"), <<Key("a")>>)))),
        Elems(<<Set(<<>>, <<Def("a", Lit(1)), Def("b", Lit(1))>>), Set(<<>>, <<Def("a", Lit(0)), Def("b", Lit(2))>>),
                Set(<<>>, <<Def("a", Lit(1)), Def("b", Lit(3))>>), Set(<<>>, <<Def("a", Lit(0)), Def("b", Lit(4))>>)>>)),
    App(Do2("foldl'", Fn("x", Fn("y", Bin(X, "-", Id("y")))), Lit(2)), L123),
    App(Do2("foldl'", Fn("x", Fn("y", Id("y"))), Throw), L123),
    App(Do2("foldl'", Fn("x", Fn("y", X)), Throw), Elems(<<>>)),
    Do2("elem", Elems(<<One>>), Elems(<<Lit(1), Elems(<<Lit(1)>>)>>)),
    Do2("elem", Lit(5), Elems(<<Lit(1), Throw>>)),
    Do2("elemAt", L123, Lit(1)), Do2("elemAt", L123, Lit(3)), Do("head", Elems(<<>>)), Do("tail", L123), Do("tail", Elems(<<>>)),
    Do("length", L123), Do("length", Lit(1)),
    Do("attrNames", RecSet(<<>>, <<Def("b", Lit(1)), Def("a", Throw)>>)),
    Do2("hasAttr", Text("a"), Rec("a", Throw)), Do2("getAttr", Text("a"), Rec("a", One)), Do2("getAttr", Text("b"), Rec("a", One)),
    Do2("intersectAttrs", Set(<<>>, <<Def("a", Lit(1)), Def("b", Lit(1))>>), Set(<<>>, <<Def("b", Lit(2)), Def("c", Lit(2))>>)),
    Do2("removeAttrs", Set(<<>>, <<Def("a", Lit(1)), Def("b", Lit(1))>>), Elems(<<Text("a"), Text("c")>>)),
    Do2("mapAttrs", Fn("x", Fn("y", Elems(<<X, Id("y")>>))), Set(<<>>, <<Def("a", Lit(1)), Def("b", Throw)>>)),
    Do2("genList", Fn("x", Bin(X, "*", X)), Lit(3)),
    Do("listToAttrs", Elems(<<Set(<<>>, <<Def("name", Text("a")), Def("value", One)>>),
                              Set(<<>>, <<Def("name", Text("a")), Def("value", Throw)>>)>>)),
    Do("listToAttrs", Elems(<<Rec("name", Text("a"))>>)),
    Do("genericClosure", Set(<<>>, <<Def("startSet", Elems(<<Rec("key", Lit(1)), Rec("key", One)>>)),
        Def("operator", Fn("x", Elems(<<Rec("key", Bin(Lit(3), "-", Sel(X, <<Key("key")>>)))>>)))>>)),
    Do2("deepSeq", Elems(<<App(Lit(1), Lit(1))>>), Lit(1)),
    Do2("seq", Throw, Lit(1)), Do("tryEval", Do2("seq", Throw, Lit(1))), Do("tryEval", App(Lit(1), Lit(1))),
    Do("tryEval", Elems(<<Throw>>)), Do("tryEval", AssertThen(Id("false"), Lit(1))),
    Do("typeOf", Odd), Do("isFunction", Id("map")), Do("isString", Text("a")), Do("abort", Text("a")),
    Do2("add", Lit(1), One), Do2("mul", Lit(2), Lit(3)), Do2("div", Neg(Lit(7)), Lit(2)), Do2("sub", Text("a"), Lit(1)),
    Bin(Elems(<<Lit(1), Lit(2)>>), "<", Elems(<<One, Lit(3)>>)),
    Do2("all", Fn("x", X), Elems(<<Id("false"), Lit(1)>>)), Do2("filter", Fn("x", X), Elems(<<Lit(1)>>)),
    Do2("map", Lit(1), Elems(<<Lit(1)>>)), Do2("map", Throw, Elems(<<>>))
>>
MCPrograms == {Placed, Operated, Optimised, Particular}

(* Attribute sets given to derivationStrict; a hole takes a string that was  *)
(* made before, with its context.                                            *)
Given(kind, lit, names) == [kind |-> kind, lit |-> lit, text |-> {}, context |-> {}, names |-> names]
Str_(x)  == Given("string", x, <<>>)
Hole(x)  == Given("hole", x, <<>>)
Kind(k)  == Given(k, "", <<>>)
Outs(s)  == "outputs" :> Given("names", "", s)
Base == ("name" :> Str_("a")) @@ ("builder" :> Str_("sh")) @@ ("system" :> Str_("x"))
Plainly    == ("src" :> Hole("")) @@ Base
Fetched(u) == ("url" :> Str_(u)) @@ ("outputHash" :> Str_("sha256-a")) @@ Base
Fake(more) == more @@ ("url" :> Str_("u")) @@ ("outputHash" :> Str_("sha256-a"))
              @@ ("builder" :> Str_("builtin:fetchurl")) @@ ("system" :> Str_("builtin")) @@ Base
Few == {Plainly, Fetched("u"), Fetched("v")}
Many == Few \union {
    ("args" :> Hole("")) @@ Base, ("builder" :> Hole("sh")) @@ Base,
    ("__structuredAttrs" :> Kind("true")) @@ Plainly, ("__structuredAttrs" :> Kind("false")) @@ Plainly,
    ("__structuredAttrs" :> Kind("true")) @@ Outs(<<"dev", "out">>) @@ Plainly,
    Outs(<<"dev", "out">>) @@ Plainly, Outs(<<"dev">>) @@ Base, Outs(<<>>) @@ Base, Outs(<<"out", "out">>) @@ Base,
    Outs(<<"dev", "out">>) @@ Fetched("u"),
    ("outputHashMode" :> Str_("recursive")) @@ ("src" :> Hole("")) @@ Fetched("u"),
    ("outputHashMode" :> Str_("odd")) @@ Fetched("u"), ("outputHash" :> Str_("bad")) @@ Base,
    ("outputHash" :> Str_("sha1-c")) @@ ("outputHashMode" :> Str_("recursive")) @@ Base,
    ("out" :> Hole("")) @@ Base, ("__json" :> Str_("j")) @@ Base,
    ("src" :> Kind("null")) @@ ("__ignoreNulls" :> Kind("true")) @@ Base, ("src" :> Kind("null")) @@ Base,
    ("src" :> Kind("throw")) @@ Base, ("args" :> Kind("throwing")) @@ Base, ("args" :> Kind("null")) @@ Base,
    ("system" :> Str_("")) @@ Base, ("name" :> Str_("?")) @@ Base, ("name" :> Kind("throw")) @@ Base,
    Fake(<<>>), Fake("outputHashMode" :> Str_("recursive")),
    Fake(("outputHashMode" :> Str_("recursive")) @@ ("executable" :> Str_("1"))),
    Fake("args" :> Hole("")), Fake("system" :> Str_("x")),
    Fake("outputHash" :> Str_("")), Fake("__structuredAttrs" :> Kind("true"))}
Family(calls, kept, most, ds, announced, appended) ==
    [calls |-> calls, kept |-> kept, most |-> most, derivations |-> ds, announced |-> announced, appended |-> appended]
Intact == {{"text", "context"}}
MCFamilies == <<Family(Many, Intact \union {{"text"}}, 1, 2, 1, {}), Family(Few, Intact, 2, 3, 0, {}), Family(Few, Intact, 1, 4, 0, {}),
                Family({Plainly, Fake("args" :> Hole(""))}, Intact, 1, 3, 1, {"plain", "single", "derivation"})>>

(* Servers send a text, tarballs and NARs, as they should be or not.         *)
Body(form, label, packed) == [form |-> form, label |-> label, packed |-> packed]
MCBodies == {Body("text", "a", FALSE), Body("text", "b", FALSE), Body("tar", "a", TRUE),
             Body("tar", "b", FALSE), Body("nar", "a", FALSE), Body("nar", "b", TRUE)}
Fetch(kind, algo, bytes) == [kind |-> kind, exp |-> [algo |-> algo, bytes |-> bytes]]
MCFetches ==
  {Fetch("URL", "none", Body("", "", FALSE)), Fetch("Tarball", "none", Body("", "", FALSE)),
   Fetch("URL", "sha512", Body("text", "a", FALSE)), Fetch("URL", "sha256", Body("nar", "a", FALSE)),
   Fetch("Tarball", "sha256", Body("nar", "a", FALSE)), Fetch("NAR", "sha256", Body("nar", "a", FALSE)),
   Fetch("Executable", "sha256", Body("nar of executable text", "a", FALSE)),
   Fetch("Executable", "sha1", Body("nar of executable nar", "a", FALSE))}

(* Derivations with variables to pass as files, placeholders, several        *)
(* outputs, and structured attributes of every type.                         *)
Held(name) == "placeholder of " \o name
Opt(k, vs) == {<<>>} \cup {k :> v : v \in vs}
MCEnvs == {p @@ q @@ r @@ s :
  p \in Opt("A", {<<"lit">>, <<Held("out")>>}), q \in Opt("APath", {<<"b">>}), r \in Opt("PATH", {<<"bin", Held("dev")>>}),
  s \in Opt("passAsFile", {<<>>, <<"A">>, <<"A", "PATH">>, <<"A", "APath">>, <<"B">>, <<"APath", "A">>})} \cup {"A=B" :> <<"lit">>}
Out(n, p) == [name |-> n, path |-> p]
MCOutputs == {<<Out("out", 3)>>, <<Out("dev", 2), Out("out", 3)>>, <<Out("dev", 3), Out("out", 2)>>}
Json(t, es) == [type |-> t, elements |-> es, text |-> <<"text", Held("out")>>]
MCJson == {[k \in {"A", "B", "A=B"} |->
              IF k = "A" THEN v ELSE IF k = "B" THEN Json("object", <<"simple">>) ELSE Json("list", <<"list">>)] :
  v \in {Json("simple", <<>>), Json("fraction", <<>>), Json("list", <<"simple">>), Json("list", <<"fraction", "list">>),
         Json("object", <<"list">>), Json("list", <<"simple", "list">>)}}
ToBuild(env, outs, json, structured, fixed) ==
  [env |-> env, outputs |-> outs, json |-> json, structured |-> structured, fixed |-> fixed,
   command |-> <<<<"builder">>, <<"-o", Held("out")>>>>, system |-> "x86_64", inputs |-> {1, 5, 9}]
MCDerivations ==
  {ToBuild(e, o, <<>>, FALSE, FALSE) : e \in MCEnvs, o \in MCOutputs}
    \cup {ToBuild(<<>>, o, j, TRUE, f) : o \in MCOutputs, j \in MCJson, f \in BOOLEAN}
MCNix == ("HOME" :> <<"/homeless-shelter">>) @@ ("PATH" :> <<"/path-not-set">>)
MCAlphabet == <<"", "A", "A=B", "APath", "APathPath", "B", "HOME", "NIX_ATTRS_JSON_FILE", "NIX_ATTRS_SH_FILE",
  "PATH", "PATHPath", "build", "build/.attr-A", "build/.attr-APath", "build/.attr-PATH", "build/.attrs.json",
  "build/.attrs.sh", "nix/store", "outputs", "passAsFile">>

(* One build of every layout of the sandbox, or three plain ones.            *)
build == <<"build">>
sub == <<"build", "sub">>
store == <<"nix", "store">>
Sandbox(service, scratches, files, outputs, remote) ==
  [service |-> service, scratch_paths |-> scratches, inputs_dir |-> store, inputs |-> {"in"},
   files |-> files, outputs |-> outputs, remote |-> remote]
Layouts ==
  {Sandbox(s, sc, {f}, o, remote) : s \in {"bwrap", "oci"},
     sc \in {<<build, store>>, <<build, sub, store>>, <<sub, build, store>>, <<store>>, <<build, <<"nix">>>>, <<build, <<"nix">>, store>>},
     f \in {<<"build", "f">>, <<"build", "sub", "f">>, <<"etc", "f">>},
     o \in {<<<<"nix", "store", "o1">>, <<"nix", "store", "o2">>>>, <<<<"nix", "store", "o1">>, <<"build", "sub", "o2">>>>, <<<<"etc", "o1">>>>},
     remote \in BOOLEAN}
Plain(s) == Sandbox(s, <<build, store>>, {}, <<>>, FALSE)
MCJobs == {<<r>> : r \in Layouts} \cup {<<Plain(s), Plain(s), Plain(s)>> : s \in {"bwrap", "oci"}}
MCContents == {[kind |-> "tree", mentions |-> {1}], [kind |-> "tree", mentions |-> {2}], [kind |-> "link", mentions |-> {}]}

(* Strings with and without context.                                         *)
Context(type, name) == [type |-> type, path |-> "drvA", name |-> name]
MCLiterals == <<[text |-> <<"/", "outA">>, context |-> {Context("Single", "out")}],
                [text |-> <<"/", "drvA">>, context |-> {Context("Derivation", "")}],
                [text |-> <<"x">>, context |-> {}]>>
MCFroms == {<< <<>> >>, << <<"/">> >>, << <<>>, <<"/">> >>, << <<"/", "outA">>, <<>> >>}

VM == INSTANCE VM WITH Programs <- MCPrograms, Depth <- 30, program <- x1, c <- x2, vm <- x3
Drvs == INSTANCE Derivations WITH Families <- MCFamilies, Hashes <- {"sha256-a", "sha1-c"},
      derivations <- x1, outputs_to_drvpath <- x2, outputs_to_fetches <- x3, strings <- x4,
      untracked <- x5, family <- x6, outcome <- x7
Fetchers == INSTANCE Fetchers WITH Jobs <- {1, 2}, Fetches <- MCFetches, Names <- {"x"},
      Mirrors <- 2, Bodies <- MCBodies, MaxFetches <- 2, jobs <- x1, blobs <- x2, infos <- x3,
      fetches <- x4
BuildRequests == INSTANCE BuildRequests WITH Alphabet <- MCAlphabet, Derivations <- MCDerivations,
      NixEnvironment <- MCNix, drv <- x1, at <- x2, request <- x3, message <- x4, received <- x5
BuildService == INSTANCE BuildService WITH Jobs <- MCJobs, Contents <- MCContents, Permits <- 2,
      job <- x1, at <- x2, holders <- x3, fuse <- x4, proc <- x5, wrote <- x6, host <- x7,
      result <- x8
NixStrings == INSTANCE NixStrings WITH Literals <- MCLiterals, Froms <- MCFroms,
      INTERN_THRESHOLD <- 2, MaxOps <- 2, MaxLen <- 13, cells <- x1, interner <- x2, env <- x3,
      waived <- x4, replaced <- x5

Is(name) == component = name /\ UNCHANGED component
-----------------------------------------------------------------------------
Init ==
  \/ component = "evaluator" /\ VM!Init /\ x4 = <<>> /\ x5 = <<>> /\ x6 = <<>> /\ x7 = <<>>
       /\ x8 = <<>>
  \/ component = "derivations" /\ Drvs!Init /\ x8 = <<>>
  \/ component = "fetchers" /\ Fetchers!Init /\ x5 = <<>> /\ x6 = <<>> /\ x7 = <<>> /\ x8 = <<>>
  \/ component = "requests" /\ BuildRequests!Init /\ x6 = <<>> /\ x7 = <<>> /\ x8 = <<>>
  \/ component = "service" /\ BuildService!Init
  \/ component = "strings" /\ NixStrings!Init /\ x6 = <<>> /\ x7 = <<>> /\ x8 = <<>>

(* An evaluation makes no more calls; an operation on strings is the last.   *)
Over ==
  /\ \/ component = "derivations"
     \/ component = "strings"
  /\ UNCHANGED vars

Next ==
  \/ Is("evaluator") /\ VM!Next /\ UNCHANGED <<x4, x5, x6, x7, x8>>
  \/ Is("derivations") /\ Drvs!Next /\ UNCHANGED <<x8>>
  \/ Is("fetchers") /\ Fetchers!Next /\ UNCHANGED <<x5, x6, x7, x8>>
  \/ Is("requests") /\ BuildRequests!Next /\ UNCHANGED <<x6, x7, x8>>
  \/ Is("service") /\ BuildService!Next
  \/ Is("strings") /\ NixStrings!Next /\ UNCHANGED <<x6, x7, x8>>
  \/ Over

Spec == Init /\ [][Next]_vars
-----------------------------------------------------------------------------
(* The properties of the components, each explained where it is defined.     *)

(* A program that compiler and VM run evaluates to what the language gives    *)
(* it, without a panic, with the stack as the compiler laid it out and no     *)
(* frame left by a tail call; a closure sees the with scopes around it and    *)
(* no others; and the compiler refuses just the programs it must.             *)
EvaluatesCorrectly ==
  /\ component = "evaluator" => VM!NoPanic /\ VM!RejectsExactly /\ VM!TailCalls /\ VM!WithsStayLocal
       /\ VM!Balanced /\ VM!Correct

(* The inputs of a derivation are known before it and are all it mentions,    *)
(* cached hashes are those of the recursive definition, an output path has    *)
(* one build, and how something is fetched changes nothing built of it. What  *)
(* was fetched has the expected hash, lies at the announced path with the     *)
(* hash of its NAR, and only contents that do not match are reported.         *)
DerivationsSound ==
  /\ component = "derivations" => Drvs!TypeOK /\ Drvs!InputsKnown /\ Drvs!ModuloIsRecursive
       /\ Drvs!SameOutputSameBuild /\ Drvs!FetchIndifferent /\ Drvs!MentionsAreInputs
       /\ Drvs!FetchUnderOutput
  /\ component = "fetchers" => Fetchers!TypeOK /\ Fetchers!ContentsMatch /\ Fetchers!PromiseKept
       /\ Fetchers!NarHashOfNode /\ Fetchers!MismatchIsReal

(* A builder sees the variables of its derivation without placeholders, a     *)
(* remote one is asked for the same build; it sees its inputs and files, its  *)
(* outputs are what it wrote where the request put them, and no more          *)
(* builders run for callers that wait, nor file systems stay mounted, than    *)
(* there are permits, which are given back with the mounts.                   *)
BuildsAsRequested ==
  /\ component = "requests" => BuildRequests!TypeOK /\ BuildRequests!VariablesArrive
       /\ BuildRequests!PlaceholdersResolved /\ BuildRequests!RemoteAsLocal
  /\ component = "service" => BuildService!TypeOK /\ BuildService!OutputsAsWritten
       /\ BuildService!OutputsFound /\ BuildService!FilesVisible /\ BuildService!InputsVisible
       /\ BuildService!BuildersBounded /\ BuildService!NothingLeaks

(* A string's context has all that its text refers to, through                *)
(* interpolation, replacement and taking the context apart and together; and  *)
(* the memory of a string that is dropped or changed is no other string's.    *)
ContextsTracked ==
  /\ component = "strings" => NixStrings!TypeOK /\ NixStrings!UniquelyOwned /\ NixStrings!Tracked
       /\ NixStrings!ContextRoundTrips /\ NixStrings!ReplacesLeftmost

(* A thunk that was evaluated keeps its value.                                *)
ThunksSettle == [][component = "evaluator" => VM!ThunksKept]_vars
=============================================================================
