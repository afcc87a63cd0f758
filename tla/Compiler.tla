------------------------------ MODULE Compiler ------------------------------
(***************************************************************************)
(* The bytecode compiler (eval/src/compiler).                              *)
(*                                                                         *)
(* A state of the compiler is a record c: the contexts, one per nested     *)
(* lambda or thunk (its chunk and its Scope), the lambdas compiled so far, *)
(* the thunks that are constants and so exist before the program runs, the *)
(* depth of dead code, the kinds of the errors emitted, panic, set where   *)
(* an index into a vector is out of its bounds, and todo, the calls that   *)
(* remain to be made.  Each step makes the first of them: it changes the   *)
(* state, or is replaced by the calls of its body, in order.               *)
(* Constants and operands are part of their instruction, a jump holds the  *)
(* index of the instruction it goes to, and spans, names of lambdas,       *)
(* observers and warnings are left out.  Slots (LocalIdx) count from 1.    *)
(***************************************************************************)
EXTENDS NixSemantics

-----------------------------------------------------------------------------
(* scope.rs *)
Scope0 == [locals |-> <<>>, upvalues |-> <<>>, depth |-> 0, withs |-> 0]
LambdaCtx(s) == [code |-> <<>>, scope |-> s, captures |-> FALSE,
                 jumps |-> [l \in {} |-> 0]]

context(c) == Last(c.contexts)
scope(c)   == context(c).scope
local(c, slot) == scope(c).locals[slot]

inherit(s) == [Scope0 EXCEPT !.depth = s.depth + 1, !.withs = s.withs]

InContext(c, ctx) == [c EXCEPT !.contexts[Len(c.contexts)] = ctx]
InScope(c, s)     == [c EXCEPT !.contexts[Len(c.contexts)].scope = s]

begin_scope(c) == InScope(c, [scope(c) EXCEPT !.depth = @ + 1])
push_with(c)   == InScope(c, [scope(c) EXCEPT !.withs = @ + 1])
pop_with(c)    == InScope(c, [scope(c) EXCEPT !.withs = @ - 1])

\* The last local of that name: by_name keeps a stack of indices per name,
\* whose top is the latest declaration that end_scope has not removed.
Declared(s, name) == {i \in DOMAIN s.locals : s.locals[i].name = name}
resolve_local(s, name) ==
    IF Declared(s, name) = {} THEN [pos |-> "Unknown", idx |-> 0]
    ELSE LET i == Max(Declared(s, name))
         IN  [pos |-> IF s.locals[i].initialised THEN "Known" ELSE "Recursive", idx |-> i]

Declare(c, name, initialised) ==
    InScope(c, [scope(c) EXCEPT !.locals = Append(@,
        [name |-> name, depth |-> scope(c).depth, initialised |-> initialised,
         needs_finaliser |-> FALSE, must_thunk |-> FALSE])])
declare_phantom(c, initialised) == Declare(c, "", initialised)
NewSlot(c) == Len(scope(c).locals)

emit_error(c, kind) == [c EXCEPT !.errors = @ \union {kind}]
Panics(c) == [c EXCEPT !.panic = TRUE]

\* Compiler::declare_local: a second local of the name at the same depth is an error.
declare_local(c, name) ==
    LET seen == resolve_local(scope(c), name)
        d    == Declare(c, name, FALSE)
    IN  IF seen.pos # "Unknown" /\ local(c, seen.idx).depth = scope(c).depth
        THEN emit_error(d, "VariableAlreadyDefined") ELSE d

Mark(c, slot, flags) ==
    IF slot \notin DOMAIN scope(c).locals THEN Panics(c)
    ELSE InScope(c, [scope(c) EXCEPT !.locals[slot] = flags @@ @])
mark_initialised(c, slot) == Mark(c, slot, [initialised |-> TRUE])

\* Where the value of a local is on the stack, relative to its frame: the
\* uninitialised locals of outer scopes before it are not there yet.
stack_index(s, idx) ==
    (idx - 1) - Cardinality({i \in 1..(idx - 1) :
                    ~s.locals[i].initialised /\ s.locals[idx].depth > s.locals[i].depth})

\* The locals a scope leaves behind, and how many values it pops.
Kept(s) == Max({0} \union {i \in DOMAIN s.locals : s.locals[i].depth # s.depth})
Popped(s) == Cardinality({i \in (Kept(s) + 1)..Len(s.locals) : s.locals[i].initialised})
end_scope(c) ==
    IF Kept(scope(c)) = 0 THEN Panics(c)
    ELSE InScope(c, [scope(c) EXCEPT !.locals = SubSeq(@, 1, Kept(scope(c))),
                                     !.depth = @ - 1])

-----------------------------------------------------------------------------
(* Emitting code (compiler/mod.rs, chunk.rs).  In dead code nothing is      *)
(* emitted and the index that push_op returns is 0.                        *)
push_op(c, instr) ==
    IF c.dead > 0 THEN c ELSE InContext(c, [context(c) EXCEPT !.code = Append(@, instr)])
CodeIdx(c) == IF c.dead > 0 THEN 0 ELSE Len(context(c).code)

Op(name)      == [op |-> name]
OpOn(name, n) == [op |-> name, n |-> n]
Constant(v)   == [op |-> "Constant", v |-> v]

\* Writing into the chunk at an index panics when the chunk is empty, as a
\* chunk begun inside dead code is; at the index 0 that an instruction in dead
\* code has, it hits the first instructions of the chunk.
Garbled == Op("Garbled")
WriteAt(c, i, instr) ==
    IF context(c).code = <<>> THEN Panics(c)
    ELSE IF i = 0 THEN InContext(c, [context(c) EXCEPT !.code[1] = Garbled])
    ELSE InContext(c, [context(c) EXCEPT !.code[i] = instr])

\* A jump is emitted and its index kept under a label until patch_jump.
push_jump(c, name, label) ==
    LET d == push_op(c, [op |-> name, to |-> 0])
    IN  InContext(d, [context(d) EXCEPT !.jumps = (label :> CodeIdx(d)) @@ @])
patch_jump(c, label) ==
    LET code == context(c).code
        i    == context(c).jumps[label]
    IN  WriteAt(c, i, [code[i] EXCEPT !.to = Len(code) + 1])

cleanup_scope(c) ==
    LET n == Popped(scope(c))
    IN  IF n > 0 THEN push_op(end_scope(c), OpOn("CloseScope", n)) ELSE end_scope(c)

\* Is there a `with' around the current context?  Every context inside it
\* must then carry the stack of withs along.
HasWith(c, i) == c.contexts[i].scope.withs > 0
WithAt(c) == {i \in DOMAIN c.contexts : HasWith(c, i)}
has_dynamic_ancestor(c) ==
    [c EXCEPT !.contexts = [i \in DOMAIN @ |->
        [@[i] EXCEPT !.captures = @ \/ \E j \in WithAt(c) : j < i]]]

\* Static attribute keys: an identifier, or a string without interpolation.
expr_static_attr_str(attr) ==
    IF attr.a = "ident" THEN {attr.n}
    ELSE IF attr.e.k = "str" /\ Len(attr.e.parts) = 1 /\ attr.e.parts[1].k = "chars"
         THEN {attr.e.parts[1].v} ELSE {}

-----------------------------------------------------------------------------
(* Upvalues (bindings.rs).  Both return the new state and the index.       *)
add_upvalue(c, i, kind) ==
    LET ups == c.contexts[i].scope.upvalues
        at  == {j \in DOMAIN ups : ups[j] = kind}
    IN  IF at # {} THEN [c |-> c, idx |-> Min(at)]
        ELSE [c   |-> [c EXCEPT !.contexts[i].scope.upvalues = Append(@, kind)],
              idx |-> Len(ups) + 1]

\* The innermost enclosing context that has the name as a local; every
\* context from there inwards gets an upvalue for it.
Owner(c, name) ==
    Max({0} \union {i \in 1..(Len(c.contexts) - 1) :
                        resolve_local(c.contexts[i].scope, name).pos # "Unknown"})
resolve_upvalue_for_use(c, name) ==
    LET owner == Owner(c, name)
        Inner(acc, i) ==
            add_upvalue(acc.c, i, IF i = owner + 1
                THEN [kind |-> "Local", idx |-> resolve_local(c.contexts[owner].scope, name).idx]
                ELSE [kind |-> "Upvalue", idx |-> acc.idx])
    IN  FoldLeft(Inner, [c |-> c, idx |-> 0],
                 [j \in 1..(Len(c.contexts) - owner) |-> owner + j])

\* The positions a new thunk or closure captures from: a value on the stack,
\* one that will be there when the thunk is finalised, or an upvalue.
Position(s, up) ==
    CASE up.kind = "Upvalue" -> [pos |-> "upvalue", n |-> up.idx]
      [] OTHER -> [pos |-> IF s.locals[up.idx].initialised THEN "stack" ELSE "deferred",
                   n   |-> stack_index(s, up.idx)]
emit_upvalue_data_Unfinalised(c, slot, ups) == c
emit_upvalue_data(c, slot, ups) ==
    LET s     == scope(c)
        Local(up) == up.kind = "Local"
        fin   == \E i \in DOMAIN ups : Local(ups[i]) /\ ~s.locals[ups[i].idx].initialised
        must  == \E i \in DOMAIN ups : /\ Local(ups[i]) /\ ups[i].idx = slot
                                       /\ s.locals[slot].initialised
    IN  Mark(c, slot, [needs_finaliser |-> fin \/ s.locals[slot].needs_finaliser,
                       must_thunk      |-> must \/ s.locals[slot].must_thunk])

-----------------------------------------------------------------------------
(* Binding sets (bindings.rs).  A tracked binding has a key (None for a    *)
(* let, Static, or Dynamic), the slots of key and value, and its content:  *)
(* InheritFrom, Plain, or a Set merged from several nested definitions.    *)
IsAttrs(kind) == kind # "LetIn"

EmptySet(path, e) == [k |-> "set", kind |-> "Attrs", inherits |-> <<>>,
                      entries |-> <<Bind(path, e)>>]
AsSet(e) == [k |-> "set", kind |-> e.kind, inherits |-> e.inherits, entries |-> e.entries]

\* Binding::merge
merge(c, b, path, e) ==
    CASE b.what.k = "inherit_from" -> [c |-> emit_error(c, "UnmergeableInherit"), b |-> b]
      [] b.what.k \notin {"inherit_from", "attrs", "set"} ->
            [c |-> emit_error(c, "UnmergeableValue"), b |-> b]
      [] OTHER ->
            LET set == IF b.what.k = "attrs" THEN AsSet(b.what) ELSE b.what
            IN  IF path # <<>>
                THEN [c |-> c, b |-> [b EXCEPT !.what =
                        [set EXCEPT !.entries = Append(@, Bind(path, e))]]]
                ELSE [c |-> c, b |-> [b EXCEPT !.what =
                        [set EXCEPT !.inherits = @ \o e.inherits, !.entries = @ \o e.entries]]]

\* The binding that try_merge finds for a key, if merging is attempted at all.
MergeInto(bs, key, path, e) ==
    IF path = <<>> /\ e.k # "attrs" THEN {}
    ELSE {i \in DOMAIN bs : bs[i].name # "" /\ bs[i].name \in expr_static_attr_str(key)}

Track(name, keyslot, attr, slot, what) ==
    [name |-> name, keyslot |-> keyslot, attr |-> attr, slot |-> slot, what |-> what]

\* The slot of an attribute's key, when the bindings build a set.
KeySlot(c, kind) == IF IsAttrs(kind) THEN declare_phantom(c, FALSE) ELSE c
ValueSlot(c, kind, name) ==
    IF kind = "Attrs" \/ name = "" THEN declare_phantom(c, FALSE) ELSE declare_local(c, name)

declare_namespaced_inherits(c, kind, froms) ==
    FoldLeft(LAMBDA acc, f :
        LET c1 == KeySlot(acc.c, kind)
            c2 == ValueSlot(c1, kind, f.name)
        IN  [acc EXCEPT !.c = c2,
                        !.bs = Append(@, Track(f.name, NewSlot(c1), Key(f.name), NewSlot(c2),
                                        [k |-> "inherit_from", ns |-> f.from, name |-> f.name]))],
        [c |-> c, bs |-> <<>>], froms)

declare_bindings(c, bs0, kind, entries) ==
    FoldLeft(LAMBDA acc, ent :
        LET key   == Head(ent.path)
            rest  == Tail(ent.path)
            into  == MergeInto(acc.bs, key, rest, ent.v)
            names == expr_static_attr_str(key)
            name  == IF names = {} THEN "" ELSE CHOOSE n \in names : TRUE
            m     == merge(acc.c, acc.bs[Min(into)], rest, ent.v)
            c1    == KeySlot(acc.c, kind)
            c2    == ValueSlot(c1, kind, name)
            what  == IF rest = <<>> THEN ent.v ELSE EmptySet(rest, ent.v)
        IN  IF into # {}
            THEN [acc EXCEPT !.c = m.c, !.bs[Min(into)] = m.b]
            ELSE IF names = {} /\ ~IsAttrs(kind)
            THEN [acc EXCEPT !.c = emit_error(acc.c, "DynamicKeyInScope"), !.count = @ + 1]
            ELSE [acc EXCEPT !.c = c2, !.count = @ + 1,
                    !.bs = Append(@, Track(name, NewSlot(c1), key, NewSlot(c2), what))],
        [c |-> c, bs |-> bs0, count |-> 0], entries)

NamesFrom(inh) == [i \in DOMAIN inh.names |-> [from |-> inh.from, name |-> inh.names[i]]]
InheritFroms(inherits) ==
    FlattenSeq([i \in DOMAIN inherits |->
        IF inherits[i].from.k = "none" THEN <<>> ELSE NamesFrom(inherits[i])])
PlainInherits(inherits) ==
    FlattenSeq([i \in DOMAIN inherits |->
        IF inherits[i].from.k = "none" THEN NamesFrom(inherits[i]) ELSE <<>>])

-----------------------------------------------------------------------------
(* The calls that remain to be made.  Slot 0 is the newest local.          *)
Call(name)           == [do |-> name]
Emit(instr)          == [do |-> "emit", instr |-> instr]
Force                == Emit(Op("Force"))
JumpN(name, l, i)    == [do |-> "jump", op |-> name, label |-> <<l, i>>]
LandN(l, i)          == [do |-> "land", label |-> <<l, i>>]
JumpBy(name, l)      == JumpN(name, l, 0)
Land(l)              == LandN(l, 0)
Compile(slot, e)     == [do |-> "compile", slot |-> slot, e |-> e]
Expr(slot, e)        == [do |-> "expr", slot |-> slot, e |-> e]
DeadCode(slot, e)    == <<Call("dead"), Compile(slot, e), Call("alive")>>
Phantom(initialised) == [do |-> "phantom", initialised |-> initialised]
Initialised(slot)    == [do |-> "initialised", slot |-> slot]
Finalise(slot)       == [do |-> "finalise", slot |-> slot]
Access(slot, name)   == [do |-> "access", slot |-> slot, name |-> name]
Suspend(slot, e)     == [do |-> "thunk", suspended |-> TRUE, slot |-> slot, e |-> e]
Lambda(slot, e)      == [do |-> "thunk", suspended |-> FALSE, slot |-> slot, e |-> e]
EndThunk(t)          == [t EXCEPT !.do = "end_thunk"]

(* optimiser.rs: a boolean operation with a literal operand is replaced by *)
(* one operand; the other, if it is never evaluated, is still compiled.    *)
LitBool(e) == IF e.k = "ident" /\ e.n \in {"true", "false"} THEN e.n ELSE "expr"
is_user_defined(c, name) == resolve_local(scope(c), name).pos # "Unknown"
optimise_bin_op(c, slot, e) ==
    LET l    == LitBool(e.l)
        r    == LitBool(e.r)
        unit == IF e.op = "||" THEN "false" ELSE "true"
        zero == IF e.op = "||" THEN "true" ELSE "false"
    IN  IF is_user_defined(c, "true") \/ is_user_defined(c, "false") THEN <<Expr(slot, e)>>
        ELSE CASE l = unit /\ r = "expr" -> <<Expr(slot, e.r)>>
               [] l = "expr" /\ r = unit -> <<Expr(slot, e.l)>>
               [] l = zero /\ r = "expr" -> DeadCode(slot, e.r) \o <<Expr(slot, e.l)>>
               [] r = zero -> <<Expr(slot, e.r)>>
               [] e.op = "||" /\ l # "expr" /\ r = unit -> <<Expr(slot, e.l)>>
               [] OTHER -> <<Expr(slot, e)>>
optimise_expr(c, slot, e) ==
    IF e.k = "bin" /\ e.op \in {"||", "&&"} THEN optimise_bin_op(c, slot, e)
    ELSE <<Expr(slot, e)>>

\* Compiler::compile: literals, paths, identifiers and plain strings are not suspended.
PlainStr(e) == e.k = "str" /\ Len(e.parts) = 1 /\ e.parts[1].k = "chars"
compile_expr(slot, e) ==
    CASE e.k = "int"   -> <<Emit(Constant(Integer(e.v)))>>
      [] e.k = "path"  -> <<Emit(Constant(Path(e.v)))>>
      [] e.k = "ident" -> <<Access(slot, e.n)>>
      [] PlainStr(e)   -> <<Emit(Constant(String(e.parts[1].v)))>>
      [] OTHER -> <<Suspend(slot, e)>>

compile_identifier_access(c, slot, name) ==
    LET p  == resolve_local(scope(c), name)
        up == resolve_upvalue_for_use(c, name)
        GetLocal == OpOn("GetLocal", stack_index(scope(c), p.idx))
        Then(d, calls) == [d EXCEPT !.todo = calls \o @]
    IN  CASE p.pos = "Known"     -> push_op(c, GetLocal)
          [] p.pos = "Recursive" -> Then(c, <<Suspend(slot, [k |-> "recursive", idx |-> p.idx])>>)
          [] p.pos = "Unknown" /\ Owner(c, name) # 0 -> push_op(up.c, OpOn("GetUpvalue", up.idx))
          [] p.pos = "Unknown" /\ Owner(c, name) = 0 /\ name \in DOMAIN Globals ->
                push_op(c, Constant(Globals[name]))
          [] OTHER -> IF WithAt(c) # {}
                      THEN Then(has_dynamic_ancestor(c), <<Suspend(slot, [k |-> "dynamic", n |-> name])>>)
                      ELSE emit_error(c, "UnknownStaticVariable")

-----------------------------------------------------------------------------
(* The bodies of the thunked kinds of expressions, as calls.               *)
BinOps == [o \in {"+", "-", "*", "/", "//", "==", "<", "<=", ">", ">=", "++"} |->
    CASE o = "+" -> "Add" [] o = "-" -> "Sub" [] o = "*" -> "Mul" [] o = "/" -> "Div"
      [] o = "//" -> "AttrsUpdate" [] o = "==" -> "Equal" [] o = "<" -> "Less"
      [] o = "<=" -> "LessOrEq" [] o = ">" -> "More" [] o = ">=" -> "MoreOrEq"
      [] OTHER -> "Concat"]

\* compile_and, compile_or and compile_implication
compile_logic(s, e) ==
    <<Compile(s, e.l), Force, JumpBy("JumpIfCatchable", "throw")>>
    \o (IF e.op = "->" THEN <<Emit(Op("Invert"))>> ELSE <<>>)
    \o <<JumpBy(IF e.op = "&&" THEN "JumpIfFalse" ELSE "JumpIfTrue", "end"),
         Emit(Op("Pop")), Compile(s, e.r), Force,
         Land("end"), Emit(Op("AssertBool")), Land("throw")>>

compile_binop(s, e) ==
    CASE e.op \in {"&&", "||", "->"} -> compile_logic(s, e)
      [] e.op \in {"|>", "<|"} -> <<[do |-> "error", kind |-> "NotImplemented"]>>
      [] OTHER -> <<Compile(s, e.l), Force, Compile(s, e.r), Force>>
                  \o (IF e.op = "!=" THEN <<Emit(Op("Equal")), Emit(Op("Invert"))>>
                      ELSE <<Emit(Op(BinOps[e.op]))>>)

\* Parts are compiled last to first, so that they are popped in order.
Coerce == Emit([op |-> "CoerceToString", strong |-> FALSE, import_paths |-> TRUE])
compile_str_parts(s, parts) ==
    FlattenSeq([i \in DOMAIN parts |->
        LET p == parts[Len(parts) + 1 - i]
        IN  IF p.k = "chars" THEN <<Emit(Constant(String(p.v)))>> ELSE <<Compile(s, p), Coerce>>])
    \o (IF Len(parts) = 1 THEN <<>> ELSE <<Emit(OpOn("Interpolate", Len(parts)))>>)

compile_list(s, es) ==
    <<Call("begin_scope")>>
    \o FlattenSeq([i \in DOMAIN es |->
            IF i = 1 THEN <<Compile(s, es[1]), Initialised(s)>>
            ELSE <<Phantom(FALSE), Compile(0, es[i]), Initialised(0)>>])
    \o <<Emit(OpOn("List", Len(es))), Call("end_scope")>>

compile_attr(s, attr) ==
    IF attr.a = "ident" THEN <<Emit(Constant(String(attr.n)))>> ELSE <<Compile(s, attr.e), Force>>

compile_has_attr(s, e) ==
    <<Compile(s, e.e), Force>>
    \o FlattenSeq([i \in DOMAIN e.path |->
            (IF i > 1 THEN <<Emit(Op("AttrsTrySelect")), Force>> ELSE <<>>)
            \o compile_attr(s, e.path[i])])
    \o <<Emit(Op("HasAttr"))>>

\* compile_select once its set is compiled.  A selection of one static name
\* from a constant set (builtins.x) is made at once.
optimise_select(c, path) ==
    LET code == context(c).code
        set  == Last(code).v.v
        from == IF /\ code # <<>> /\ Len(path) = 1
                THEN {n \in expr_static_attr_str(path[1]) :
                        /\ Last(code).op = "Constant" /\ Last(code).v.t = "set"
                        /\ n \in DOMAIN set}
                ELSE {}
    IN  {WriteAt(c, Len(code), Constant(set[n])) : n \in from}
compile_select_or(s, e) ==
    FlattenSeq([i \in DOMAIN e.path |->
        <<Force>> \o compile_attr(s, e.path[i])
        \o <<Emit(Op("AttrsTrySelect")), JumpN("JumpIfNotFound", "missing", i)>>])
    \o <<JumpBy("Jump", "final")>> \o [i \in DOMAIN e.path |-> LandN("missing", i)]
    \o <<Compile(s, e.or), Land("final")>>
compile_select(c, s, e) ==
    LET now == optimise_select(c, e.path)
        Fragment(i) == <<Force>> \o compile_attr(s, e.path[i]) \o <<Emit(Op("AttrsSelect"))>>
        calls == IF e.or.k # "none" THEN compile_select_or(s, e)
                 ELSE FlattenSeq([i \in DOMAIN e.path |-> Fragment(i)])
    IN  IF now # {} THEN CHOOSE d \in now : TRUE ELSE [c EXCEPT !.todo = calls \o @]

\* compile_if_else and compile_assert: an assert has no second body.
compile_branch(s, cond, then, else) ==
    <<Compile(s, cond), Force, JumpBy("JumpIfCatchable", "throw"), JumpBy("JumpIfFalse", "then"),
      Emit(Op("Pop")), Compile(s, then), JumpBy("Jump", "else"),
      Land("then"), Emit(Op("Pop")),
      IF else.k = "none" THEN Emit(Op("AssertFail")) ELSE Compile(s, else),
      Land("else"), Land("throw")>>

compile_apply(s, e) == <<Compile(s, e.x), Compile(s, e.f), Force, Emit(Op("Call"))>>

compile_with(s, e) ==
    <<Call("begin_scope"), Compile(s, e.ns), Phantom(TRUE), Call("push_with"), Compile(s, e.b),
      Emit(Op("PopWith")), Call("pop_with"), Call("cleanup_scope")>>

\* Plain inherits come first; then every binding is declared before any is bound.
compile_plain_inherits(slot, kind, names) ==
    FlattenSeq([i \in DOMAIN names |->
        IF kind = "LetIn" THEN <<[do |-> "let_inherit", slot |-> slot, name |-> names[i].name]>>
        ELSE <<Emit(Constant(String(names[i].name))), Phantom(TRUE), Access(slot, names[i].name),
               IF kind = "Attrs" THEN Phantom(FALSE) ELSE [do |-> "local", name |-> names[i].name],
               Initialised(0)>>])
compile_bindings(slot, node) ==
    <<Call("begin_scope")>>
    \o compile_plain_inherits(slot, node.kind, PlainInherits(node.inherits))
    \o <<[do |-> "declare", node |-> node]>>

bind_value(b, kind) ==
    (CASE kind = "LetIn" -> <<>>
       [] kind # "LetIn" /\ b.name # "" ->
            <<Emit(Constant(String(b.name))), Initialised(b.keyslot)>>
       [] OTHER -> Append(compile_attr(b.keyslot, b.attr), Initialised(b.keyslot)))
    \o <<CASE b.what.k = "set" -> Suspend(b.slot, [k |-> "nested", set |-> b.what, slot |-> b.slot])
           [] b.what.k = "inherit_from" -> Suspend(b.slot, b.what)
           [] OTHER -> Compile(b.slot, b.what),
         Initialised(b.slot)>>
bind_values(bs, kind) ==
    FlattenSeq([i \in DOMAIN bs |-> bind_value(bs[i], kind)])
    \o [i \in DOMAIN bs |-> Finalise(bs[i].slot)]
Declarations(c, node) ==
    LET froms == declare_namespaced_inherits(c, node.kind, InheritFroms(node.inherits))
        decl  == declare_bindings(froms.c, froms.bs, node.kind, node.entries)
        count == Len(PlainInherits(node.inherits)) + Len(froms.bs) + decl.count
        build == CASE ~IsAttrs(node.kind) -> <<>>
                   [] IsAttrs(node.kind) /\ count = 0 -> <<Emit(Constant(Attrs(NoAttrs)))>>
                   [] OTHER -> <<Emit(OpOn("Attrs", count))>>
    IN  [decl.c EXCEPT !.todo = bind_values(decl.bs, node.kind) \o build \o @]

\* compile_param_pattern: the formals are declared, then bound in order, then
\* the defaults that refer to later formals are finalised, if they were used.
compile_param_pattern(p) ==
    (IF p.bind = "" THEN <<Phantom(TRUE)>> ELSE <<[do |-> "local", name |-> p.bind], Initialised(0)>>)
    \o <<Force, JumpBy("JumpIfCatchable", "throw"), Emit(Op("AssertAttrs"))>>
    \o (IF p.ellipsis THEN <<>> ELSE <<Emit(Op("ValidateClosedFormals"))>>)
    \o <<[do |-> "formals", entries |-> p.entries]>>
bind_formal(set, x, i) ==
    <<Emit(OpOn("GetLocal", set)), Emit(Constant(String(x.f.n)))>>
    \o (IF x.f.d.k = "none" THEN <<Emit(Op("AttrsSelect")), Initialised(x.idx)>>
        ELSE <<Emit(Op("AttrsTrySelect")), JumpN("JumpIfNotFound", "default", i),
               Emit(Constant(FinaliseRequest(FALSE))), JumpN("Jump", "over", i),
               LandN("default", i), Compile(x.idx, x.f.d),
               Emit(Constant(FinaliseRequest(TRUE))), LandN("over", i),
               Initialised(x.idx), Initialised(x.req)>>)
Formals(c, entries) ==
    LET Declare1(acc, f) ==
            LET d == declare_local(acc.c, f.n)
                g == IF f.d.k = "none" THEN d ELSE declare_phantom(d, FALSE)
            IN  [c |-> g, xs |-> Append(acc.xs, [f |-> f, idx |-> NewSlot(d), req |-> NewSlot(g)])]
        decl == FoldLeft(Declare1, [c |-> c, xs |-> <<>>], entries)
        set  == stack_index(scope(decl.c), NewSlot(c))
    IN  [decl.c EXCEPT !.todo =
            FlattenSeq([i \in DOMAIN decl.xs |-> bind_formal(set, decl.xs[i], i)])
            \o [i \in DOMAIN decl.xs |-> [do |-> "final_formal", x |-> decl.xs[i]]] \o @]
final_formal(c, x) ==
    LET s == scope(c)
    IN  CASE ~s.locals[x.idx].needs_finaliser -> c
          [] s.locals[x.idx].needs_finaliser /\ x.f.d.k = "none" -> Panics(c)
          [] OTHER -> [c EXCEPT !.todo =
                <<Emit(OpOn("GetLocal", stack_index(s, x.req))),
                  JumpN("JumpIfNoFinaliseRequest", "final", x.idx),
                  Emit(OpOn("Finalise", stack_index(s, x.idx))),
                  LandN("final", x.idx), Emit(Op("Pop"))>> \o @]

-----------------------------------------------------------------------------
\* The content of a thunk or lambda, by the kind of its expression.
Content(s, e) ==
    CASE e.k = "unary"  -> <<Compile(s, e.e), Force, Emit(Op(IF e.op = "!" THEN "Invert" ELSE "Negate"))>>
      [] e.k = "bin"    -> compile_binop(s, e)
      [] e.k = "str"    -> compile_str_parts(s, e.parts)
      [] e.k = "search" -> <<Emit(Constant(UnresolvedPath(e.v))), Emit(Op("FindFile"))>>
      [] e.k = "list"   -> compile_list(s, e.es)
      [] e.k = "has"    -> compile_has_attr(s, e)
      [] e.k = "select" -> <<Compile(s, e.e), [do |-> "select", e |-> e, slot |-> s]>>
      [] e.k = "assert" -> compile_branch(s, e.c, e.b, Absent)
      [] e.k = "if"     -> compile_branch(s, e.c, e.a, e.b)
      [] e.k = "with"   -> compile_with(s, e)
      [] e.k = "apply"  -> compile_apply(s, e)
      [] e.k = "attrs"  -> <<Call("begin_scope")>> \o compile_bindings(s, e) \o <<Call("end_scope")>>
      [] e.k = "nested" -> <<Call("begin_scope")>> \o compile_bindings(e.slot, e.set)
                           \o <<Call("end_scope")>>
      [] e.k = "let"    -> compile_bindings(s, e) \o <<Compile(s, e.b), Call("cleanup_scope")>>
      [] e.k = "legacy" -> <<Call("begin_scope")>> \o compile_bindings(s, e)
                           \o <<Call("end_scope"), Emit(Constant(String("body"))), Emit(Op("AttrsSelect"))>>
      [] e.k = "lambda" -> <<Lambda(s, [e EXCEPT !.k = "fn"])>>
      [] e.k = "fn"     -> (IF e.p.p = "ident" THEN <<[do |-> "local", name |-> e.p.n], Initialised(0)>>
                            ELSE compile_param_pattern(e.p))
                           \o <<Compile(s, e.b)>>
      [] e.k = "inherit_from" ->
            <<Compile(s, e.ns), Force, Emit(Constant(String(e.name))), Emit(Op("AttrsSelect"))>>
      [] e.k = "dynamic" ->
            <<Call("captures"), Emit(Constant(String(e.n))), Emit(Op("ResolveWith"))>>
      [] e.k = "recursive" -> <<[do |-> "upvalue", idx |-> e.idx]>>

HasPattern(e) == e.k = "fn" /\ e.p.p = "pattern"
\* The formals of a lambda, and whether each has a default.
FormalsOf(e) ==
    IF ~HasPattern(e) THEN NoAttrs
    ELSE LET ents == e.p.entries
         IN  [n \in {ents[i].n : i \in DOMAIN ents} |->
                \E i \in DOMAIN ents : ents[i].n = n /\ ents[i].d.k # "none"]

\* compile_lambda_or_thunk, up to its content ...
begin_thunk(c, t) ==
    LET named == IF t.slot \in DOMAIN scope(c).locals THEN c ELSE Panics(c)
        inner == begin_scope(declare_phantom(
                    [named EXCEPT !.contexts = Append(@, LambdaCtx(inherit(scope(c))))], FALSE))
    IN  [inner EXCEPT !.todo = Content(1, t.e) \o <<Call("cleanup_scope")>>
            \o (IF HasPattern(t.e) THEN <<Land("throw")>> ELSE <<>>) \o <<EndThunk(t)>> \o @]

\* ... and from its content on: without upvalues it is a constant.
end_thunk(c, t) ==
    LET done == context(c)
        id   == Len(c.lambdas) + 1
        out  == [c EXCEPT !.contexts = Front(@),
                          !.lambdas = Append(@, [code |-> Append(done.code, Op("Return")),
                                      formals |-> FormalsOf(t.e)])]
        ups  == done.scope.upvalues
        make == [op |-> IF t.suspended THEN "ThunkSuspended" ELSE "ThunkClosure", l |-> id,
                 ups |-> [i \in DOMAIN ups |-> Position(scope(out), ups[i])],
                 withs |-> done.captures]
        emit == emit_upvalue_data(push_op(out, make), t.slot, ups)
    IN  CASE ups = <<>> /\ ~done.captures /\ t.suspended ->
                push_op([out EXCEPT !.thunks = Append(@, id)], Constant(Thunk(Len(out.thunks) + 1)))
          [] ups = <<>> /\ ~done.captures /\ ~t.suspended ->
                push_op(out, Constant(ClosureOf(id, <<>>, <<>>)))
          [] OTHER ->
                IF t.suspended \/ local(emit, t.slot).needs_finaliser THEN emit
                ELSE IF local(emit, t.slot).must_thunk
                THEN push_op(emit, OpOn("Finalise", stack_index(scope(emit), t.slot)))
                ELSE WriteAt(emit, CodeIdx(emit), [make EXCEPT !.op = "Closure"])

\* The first remaining call is made.  Slot 0 is the newest local.
Slot(c, slot) == IF slot = 0 THEN NewSlot(c) ELSE slot
Step(c0) ==
    LET t == Head(c0.todo)
        c == [c0 EXCEPT !.todo = Tail(@)]
        Then(calls) == [c EXCEPT !.todo = calls \o @]
    IN  CASE t.do = "emit"        -> push_op(c, t.instr)
          [] t.do = "jump"        -> push_jump(c, t.op, t.label)
          [] t.do = "land"        -> patch_jump(c, t.label)
          [] t.do = "dead"        -> [c EXCEPT !.dead = @ + 1]
          [] t.do = "alive"       -> [c EXCEPT !.dead = @ - 1]
          [] t.do = "error"       -> emit_error(c, t.kind)
          [] t.do = "begin_scope" -> begin_scope(c)
          [] t.do = "end_scope"   -> end_scope(c)
          [] t.do = "cleanup_scope" -> cleanup_scope(c)
          [] t.do = "push_with"   ->
                push_op(push_with(c), OpOn("PushWith", stack_index(scope(c), NewSlot(c))))
          [] t.do = "pop_with"    -> pop_with(c)
          [] t.do = "captures"    -> InContext(c, [context(c) EXCEPT !.captures = TRUE])
          [] t.do = "phantom"     -> declare_phantom(c, t.initialised)
          [] t.do = "local"       -> declare_local(c, t.name)
          [] t.do = "initialised" -> mark_initialised(c, Slot(c, t.slot))
          [] t.do = "finalise"    ->
                IF local(c, t.slot).needs_finaliser
                THEN push_op(c, OpOn("Finalise", stack_index(scope(c), t.slot))) ELSE c
          [] t.do = "compile"     -> Then(optimise_expr(c, Slot(c, t.slot), t.e))
          [] t.do = "expr"        -> Then(compile_expr(t.slot, t.e))
          [] t.do = "access"      -> compile_identifier_access(c, t.slot, t.name)
          [] t.do = "let_inherit" ->
                IF WithAt(c) = {} \/ resolve_local(scope(c), t.name).pos = "Known" THEN c
                ELSE [has_dynamic_ancestor(c) EXCEPT !.todo =
                        <<Access(t.slot, t.name), [do |-> "local", name |-> t.name], Initialised(0)>> \o @]
          [] t.do = "declare"     -> Declarations(c, t.node)
          [] t.do = "formals"     -> Formals(c, t.entries)
          [] t.do = "final_formal" -> final_formal(c, t.x)
          [] t.do = "select"      -> compile_select(c, t.slot, t.e)
          [] t.do = "upvalue"     ->
                LET up == add_upvalue(c, Len(c.contexts), [kind |-> "Local", idx |-> t.idx])
                IN  push_op(up.c, OpOn("GetUpvalue", up.idx))
          [] t.do = "thunk"       -> begin_thunk(c, t)
          [] t.do = "end_thunk"   -> end_thunk(c, t)

\* compile: the top-level chunk forces its value and returns it.
Start(e) ==
    [contexts |-> <<LambdaCtx(Scope0)>>, lambdas |-> <<>>, thunks |-> <<>>, dead |-> 0,
     errors |-> {}, panic |-> FALSE,
     todo |-> <<Phantom(FALSE), Compile(1, e), Force, Emit(Op("Return"))>>]
Finished(c) == c.todo = <<>> \/ c.panic
=============================================================================
