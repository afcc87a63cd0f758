--------------------------------- MODULE VM ---------------------------------
(***************************************************************************)
(* The bytecode interpreter (eval/src/vm/mod.rs): VM::execute takes the    *)
(* top frame and runs it, one instruction or one stretch of a generator    *)
(* between two requests at a time.  A program is compiled first, call by   *)
(* call of the compiler, then run in strict mode.                          *)
(*                                                                         *)
(* The state of the VM (eval/src/vm), its frames and requests, and the     *)
(* forcing of thunks (eval/src/value/thunk.rs).                            *)
(*                                                                         *)
(* A machine m has the stack of frames, the stack of values, the stack of  *)
(* `with' positions, the heap of thunks, and the outcome, "" while it      *)
(* runs.  A frame is bytecode, with its lambda, upvalues, instruction      *)
(* pointer and stack offset, or a generator: an async function suspended   *)
(* at pc, which holds the values v and other locals x.  An async function  *)
(* that awaits another is a generator frame below the other's, whatever    *)
(* the Rust code calls inline.  Heap cells are not taken away: one whose   *)
(* contents are moved out becomes "moved", and Living tells those that     *)
(* have not been dropped.                                                  *)
(***************************************************************************)
EXTENDS Compiler

-----------------------------------------------------------------------------
(* The machine. *)
NotYet  == [t |-> "running", v |-> 0]
Err(kind) == [t |-> "error", v |-> kind]
Panicked(why) == [t |-> "panic", v |-> why]

Raise(m, kind) == [m EXCEPT !.out = Err(kind)]
Bug(m, why)    == [m EXCEPT !.out = Panicked(why)]

IsThunk(v)     == v.t = "thunk"
IsCatchable(v) == v.t = "catchable"

Push(m, v)      == [m EXCEPT !.stack = Append(@, v)]
PushAll(m, vs)  == [m EXCEPT !.stack = @ \o vs]
Drop(m, n)      == [m EXCEPT !.stack = SubSeq(@, 1, Len(@) - n)]
Peek(m)         == Last(m.stack)
PushFrame(m, f) == [m EXCEPT !.frames = Append(@, f)]
SetCell(m, i, cell) == [m EXCEPT !.heap[i] = cell]

\* Thunk::new_suspended, new_closure and the results of forcing.
Suspended(l, ups, withs) == [s |-> "suspended", l |-> l, up |-> ups, withs |-> withs]
Evaluated(v) == [s |-> "evaluated", v |-> v]
Blackhole    == [s |-> "blackhole"]
Moved        == [s |-> "moved"]

\* Thunk::new_suspended_call: lambda 0 calls its second constant with its first.
CallCode == <<OpOn("GetUpvalue", 1), OpOn("GetUpvalue", 2), Op("Force"), Op("Call"), Op("Return")>>
SuspendedCall(f, x) == Suspended(0, <<x, f>>, <<>>)

is_forced(cell) == cell.s = "evaluated" /\ ~IsThunk(cell.v)

\* The casts to_attrs, to_list, as_bool ... look through an evaluated thunk;
\* on any other thunk, Thunk::value panics.
RECURSIVE Cast(_, _, _)
Cast(m, v, type) ==
    IF IsThunk(v)
    THEN IF m.heap[v.v].s = "evaluated" THEN Cast(m, m.heap[v.v].v, type)
         ELSE Panicked("value of an unforced thunk")
    ELSE IF v.t = type THEN v ELSE Err("TypeError")
Failed(v) == v.t \in {"error", "panic"}
Fail(m, v) == [m EXCEPT !.out = v]

-----------------------------------------------------------------------------
(* Frames and requests (vm/mod.rs, vm/generators.rs).                      *)
Bytecode(l, up, withs, off) ==
    [f |-> "code", l |-> l, up |-> up, withs |-> withs, ip |-> 1, off |-> off]
Gen(k, v, x) ==
    [f |-> "gen", k |-> k, pc |-> "start", awaits |-> FALSE, v |-> v, x |-> x]

\* The generator g continues at pc: at once, or with the value on the stack
\* when the frames above it are done (reenqueue_generator).
Running(m, g, pc)  == PushFrame(m, [g EXCEPT !.pc = pc, !.awaits = FALSE])
Awaiting(m, g, pc) == PushFrame(m, [g EXCEPT !.pc = pc, !.awaits = TRUE])
Await(m, g, pc, child) == PushFrame(Awaiting(m, g, pc), child)

ForceOf(v) == Gen("force", <<v>>, 0)
\* request_force: only a thunk is sent to the VM.
request_force(m, g, pc, v) ==
    IF IsThunk(v) THEN Await(m, g, pc, ForceOf(v)) ELSE Push(Awaiting(m, g, pc), v)

\* request_call_with: the arguments are pushed last to first, then the
\* callable is forced and called once for each.  request_call finds its
\* argument on the stack.
CallOf(f, args, n) == Gen("call_with", <<f>> \o args, n)
request_call_with(m, g, pc, f, args) == Await(m, g, pc, CallOf(f, args, Len(args)))
request_call(m, g, pc, f) == Await(m, g, pc, CallOf(f, <<>>, 1))

\* request_string_coerce: a string needs no request.
CoerceOf(v, kind) == Gen("coerce_to_string", <<v>>,
                         [strong |-> kind.strong, import |-> kind.import, out |-> "", head |-> "none"])
Weak == [strong |-> FALSE, import |-> FALSE]
request_string_coerce(m, g, pc, v, kind) ==
    IF v.t = "string" THEN Push(Awaiting(m, g, pc), v) ELSE Await(m, g, pc, CoerceOf(v, kind))

EqualityOf(a, b) == Gen("nix_eq", <<a, b>>, 0)
DeepForceOf(v)   == Gen("deep_force", <<v, v>>, {})

-----------------------------------------------------------------------------
(* Calls (call_value, call_builtin, call_functor).                         *)
\* Builtin::apply_arg and Builtin::call: until it has all its arguments it is a value.
call_builtin(m, b) ==
    LET args == Append(b.args, Peek(m))
        m1   == Drop(m, 1)
    IN  IF Len(args) < Arity[b.n] THEN Push(m1, Builtin(b.n, args))
        ELSE PushFrame(m1, Gen("builtin", args, [n |-> b.n, i |-> Len(args)]))

\* parent is the calling bytecode frame, if there is one.  A builtin or a
\* catchable does not put it back: what follows a call is its return.
RECURSIVE call_value(_, _, _)
call_value(m, parent, f) ==
    LET below == [m EXCEPT !.frames = @ \o parent]
    IN  CASE f.t = "builtin" -> call_builtin(m, f.v)
          [] f.t = "thunk"   -> IF m.heap[f.v].s = "evaluated"
                                THEN call_value(m, parent, m.heap[f.v].v)
                                ELSE Bug(m, "value of an unforced thunk")
          [] f.t = "lambda"  -> PushFrame(below, Bytecode(f.v.l, f.v.up, f.v.withs, Len(m.stack) - 1))
          [] f.t = "set"     -> PushFrame(below, Gen("call_functor", <<f>>, 0))
          [] f.t = "catchable" -> Push(Drop(m, 1), f)
          [] OTHER -> Raise(m, "NotCallable")

call_with(m, g, v) ==
    CASE g.pc = "start"  -> request_force(PushAll(m, Reverse(Tail(g.v))),
                                          [g EXCEPT !.v = <<@[1]>>], "call", g.v[1])
      [] g.pc = "call"   -> call_value(Awaiting(m, g, "called"), <<>>, v)
      [] g.pc = "called" -> IF g.x = 1 THEN Push(m, v)
                            ELSE request_force(m, [g EXCEPT !.v = <<v>>, !.x = @ - 1], "call", v)

call_functor(m, g, v) ==
    LET set == g.v[1].v
    IN  CASE g.pc = "start" -> IF "__functor" \in DOMAIN set
                               THEN request_force(m, g, "functor", set["__functor"])
                               ELSE Raise(m, "NotCallable")
          [] g.pc = "functor" -> request_call_with(m, g, "primed", v, g.v)
          [] g.pc = "primed"  -> request_call(m, g, "called", v)
          [] g.pc = "called"  -> Push(m, v)

-----------------------------------------------------------------------------
(* Thunk::force_.                                                          *)

\* The thunks a value refers to.
RECURSIVE Refs(_)
Refs(v) ==
    CASE v.t = "thunk"   -> {v.v}
      [] v.t = "list"    -> UNION {Refs(v.v[i]) : i \in DOMAIN v.v}
      [] v.t = "set"     -> UNION {Refs(v.v[n]) : n \in DOMAIN v.v}
      [] v.t = "lambda"  -> UNION {Refs((v.v.up \o v.v.withs)[i]) : i \in 1..Len(v.v.up \o v.v.withs)}
      [] v.t = "builtin" -> UNION {Refs(v.v.args[i]) : i \in DOMAIN v.v.args}
      [] OTHER -> {}
RefsIn(vs) == UNION {Refs(vs[i]) : i \in DOMAIN vs}
CellRefs(cell) ==
    CASE cell.s = "suspended" -> RefsIn(cell.up \o cell.withs)
      [] cell.s = "evaluated" -> Refs(cell.v)
      [] OTHER -> {}
FrameRefs(f) == RefsIn(IF f.f = "code" THEN f.up \o f.withs ELSE f.v)

\* What reference counting keeps: the thunks among the program's constants,
\* what the stack and the frames refer to, and what a thunk that is kept refers
\* to; a cycle that nothing else refers to keeps itself.
Roots(m) == 1..m.constants \union RefsIn(m.stack) \union UNION {FrameRefs(m.frames[j]) : j \in DOMAIN m.frames}
RECURSIVE Living(_, _)
Living(m, cells) ==
    LET kept == {i \in cells : i \in Roots(m) \/ \E j \in cells : i \in CellRefs(m.heap[j])}
    IN  IF kept = cells THEN cells ELSE Living(m, kept)

Shared_UnlessEvaluated(m, i) == m.heap[i].s # "evaluated" /\ i \in Living(m, DOMAIN m.heap)
\* Rc::try_unwrap fails: something else still refers to the thunk.
Shared(m, i) == i \in Living(m, DOMAIN m.heap)

\* The thunk being forced is the last of g.v, the others are also_update.
Update(m, vs, val) ==
    [m EXCEPT !.heap = [i \in DOMAIN @ |->
        IF \E j \in DOMAIN vs : vs[j].v = i THEN Evaluated(val) ELSE @[i]]]
force_(m, g, v) ==
    LET t     == Last(g.v).v
        cell  == m.heap[t]
        held  == SetCell(m, t, Blackhole)
        inner == cell.v.v
    IN  CASE ~IsThunk(Last(g.v)) -> Push(m, Last(g.v))
          [] IsThunk(Last(g.v)) /\ g.pc = "entered" ->
                Running(SetCell(m, t, Evaluated(v)), g, "start")
          [] OTHER ->
             CASE is_forced(cell) -> Push(Update(m, Front(g.v), cell.v), cell.v)
               [] cell.s = "blackhole" -> Raise(m, "InfiniteRecursion")
               [] cell.s = "suspended" ->
                    Await(held, g, "entered", Bytecode(cell.l, cell.up, cell.withs, Len(m.stack)))
               [] cell.s = "evaluated" /\ ~is_forced(cell) ->
                    LET other == PushFrame(held, g) IN
                    IF inner # t /\ ~Shared(other, inner)
                    THEN Running([held EXCEPT !.heap[t] = m.heap[inner], !.heap[inner] = Moved], g, "start")
                    ELSE IF is_forced(held.heap[inner])
                    THEN Running(SetCell(held, t, held.heap[inner]), g, "start")
                    ELSE Running(held, [g EXCEPT !.v = Append(@, cell.v)], "start")
               [] OTHER -> Bug(m, "a thunk that was moved out is forced")

-----------------------------------------------------------------------------
(***************************************************************************)
(* The operations on values that may force thunks or call functions        *)
(* (eval/src/value/mod.rs, vm/mod.rs) and the builtins                     *)
(* (eval/src/builtins/mod.rs).  Each is a generator: an operator of the    *)
(* machine, the generator's frame (already taken off) and the value it     *)
(* awaited, which steps to its next await.  Floats, string contexts,       *)
(* identity of lists and sets, and the bytes of strings are left out.      *)
(***************************************************************************)
Sorted(names)   == SelectSeq(NameOrder, LAMBDA n : n \in names)
SortedValues(f) == [i \in DOMAIN Sorted(DOMAIN f) |-> f[Sorted(DOMAIN f)[i]]]
Done(m, v)      == IF Failed(v) THEN Fail(m, v) ELSE Push(m, v)
\* Two sequences of the same length, as pairs one after the other.
Pairs(s, t)     == [i \in 1..(2 * Len(s)) |-> IF i % 2 = 1 THEN s[(i + 1) \div 2] ELSE t[i \div 2]]

-----------------------------------------------------------------------------
(* Value::deep_force: v holds the value itself and the values to visit,    *)
(* last first; x the thunks already visited.                               *)
deep_force(m, g, v) ==
    LET next  == Last(g.v)
        after == [g EXCEPT !.v = Front(@), !.x = IF IsThunk(next) THEN @ \union {next.v} ELSE @]
    IN  CASE g.pc = "start" ->
                (CASE Len(g.v) = 1 -> Push(m, g.v[1])
                   [] Len(g.v) > 1 /\ IsThunk(next) /\ next.v \in g.x -> Running(m, after, "start")
                   [] OTHER -> request_force(m, after, "forced", next))
          [] g.pc = "forced" ->
                (CASE v.t = "list" -> Running(m, [g EXCEPT !.v = @ \o Reverse(v.v)], "start")
                   [] v.t = "set"  -> Running(m, [g EXCEPT !.v = @ \o Reverse(SortedValues(v.v))], "start")
                   [] v.t = "catchable" -> Push(m, v)
                   [] v.t \in {"thunk", "notfound", "deferred", "unresolved", "finalise"} ->
                        Bug(m, "internal value left on stack")
                   [] OTHER -> Running(m, g, "start"))

(* Value::nix_eq: v holds the pairs to compare, last first.  Two sets of   *)
(* the type "derivation" are compared by their outPath.                    *)
Required(set, n) == IF n \in DOMAIN set THEN set[n] ELSE Err("AttributeNotFound")
IsDrv(v) == v.t = "string" /\ v.v = "derivation"
EqualAttrs(m, g, a, b) ==
    LET ks == [i \in DOMAIN Sorted(DOMAIN a) |-> String(Sorted(DOMAIN a)[i])]
        js == [i \in DOMAIN Sorted(DOMAIN b) |-> String(Sorted(DOMAIN b)[i])]
        bs == Pairs(Reverse(SortedValues(a)), Reverse(SortedValues(b)))
        ns == Pairs(Reverse(ks), Reverse(js))
    IN  IF Cardinality(DOMAIN a) # Cardinality(DOMAIN b) THEN Push(m, Bool(FALSE))
        ELSE Running(m, [g EXCEPT !.v = @ \o FlattenSeq([i \in DOMAIN ks |->
                    <<bs[2 * i - 1], bs[2 * i], ns[2 * i - 1], ns[2 * i]>>])], "start")
EqualValues(m, g, a, b) ==
    CASE IsCatchable(a) -> Push(m, a)
      [] ~IsCatchable(a) /\ IsCatchable(b) -> Push(m, b)
      [] ~IsCatchable(a) /\ ~IsCatchable(b) /\ a.t # b.t -> Push(m, Bool(FALSE))
      [] a.t = b.t /\ a.t \in {"null", "bool", "string", "path", "int"} ->
            IF a.v = b.v THEN Running(m, g, "start") ELSE Push(m, Bool(FALSE))
      [] a.t = "list" /\ b.t = "list" ->
            IF Len(a.v) # Len(b.v) THEN Push(m, Bool(FALSE))
            ELSE Running(m, [g EXCEPT !.v = @ \o Pairs(Reverse(a.v), Reverse(b.v))], "start")
      [] a.t = "set" /\ b.t = "set" ->
            IF {"type"} \subseteq DOMAIN a.v \intersect DOMAIN b.v
            THEN request_force(m, [g EXCEPT !.v = @ \o <<a, b>>], "type1", a.v["type"])
            ELSE EqualAttrs(m, g, a.v, b.v)
      [] OTHER -> Push(m, Bool(FALSE))
nix_eq(m, g, v) ==
    LET n    == Len(g.v)
        rest == [g EXCEPT !.v = Front(@)]
        pop2 == [g EXCEPT !.v = SubSeq(@, 1, n - 2)]
        outs == <<Required(g.v[n - 1].v, "outPath"), Required(g.v[n].v, "outPath")>>
    IN  CASE g.pc = "start" -> IF n = 0 THEN Push(m, Bool(TRUE))
                               ELSE request_force(m, [g EXCEPT !.v = Append(SubSeq(@, 1, n - 2), @[n])],
                                                  "left", g.v[n - 1])
          [] g.pc = "left"  -> request_force(m, [g EXCEPT !.v[n] = v], "right", g.v[n])
          [] g.pc = "right" -> EqualValues(m, rest, g.v[n], v)
          [] g.pc = "type1" -> IF IsCatchable(v) THEN Push(m, v)
                               ELSE request_force(m, [g EXCEPT !.x = IsDrv(v)], "type2", g.v[n].v["type"])
          [] g.pc = "type2" ->
                (CASE IsCatchable(v) -> Push(m, v)
                   [] ~IsCatchable(v) /\ ~(g.x /\ IsDrv(v)) ->
                        EqualAttrs(m, pop2, g.v[n - 1].v, g.v[n].v)
                   [] OTHER -> IF Failed(outs[1]) \/ Failed(outs[2]) THEN Raise(m, "AttributeNotFound")
                               ELSE request_force(m, [g EXCEPT !.v = pop2.v \o outs], "out1", outs[1]))
          [] g.pc = "out1" -> request_force(m, [g EXCEPT !.v[n - 1] = v], "out2", g.v[n])
          [] g.pc = "out2" ->
                LET o == g.v[n - 1] IN
                CASE IsCatchable(o) -> Push(m, o)
                  [] ~IsCatchable(o) /\ IsCatchable(v) -> Push(m, v)
                  [] OTHER -> IF ~(o.t = "string" /\ v.t = "string") THEN Raise(m, "TypeError")
                              ELSE IF o.v = v.v THEN Running(m, pop2, "start") ELSE Push(m, Bool(FALSE))

(* cmp_op and Value::nix_cmp_ordering: x.deep tells, for each pair, whether *)
(* it is compared for equality and forced first, as elements of lists are.  *)
CompareOf(a, b, op) == Gen("compare", <<a, b>>, [op |-> op, deep |-> <<FALSE>>])
Ordered(m, op, c) ==
    Push(m, Bool(CASE op = "<" -> c < 0 [] op = "<=" -> c <= 0 [] op = ">" -> c > 0 [] OTHER -> c >= 0))
CompareLists(g, a, b) ==
    LET max == Max({Len(a), Len(b)})
        at(i) == max + 1 - i
        Both(i) == i <= Len(a) /\ i <= Len(b)
        Pair(i) == CASE Both(i) -> <<a[i], b[i]>>
                     [] ~Both(i) /\ i > Len(b) -> <<Integer(1), Integer(0)>>
                     [] OTHER -> <<Integer(0), Integer(1)>>
    IN  [g EXCEPT !.v = @ \o FlattenSeq([i \in 1..max |-> Pair(at(i))]),
                  !.x.deep = @ \o [i \in 1..max |-> Both(at(i))]]
compare(m, g, v) ==
    LET n    == Len(g.v)
        a    == g.v[n - 1]
        pop  == [g EXCEPT !.v = SubSeq(@, 1, n - 2), !.x.deep = Front(@)]
        Match(h, l, r) ==
            CASE IsCatchable(l) -> Push(m, l)
              [] ~IsCatchable(l) /\ IsCatchable(r) -> Push(m, r)
              [] l.t = "int" /\ r.t = "int" ->
                    IF l.v = r.v THEN Running(m, h, "next") ELSE Ordered(m, g.x.op, l.v - r.v)
              [] l.t = "list" /\ r.t = "list" -> Running(m, CompareLists(h, l.v, r.v), "next")
              [] OTHER -> Raise(m, "Incomparable")
    IN  CASE g.pc = "start" -> request_force(m, g, "a", g.v[1])
          [] g.pc = "a"     -> request_force(m, [g EXCEPT !.v[1] = v], "b", g.v[2])
          [] g.pc = "b"     -> Running(m, [g EXCEPT !.v[2] = v], "next")
          [] g.pc = "next"  -> (CASE n = 0 -> Ordered(m, g.x.op, 0)
                                  [] n > 0 /\ ~Last(g.x.deep) -> Match(pop, a, g.v[n])
                                  [] OTHER -> Await(m, g, "equal", EqualityOf(a, g.v[n])))
          [] g.pc = "equal" -> (CASE v.t # "bool" -> Raise(m, "TypeError")
                                  [] v.t = "bool" /\ v.v -> Running(m, pop, "next")
                                  [] OTHER -> request_force(m, g, "left", a))
          [] g.pc = "left"  -> request_force(m, [g EXCEPT !.v[n - 1] = v], "right", g.v[n])
          [] g.pc = "right" -> Match(pop, a, v)

(* Value::coerce_to_string: v holds the values to convert, last first;     *)
(* list elements are separated by spaces.                                  *)
coerce_to_string(m, g, v) ==
    LET x == g.x
        Piece(s) == Running(m, [g EXCEPT !.x.out = @ \o (IF x.head = "past" THEN " " ELSE "") \o s,
                                         !.x.head = IF @ = "at" THEN "past" ELSE @], "start")
        Onto(vals, pc) == Running(m, [g EXCEPT !.v = @ \o vals], pc)
    IN  CASE g.pc = "start" -> IF g.v = <<>> THEN Push(m, String(x.out))
                               ELSE request_force(m, [g EXCEPT !.v = Front(@)], "forced", Last(g.v))
          [] g.pc = "callable" ->
                request_call(Push(m, Last(g.v)), [g EXCEPT !.v = Front(@)], "result", v)
          [] g.pc = "result" -> Onto(<<v>>, "start")
          [] g.pc = "forced" ->
             CASE v.t = "string" -> Piece(v.v)
               [] v.t = "path" -> Piece(IF x.import THEN "/nix/store" \o v.v ELSE v.v)
               [] v.t = "set" /\ "__toString" \in DOMAIN v.v ->
                    request_force(m, [g EXCEPT !.v = Append(@, v)], "callable", v.v["__toString"])
               [] v.t = "set" /\ "__toString" \notin DOMAIN v.v /\ "outPath" \in DOMAIN v.v ->
                    Onto(<<v.v["outPath"]>>, "start")
               [] v.t = "null" /\ x.strong -> Piece("")
               [] v.t = "bool" /\ x.strong -> Piece(IF v.v THEN "1" ELSE "")
               [] v.t = "int" /\ x.strong  -> Piece(ToString(v.v))
               [] v.t = "list" /\ x.strong ->
                    Running(m, [g EXCEPT !.v = @ \o Reverse(v.v),
                                         !.x.head = IF @ = "none" THEN "at" ELSE @], "start")
               [] v.t = "catchable" -> Push(m, v)
               [] OTHER -> Raise(m, "NotCoercibleToString")

(* add_values and arithmetic_op. *)
Arithmetic(op, a, b) ==
    IF ~(a.t = "int" /\ b.t = "int") THEN Err("TypeError")
    ELSE Integer(CASE op = "+" -> a.v + b.v [] op = "-" -> a.v - b.v [] op = "*" -> a.v * b.v
                   [] OTHER -> IF (a.v < 0) = (b.v < 0)
                               THEN (IF a.v < 0 THEN -a.v ELSE a.v) \div (IF b.v < 0 THEN -b.v ELSE b.v)
                               ELSE -((IF a.v < 0 THEN -a.v ELSE a.v) \div (IF b.v < 0 THEN -b.v ELSE b.v)))
add_values(m, g, v) ==
    LET a == g.v[1]
        b == g.v[2]
    IN  CASE g.pc = "start" ->
             (CASE a.t = "path" -> request_string_coerce(m, g, "path", b, Weak)
                [] a.t = "string" -> request_string_coerce(m, g, "right", b, [Weak EXCEPT !.import = TRUE])
                [] a.t = "int" -> Done(m, Arithmetic("+", a, b))
                [] OTHER -> request_string_coerce(m, g, "left", a, Weak))
          [] g.pc = "left" -> request_string_coerce(m, [g EXCEPT !.v[1] = v], "right", b, Weak)
          [] OTHER -> Push(m, CASE IsCatchable(a) -> a
                                [] ~IsCatchable(a) /\ IsCatchable(v) -> v
                                [] OTHER -> [a EXCEPT !.v = @ \o v.v])

-----------------------------------------------------------------------------
(* Builtins.  The arguments are forced last to first, except the lazy ones,*)
(* and the first catchable among them is the result.                       *)
Lazy(n) == CASE n \in {"tryEval", "toString", "map", "genList", "mapAttrs", "zipAttrsWith"} -> {1}
             [] n = "foldl'" -> {2}
             [] n = "addErrorContext" -> {1, 2}
             [] OTHER -> {}

\* Functions called on each element of a list, elements forced one by one,
\* and the others, which make a value of their arguments at once.
Calling == {"all", "any", "filter", "partition", "concatMap", "groupBy", "foldl'"}
Forcing == {"concatLists", "catAttrs", "listToAttrs", "zipAttrsWith"}

Alloc(m, cells) == [m EXCEPT !.heap = @ \o cells]
NewThunks(m, n, step) == [i \in 1..n |-> Thunk(Len(m.heap) + step * i)]
MapList(m, f, list) ==
    Push(Alloc(m, [i \in DOMAIN list |-> SuspendedCall(f, list[i])]), List(NewThunks(m, Len(list), 1)))
\* f applied to the name and then to the value of each attribute.
MapNames(m, f, set) ==
    LET ks == Sorted(DOMAIN set)
        h  == Len(m.heap)
        cells == FlattenSeq([i \in DOMAIN ks |-> <<SuspendedCall(f, String(ks[i])),
                                SuspendedCall(Thunk(h + 2 * i - 1), set[ks[i]])>>])
    IN  Push(Alloc(m, cells),
             Attrs([n \in DOMAIN set |-> Thunk(h + 2 * (CHOOSE i \in DOMAIN ks : ks[i] = n))]))

TypeIs == [n \in {"isAttrs", "isBool", "isFunction", "isInt", "isList", "isNull", "isPath", "isString"} |->
    CASE n = "isAttrs" -> {"set"} [] n = "isBool" -> {"bool"} [] n = "isFunction" -> {"lambda", "builtin"}
      [] n = "isInt" -> {"int"} [] n = "isList" -> {"list"} [] n = "isNull" -> {"null"}
      [] n = "isPath" -> {"path"} [] OTHER -> {"string"}]
\* The types of the arguments that a builtin checks, "" for any.
Types(n) ==
    CASE n \in {"throw", "abort"} -> <<"string">>
      [] n \in {"length", "head", "tail", "concatLists", "listToAttrs"} -> <<"list">>
      [] n \in {"attrNames", "attrValues", "genericClosure"} -> <<"set">>
      [] n = "elemAt" -> <<"list", "int">>
      [] n \in {"hasAttr", "getAttr"} -> <<"string", "set">>
      [] n \in {"removeAttrs"} -> <<"set", "list">>
      [] n \in {"intersectAttrs"} -> <<"set", "set">>
      [] n = "genList" -> <<"", "int">>
      [] n = "mapAttrs" -> <<"", "set">>
      [] n = "foldl'" -> <<"", "", "list">>
      [] n \in {"catAttrs", "concatStringsSep"} -> <<"string", "list">>
      [] n \in (Calling \ {"foldl'"}) \union {"map", "sort", "elem", "zipAttrsWith"} -> <<"", "list">>
      [] n \in {"add", "sub", "mul", "div"} -> <<"int", "int">>
      [] OTHER -> <<>>
WellTyped(n, a) == \A i \in DOMAIN Types(n) : Types(n)[i] \in {"", a[i].t}

\* removeAttrs casts the elements of its second argument without forcing them.
removeAttrs(m, set, keys) ==
    LET cast == [i \in DOMAIN keys |-> Cast(m, keys[i], "string")]
        bad  == {i \in DOMAIN cast : Failed(cast[i])}
        gone == {cast[i].v : i \in DOMAIN cast}
    IN  IF bad # {} THEN cast[Min(bad)] ELSE Attrs([n \in DOMAIN set \ gone |-> set[n]])

Pure(m, n, a) ==
    CASE n = "throw"   -> Catchable(a[1].v)
      [] n = "abort"   -> Err("Abort")
      [] n \in {"seq", "trace", "addErrorContext"} -> a[2]
      [] n = "length"  -> Integer(Len(a[1].v))
      [] n = "head"    -> IF a[1].v = <<>> THEN Err("IndexOutOfBounds") ELSE Head(a[1].v)
      [] n = "tail"    -> IF a[1].v = <<>> THEN Err("TailEmptyList") ELSE List(Tail(a[1].v))
      [] n = "elemAt"  -> IF a[2].v \in 0..(Len(a[1].v) - 1) THEN a[1].v[a[2].v + 1]
                          ELSE Err("IndexOutOfBounds")
      [] n = "attrNames"  -> List([i \in DOMAIN Sorted(DOMAIN a[1].v) |-> String(Sorted(DOMAIN a[1].v)[i])])
      [] n = "attrValues" -> List(SortedValues(a[1].v))
      [] n = "hasAttr" -> Bool(a[1].v \in DOMAIN a[2].v)
      [] n = "getAttr" -> Required(a[2].v, a[1].v)
      [] n = "intersectAttrs" -> Attrs(Restrict(a[2].v, DOMAIN a[1].v \intersect DOMAIN a[2].v))
      [] n = "removeAttrs" -> removeAttrs(m, a[1].v, a[2].v)
      [] n \in DOMAIN TypeIs -> Bool(a[1].t \in TypeIs[n])
      [] n = "typeOf"  -> String(IF a[1].t = "builtin" THEN "lambda" ELSE a[1].t)
      [] n = "functionArgs" ->
            (CASE a[1].t = "builtin" -> Attrs(NoAttrs)
               [] a[1].t = "lambda" -> Attrs([f \in DOMAIN m.lambdas[a[1].v.l].formals |->
                                                Bool(m.lambdas[a[1].v.l].formals[f])])
               [] OTHER -> Err("TypeError"))
      [] n = "div" -> IF a[2].v = 0 THEN Panicked("division by zero") ELSE Arithmetic("/", a[1], a[2])
      [] OTHER -> Arithmetic(CASE n = "add" -> "+" [] n = "sub" -> "-" [] OTHER -> "*", a[1], a[2])

-----------------------------------------------------------------------------
\* all, any, filter, partition, concatMap, groupBy and foldl': v is the
\* function, the list and the accumulator, x.i the next element.
Seed(n, a) == CASE n \in {"all", "any"} -> Bool(n = "all")
                [] n \in {"filter", "concatMap", "concatLists", "catAttrs"} -> List(<<>>)
                [] n = "partition" -> List(<<List(<<>>), List(<<>>)>>)
                [] n = "foldl'" -> a[2]
                [] OTHER -> Attrs(NoAttrs)
Wants(n) == CASE n \in {"all", "any", "filter", "partition"} -> "bool" [] n = "concatMap" -> "list"
              [] n = "groupBy" -> "string" [] OTHER -> ""
AddTo(list, v) == [list EXCEPT !.v = Append(@, v)]
GroupOnto(set, k, v) ==
    Attrs((k :> (IF k \in DOMAIN set.v THEN AddTo(set.v[k], v) ELSE List(<<v>>))) @@ set.v)
Verdict(n, acc, elem, v) ==
    CASE n = "filter" -> IF v.v THEN AddTo(acc, elem) ELSE acc
      [] n = "partition" -> [acc EXCEPT !.v[IF v.v THEN 1 ELSE 2] = AddTo(@, elem)]
      [] n = "concatMap" -> List(acc.v \o v.v)
      [] n = "groupBy" -> GroupOnto(acc, v.v, elem)
      [] n = "foldl'" -> v
      [] OTHER -> acc
calling(m, g, v) ==
    LET n    == g.x.n
        list == g.v[2].v
        acc  == g.v[3]
        elem == list[g.x.i]
        args == IF n = "foldl'" THEN <<acc, elem>> ELSE <<elem>>
    IN  CASE g.pc = "each" ->
                IF g.x.i <= Len(list) THEN request_call_with(m, g, "called", g.v[1], args)
                ELSE Push(m, IF n = "partition" THEN Attrs("right" :> acc.v[1] @@ "wrong" :> acc.v[2])
                             ELSE acc)
          [] g.pc = "called" -> request_force(m, g, "verdict", v)
          [] g.pc = "verdict" ->
             CASE IsCatchable(v) -> Push(m, v)
               [] ~IsCatchable(v) /\ Wants(n) \notin {"", v.t} -> Raise(m, "TypeError")
               [] ~IsCatchable(v) /\ Wants(n) = v.t /\ n \in {"all", "any"} /\ v.v = (n = "any") -> Push(m, v)
               [] OTHER -> Running(m, [g EXCEPT !.v[3] = Verdict(n, acc, elem, v), !.x.i = @ + 1], "each")

\* concatLists, catAttrs, listToAttrs and zipAttrsWith: v is the first
\* argument, the list and the accumulator.
MergeSets(acc, set) ==
    Attrs([k \in DOMAIN acc.v \union DOMAIN set |->
        IF k \notin DOMAIN set THEN acc.v[k]
        ELSE IF k \in DOMAIN acc.v THEN AddTo(acc.v[k], set[k]) ELSE List(<<set[k]>>)])
forcing(m, g, v) ==
    LET n    == g.x.n
        list == g.v[2].v
        acc  == g.v[3]
        item == g.v[4].v
        Next1(a) == Running(m, [g EXCEPT !.v = <<@[1], @[2], a>>, !.x.i = @ + 1], "each")
    IN  CASE g.pc = "each" ->
                IF g.x.i <= Len(list) THEN request_force(m, g, "forced", list[g.x.i])
                ELSE IF n = "zipAttrsWith" THEN MapNames(m, g.v[1], acc.v) ELSE Push(m, acc)
          [] g.pc = "forced" ->
             (CASE IsCatchable(v) /\ n \in {"concatLists", "listToAttrs"} -> Push(m, v)
                [] v.t # (IF n = "concatLists" THEN "list" ELSE "set") /\
                   ~(IsCatchable(v) /\ n \in {"concatLists", "listToAttrs"}) -> Raise(m, "TypeError")
                [] n = "concatLists" /\ v.t = "list" -> Next1(List(acc.v \o v.v))
                [] n = "catAttrs" /\ v.t = "set" ->
                    Next1(IF g.v[1].v \in DOMAIN v.v THEN AddTo(acc, v.v[g.v[1].v]) ELSE acc)
                [] n = "zipAttrsWith" /\ v.t = "set" -> Next1(MergeSets(acc, v.v))
                [] OTHER -> IF "name" \notin DOMAIN v.v THEN Raise(m, "AttributeNotFound")
                            ELSE request_force(m, [g EXCEPT !.v = Append(@, v)], "named", v.v["name"]))
          [] g.pc = "named" ->
             CASE IsCatchable(v) -> Push(m, v)
               [] ~IsCatchable(v) /\ v.t # "string" -> Raise(m, "TypeError")
               [] OTHER -> IF "value" \notin DOMAIN item THEN Raise(m, "AttributeNotFound")
                           ELSE Next1(Attrs(acc.v @@ (v.v :> item["value"])))

\* sort: a bubble sort whose passes end where the last exchange was.
sort(m, g, v) ==
    LET data == g.v[2].v
        i    == g.x.i
        Swapped == [k \in DOMAIN data |-> CASE k = i -> data[i + 1] [] k = i + 1 -> data[i] [] OTHER -> data[k]]
    IN  CASE g.pc = "each" ->
             (CASE i < g.x.len -> request_call_with(m, g, "called", g.v[1], <<data[i + 1], data[i]>>)
                [] i >= g.x.len /\ g.x.new = 0 -> Push(m, g.v[2])
                [] OTHER -> Running(m, [g EXCEPT !.x.i = 1, !.x.len = g.x.new, !.x.new = 0], "each"))
          [] g.pc = "called" -> request_force(m, g, "verdict", v)
          [] g.pc = "verdict" ->
             CASE IsCatchable(v) -> Push(m, v)
               [] ~IsCatchable(v) /\ v.t # "bool" -> Raise(m, "TypeError")
               [] OTHER -> Running(m, [g EXCEPT !.x.i = @ + 1,
                                         !.x.new = IF v.v THEN i ELSE @,
                                         !.v[2] = IF v.v THEN List(Swapped) ELSE @], "each")

\* elem: v is the value, the list; and concatStringsSep.
elem(m, g, v) ==
    CASE g.pc = "each" -> IF g.x.i > Len(g.v[2].v) THEN Push(m, Bool(FALSE))
                          ELSE Await(m, g, "equal", EqualityOf(g.v[1], g.v[2].v[g.x.i]))
      [] g.pc = "equal" -> IF IsCatchable(v) \/ v.v = TRUE THEN Push(m, v)
                           ELSE Running(m, [g EXCEPT !.x.i = @ + 1], "each")
concatStringsSep(m, g, v) ==
    CASE g.pc = "each" -> IF g.x.i > Len(g.v[2].v) THEN Push(m, g.v[3])
                          ELSE request_string_coerce(m, g, "piece", g.v[2].v[g.x.i], [Weak EXCEPT !.import = TRUE])
      [] g.pc = "piece" ->
            IF IsCatchable(v) THEN Push(m, v)
            ELSE Running(m, [g EXCEPT !.x.i = @ + 1,
                                !.v[3].v = @ \o (IF g.x.i = 1 THEN "" ELSE g.v[1].v) \o v.v], "each")

\* genericClosure: v is the operator, the work set, the result, the keys seen
\* and the item at hand, x.i the key it is compared with next (bgc_insert_key).
genericClosure(m, g, v) ==
    LET work == g.v[2].v
        key  == g.v[5].v["key"]
        seen == g.v[4].v
    IN  CASE g.pc = "each" -> IF {"startSet", "operator"} \subseteq DOMAIN g.v[1].v
                              THEN request_force(m, g, "started", g.v[1].v["startSet"])
                              ELSE Raise(m, "AttributeNotFound")
          [] g.pc = "started" ->
                IF v.t # "list" THEN Raise(m, "TypeError")
                ELSE Running(m, [g EXCEPT !.v = <<@[1].v["operator"], v, List(<<>>), List(<<>>)>>], "next")
          [] g.pc = "next" -> IF work = <<>> THEN Push(m, g.v[3])
                              ELSE request_force(m, [g EXCEPT !.v[2].v = Tail(@)], "item", Head(work))
          [] g.pc = "item" ->
             (CASE v.t # "set" -> Raise(m, "TypeError")
                [] v.t = "set" /\ "key" \notin DOMAIN v.v -> Raise(m, "AttributeNotFound")
                [] OTHER -> Running(m, [g EXCEPT !.v = Append(@, v), !.x.i = 1], "insert"))
          [] g.pc = "insert" ->
                IF g.x.i <= Len(seen) THEN Await(m, g, "equal", EqualityOf(seen[g.x.i], key))
                ELSE request_call_with(m, [g EXCEPT !.v = <<@[1], @[2], AddTo(@[3], @[5]), AddTo(@[4], key)>>],
                                       "called", g.v[1], <<g.v[5]>>)
          [] g.pc = "equal" ->
             (CASE IsCatchable(v) -> Push(m, v)
                [] ~IsCatchable(v) /\ v.v = TRUE -> Running(m, [g EXCEPT !.v = SubSeq(@, 1, 4)], "next")
                [] OTHER -> Running(m, [g EXCEPT !.x.i = @ + 1], "insert"))
          [] g.pc = "called" -> request_force(m, g, "more", v)
          [] g.pc = "more" -> IF v.t # "list" THEN Raise(m, "TypeError")
                              ELSE Running(m, [g EXCEPT !.v[2].v = @ \o v.v], "next")

Tried(v) ==
    Attrs("success" :> Bool(~IsCatchable(v)) @@ "value" :> (IF IsCatchable(v) THEN Bool(FALSE) ELSE v))

\* A builtin with its arguments forced.
body(m, g) ==
    LET n == g.x.n
        a == g.v
        Each(vals) == Running(m, [g EXCEPT !.v = vals,
                                   !.x = [n |-> n, i |-> 1, len |-> Len(vals[2].v), new |-> 0]], "each")
    IN  CASE ~WellTyped(n, a) -> Raise(m, "TypeError")
          [] WellTyped(n, a) /\ n \in Calling ->
                Each(<<a[1], a[Len(a)], Seed(n, a)>>)
          [] WellTyped(n, a) /\ n \in Forcing -> Each(<<a[1], a[Len(a)], Seed(n, a)>>)
          [] WellTyped(n, a) /\ n \in {"sort", "elem"} -> Each(a)
          [] WellTyped(n, a) /\ n = "concatStringsSep" -> Each(a \o <<String("")>>)
          [] n = "genericClosure" /\ WellTyped(n, a) -> Each(<<a[1], List(<<>>)>>)
          [] n = "lessThan" -> PushFrame(m, CompareOf(a[1], a[2], "<"))
          [] n = "toString" -> PushFrame(m, CoerceOf(a[1], [strong |-> TRUE, import |-> FALSE]))
          [] n = "tryEval" -> request_force(m, g, "tried", a[1])
          [] n = "deepSeq" -> Await(m, g, "deep", DeepForceOf(a[1]))
          [] n = "map" /\ WellTyped(n, a) -> MapList(m, a[1], a[2].v)
          [] n = "genList" /\ WellTyped(n, a) ->
                IF a[2].v < 0 THEN Raise(m, "Abort")
                ELSE MapList(m, a[1], [i \in 1..a[2].v |-> Integer(i - 1)])
          [] n = "mapAttrs" /\ WellTyped(n, a) -> MapNames(m, a[1], a[2].v)
          [] OTHER -> Done(m, Pure(m, n, a))

builtin(m, g, v) ==
    LET n == g.x.n
        i == g.x.i
    IN  CASE g.pc = "start" -> (CASE i = 0 -> body(m, g)
                                  [] i > 0 /\ i \in Lazy(n) -> Running(m, [g EXCEPT !.x.i = @ - 1], "start")
                                  [] OTHER -> request_force(m, g, "arg", g.v[i]))
          [] g.pc = "arg"   -> IF IsCatchable(v) THEN Push(m, v)
                               ELSE Running(m, [g EXCEPT !.v[i] = v, !.x.i = @ - 1], "start")
          [] g.pc = "tried" -> Push(m, Tried(v))
          [] g.pc = "deep"  -> Push(m, g.v[2])
          [] OTHER -> CASE n \in Calling -> calling(m, g, v)
                        [] n \in Forcing -> forcing(m, g, v)
                        [] n = "sort" -> sort(m, g, v)
                        [] n = "elem" -> elem(m, g, v)
                        [] n = "concatStringsSep" -> concatStringsSep(m, g, v)
                        [] OTHER -> genericClosure(m, g, v)

-----------------------------------------------------------------------------
(***************************************************************************)
(* The interpreter.                                                        *)
(***************************************************************************)
CONSTANTS
    Programs,       \* a set of sequences of expressions, the programs
    Depth           \* deeper than any terminating program of them goes

VARIABLES program, c, vm    \* the expression, the compiler, the machine
vars == <<program, c, vm>>

CodeOf(m, f) == IF f.l = 0 THEN CallCode ELSE m.lambdas[f.l].code

-----------------------------------------------------------------------------
(* Instructions.  f is the frame, its ip already past the instruction.     *)
Cont(n, f)    == PushFrame(n, f)
Put(n, f, v)  == IF Failed(v) THEN Fail(n, v) ELSE Push(Cont(n, f), v)
Jump(f, to)   == [f EXCEPT !.ip = to]

\* AttrsSelect, AttrsUpdate and the operators.
select(attrs, key) ==
    IF key.t # "string" \/ attrs.t # "set" THEN Err("TypeError") ELSE Required(attrs.v, key.v)
update(lhs, rhs) ==
    IF lhs.t # "set" \/ rhs.t # "set" THEN Err("TypeError") ELSE Attrs(rhs.v @@ lhs.v)
Binary(op, a, b) ==
    CASE op = "AttrsSelect" -> select(a, b)
      [] op = "AttrsUpdate" -> update(a, b)
      [] op = "HasAttr" -> IF b.t # "string" THEN Err("TypeError")
                           ELSE Bool(a.t = "set" /\ b.v \in DOMAIN a.v)
      [] op = "Concat" -> IF a.t # "list" \/ b.t # "list" THEN Err("TypeError") ELSE List(a.v \o b.v)
      [] op = "Sub" -> Arithmetic("-", a, b)
      [] op = "Mul" -> Arithmetic("*", a, b)
      [] op = "Div" -> IF b.t = "int" /\ b.v = 0 THEN Err("DivisionByZero") ELSE Arithmetic("/", a, b)
BinaryOps  == {"AttrsSelect", "AttrsUpdate", "HasAttr", "Concat", "Sub", "Mul", "Div"}
Comparison == "Less" :> "<" @@ "LessOrEq" :> "<=" @@ "More" :> ">" @@ "MoreOrEq" :> ">="
AwaitingOps == DOMAIN Comparison \union {"Equal", "Add"}
Asked(op, a, b) ==
    CASE op = "Equal" -> EqualityOf(a, b)
      [] op = "Add" -> Gen("add_values", <<a, b>>, 0)
      [] OTHER -> CompareOf(a, b, Comparison[op])
\* lifted_pop: a catchable operand is the result.
two_operands(m, f, op) ==
    LET b == Peek(m)
        a == m.stack[Len(m.stack) - 1]
        n == Drop(m, 2)
    IN  CASE IsCatchable(b) -> Put(n, f, b)
          [] ~IsCatchable(b) /\ IsCatchable(a) -> Put(n, f, a)
          [] OTHER -> IF op \in AwaitingOps THEN PushFrame(Cont(n, f), Asked(op, a, b))
                      ELSE Put(n, f, Binary(op, a, b))

\* Invert and Negate.
one_operand(m, f, op) ==
    LET v == Peek(m)
        n == Drop(m, 1)
    IN  CASE IsCatchable(v) -> Put(n, f, v)
          [] ~IsCatchable(v) /\ v.t # (IF op = "Invert" THEN "bool" ELSE "int") -> Raise(m, "TypeError")
          [] OTHER -> Put(n, f, IF op = "Invert" THEN Bool(~v.v) ELSE Integer(-v.v))

\* AttrsTrySelect: not found in anything that is not a set.
try_select(m, f) ==
    LET key == Peek(m)
        set == m.stack[Len(m.stack) - 1]
        n   == Drop(m, 2)
    IN  IF key.t # "string" THEN Raise(m, "TypeError")
        ELSE Put(n, f, IF set.t = "set" /\ key.v \in DOMAIN set.v THEN set.v[key.v] ELSE AttrNotFound)

\* NixAttrs::construct: the pairs are taken last to first; a null key is left out.
construct(kvs) ==
    LET n     == Len(kvs) \div 2
        key(i) == kvs[2 * i - 1]
        named == {i \in 1..n : key(i).t = "string"}
        bad   == {i \in 1..n : key(i).t \notin {"string", "null"}}
        twice == {i \in named : \E j \in named : j > i /\ key(i).v = key(j).v}
        stop  == Max({0} \union bad \union twice)
    IN  CASE stop \in bad -> IF IsCatchable(key(stop)) THEN key(stop) ELSE Err("InvalidAttributeName")
          [] stop \in twice -> Err("DuplicateAttrsKey")
          [] OTHER -> Attrs([k \in {key(i).v : i \in named} |->
                                kvs[2 * (CHOOSE i \in named : key(i).v = k)]])
run_attrset(m, f, count) ==
    Put(Drop(m, 2 * count), f,
        construct(SubSeq(m.stack, Len(m.stack) - 2 * count + 1, Len(m.stack))))

run_interpolate(m, f, count) ==
    LET n     == Len(m.stack)
        part(i) == m.stack[n + 1 - i]
        caught == {i \in 1..count : IsCatchable(part(i))}
        all    == FoldLeft(LAMBDA s, i : s \o part(i).v, "", [i \in 1..count |-> i])
    IN  Put(Drop(m, count), f, IF caught # {} THEN part(Min(caught)) ELSE String(all))

\* populate_upvalues: Cells hold what is captured, a deferred one its position.
Captured(m, f, pos) ==
    CASE pos.pos = "stack" -> IF f.off + pos.n + 1 \in DOMAIN m.stack THEN m.stack[f.off + pos.n + 1]
                              ELSE Err("SnixBug")
      [] pos.pos = "deferred" -> DeferredUpvalue(pos.n)
      [] OTHER -> f.up[pos.n]
Withs(m, f) == f.withs \o [i \in DOMAIN m.withs |-> m.stack[m.withs[i] + 1]]
make(m, f, instr) ==
    LET ups   == [i \in DOMAIN instr.ups |-> Captured(m, f, instr.ups[i])]
        withs == IF instr.withs THEN Withs(m, f) ELSE <<>>
        cell  == IF instr.op = "ThunkSuspended" THEN Suspended(instr.l, ups, withs)
                 ELSE Evaluated(ClosureOf(instr.l, ups, withs))
    IN  IF \E i \in DOMAIN ups : Failed(ups[i]) THEN Raise(m, "SnixBug")
        ELSE IF instr.op = "Closure" THEN Put(m, f, ClosureOf(instr.l, ups, withs))
        ELSE Put(Alloc(m, <<cell>>), f, Thunk(Len(m.heap) + 1))

\* Thunk::finalise: the deferred upvalues are taken from the frame's stack.
Resolved(m, f, ups) ==
    [i \in DOMAIN ups |-> IF ups[i].t = "deferred" THEN m.stack[f.off + ups[i].v + 1] ELSE ups[i]]
finalise(m, f, idx) ==
    LET v    == m.stack[f.off + idx + 1]
        cell == m.heap[v.v]
    IN  CASE ~IsThunk(v) -> Bug(m, "attempted to finalise a non-thunk")
          [] IsThunk(v) /\ cell.s = "suspended" ->
                Cont(SetCell(m, v.v, [cell EXCEPT !.up = Resolved(m, f, @)]), f)
          [] OTHER ->
                IF cell.s = "evaluated" /\ cell.v.t = "lambda"
                THEN Cont(SetCell(m, v.v, [cell EXCEPT !.v.v.up = Resolved(m, f, @)]), f)
                ELSE Bug(m, "upvalues() on non-suspended thunk")

\* ResolveWith and resolve_with: the withs of the VM, innermost first, then
\* those the frame's lambda captured.
resolve_with(n, g, v) ==
    LET below == SelectSeq(n.frames, LAMBDA f : f.f = "code")
        Ask(w, h) == Await(n, h, "with", ForceOf(w))
    IN  CASE g.pc = "with" ->
             (CASE IsCatchable(v) -> Push(n, v)
                [] ~IsCatchable(v) /\ v.t # "set" -> Raise(n, "TypeError")
                [] OTHER -> IF g.x.ident \in DOMAIN v.v THEN Push(n, v.v[g.x.ident])
                            ELSE Running(n, g, "start"))
          [] g.pc = "start" ->
             CASE g.x.vm > 0 -> Ask(n.stack[n.withs[g.x.vm] + 1], [g EXCEPT !.x.vm = @ - 1])
               [] g.x.vm = 0 /\ g.x.up > 0 -> Ask(Last(below).withs[g.x.up], [g EXCEPT !.x.up = @ - 1])
               [] OTHER -> Raise(n, "UnknownDynamicVariable")

validate_closed_formals(m, f) ==
    LET v == Peek(m)
    IN  CASE IsCatchable(v) -> Cont(m, f)
          [] ~IsCatchable(v) /\ v.t # "set" -> Raise(m, "TypeError")
          [] OTHER -> IF DOMAIN v.v \subseteq DOMAIN m.lambdas[f.l].formals THEN Cont(m, f)
                      ELSE Raise(m, "UnexpectedArgumentFormals")

\* The conditional jumps look at the top of the stack.
jumps(m, f, instr) ==
    LET v     == Peek(m)
        bool  == v.t = "bool"
        Go(b) == Cont(m, IF b THEN Jump(f, instr.to) ELSE f)
    IN  CASE instr.op = "Jump" -> Go(TRUE)
          [] instr.op = "JumpIfCatchable" -> Go(IsCatchable(v))
          [] instr.op = "JumpIfNotFound" ->
                IF v.t = "notfound" THEN Drop(Go(TRUE), 1) ELSE Go(FALSE)
          [] instr.op = "JumpIfNoFinaliseRequest" ->
                IF v.t = "finalise" THEN Go(~v.v) ELSE Bug(m, "expected FinaliseRequest")
          [] OTHER -> IF bool THEN Go(v.v = (instr.op = "JumpIfTrue")) ELSE Raise(m, "TypeError")
Jumps == {"Jump", "JumpIfCatchable", "JumpIfNotFound", "JumpIfNoFinaliseRequest",
          "JumpIfTrue", "JumpIfFalse"}

\* CloseScope: the value on top replaces the last of the locals that are left.
close_scope(m, n) == Push(Drop(m, n + 1), Peek(m))

\* AssertBool and AssertAttrs let catchables through.
assertion(m, f, type) ==
    IF Peek(m).t \in {"catchable", type} THEN Cont(m, f) ELSE Raise(m, "TypeError")

\* Op::List, Op::ResolveWith and Op::CoerceToString.
make_list(m, f, n) == Put(Drop(m, n), f, List(SubSeq(m.stack, Len(m.stack) - n + 1, Len(m.stack))))
ask_with(m, f) ==
    PushFrame(Cont(Drop(m, 1), f), Gen("resolve_with", <<>>,
        [ident |-> Peek(m).v, vm |-> Len(m.withs), up |-> Len(f.withs)]))
ask_string(m, f, instr) ==
    PushFrame(Cont(Drop(m, 1), f),
              CoerceOf(Peek(m), [strong |-> instr.strong, import |-> instr.import_paths]))

execute_op(m, f, instr) ==
    LET o == instr.op IN
    CASE o \in {"ThunkSuspended", "ThunkClosure", "Closure"} -> make(m, f, instr)
      [] o = "Force" -> IF IsThunk(Peek(m)) THEN PushFrame(Cont(Drop(m, 1), f), ForceOf(Peek(m)))
                        ELSE Cont(m, f)
      [] o = "GetUpvalue" -> Put(m, f, f.up[instr.n])
      [] o = "GetLocal"   -> Put(m, f, m.stack[f.off + instr.n + 1])
      [] o = "Constant"   -> Put(m, f, instr.v)
      [] o = "Return"     -> IF Len(m.stack) - 1 <= f.off THEN m ELSE Bug(m, "values left by a frame")
      [] o = "Call"       -> call_value(Drop(m, 1), <<f>>, Peek(m))
      [] o = "CloseScope" -> Cont(close_scope(m, instr.n), f)
      [] o = "Pop"        -> Cont(Drop(m, 1), f)
      [] o \in Jumps      -> jumps(m, f, instr)
      [] o \in BinaryOps \union AwaitingOps -> two_operands(m, f, o)
      [] o \in {"Invert", "Negate"} -> one_operand(m, f, o)
      [] o = "AttrsTrySelect" -> try_select(m, f)
      [] o = "AssertBool"  -> assertion(m, f, "bool")
      [] o = "AssertAttrs" -> assertion(m, f, "set")
      [] o = "Attrs" -> run_attrset(m, f, instr.n)
      [] o = "List"  -> make_list(m, f, instr.n)
      [] o = "ResolveWith" -> ask_with(m, f)
      [] o = "Finalise" -> finalise(m, f, instr.n)
      [] o = "CoerceToString" -> ask_string(m, f, instr)
      [] o = "Interpolate" -> run_interpolate(m, f, instr.n)
      [] o = "ValidateClosedFormals" -> validate_closed_formals(m, f)
      [] o = "PushWith" -> Cont([m EXCEPT !.withs = Append(@, f.off + instr.n)], f)
      [] o = "PopWith"  -> Cont([m EXCEPT !.withs = Front(@)], f)
      [] o = "AssertFail" -> Put(m, f, Catchable("assertion failed"))
      [] o = "Garbled" -> Bug(m, "not an instruction the compiler emitted")

-----------------------------------------------------------------------------
(* VM::execute *)
run_generator(m, g) ==
    LET v == IF g.awaits THEN Peek(m) ELSE Null
        n == IF g.awaits THEN Drop(m, 1) ELSE m
    IN  CASE g.k = "force" -> force_(n, g, v)
          [] g.k = "deep_force" -> deep_force(n, g, v)
          [] g.k = "call_with" -> call_with(n, g, v)
          [] g.k = "call_functor" -> call_functor(n, g, v)
          [] g.k = "nix_eq" -> nix_eq(n, g, v)
          [] g.k = "compare" -> compare(n, g, v)
          [] g.k = "coerce_to_string" -> coerce_to_string(n, g, v)
          [] g.k = "add_values" -> add_values(n, g, v)
          [] g.k = "resolve_with" -> resolve_with(n, g, v)
          [] g.k = "builtin" -> builtin(n, g, v)
          [] g.k = "final_deep_force" -> PushFrame(Drop(n, 1), DeepForceOf(Peek(n)))
execute_bytecode(m, f) == execute_op(m, [f EXCEPT !.ip = @ + 1], CodeOf(m, f)[f.ip])

\* run_lambda: the lambda of the whole program is the last one.
NoMachine == [frames |-> <<>>, stack |-> <<>>, withs |-> <<>>, heap |-> <<>>, lambdas |-> <<>>,
              constants |-> 0, out |-> NotYet]
run_lambda(d) ==
    [NoMachine EXCEPT
        !.lambdas = Append(d.lambdas, [code |-> d.contexts[1].code, formals |-> NoAttrs]),
        !.heap = [i \in DOMAIN d.thunks |-> Suspended(d.thunks[i], <<>>, <<>>)],
        !.constants = Len(d.thunks),
        !.frames = <<Gen("final_deep_force", <<>>, 0), Bytecode(Len(d.lambdas) + 1, <<>>, <<>>, 0)>>]

Init == /\ \E ps \in Programs : \E i \in DOMAIN ps : program = ps[i]
        /\ c = Start(program)
        /\ vm = NoMachine

CompileStep == /\ ~Finished(c)
               /\ c' = Step(c)
               /\ UNCHANGED <<program, vm>>

\* A program with errors is not run.
StartVM == /\ Finished(c) /\ ~c.panic /\ c.errors = {} /\ vm.lambdas = <<>>
           /\ vm' = run_lambda(c)
           /\ UNCHANGED <<program, c>>

Executing(kind) ==
    /\ vm.out.t = "running" /\ vm.frames # <<>> /\ Last(vm.frames).f = kind
    /\ UNCHANGED <<program, c>>
Popped1 == [vm EXCEPT !.frames = Front(@)]

ExecuteBytecode == /\ Executing("code")
                   /\ vm' = execute_bytecode(Popped1, Last(vm.frames))
RunGenerator    == /\ Executing("gen")
                   /\ vm' = run_generator(Popped1, Last(vm.frames))
\* No frame is left: the value on the stack is the result.
Return          == /\ vm.out.t = "running" /\ vm.lambdas # <<>> /\ vm.frames = <<>>
                   /\ vm' = IF vm.stack = <<>> THEN Bug(vm, "runtime stack empty")
                            ELSE [Drop(vm, 1) EXCEPT !.out = [t |-> "done", v |-> Peek(vm)]]
                   /\ UNCHANGED <<program, c>>

\* The program was refused, or has a value or an error; a panic ends everything.
Ended == (Finished(c) /\ (c.panic \/ c.errors # {})) \/ vm.out.t # "running"
Stopped == Ended /\ UNCHANGED vars

Next == CompileStep \/ StartVM \/ ExecuteBytecode \/ RunGenerator \/ Return \/ Stopped
Spec == Init /\ [][Next]_vars

-----------------------------------------------------------------------------
(* What the compiler and the VM must do. *)
\* A value of the VM is the value r of the semantics; functions are not compared.
RECURSIVE Same(_, _, _)
Same(h, v, r) ==
    CASE v.t = "thunk"  -> Same(h, h[v.v].v, r)
      [] v.t = "list"   -> r.t = "list" /\ Len(v.v) = Len(r.v) /\ \A i \in DOMAIN v.v : Same(h, v.v[i], r.v[i])
      [] v.t = "set"    -> r.t = "set" /\ DOMAIN v.v = DOMAIN r.v /\ \A n \in DOMAIN v.v : Same(h, v.v[n], r.v[n])
      [] v.t = "lambda" -> r.t = "fn"
      [] v.t \in {"builtin", "catchable"} -> r.t = v.t
      [] OTHER -> v.t = r.t /\ v.v = r.v
Outcome(h, out, r) == IF out.t = "error" THEN r.t = "error" /\ r.v = out.v ELSE Same(h, out.v, r)
Compiled == Finished(c) /\ ~c.panic
Top == Last(vm.frames)
NextOp(f) == CodeOf(vm, f)[f.ip]
Going == vm.out.t = "running" /\ vm.frames # <<>>
Settled(cell) == cell.s = "evaluated" /\ cell.v.t # "thunk"

\* Neither the compiler nor the VM panics: no jump is patched that was not
\* emitted, no upvalue is read that was not captured, no thunk is used before
\* it is finalised or forced, and none is forced after its value was moved out
\* (compiler/mod.rs, vm/mod.rs, value/thunk.rs).  It is a claim about the
\* programs of the instance: a division by zero in builtins.div, a merged set
\* that inherits through a with, and a recursive set with a dynamic key that
\* depends on its own fields do panic, and are not among them.
NoPanic == ~c.panic /\ vm.out.t # "panic"

\* The compiler emits errors for exactly the programs with a name that nothing
\* can bind or a field that is defined twice (Compiler::compile_identifier_access,
\* Binding::merge), in dead code too.
RejectsExactly == Compiled => (c.errors # {}) = Rejected(program, {}, FALSE)

\* A call is followed by the return of its frame: VM::call_value relies on it
\* when it does not put the frame of a call to a builtin back.
TailCalls == Compiled => \A i \in DOMAIN c.lambdas : \A j \in DOMAIN c.lambdas[i].code :
                c.lambdas[i].code[j].op = "Call" => c.lambdas[i].code[j + 1].op = "Return"

\* The VM's with_stack is not split by frames, so a set that a frame pushed
\* would be seen by every frame it starts: there is none while another frame or
\* a generator runs, and ResolveWith finds all its sets among the captured
\* ones, the question of the TODO in vm/mod.rs:resolve_with.
WithsStayLocal == Going /\ vm.withs # <<>> => Top.f = "code" /\ NextOp(Top).op # "ResolveWith"

\* A frame returns with exactly its result left above the offset of its stack,
\* whatever scopes, jumps and catchable values it went through (Op::Return).
Balanced == Going /\ Top.f = "code" /\ NextOp(Top).op = "Return" => Len(vm.stack) = Top.off + 1

\* The value or the error that VM::execute ends with is the one the language
\* gives the program, forced through.  (Programs for which it is known not to be
\* are left out: deepSeq of a value with an element that throws, which gives its
\* second argument, and comparisons of lists with such elements, which give a
\* type error.)
Correct ==
    vm.out.t \in {"done", "error"} =>
        Outcome(vm.heap, vm.out, Deep(Depth, Ev(Depth, program, <<>>), Levels))

\* A thunk that holds a value keeps it for as long as anything refers to it:
\* forcing another thunk never takes it away (Thunk::force_,
\* Thunk::unwrap_or_clone).
ThunksKept == \A i \in DOMAIN vm.heap :
    Settled(vm.heap[i]) /\ vm'.heap[i] # vm.heap[i] => i \notin Living(vm', DOMAIN vm'.heap)
ThunksSettle == [][ThunksKept]_vars
=============================================================================
