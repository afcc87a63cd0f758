---------------------------- MODULE Composition ----------------------------
(***************************************************************************)
(* The composition of services (castore composition.rs): concurrent calls  *)
(* of Composition::build() instantiate named services from their configs,  *)
(* a service's builder resolves the services it refers to, and a service   *)
(* that somebody else is instantiating is waited for on a watch channel.   *)
(*                                                                         *)
(* The TypeId that is part of a key is part of the instance name here.     *)
(***************************************************************************)
EXTENDS Naturals, Sequences, Functions, TLAPS

CONSTANTS
    Configs,        \* the compositions considered: name -> [kind, refs]
    Task,           \* concurrent callers of build()
    Invalid         \* a reference without "&" (no xp-composition-url-refs)

(* A cache has a near and a far reference, a priority list any number, and *)
(* a service of any other kind none.                                       *)
ASSUME ConfigsAssumption ==
    \A c \in Configs : \A n \in DOMAIN c :
        /\ n # Invalid
        /\ c[n].refs \in Seq(Range(c[n].refs))
        /\ \/ c[n].kind = "leaf" /\ c[n].refs = <<>>
           \/ c[n].kind = "cache" /\ Len(c[n].refs) = 2
           \/ c[n].kind = "priority"

VARIABLES
    configs,        \* this composition; fixed
    stores,         \* name -> "Config" or "InProgress"
    stack,          \* name -> the stack of the context its builder runs with
    by,             \* name -> the task that drives its builder
    child,          \* name -> what became of each reference of its builder
    sent,           \* name -> what its watch channel holds
    call,           \* task -> its build() call
    made            \* instances constructed so far

vars == <<configs, stores, stack, by, child, sent, call, made>>

Name == DOMAIN configs
Refs(n) == configs[n].refs
Ok(k) == [ok |-> TRUE, instance |-> k]
Error(e, path) == [ok |-> FALSE, error |-> e, path |-> path]
Nothing == [ok |-> FALSE, error |-> "Nothing", path |-> <<>>]
Dropped == [ok |-> FALSE, error |-> "Dropped", path |-> <<>>]
Started == [ok |-> FALSE, error |-> "Started", path |-> <<>>]
Panic == Error("panic", <<>>)
Pending(r) == r \in {Nothing, Started}
IsError(r) == ~Pending(r) /\ ~r.ok

Init ==
    /\ configs \in Configs
    /\ stores = [n \in Name |-> "Config"]
    /\ stack = [n \in Name |-> <<>>]
    /\ by = [n \in Name |-> {}]
    /\ child = [n \in Name |-> [i \in DOMAIN Refs(n) |-> Nothing]]
    /\ sent = [n \in Name |-> Nothing]
    /\ call = [t \in Task |-> [name |-> <<>>, result |-> Nothing]]
    /\ made = 0

(* build_internal() under the lock of the map: the first one to ask for a  *)
(* service becomes its builder, the others wait for the channel.           *)
Enter_Again(n, stk, t) ==
    /\ stores' = [stores EXCEPT ![n] = "InProgress"]
    /\ stack' = [stack EXCEPT ![n] = Append(stk, n)]
    /\ by' = [by EXCEPT ![n] = {t}]
    /\ sent' = [sent EXCEPT ![n] = Nothing]

Enter(n, stk, t) ==
    /\ UNCHANGED sent
    /\ IF stores[n] = "Config"
       THEN /\ stores' = [stores EXCEPT ![n] = "InProgress"]
            /\ stack' = [stack EXCEPT ![n] = Append(stk, n)]
            /\ by' = [by EXCEPT ![n] = {t}]
       ELSE UNCHANGED <<stores, stack, by>>

build(t, n) ==
    /\ call[t].name = <<>>
    /\ IF n \in Name
       THEN /\ Enter(n, <<>>, t)
            /\ call' = [call EXCEPT ![t] = [name |-> <<n>>, result |-> Started]]
       ELSE /\ call' = [call EXCEPT ![t] = [name |-> <<n>>, result |-> Error("NotFound", <<n>>)]]
            /\ UNCHANGED <<stores, stack, by, sent>>
    /\ UNCHANGED <<configs, child, made>>

Running(n) == stores[n] = "InProgress" /\ sent[n] = Nothing

(* "disallow recursion": a name on the stack of this context. *)
Recursive_AnyBuilder(n, m) == stores[m] = "InProgress"
Recursive(n, m) == m \in Range(stack[n])

(* resolve(): join! and try_join_all poll the references in order. *)
resolve(n, i) ==
    /\ Running(n) /\ i \in DOMAIN Refs(n) /\ child[n][i] = Nothing
    /\ \A j \in 1 .. i - 1 : child[n][j] # Nothing
    /\ LET m == Refs(n)[i]
           Gets(r) == child' = [child EXCEPT ![n][i] = r]
           Fails(e, path) == Gets(Error(e, path)) /\ UNCHANGED <<stores, stack, by, sent>>
       IN CASE m = Invalid -> Fails("InvalidReference", <<m>>)
            [] m # Invalid /\ m \notin Name -> Fails("NotFound", <<m>>)
            [] m \in Name /\ Recursive(n, m) -> Fails("Recursion", stack[n])
            [] m \in Name /\ ~Recursive(n, m) ->
                 \E t \in by[n] : Enter(m, stack[n], t) /\ Gets(Started)
    /\ UNCHANGED <<configs, call, made>>

(* The futures a builder or a task owns die with it, and their channels    *)
(* close without a value.                                                  *)
Builds(n) == {m \in Name \ {n} : Running(m) /\ n \in Range(stack[m])}
BuildsOf(t) == {m \in Name : Running(m) /\ t \in by[m]}
Drop(lost, done) ==
    sent' = [m \in Name |-> IF m \in DOMAIN done THEN done[m]
                            ELSE IF m \in lost THEN Dropped ELSE sent[m]]

(* recv.changed().await.unwrap() on a closed channel unwinds the task. *)
Unwind(t) ==
    /\ call' = [call EXCEPT ![t].result = Panic]
    /\ Drop(BuildsOf(t), <<>>)

(* A builder's reference is there: by its own doing or through the channel. *)
Receive(n, i) ==
    /\ Running(n) /\ i \in DOMAIN Refs(n) /\ child[n][i] = Started
    /\ LET got == sent[Refs(n)[i]] IN
       /\ got # Nothing
       /\ IF got = Dropped
          THEN (\E t \in by[n] : Unwind(t)) /\ UNCHANGED child
          ELSE child' = [child EXCEPT ![n][i] = got] /\ UNCHANGED <<call, sent>>
    /\ UNCHANGED <<configs, stores, stack, by, made>>

ReceiveCall_DriverOnly(t) ==
    /\ call[t].result = Started /\ by[Head(call[t].name)] = {t}
    /\ LET got == sent[Head(call[t].name)] IN
       got # Nothing /\ call' = [call EXCEPT ![t].result = got]
    /\ UNCHANGED <<configs, stores, stack, by, child, sent, made>>

ReceiveCall(t) ==
    /\ call[t].result = Started
    /\ LET got == sent[Head(call[t].name)] IN
       /\ got # Nothing
       /\ IF got = Dropped THEN Unwind(t)
          ELSE call' = [call EXCEPT ![t].result = got] /\ UNCHANGED sent
    /\ UNCHANGED <<configs, stores, stack, by, child, made>>

Children(n) == {child[n][i] : i \in DOMAIN Refs(n)}

(* join! waits for both references, then looks at near and at far. *)
JoinResult_NearOnly(n) ==
    {r \in {child[n][1]} : IsError(r) /\ \A c \in Children(n) : ~Pending(c)}
JoinResult(n) ==
    LET errors == {i \in DOMAIN Refs(n) : IsError(child[n][i])} IN
    {child[n][i] : i \in {j \in errors : /\ \A k \in errors : j <= k
                                         /\ \A c \in Children(n) : ~Pending(c)}}

(* try_join_all returns the first error it sees and drops the others. *)
TryJoinResult(n) == {r \in Children(n) : IsError(r)}

(* ServiceBuilder::build() of a cache, a priority list, or a service that  *)
(* refers to no other; connecting can fail.                                *)
JoinErrors_Eager(n) == TryJoinResult(n)
JoinErrors(n) == CASE configs[n].kind = "priority" -> TryJoinResult(n)
                   [] configs[n].kind = "cache" -> JoinResult(n)
                   [] configs[n].kind = "leaf" -> {Error("Failed", <<n>>)}

Send(n, r) == Drop(Builds(n), [m \in {n} |-> r])

BuildFails(n) ==
    /\ Running(n)
    /\ \E r \in JoinErrors(n) : Send(n, r)
    /\ UNCHANGED <<configs, stores, stack, by, child, call, made>>

BuildSucceeds(n) ==
    /\ Running(n)
    /\ \A c \in Children(n) : ~Pending(c)
    /\ configs[n].kind # "leaf" => JoinErrors(n) = {}
    /\ made' = made + 1
    /\ Send(n, Ok(made'))
    /\ UNCHANGED <<configs, stores, stack, by, child, call>>

Step(n) == \/ \E i \in DOMAIN Refs(n) : resolve(n, i) \/ Receive(n, i)
           \/ BuildFails(n) \/ BuildSucceeds(n)

(* Also the names that some reference asks for in vain. *)
Asked == (Name \cup UNION {Range(Refs(n)) : n \in Name}) \ {Invalid}

Next ==
    \/ \E t \in Task : ReceiveCall(t) \/ \E n \in Asked : build(t, n)
    \/ \E n \in Name : Step(n)

Spec == Init /\ [][Next]_vars

(* The runtime polls every future that can make progress. *)
FairSpec ==
    /\ Spec
    /\ \A t \in Task : WF_vars(ReceiveCall(t))
    /\ \A n \in UNION {DOMAIN c : c \in Configs} : WF_vars(n \in Name /\ Step(n))

(* Small instances: compositions of three services with trees, shared      *)
(* services, cycles, and references that are missing or malformed.         *)
Service(k, R) == [kind : {k}, refs : R]
ThreeServices ==
    {[n \in {"a", "b", "c"} |-> CASE n = "a" -> x [] n = "b" -> y [] n = "c" -> z] :
        x \in Service("cache", {<<"b", "c">>, <<"b", "b">>})
             \cup Service("priority", {<<"b", "c">>, <<"c", "gone">>, <<"b", Invalid>>}),
        y \in Service("leaf", {<<>>}) \cup Service("cache", {<<"a", "c">>, <<"c", "c">>})
             \cup Service("priority", {<<"c">>}),
        z \in Service("leaf", {<<>>}) \cup Service("cache", {<<"b", "gone">>})
             \cup Service("priority", {<<"b", "c">>})}

-----------------------------------------------------------------------------

Result == [ok : {TRUE}, instance : Nat] \cup
          [ok : {FALSE}, path : Seq(Asked \cup {Invalid}),
           error : {"Nothing", "Started", "Dropped", "NotFound", "Recursion",
                    "InvalidReference", "Failed"}]

TypeOK ==
    /\ configs \in Configs
    /\ stores \in [Name -> {"Config", "InProgress"}]
    /\ stack \in [Name -> Seq(Name)] /\ by \in [Name -> SUBSET Task]
    /\ DOMAIN child = Name /\ \A n \in Name : child[n] \in [DOMAIN Refs(n) -> Result]
    /\ sent \in [Name -> Result]
    /\ call \in [Task -> [name : Seq(Asked), result : Result \cup {Panic}]]
    /\ made \in Nat

Edge(m, n) == \E i \in DOMAIN Refs(m) : Refs(m)[i] = n
Below(S) == S \cup {n \in Name : \E m \in S : Edge(m, n)}
Beneath(n) == LET one == {m \in Name : Edge(n, m)} IN Below(Below(Below(one)))
Acyclic == \A n \in Name : n \notin Beneath(n)

(* "we return a reference to the same instance": two calls of build() for  *)
(* one name that succeed get the same instance, however they overlap.      *)
SameInstance ==
    \A t, u \in Task :
        call[t].result.ok /\ call[u].result.ok /\ call[t].name = call[u].name
            => call[t].result = call[u].result

(* resolve() refuses a reference only for a recursion that is there: the   *)
(* reported stack is a chain of references, and its last service refers    *)
(* back into it.  A service reached on two ways is no recursion.           *)
RecursionIsReal ==
    \A n \in Name : \A i \in DOMAIN Refs(n) :
        LET r == child[n][i] IN
        IsError(r) /\ r.error = "Recursion" =>
            /\ \A j \in 1 .. Len(r.path) - 1 : Edge(r.path[j], r.path[j + 1])
            /\ \E j \in DOMAIN r.path : Edge(r.path[Len(r.path)], r.path[j])

(* A service that was handed out rests on services that were all built:    *)
(* no reference of a constructed service failed.                           *)
BuiltOnBuilt ==
    \A n \in Name : sent[n].ok =>
        \A i \in DOMAIN Refs(n) : Refs(n)[i] \in Name /\ sent[Refs(n)[i]].ok

(* The unwrap()s in build_internal() hold as long as no service list uses  *)
(* try_join_all: only a builder that is dropped half-way closes a channel  *)
(* somebody waits on.                                                      *)
NoClosedChannel ==
    (\A n \in Name : configs[n].kind # "priority") =>
        \A t \in Task : call[t].result # Panic

(* Every build() of a composition without a cycle returns.  (Two callers   *)
(* that enter a cycle at different places wait for each other: the stack   *)
(* is per caller.)                                                         *)
Waiting(t) == Acyclic /\ call[t].result = Started
BuildsEnd == \A t \in Task : Waiting(t) ~> ~Waiting(t)
-----------------------------------------------------------------------------
(* Proofs. *)

(* A stack is a chain of references that ends with its own service. *)
Chain(s) == \A j \in 1 .. Len(s) - 1 : Edge(s[j], s[j + 1])

(* A recursion that a result reports is there. *)
Real(r) ==
    IsError(r) /\ r.error = "Recursion" =>
        /\ Chain(r.path)
        /\ \E j \in DOMAIN r.path : Edge(r.path[Len(r.path)], r.path[j])

(* What is known of a service, its channel and its builder. *)
NInv(n) ==
    /\ stores[n] = "Config" => sent[n] = Nothing
    /\ stores[n] = "InProgress" => stack[n] # <<>> /\ stack[n][Len(stack[n])] = n /\ Chain(stack[n])
    /\ Real(sent[n])
    /\ \A i \in DOMAIN Refs(n) :
          /\ Real(child[n][i]) /\ child[n][i] # Dropped
          /\ child[n][i].ok => Refs(n)[i] \in Name /\ child[n][i] = sent[Refs(n)[i]]
          /\ child[n][i] = Started => Refs(n)[i] \in Name
          /\ sent[n].ok => child[n][i].ok

(* A call has what the channel of its service holds. *)
CInv(t) ==
    /\ call[t].result = Started => \E n \in Name : call[t].name = <<n>>
    /\ call[t].result.ok => \E n \in Name : call[t].name = <<n>> /\ call[t].result = sent[n]

(* Each service on the stack of a running builder is running, and waits    *)
(* for the next one.                                                       *)
Driven(n) ==
    \A j \in 1 .. Len(stack[n]) - 1 :
        /\ Running(stack[n][j])
        /\ \E i \in DOMAIN Refs(stack[n][j]) : /\ Refs(stack[n][j])[i] = stack[n][j + 1]
                                               /\ child[stack[n][j]][i] = Started
NoPriority == \A n \in Name : configs[n].kind # "priority"
NoneDropped ==
    /\ \A n \in Name : sent[n] # Dropped /\ (Running(n) => Driven(n))
    /\ \A t \in Task : call[t].result # Panic

IInv ==
    /\ TypeOK
    /\ \A n \in Name : NInv(n)
    /\ \A t \in Task : CInv(t)
    /\ NoPriority => NoneDropped

(* The results, told apart. *)
LEMMA Results ==
    /\ Nothing \in Result /\ Started \in Result /\ Dropped \in Result
    /\ ~Nothing.ok /\ ~Started.ok /\ ~Dropped.ok /\ ~Panic.ok
    /\ Nothing # Started /\ Nothing # Dropped /\ Started # Dropped
    /\ Panic \notin Result
    /\ \A k \in Nat : Ok(k) \in Result /\ Ok(k).ok
    /\ \A r \in Result : r.ok \in BOOLEAN
<1>1. <<>> \in Seq(Asked \cup {Invalid})
  OBVIOUS
<1>2. Nothing \in Result /\ Started \in Result /\ Dropped \in Result
  BY <1>1, Zenon DEF Nothing, Started, Dropped, Result
<1>3. ~Nothing.ok /\ ~Started.ok /\ ~Dropped.ok /\ ~Panic.ok
  BY Zenon DEF Nothing, Started, Dropped, Panic, Error
<1>4. Nothing # Started /\ Nothing # Dropped /\ Started # Dropped
  <2>1. Nothing.error = "Nothing" /\ Started.error = "Started" /\ Dropped.error = "Dropped"
    BY Zenon DEF Nothing, Started, Dropped
  <2> QED
    BY <2>1, Zenon
<1>5. Panic \notin Result
  <2>1. Panic.error = "panic" /\ Panic.ok = FALSE
    BY Zenon DEF Panic, Error
  <2>2. \A r \in Result : r.ok = TRUE \/ r.error # "panic"
    BY Zenon DEF Result
  <2> QED
    BY <2>1, <2>2, Zenon
<1>6. \A k \in Nat : Ok(k) \in Result /\ Ok(k).ok
  BY Zenon DEF Ok, Result
<1>7. \A r \in Result : r.ok \in BOOLEAN
  BY Zenon DEF Result
<1> QED
  BY <1>2, <1>3, <1>4, <1>5, <1>6, <1>7, Zenon

LEMMA Errors ==
    ASSUME NEW e \in {"NotFound", "Recursion", "InvalidReference", "Failed"},
           NEW path \in Seq(Asked \cup {Invalid})
    PROVE  /\ Error(e, path) \in Result /\ ~Error(e, path).ok
           /\ Error(e, path).error = e /\ Error(e, path).path = path
           /\ Error(e, path) # Nothing /\ Error(e, path) # Started /\ Error(e, path) # Dropped
<1>1. /\ Error(e, path) \in Result /\ ~Error(e, path).ok
      /\ Error(e, path).error = e /\ Error(e, path).path = path
  BY Zenon DEF Error, Result
<1>2. Nothing.error = "Nothing" /\ Started.error = "Started" /\ Dropped.error = "Dropped"
  BY Zenon DEF Nothing, Started, Dropped
<1> QED
  BY <1>1, <1>2, Zenon

(* The references of a service. *)
LEMMA RefsTyped ==
    ASSUME configs \in Configs, NEW n \in Name
    PROVE  /\ DOMAIN Refs(n) = 1 .. Len(Refs(n)) /\ Len(Refs(n)) \in Nat
           /\ Range(Refs(n)) \subseteq Asked \cup {Invalid}
           /\ n \in Asked
           /\ configs[n].kind \in {"leaf", "cache", "priority"}
           /\ configs[n].kind = "leaf" => DOMAIN Refs(n) = {}
           /\ configs[n].kind = "cache" => DOMAIN Refs(n) = {1, 2}
<1>1. /\ n # Invalid
      /\ configs[n].refs \in Seq(Range(configs[n].refs))
      /\ \/ configs[n].kind = "leaf" /\ configs[n].refs = <<>>
         \/ configs[n].kind = "cache" /\ Len(configs[n].refs) = 2
         \/ configs[n].kind = "priority"
  BY ConfigsAssumption, Zenon DEF Name
<1>2. DOMAIN Refs(n) = 1 .. Len(Refs(n)) /\ Len(Refs(n)) \in Nat
  BY <1>1 DEF Refs
<1>3. Range(Refs(n)) \subseteq Asked \cup {Invalid}
  BY Zenon DEF Asked
<1>4. n \in Asked
  BY <1>1, Zenon DEF Asked
<1>5. configs[n].kind \in {"leaf", "cache", "priority"}
  BY <1>1, Zenon
<1>6. configs[n].kind = "leaf" => DOMAIN Refs(n) = {}
  BY <1>1 DEF Refs
<1>7. configs[n].kind = "cache" => DOMAIN Refs(n) = {1, 2}
  <2>1. configs[n].kind = "cache" => DOMAIN Refs(n) = 1 .. 2
    BY <1>1, <1>2, Zenon DEF Refs
  <2> QED
    BY <2>1
<1> QED
  BY <1>2, <1>3, <1>4, <1>5, <1>6, <1>7, Zenon

(* The composition stays the same, and with it everything it determines. *)
LEMMA SameConfigs ==
    ASSUME configs' = configs
    PROVE  /\ Name' = Name /\ Asked' = Asked /\ Result' = Result
           /\ \A n : Refs(n)' = Refs(n)
           /\ \A m, n : Edge(m, n)' <=> Edge(m, n)
           /\ \A r : Real(r)' <=> Real(r)
           /\ \A s : Chain(s)' <=> Chain(s)
           /\ NoPriority' <=> NoPriority
<1>1. Name' = Name /\ \A n : Refs(n)' = Refs(n)
  BY Zenon DEF Name, Refs
<1>2. Asked' = Asked
  BY <1>1, Zenon DEF Asked
<1>3. Result' = Result
  BY <1>2, Zenon DEF Result
<1>4. \A m, n : Edge(m, n)' <=> Edge(m, n)
  BY <1>1, Zenon DEF Edge
<1>5. \A s : Chain(s)' <=> Chain(s)
  BY <1>4, Zenon DEF Chain
<1>6. \A r : Real(r)' <=> Real(r)
  BY <1>4, <1>5, Zenon DEF Real
<1>7. NoPriority' <=> NoPriority
  BY <1>1, Zenon DEF NoPriority
<1> QED
  BY <1>1, <1>2, <1>3, <1>4, <1>5, <1>6, <1>7, Zenon
-----------------------------------------------------------------------------
(* What a channel holds it goes on holding. *)
Settled == configs' = configs /\ \A n \in Name : sent[n] # Nothing => sent'[n] = sent[n]

(* A service whose builder takes no step: its channel may still be closed  *)
(* on it, or get an error.                                                 *)
LEMMA NameKept ==
    ASSUME TypeOK, NEW n \in Name, NInv(n), Settled,
           stores'[n] = stores[n], stack'[n] = stack[n], child'[n] = child[n],
           \/ sent'[n] = sent[n]
           \/ stores[n] = "InProgress" /\ ~sent'[n].ok /\ Real(sent'[n])
    PROVE  NInv(n)'
<1>1. configs' = configs /\ Name' = Name /\ Refs(n)' = Refs(n)
  BY SameConfigs, Zenon DEF Settled
<1>2. (\A r : Real(r)' <=> Real(r)) /\ (\A s : Chain(s)' <=> Chain(s))
  BY <1>1, SameConfigs, Zenon
<1>3. Real(sent[n])'
  BY <1>2, Zenon DEF NInv
<1>4. ASSUME NEW i \in DOMAIN Refs(n)
      PROVE  /\ Real(child[n][i])' /\ child'[n][i] # Dropped
             /\ child'[n][i].ok => Refs(n)[i] \in Name /\ child'[n][i] = sent'[Refs(n)[i]]
             /\ child'[n][i] = Started => Refs(n)[i] \in Name
             /\ sent'[n].ok => child'[n][i].ok
  <2>1. Real(child[n][i])'
    BY <1>2, Zenon DEF NInv
  <2>2. ASSUME child[n][i].ok
        PROVE  Refs(n)[i] \in Name /\ child[n][i] = sent'[Refs(n)[i]]
    <3>1. Refs(n)[i] \in Name /\ child[n][i] = sent[Refs(n)[i]]
      BY <2>2, Zenon DEF NInv
    <3>2. sent[Refs(n)[i]] # Nothing
      BY <2>2, <3>1, Results, Zenon
    <3> QED
      BY <3>1, <3>2, Zenon DEF Settled
  <2> QED
    BY <2>1, <2>2, Zenon DEF NInv
<1> QED
  BY <1>1, <1>2, <1>3, <1>4, Zenon DEF NInv

LEMMA CallKept ==
    ASSUME NEW t \in Task, CInv(t), Settled, call'[t] = call[t]
    PROVE  CInv(t)'
<1>1. Name' = Name
  BY SameConfigs, Zenon DEF Settled
<1>2. ASSUME call[t].result.ok
      PROVE  \E n \in Name : call[t].name = <<n>> /\ call[t].result = sent'[n]
  <2>1. PICK n \in Name : call[t].name = <<n>> /\ call[t].result = sent[n]
    BY <1>2, Zenon DEF CInv
  <2>2. sent[n] # Nothing
    BY <1>2, <2>1, Results, Zenon
  <2> QED
    BY <2>1, <2>2, Zenon DEF Settled
<1> QED
  BY <1>1, <1>2, Zenon DEF CInv

(* One reference of one builder gets a result. *)
LEMMA ChildUpdate ==
    ASSUME TypeOK, NEW n \in Name, NEW i \in DOMAIN Refs(n), NEW r \in Result,
           child' = [child EXCEPT ![n][i] = r]
    PROVE  /\ DOMAIN child' = Name /\ \A m \in Name : child'[m] \in [DOMAIN Refs(m) -> Result]
           /\ child'[n][i] = r
           /\ \A j \in DOMAIN Refs(n) \ {i} : child'[n][j] = child[n][j]
           /\ \A m \in Name \ {n} : child'[m] = child[m]
<1>1. DOMAIN child = Name /\ \A m \in Name : child[m] \in [DOMAIN Refs(m) -> Result]
  BY Zenon DEF TypeOK
<1>2. child' = [child EXCEPT ![n] = [child[n] EXCEPT ![i] = r]]
  BY Zenon
<1>3. /\ DOMAIN child' = Name /\ child'[n] = [child[n] EXCEPT ![i] = r]
      /\ \A m \in Name \ {n} : child'[m] = child[m]
  BY <1>1, <1>2, Zenon
<1> QED
  BY <1>1, <1>3, Zenon

(* A stack of services that all run and wait stays one. *)
LEMMA StillDriven ==
    ASSUME NEW k, configs' = configs, stack'[k] = stack[k], Driven(k),
           \A j \in 1 .. Len(stack[k]) - 1 :
               /\ stores'[stack[k][j]] = stores[stack[k][j]]
               /\ sent'[stack[k][j]] = sent[stack[k][j]]
               /\ \A i \in DOMAIN Refs(stack[k][j]) :
                     child[stack[k][j]][i] = Started /\ Refs(stack[k][j])[i] = stack[k][j + 1]
                        => child'[stack[k][j]][i] = Started
    PROVE  Driven(k)'
<1>1. \A n : Refs(n)' = Refs(n)
  BY SameConfigs, Zenon
<1>2. PICK s : s = stack[k] /\ s = stack'[k]
  BY Zenon
<1>3. ASSUME NEW j \in 1 .. Len(s) - 1
      PROVE  /\ stores'[s[j]] = "InProgress" /\ sent'[s[j]] = Nothing
             /\ \E i \in DOMAIN Refs(s[j]) : Refs(s[j])[i] = s[j + 1] /\ child'[s[j]][i] = Started
  <2>1. j \in 1 .. Len(stack[k]) - 1
    BY <1>2, Zenon
  <2>2. /\ stores'[stack[k][j]] = "InProgress" /\ sent'[stack[k][j]] = Nothing
        /\ \E i \in DOMAIN Refs(stack[k][j]) :
              /\ Refs(stack[k][j])[i] = stack[k][j + 1]
              /\ child'[stack[k][j]][i] = Started
    BY <2>1, Zenon DEF Driven, Running
  <2> QED
    BY <1>2, <2>2, Zenon
<1>4. \A j \in 1 .. Len(s) - 1 :
          /\ Running(s[j])'
          /\ \E i \in DOMAIN Refs(s[j])' : Refs(s[j])'[i] = s[j + 1] /\ child'[s[j]][i] = Started
  BY <1>1, <1>3, Zenon DEF Running
<1> QED
  BY <1>2, <1>4 DEF Driven, Running, Refs
-----------------------------------------------------------------------------
LEMMA InitHolds == Init => IInv
<1> SUFFICES ASSUME Init PROVE IInv
  BY Zenon
<1>1. TypeOK
  <2>1. child = [n \in Name |-> [i \in DOMAIN Refs(n) |-> Nothing]]
    BY Zenon DEF Init
  <2>2. DOMAIN child = Name /\ \A n \in Name : child[n] \in [DOMAIN Refs(n) -> Result]
    BY <2>1, Results, Zenon
  <2>3. call \in [Task -> [name : Seq(Asked), result : Result \cup {Panic}]]
    BY Results DEF Init
  <2> QED
    BY <2>2, <2>3, Results DEF Init, TypeOK
<1>2. Real(Nothing)
  BY Zenon DEF Real, IsError, Pending
<1>3. ASSUME NEW n \in Name PROVE NInv(n)
  BY <1>2, Results, Zenon DEF Init, NInv
<1>4. ASSUME NEW t \in Task PROVE CInv(t)
  BY Results, Zenon DEF Init, CInv
<1>5. NoneDropped
  BY Results, Zenon DEF Init, NoneDropped, Running, Panic, Error, Nothing
<1> QED
  BY <1>1, <1>3, <1>4, <1>5, Zenon DEF IInv

(* build_internal() touches only the service it is asked for, and that one *)
(* only if nobody has started it.                                          *)
LEMMA EnterEffect ==
    ASSUME TypeOK, NEW m \in Name, NEW stk \in Seq(Name), NEW t \in Task, Enter(m, stk, t)
    PROVE  /\ sent' = sent
           /\ stores' \in [Name -> {"Config", "InProgress"}] /\ stack' \in [Name -> Seq(Name)]
           /\ by' \in [Name -> SUBSET Task]
           /\ \A k \in Name \ {m} : stores'[k] = stores[k] /\ stack'[k] = stack[k]
           /\ stores[m] = "InProgress" => stores'[m] = stores[m] /\ stack'[m] = stack[m]
           /\ stores[m] = "Config" => stores'[m] = "InProgress" /\ stack'[m] = Append(stk, m)
<1>1. Append(stk, m) \in Seq(Name)
  OBVIOUS
<1>2. stores \in [Name -> {"Config", "InProgress"}] /\ stack \in [Name -> Seq(Name)]
      /\ by \in [Name -> SUBSET Task]
  BY Zenon DEF TypeOK
<1>3. CASE stores[m] = "Config"
  <2>1. /\ stores' = [stores EXCEPT ![m] = "InProgress"] /\ sent' = sent
        /\ stack' = [stack EXCEPT ![m] = Append(stk, m)] /\ by' = [by EXCEPT ![m] = {t}]
    BY <1>3, Zenon DEF Enter
  <2>2. stack' \in [Name -> Seq(Name)]
    BY <1>1, <1>2, <2>1, Zenon
  <2>3. stores' \in [Name -> {"Config", "InProgress"}] /\ by' \in [Name -> SUBSET Task]
    BY <1>2, <2>1, Zenon
  <2> QED
    BY <1>2, <1>3, <2>1, <2>2, <2>3, Zenon
<1>4. CASE stores[m] # "Config"
  BY <1>2, <1>4, Zenon DEF Enter
<1> QED
  BY <1>3, <1>4, Zenon

(* It may start a service at the end of a chain of references. *)
LEMMA EnterName ==
    ASSUME TypeOK, NEW m \in Name, NEW stk \in Seq(Name), NEW t \in Task, Enter(m, stk, t),
           configs' = configs, child'[m] = child[m], NInv(m), Chain(Append(stk, m))
    PROVE  NInv(m)'
<1>0. Settled
  BY EnterEffect, Zenon DEF Settled
<1>1. CASE stores[m] = "InProgress"
  BY <1>0, <1>1, EnterEffect, NameKept, Zenon
<1>2. CASE stores[m] = "Config"
  <2>1. sent' = sent /\ stores'[m] = "InProgress" /\ stack'[m] = Append(stk, m)
    BY <1>2, EnterEffect, Zenon
  <2>2. /\ Append(stk, m) # <<>> /\ Append(stk, m)[Len(Append(stk, m))] = m
    OBVIOUS
  <2>3. Refs(m)' = Refs(m) /\ Name' = Name /\ Chain(stack[m])'
        /\ \A r : Real(r)' <=> Real(r)
    BY <2>1, SameConfigs, Zenon
  <2> QED
    BY <2>1, <2>2, <2>3, ZenonT(30) DEF NInv
<1> QED
  BY <1>1, <1>2, Zenon DEF TypeOK

(* Starting a service disturbs no other stack. *)
LEMMA EnterDriven ==
    ASSUME TypeOK, NEW m \in Name, NEW stk \in Seq(Name), NEW t \in Task, Enter(m, stk, t),
           configs' = configs, NEW k \in Name, k # m \/ stores[k] = "InProgress", Driven(k),
           \A n \in Name : \A i \in DOMAIN Refs(n) : child[n][i] = Started => child'[n][i] = Started
    PROVE  Driven(k)'
<1>1. stack'[k] = stack[k] /\ stack[k] \in Seq(Name) /\ sent' = sent
  BY EnterEffect, Zenon DEF TypeOK
<1>2. ASSUME NEW j \in 1 .. Len(stack[k]) - 1
      PROVE  stack[k][j] \in Name /\ stores'[stack[k][j]] = stores[stack[k][j]]
  <2>1. stack[k][j] \in Name /\ stores[stack[k][j]] = "InProgress"
    BY <1>1, <1>2 DEF Driven, Running
  <2> QED
    BY <2>1, EnterEffect, Zenon
<1> QED
  BY <1>1, <1>2, StillDriven, Zenon
-----------------------------------------------------------------------------
(* A call of build() begins. *)
LEMMA BuildKeeps ==
    ASSUME IInv, NEW t \in Task, NEW n \in Asked, build(t, n)
    PROVE  IInv'
<1>1. TypeOK /\ (\A m \in Name : NInv(m)) /\ (\A u \in Task : CInv(u)) /\ (NoPriority => NoneDropped)
  BY Zenon DEF IInv
<1>2. /\ configs' = configs /\ child' = child /\ made' = made /\ Name' = Name /\ Asked' = Asked
      /\ Result' = Result /\ (\A m : Refs(m)' = Refs(m)) /\ (NoPriority' <=> NoPriority)
  BY SameConfigs, Zenon DEF build
<1>3. call \in [Task -> [name : Seq(Asked), result : Result \cup {Panic}]]
  BY <1>1, Zenon DEF TypeOK
<1>4. CASE n \in Name
  <2>1. Enter(n, <<>>, t) /\ call' = [call EXCEPT ![t] = [name |-> <<n>>, result |-> Started]]
    BY <1>4, Zenon DEF build
  <2>2. <<>> \in Seq(Name)
    OBVIOUS
  <2>3. /\ sent' = sent
        /\ stores' \in [Name -> {"Config", "InProgress"}] /\ stack' \in [Name -> Seq(Name)]
        /\ by' \in [Name -> SUBSET Task]
        /\ \A k \in Name \ {n} : stores'[k] = stores[k] /\ stack'[k] = stack[k]
        /\ stores[n] = "Config" => stores'[n] = "InProgress" /\ stack'[n] = Append(<<>>, n)
    BY <1>1, <1>4, <2>1, <2>2, EnterEffect, Zenon
  <2>4. Settled
    BY <1>2, <2>3, Zenon DEF Settled
  <2>5. /\ call' \in [Task -> [name : Seq(Asked), result : Result \cup {Panic}]]
        /\ call'[t].name = <<n>> /\ call'[t].result = Started
        /\ \A u \in Task \ {t} : call'[u] = call[u]
    BY <1>3, <2>1, Results
  <2>6. TypeOK'
    BY <1>1, <1>2, <2>3, <2>5, Zenon DEF TypeOK
  <2>7. Chain(Append(<<>>, n))
    BY DEF Chain
  <2>8. \A m \in Name : NInv(m)'
    <3>1. NInv(n)'
      BY <1>1, <1>2, <1>4, <2>1, <2>2, <2>7, EnterName, Zenon
    <3>2. ASSUME NEW m \in Name \ {n} PROVE NInv(m)'
      BY <1>1, <1>2, <2>3, <2>4, NameKept, Zenon
    <3> QED
      BY <3>1, <3>2, Zenon
  <2>9. \A u \in Task : CInv(u)'
    <3>1. CInv(t)'
      BY <1>2, <1>4, <2>5, Results, Zenon DEF CInv
    <3> QED
      BY <1>1, <2>4, <2>5, <3>1, CallKept, Zenon
  <2>10. ASSUME NoPriority PROVE NoneDropped'
    <3>1. NoneDropped
      BY <1>1, <2>10, Zenon
    <3>2. ASSUME NEW k \in Name, Running(k)' PROVE Driven(k)'
      <4>1. CASE k = n /\ stores[k] = "Config"
        <5>1. stack'[k] = Append(<<>>, n) /\ Len(Append(<<>>, n)) = 1
          BY <2>3, <4>1
        <5>2. 1 .. Len(stack'[k]) - 1 = {}
          BY <5>1
        <5> QED
          BY <5>2, Zenon DEF Driven
      <4>2. CASE k # n \/ stores[k] = "InProgress"
        <5>1. Driven(k)
          BY <2>3, <3>1, <3>2, <4>2, Zenon DEF NoneDropped, Running
        <5> QED
          BY <1>1, <1>2, <1>4, <2>1, <2>2, <4>2, <5>1, EnterDriven, Zenon
      <4> QED
        BY <1>1, <4>1, <4>2, Zenon DEF TypeOK
    <3>3. \A u \in Task : call'[u].result # Panic
      BY <2>5, <3>1, Results, Zenon DEF NoneDropped
    <3> QED
      BY <1>2, <2>3, <3>1, <3>2, <3>3, Zenon DEF NoneDropped
  <2> QED
    BY <1>2, <2>6, <2>8, <2>9, <2>10, Zenon DEF IInv
<1>5. CASE n \notin Name
  <2>1. /\ call' = [call EXCEPT ![t] = [name |-> <<n>>, result |-> Error("NotFound", <<n>>)]]
        /\ UNCHANGED <<stores, stack, by, sent>>
    BY <1>5, Zenon DEF build
  <2>2. <<n>> \in Seq(Asked \cup {Invalid}) /\ <<n>> \in Seq(Asked)
    OBVIOUS
  <2>3. /\ Error("NotFound", <<n>>) \in Result /\ ~Error("NotFound", <<n>>).ok
        /\ Error("NotFound", <<n>>) # Nothing /\ Error("NotFound", <<n>>) # Started
    BY <2>2, Errors, Zenon
  <2>4. /\ call' \in [Task -> [name : Seq(Asked), result : Result \cup {Panic}]]
        /\ call'[t].name = <<n>> /\ call'[t].result = Error("NotFound", <<n>>)
        /\ \A u \in Task \ {t} : call'[u] = call[u]
    BY <1>3, <2>1, <2>2, <2>3, Zenon
  <2>5. Settled
    BY <1>2, <2>1, Zenon DEF Settled
  <2>6. TypeOK'
    BY <1>1, <1>2, <2>1, <2>4, Zenon DEF TypeOK
  <2>7. \A m \in Name : NInv(m)'
    BY <1>1, <1>2, <2>1, <2>5, NameKept, Zenon
  <2>8. \A u \in Task : CInv(u)'
    <3>1. CInv(t)'
      BY <1>2, <2>3, <2>4, Zenon DEF CInv
    <3> QED
      BY <1>1, <2>4, <2>5, <3>1, CallKept, Zenon
  <2>9. ASSUME NoPriority PROVE NoneDropped'
    <3>1. NoneDropped
      BY <1>1, <2>9, Zenon
    <3>2. \A u \in Task : call'[u].result # Panic
      BY <2>3, <2>4, <3>1, Results, Zenon DEF NoneDropped
    <3>3. \A k \in Name : (Running(k)' <=> Running(k)) /\ (Driven(k)' <=> Driven(k))
      BY <1>2, <2>1, Zenon DEF Running, Driven
    <3> QED
      BY <1>2, <2>1, <3>1, <3>2, <3>3, Zenon DEF NoneDropped
  <2> QED
    BY <1>2, <2>6, <2>7, <2>8, <2>9, Zenon DEF IInv
<1> QED
  BY <1>4, <1>5, Zenon
-----------------------------------------------------------------------------
(* A running builder gets a result for one of its references. *)
LEMMA ChildName ==
    ASSUME TypeOK, NEW n \in Name, NInv(n), Settled, stores'[n] = stores[n], stack'[n] = stack[n],
           sent[n] = Nothing, sent'[n] = Nothing, NEW i \in DOMAIN Refs(n), NEW r \in Result,
           child' = [child EXCEPT ![n][i] = r], Real(r), r # Dropped,
           r.ok => Refs(n)[i] \in Name /\ r = sent'[Refs(n)[i]],
           r = Started => Refs(n)[i] \in Name
    PROVE  NInv(n)'
<1>1. configs' = configs /\ Name' = Name /\ Refs(n)' = Refs(n)
  BY SameConfigs, Zenon DEF Settled
<1>2. (\A x : Real(x)' <=> Real(x)) /\ (\A x : Chain(x)' <=> Chain(x))
  BY <1>1, SameConfigs, Zenon
<1>3. child'[n][i] = r /\ \A j \in DOMAIN Refs(n) \ {i} : child'[n][j] = child[n][j]
  BY ChildUpdate, Zenon
<1>4. Real(sent[n])'
  BY <1>2, Zenon DEF NInv
<1>5. ASSUME NEW j \in DOMAIN Refs(n)
      PROVE  /\ Real(child[n][j])' /\ child'[n][j] # Dropped
             /\ child'[n][j].ok => Refs(n)[j] \in Name /\ child'[n][j] = sent'[Refs(n)[j]]
             /\ child'[n][j] = Started => Refs(n)[j] \in Name
             /\ sent'[n].ok => child'[n][j].ok
  <2>1. ~sent'[n].ok
    BY Results, Zenon
  <2>2. CASE j = i
    BY <1>2, <1>3, <2>1, <2>2, Zenon
  <2>3. CASE j # i
    <3>1. /\ child'[n][j] = child[n][j] /\ Real(child[n][j]) /\ child[n][j] # Dropped
          /\ child[n][j].ok => Refs(n)[j] \in Name /\ child[n][j] = sent[Refs(n)[j]]
          /\ child[n][j] = Started => Refs(n)[j] \in Name
      BY <1>3, <2>3, Zenon DEF NInv
    <3>2. ASSUME child[n][j].ok PROVE child[n][j] = sent'[Refs(n)[j]]
      <4>1. Refs(n)[j] \in Name /\ sent[Refs(n)[j]] # Nothing /\ child[n][j] = sent[Refs(n)[j]]
        BY <3>1, <3>2, Results, Zenon
      <4> QED
        BY <4>1, Zenon DEF Settled
    <3> QED
      BY <1>2, <2>1, <3>1, <3>2, Zenon
  <2> QED
    BY <2>2, <2>3, Zenon
<1> QED
  BY <1>1, <1>2, <1>4, <1>5, ZenonT(30) DEF NInv

(* What resolve() does, in two cases. *)
LEMMA ResolveCases ==
    ASSUME IInv, NEW n \in Name, NEW i \in DOMAIN Refs(n), resolve(n, i)
    PROVE  /\ stores[n] = "InProgress" /\ sent[n] = Nothing /\ child[n][i] = Nothing
           /\ UNCHANGED <<configs, call, made>>
           /\ \/ /\ UNCHANGED <<stores, stack, by, sent>>
                 /\ \E r \in Result : /\ child' = [child EXCEPT ![n][i] = r]
                                      /\ ~r.ok /\ r \notin {Started, Dropped} /\ Real(r)
              \/ /\ Refs(n)[i] \in Name \ Range(stack[n])
                 /\ child' = [child EXCEPT ![n][i] = Started]
                 /\ \E t \in Task : Enter(Refs(n)[i], stack[n], t)
<1> DEFINE m == Refs(n)[i]
           Fails(e, path) == /\ child' = [child EXCEPT ![n][i] = Error(e, path)]
                             /\ UNCHANGED <<stores, stack, by, sent>>
           Answered == /\ UNCHANGED <<stores, stack, by, sent>>
                       /\ \E r \in Result : /\ child' = [child EXCEPT ![n][i] = r]
                                            /\ ~r.ok /\ r \notin {Started, Dropped} /\ Real(r)
<1>1. TypeOK /\ NInv(n)
  BY Zenon DEF IInv
<1>2. /\ stores[n] = "InProgress" /\ sent[n] = Nothing /\ child[n][i] = Nothing
      /\ UNCHANGED <<configs, call, made>>
  BY Zenon DEF resolve, Running
<1>3. m \in Asked \cup {Invalid}
  BY <1>1, RefsTyped, Zenon DEF Range, TypeOK
<1>4. CASE m = Invalid
  <2>0. m \notin Name
    BY <1>1, <1>4, ConfigsAssumption, Zenon DEF Name, TypeOK
  <2>1. Fails("InvalidReference", <<m>>)
    BY <1>4, <2>0, Zenon DEF resolve
  <2>2. <<m>> \in Seq(Asked \cup {Invalid})
    BY <1>3
  <2>3. /\ Error("InvalidReference", <<m>>) \in Result /\ ~Error("InvalidReference", <<m>>).ok
        /\ Error("InvalidReference", <<m>>).error = "InvalidReference"
        /\ Error("InvalidReference", <<m>>) \notin {Started, Dropped}
    BY <2>2, Errors, Zenon
  <2>4. Real(Error("InvalidReference", <<m>>))
    BY <2>3, Zenon DEF Real
  <2> QED
    BY <1>2, <2>1, <2>3, <2>4, Zenon
<1>5. CASE m # Invalid /\ m \notin Name
  <2>1. Fails("NotFound", <<m>>)
    BY <1>5, Zenon DEF resolve
  <2>2. <<m>> \in Seq(Asked \cup {Invalid})
    BY <1>3
  <2>3. /\ Error("NotFound", <<m>>) \in Result /\ ~Error("NotFound", <<m>>).ok
        /\ Error("NotFound", <<m>>).error = "NotFound" /\ Error("NotFound", <<m>>) \notin {Started, Dropped}
    BY <2>2, Errors, Zenon
  <2>4. Real(Error("NotFound", <<m>>))
    BY <2>3, Zenon DEF Real
  <2> QED
    BY <1>2, <2>1, <2>3, <2>4, Zenon
<1>6. CASE m \in Name /\ m \in Range(stack[n])
  <2>0. m # Invalid
    BY <1>1, <1>6, ConfigsAssumption, Zenon DEF Name, TypeOK
  <2>1. Fails("Recursion", stack[n])
    BY <1>6, <2>0, Zenon DEF resolve, Recursive
  <2>2. stack[n] \in Seq(Name) /\ Name \subseteq Asked
    BY <1>1, RefsTyped, Zenon DEF TypeOK
  <2>3. stack[n] \in Seq(Asked \cup {Invalid})
    BY <2>2
  <2>4. /\ Error("Recursion", stack[n]) \in Result /\ ~Error("Recursion", stack[n]).ok
        /\ Error("Recursion", stack[n]).path = stack[n] /\ Error("Recursion", stack[n]) \notin {Started, Dropped}
    BY <2>3, Errors, Zenon
  <2>5. Chain(stack[n]) /\ stack[n][Len(stack[n])] = n
    BY <1>1, <1>2, Zenon DEF NInv
  <2>6. \E j \in DOMAIN stack[n] : Edge(n, stack[n][j])
    BY <1>6, Zenon DEF Range, Edge
  <2>7. Real(Error("Recursion", stack[n]))
    BY <2>4, <2>5, <2>6, Zenon DEF Real
  <2> QED
    BY <1>2, <2>1, <2>4, <2>7, Zenon
<1>7. CASE m \in Name /\ m \notin Range(stack[n])
  <2>0. m # Invalid
    BY <1>1, <1>7, ConfigsAssumption, Zenon DEF Name, TypeOK
  <2>1. \E t \in by[n] : Enter(m, stack[n], t) /\ child' = [child EXCEPT ![n][i] = Started]
    BY <1>7, <2>0, Zenon DEF resolve, Recursive
  <2>2. by[n] \subseteq Task
    BY <1>1, Zenon DEF TypeOK
  <2> QED
    BY <1>2, <1>7, <2>1, <2>2, Zenon
<1> QED
  BY <1>4, <1>5, <1>6, <1>7, Zenon

(* A reference is refused. *)
LEMMA ResolveFailsKeeps ==
    ASSUME IInv, NEW n \in Name, NEW i \in DOMAIN Refs(n), sent[n] = Nothing, child[n][i] = Nothing,
           UNCHANGED <<configs, call, made, stores, stack, by, sent>>,
           NEW r \in Result, child' = [child EXCEPT ![n][i] = r], ~r.ok, r \notin {Started, Dropped}, Real(r)
    PROVE  IInv'
<1>1. TypeOK /\ (\A m \in Name : NInv(m)) /\ (\A u \in Task : CInv(u)) /\ (NoPriority => NoneDropped)
  BY Zenon DEF IInv
<1>2. /\ Name' = Name /\ Asked' = Asked /\ Result' = Result /\ (\A m : Refs(m)' = Refs(m))
      /\ (NoPriority' <=> NoPriority)
  BY SameConfigs, Zenon
<1>3. /\ DOMAIN child' = Name /\ (\A m \in Name : child'[m] \in [DOMAIN Refs(m) -> Result])
      /\ (\A j \in DOMAIN Refs(n) \ {i} : child'[n][j] = child[n][j])
      /\ (\A m \in Name \ {n} : child'[m] = child[m])
  BY <1>1, ChildUpdate, Zenon
<1>4. Settled
  BY Zenon DEF Settled
<1>5. TypeOK'
  BY <1>1, <1>2, <1>3, Zenon DEF TypeOK
<1>6. \A m \in Name : NInv(m)'
  <2>1. NInv(n)'
    BY <1>1, <1>4, ChildName, Zenon
  <2>2. ASSUME NEW m \in Name \ {n} PROVE NInv(m)'
    BY <1>1, <1>3, <1>4, NameKept, Zenon
  <2> QED
    BY <2>1, <2>2, Zenon
<1>7. \A u \in Task : CInv(u)'
  BY <1>1, <1>4, CallKept, Zenon
<1>8. ASSUME NoPriority PROVE NoneDropped'
  <2>1. NoneDropped
    BY <1>1, <1>8, Zenon
  <2>2. \A x \in Name : \A j \in DOMAIN Refs(x) : child[x][j] = Started => child'[x][j] = Started
    BY <1>3, Results, Zenon
  <2>3. ASSUME NEW k \in Name, Running(k)' PROVE Driven(k)'
    <3>1. Driven(k) /\ stack[k] \in Seq(Name)
      BY <1>1, <2>1, <2>3, Zenon DEF NoneDropped, Running, TypeOK
    <3>2. \A j \in 1 .. Len(stack[k]) - 1 : stack[k][j] \in Name
      BY <3>1
    <3> QED
      BY <2>2, <3>1, <3>2, StillDriven, Zenon
  <2> QED
    BY <1>2, <2>1, <2>3, Zenon DEF NoneDropped
<1> QED
  BY <1>2, <1>5, <1>6, <1>7, <1>8, Zenon DEF IInv

(* A reference is followed: its service is started, or waited for. *)
LEMMA ResolveEntersKeeps ==
    ASSUME IInv, NEW n \in Name, NEW i \in DOMAIN Refs(n), stores[n] = "InProgress",
           sent[n] = Nothing, UNCHANGED <<configs, call, made>>,
           NEW m \in Name, m = Refs(n)[i], m \notin Range(stack[n]),
           child' = [child EXCEPT ![n][i] = Started], NEW t \in Task, Enter(m, stack[n], t)
    PROVE  IInv'
<1>1. TypeOK /\ (\A k \in Name : NInv(k)) /\ (\A u \in Task : CInv(u)) /\ (NoPriority => NoneDropped)
  BY Zenon DEF IInv
<1>2. /\ Name' = Name /\ Asked' = Asked /\ Result' = Result /\ (\A k : Refs(k)' = Refs(k))
      /\ (NoPriority' <=> NoPriority)
  BY SameConfigs, Zenon
<1>3. stack[n] \in Seq(Name) /\ stack[n] # <<>> /\ stack[n][Len(stack[n])] = n /\ Chain(stack[n])
  BY <1>1, ZenonT(30) DEF TypeOK, NInv
<1>4. m # n
  BY <1>3 DEF Range
<1>5. /\ DOMAIN child' = Name /\ (\A k \in Name : child'[k] \in [DOMAIN Refs(k) -> Result])
      /\ child'[n][i] = Started
      /\ (\A j \in DOMAIN Refs(n) \ {i} : child'[n][j] = child[n][j])
      /\ (\A k \in Name \ {n} : child'[k] = child[k])
  BY <1>1, ChildUpdate, Results, Zenon
<1>6. /\ sent' = sent
      /\ stores' \in [Name -> {"Config", "InProgress"}] /\ stack' \in [Name -> Seq(Name)]
      /\ by' \in [Name -> SUBSET Task]
      /\ (\A k \in Name \ {m} : stores'[k] = stores[k] /\ stack'[k] = stack[k])
      /\ (stores[m] = "Config" => stores'[m] = "InProgress" /\ stack'[m] = Append(stack[n], m))
  BY <1>1, <1>3, EnterEffect, Zenon
<1>7. Settled
  BY <1>6, Zenon DEF Settled
<1>8. TypeOK'
  BY <1>1, <1>2, <1>5, <1>6, Zenon DEF TypeOK
<1>9. \A k \in Name : NInv(k)'
  <2>1. Chain(Append(stack[n], m))
    <3> SUFFICES ASSUME NEW j \in 1 .. Len(Append(stack[n], m)) - 1
                 PROVE  Edge(Append(stack[n], m)[j], Append(stack[n], m)[j + 1])
      BY Zenon DEF Chain
    <3>1. j \in 1 .. Len(stack[n]) /\ Len(stack[n]) \in Nat
      BY <1>3
    <3>2. CASE j = Len(stack[n])
      <4>1. Append(stack[n], m)[j] = n /\ Append(stack[n], m)[j + 1] = m
        BY <1>3, <3>1, <3>2
      <4> QED
        BY <4>1, Zenon DEF Edge
    <3>3. CASE j # Len(stack[n])
      <4>1. j \in 1 .. Len(stack[n]) - 1
        BY <3>1, <3>3
      <4>2. Append(stack[n], m)[j] = stack[n][j] /\ Append(stack[n], m)[j + 1] = stack[n][j + 1]
        BY <1>3, <4>1
      <4> QED
        BY <1>3, <4>1, <4>2, Zenon DEF Chain
    <3> QED
      BY <3>2, <3>3, Zenon
  <2>2. NInv(m)'
    BY <1>1, <1>3, <1>4, <1>5, <2>1, EnterName, Zenon
  <2>3. NInv(n)'
    <3>1. Real(Started)
      BY Zenon DEF Real, IsError, Pending
    <3> QED
      BY <1>1, <1>4, <1>6, <1>7, <3>1, ChildName, Results, Zenon
  <2>4. ASSUME NEW k \in Name \ {m, n} PROVE NInv(k)'
    BY <1>1, <1>5, <1>6, <1>7, NameKept, Zenon
  <2> QED
    BY <2>2, <2>3, <2>4, Zenon
<1>10. \A u \in Task : CInv(u)'
  BY <1>1, <1>7, CallKept, Zenon
<1>11. ASSUME NoPriority PROVE NoneDropped'
  <2>1. NoneDropped
    BY <1>1, <1>11, Zenon
  <2>2. \A x \in Name : \A j \in DOMAIN Refs(x) : child[x][j] = Started => child'[x][j] = Started
    BY <1>5, Zenon
  <2>3. ASSUME NEW k \in Name, Running(k)', k # m \/ stores[k] = "InProgress" PROVE Driven(k)'
    <3>1. Driven(k)
      BY <1>6, <2>1, <2>3, Zenon DEF NoneDropped, Running
    <3> QED
      BY <1>1, <1>3, <2>2, <2>3, <3>1, EnterDriven, Zenon
  <2>4. ASSUME stores[m] = "Config" PROVE Driven(m)'
    <3>1. Driven(n) /\ stack'[m] = Append(stack[n], m)
      BY <1>6, <2>1, <2>4, Zenon DEF NoneDropped, Running
    <3> SUFFICES ASSUME NEW j \in 1 .. Len(stack'[m]) - 1
                 PROVE  /\ stores'[stack'[m][j]] = "InProgress" /\ sent'[stack'[m][j]] = Nothing
                        /\ \E h \in DOMAIN Refs(stack'[m][j]) :
                              /\ Refs(stack'[m][j])[h] = stack'[m][j + 1]
                              /\ child'[stack'[m][j]][h] = Started
      BY <1>2, Zenon DEF Driven, Running
    <3>2. j \in 1 .. Len(stack[n]) /\ Len(stack[n]) \in Nat
      BY <1>3, <3>1
    <3>3. CASE j = Len(stack[n])
      <4>1. stack'[m][j] = n /\ stack'[m][j + 1] = m
        BY <1>3, <3>1, <3>2, <3>3
      <4> QED
        BY <1>4, <1>5, <1>6, <4>1
    <3>4. CASE j # Len(stack[n])
      <4>1. j \in 1 .. Len(stack[n]) - 1
        BY <3>2, <3>4
      <4>2. /\ stack'[m][j] = stack[n][j] /\ stack'[m][j + 1] = stack[n][j + 1]
            /\ stack[n][j] \in Name /\ stack[n][j] # m
        BY <1>3, <3>1, <3>2, <4>1 DEF Range
      <4>3. /\ stores[stack[n][j]] = "InProgress" /\ sent[stack[n][j]] = Nothing
            /\ \E h \in DOMAIN Refs(stack[n][j]) : /\ Refs(stack[n][j])[h] = stack[n][j + 1]
                                                   /\ child[stack[n][j]][h] = Started
        BY <3>1, <4>1, Zenon DEF Driven, Running
      <4> QED
        BY SMTT(30), <1>6, <2>2, <4>2, <4>3
    <3> QED
      BY <3>3, <3>4, Zenon
  <2>5. ASSUME NEW k \in Name, Running(k)' PROVE Driven(k)'
    BY <1>1, <2>3, <2>4, <2>5, Zenon DEF TypeOK
  <2> QED
    BY <1>2, <1>6, <2>1, <2>5, Zenon DEF NoneDropped
<1> QED
  BY <1>2, <1>8, <1>9, <1>10, <1>11, Zenon DEF IInv

LEMMA ResolveKeeps ==
    ASSUME IInv, NEW n \in Name, NEW i \in DOMAIN Refs(n), resolve(n, i)
    PROVE  IInv'
  BY ResolveCases, ResolveFailsKeeps, ResolveEntersKeeps
-----------------------------------------------------------------------------
(* A result arrives: at a builder. *)
LEMMA ReceiveGetsKeeps ==
    ASSUME IInv, NEW n \in Name, NEW i \in DOMAIN Refs(n), Running(n), child[n][i] = Started,
           sent[Refs(n)[i]] \notin {Nothing, Dropped},
           child' = [child EXCEPT ![n][i] = sent[Refs(n)[i]]],
           UNCHANGED <<configs, stores, stack, by, made, call, sent>>
    PROVE  IInv'
<1> DEFINE m == Refs(n)[i]
<1>1. TypeOK /\ (\A k \in Name : NInv(k)) /\ (\A u \in Task : CInv(u)) /\ (NoPriority => NoneDropped)
  BY Zenon DEF IInv
<1>2. /\ Name' = Name /\ Asked' = Asked /\ Result' = Result /\ (\A k : Refs(k)' = Refs(k))
      /\ (NoPriority' <=> NoPriority)
  BY SameConfigs, Zenon
<1>3. m \in Name /\ sent[m] \in Result /\ Real(sent[m])
  BY <1>1, Zenon DEF NInv, TypeOK
<1>4. /\ DOMAIN child' = Name /\ (\A k \in Name : child'[k] \in [DOMAIN Refs(k) -> Result])
      /\ (\A j \in DOMAIN Refs(n) \ {i} : child'[n][j] = child[n][j])
      /\ (\A k \in Name \ {n} : child'[k] = child[k])
  BY <1>1, <1>3, ChildUpdate, Zenon
<1>5. Settled
  BY Zenon DEF Settled
<1>6. TypeOK'
  BY <1>1, <1>2, <1>4, Zenon DEF TypeOK
<1>7. \A k \in Name : NInv(k)'
  <2>1. NInv(n)'
    BY <1>1, <1>3, <1>5, ChildName, Zenon DEF Running
  <2>2. ASSUME NEW k \in Name \ {n} PROVE NInv(k)'
    BY <1>1, <1>4, <1>5, NameKept, Zenon
  <2> QED
    BY <2>1, <2>2, Zenon
<1>8. \A u \in Task : CInv(u)'
  BY <1>1, <1>5, CallKept, Zenon
<1>9. ASSUME NoPriority PROVE NoneDropped'
  <2>1. NoneDropped
    BY <1>1, <1>9, Zenon
  <2>2. ASSUME NEW k \in Name, Running(k)' PROVE Driven(k)'
    <3>1. Driven(k) /\ Running(k) /\ stack[k] \in Seq(Name) /\ stack[k][Len(stack[k])] = k
      BY <1>1, <2>1, <2>2, Zenon DEF NoneDropped, Running, TypeOK, NInv
    <3>2. ASSUME NEW j \in 1 .. Len(stack[k]) - 1
          PROVE  stack[k][j] \in Name /\ sent[stack[k][j + 1]] = Nothing
      <4>1. CASE j + 1 = Len(stack[k])
        BY <3>1, <3>2, <4>1 DEF Running
      <4>2. CASE j + 1 # Len(stack[k])
        <5>1. j + 1 \in 1 .. Len(stack[k]) - 1
          BY <3>1, <3>2, <4>2
        <5> QED
          BY <3>1, <3>2, <5>1 DEF Driven, Running
      <4> QED
        BY <4>1, <4>2, Zenon
    <3>3. ASSUME NEW j \in 1 .. Len(stack[k]) - 1, NEW h \in DOMAIN Refs(stack[k][j]),
                 child[stack[k][j]][h] = Started, Refs(stack[k][j])[h] = stack[k][j + 1]
          PROVE  child'[stack[k][j]][h] = Started
      <4>1. ~(stack[k][j] = n /\ h = i)
        BY <3>2, <3>3, Zenon
      <4> QED
        BY <1>4, <3>2, <3>3, <4>1, Zenon
    <3> QED
      BY <3>1, <3>3, StillDriven, Zenon
  <2> QED
    BY <1>2, <2>1, <2>2, Zenon DEF NoneDropped
<1> QED
  BY <1>2, <1>6, <1>7, <1>8, <1>9, Zenon DEF IInv

(* At a caller. *)
LEMMA CallGetsKeeps ==
    ASSUME IInv, NEW t \in Task, call[t].result = Started,
           call' = [call EXCEPT ![t].result = sent[Head(call[t].name)]],
           UNCHANGED <<configs, stores, stack, by, child, made, sent>>
    PROVE  IInv'
<1>1. TypeOK /\ (\A k \in Name : NInv(k)) /\ (\A u \in Task : CInv(u)) /\ (NoPriority => NoneDropped)
  BY Zenon DEF IInv
<1>2. /\ Name' = Name /\ Asked' = Asked /\ Result' = Result /\ (\A k : Refs(k)' = Refs(k))
      /\ (NoPriority' <=> NoPriority)
  BY SameConfigs, Zenon
<1>3. PICK n \in Name : call[t].name = <<n>>
  BY <1>1, Zenon DEF CInv
<1>4. Head(call[t].name) = n /\ sent[n] \in Result
  BY <1>1, <1>3 DEF TypeOK
<1>5. /\ call' \in [Task -> [name : Seq(Asked), result : Result \cup {Panic}]]
      /\ call'[t].name = <<n>> /\ call'[t].result = sent[n]
      /\ \A u \in Task \ {t} : call'[u] = call[u]
  <2>1. call \in [Task -> [name : Seq(Asked), result : Result \cup {Panic}]]
    BY <1>1, Zenon DEF TypeOK
  <2> QED
    BY <1>3, <1>4, <2>1, Zenon
<1>6. Settled
  BY Zenon DEF Settled
<1>7. TypeOK'
  BY <1>1, <1>2, <1>5, Zenon DEF TypeOK
<1>8. \A k \in Name : NInv(k)'
  BY <1>1, <1>6, NameKept, Zenon
<1>9. \A u \in Task : CInv(u)'
  <2>1. CInv(t)'
    BY <1>2, <1>5, Zenon DEF CInv
  <2> QED
    BY <1>1, <1>5, <1>6, <2>1, CallKept, Zenon
<1>10. ASSUME NoPriority PROVE NoneDropped'
  <2>1. NoneDropped
    BY <1>1, <1>10, Zenon
  <2>2. \A k \in Name : (Running(k)' <=> Running(k)) /\ (Driven(k)' <=> Driven(k))
    BY <1>2, Zenon DEF Running, Driven
  <2>3. \A u \in Task : call'[u].result # Panic
    BY <1>4, <1>5, <2>1, Results, Zenon DEF NoneDropped
  <2> QED
    BY <1>2, <2>1, <2>2, <2>3, Zenon DEF NoneDropped
<1> QED
  BY <1>2, <1>7, <1>8, <1>9, <1>10, Zenon DEF IInv

(* A channel somebody waits on was closed: the waiting task unwinds. *)
LEMMA UnwindKeeps ==
    ASSUME IInv, NEW t \in Task, Unwind(t), NEW x \in Name, sent[x] = Dropped,
           UNCHANGED <<configs, stores, stack, by, child, made>>
    PROVE  IInv'
<1>1. TypeOK /\ (\A k \in Name : NInv(k)) /\ (\A u \in Task : CInv(u)) /\ (NoPriority => NoneDropped)
  BY Zenon DEF IInv
<1>2. /\ Name' = Name /\ Asked' = Asked /\ Result' = Result /\ (\A k : Refs(k)' = Refs(k))
      /\ (NoPriority' <=> NoPriority)
  BY SameConfigs, Zenon
<1>3. sent' = [m \in Name |-> IF m \in BuildsOf(t) THEN Dropped ELSE sent[m]]
  BY DEF Unwind, Drop
<1>4. \A m \in Name : \/ sent'[m] = sent[m]
                      \/ stores[m] = "InProgress" /\ sent[m] = Nothing /\ sent'[m] = Dropped
  BY <1>3, Zenon DEF BuildsOf, Running
<1>5. Settled
  BY <1>4, Zenon DEF Settled
<1>6. Real(Dropped)
  BY Zenon DEF Real, Dropped
<1>7. /\ call' \in [Task -> [name : Seq(Asked), result : Result \cup {Panic}]]
      /\ call'[t].result = Panic
      /\ \A u \in Task \ {t} : call'[u] = call[u]
  <2>1. call \in [Task -> [name : Seq(Asked), result : Result \cup {Panic}]]
    BY <1>1, Zenon DEF TypeOK
  <2> QED
    BY <2>1, Zenon DEF Unwind
<1>8. TypeOK'
  <2>1. sent' \in [Name -> Result]
    BY <1>1, <1>3, Results, Zenon DEF TypeOK
  <2> QED
    BY <1>1, <1>2, <1>7, <2>1, Zenon DEF TypeOK
<1>9. \A k \in Name : NInv(k)'
  BY <1>1, <1>4, <1>5, <1>6, NameKept, Results, Zenon
<1>10. \A u \in Task : CInv(u)'
  <2>1. CInv(t)'
    BY <1>7, Results, Zenon DEF CInv
  <2> QED
    BY <1>1, <1>5, <1>7, <2>1, CallKept, Zenon
<1>11. ~NoPriority
  BY <1>1, Zenon DEF NoneDropped
<1> QED
  BY <1>2, <1>8, <1>9, <1>10, <1>11, Zenon DEF IInv
-----------------------------------------------------------------------------
(* A builder that has an answer for each of its references is on no other  *)
(* running builder's stack.                                                *)
LEMMA NobodyWaits ==
    ASSUME IInv, NoneDropped, NEW n \in Name, \A i \in DOMAIN Refs(n) : child[n][i] # Started,
           NEW k \in Name, Running(k)
    PROVE  (\A j \in 1 .. Len(stack[k]) - 1 : stack[k][j] # n) /\ k \notin Builds(n)
<1>1. Driven(k) /\ stack[k] \in Seq(Name) /\ stack[k][Len(stack[k])] = k
  BY Zenon DEF IInv, NoneDropped, Running, TypeOK, NInv
<1>2. \A j \in 1 .. Len(stack[k]) - 1 : stack[k][j] # n
  BY <1>1, Zenon DEF Driven
<1>3. ASSUME k \in Builds(n) PROVE FALSE
  <2>1. k # n /\ n \in Range(stack[k])
    BY <1>3, Zenon DEF Builds
  <2>2. PICK j \in 1 .. Len(stack[k]) : stack[k][j] = n
    BY <1>1, <2>1 DEF Range
  <2>3. j \in 1 .. Len(stack[k]) - 1
    BY <1>1, <2>1, <2>2
  <2> QED
    BY <1>2, <2>2, <2>3, Zenon
<1> QED
  BY <1>2, <1>3, Zenon

(* A builder is done. *)
LEMMA SendKeeps ==
    ASSUME IInv, NEW n \in Name, Running(n), NEW r \in Result, Send(n, r), Real(r),
           r # Nothing, r # Dropped, r.ok => \A i \in DOMAIN Refs(n) : child[n][i].ok,
           NoPriority => \A i \in DOMAIN Refs(n) : child[n][i] # Started,
           UNCHANGED <<configs, stores, stack, by, child, call>>, made' \in Nat
    PROVE  IInv'
<1>1. TypeOK /\ (\A k \in Name : NInv(k)) /\ (\A u \in Task : CInv(u)) /\ (NoPriority => NoneDropped)
  BY Zenon DEF IInv
<1>2. /\ Name' = Name /\ Asked' = Asked /\ Result' = Result /\ (\A k : Refs(k)' = Refs(k))
      /\ (NoPriority' <=> NoPriority) /\ (\A x : Real(x)' <=> Real(x)) /\ (\A x : Chain(x)' <=> Chain(x))
  BY SameConfigs, Zenon
<1>3. sent' = [m \in Name |-> IF m \in {n} THEN [k \in {n} |-> r][m]
                              ELSE IF m \in Builds(n) THEN Dropped ELSE sent[m]]
  BY Zenon DEF Send, Drop
<1>4. sent'[n] = r /\ \A m \in Name \ {n} : sent'[m] = IF m \in Builds(n) THEN Dropped ELSE sent[m]
  BY <1>3, Zenon
<1>5. \A m \in Name \ {n} : \/ sent'[m] = sent[m]
                            \/ stores[m] = "InProgress" /\ sent[m] = Nothing /\ sent'[m] = Dropped
  BY <1>4, Zenon DEF Builds, Running
<1>6. Settled
  BY <1>5, Zenon DEF Settled, Running
<1>7. TypeOK'
  <2>1. sent' \in [Name -> Result]
    BY <1>1, <1>3, Results, Zenon DEF TypeOK
  <2> QED
    BY <1>1, <1>2, <2>1, Zenon DEF TypeOK
<1>8. NInv(n)'
  <2>1. ASSUME NEW i \in DOMAIN Refs(n), child[n][i].ok
        PROVE  Refs(n)[i] \in Name /\ child[n][i] = sent'[Refs(n)[i]]
    <3>1. Refs(n)[i] \in Name /\ child[n][i] = sent[Refs(n)[i]]
      BY SMTT(30), <1>1, <2>1 DEF NInv
    <3>2. sent[Refs(n)[i]] # Nothing
      BY <2>1, <3>1, Results, Zenon
    <3> QED
      BY <3>1, <3>2, <1>6, Zenon DEF Settled
  <2>2. stores[n] = "InProgress" /\ NInv(n)
    BY <1>1, Zenon DEF Running
  <2> QED
    BY <1>2, <1>4, <2>1, <2>2, Zenon DEF NInv
<1>9. ASSUME NEW k \in Name \ {n} PROVE NInv(k)'
  <2>1. Real(Dropped)
    BY Zenon DEF Real, Dropped
  <2> QED
    BY <1>1, <1>5, <1>6, <2>1, NameKept, Results, Zenon
<1>10. \A u \in Task : CInv(u)'
  BY <1>1, <1>6, CallKept, Zenon
<1>11. ASSUME NoPriority PROVE NoneDropped'
  <2>1. NoneDropped
    BY <1>1, <1>11, Zenon
  <2>2. \A i \in DOMAIN Refs(n) : child[n][i] # Started
    BY <1>11, Zenon
  <2>3. \A k \in Name \ {n} : sent'[k] = sent[k]
    <3>1. \A k \in Builds(n) : Running(k) /\ k \in Name
      BY Zenon DEF Builds
    <3> QED
      BY <1>4, <2>1, <2>2, <3>1, NobodyWaits, Zenon
  <2>4. ASSUME NEW k \in Name, Running(k)' PROVE Driven(k)'
    <3>1. k # n
      BY <1>4, <2>4, Zenon DEF Running
    <3>2. Running(k) /\ Driven(k) /\ stack[k] \in Seq(Name)
      BY <1>1, <2>1, <2>3, <2>4, <3>1, Zenon DEF Running, NoneDropped, TypeOK
    <3>3. \A j \in 1 .. Len(stack[k]) - 1 : stack[k][j] # n
      BY <2>1, <2>2, <3>2, NobodyWaits, Zenon
    <3>4. \A j \in 1 .. Len(stack[k]) - 1 : sent'[stack[k][j]] = sent[stack[k][j]]
      BY <2>3, <3>2, <3>3
    <3> QED
      BY <3>2, <3>4, StillDriven, Zenon
  <2> QED
    BY <1>2, <1>4, <2>1, <2>3, <2>4, Zenon DEF NoneDropped
<1> QED
  BY <1>2, <1>7, <1>8, <1>9, <1>10, <1>11, Zenon DEF IInv

(* An error a builder ends with is one of its references', or its own; a   *)
(* cache has waited for both of its references.                            *)
LEMMA JoinErrorsTyped ==
    ASSUME IInv, NEW n \in Name, NEW r \in JoinErrors(n)
    PROVE  /\ r \in Result /\ Real(r) /\ ~r.ok /\ r # Nothing /\ r # Dropped
           /\ NoPriority => \A i \in DOMAIN Refs(n) : child[n][i] # Started
<1>1. TypeOK /\ NInv(n)
  BY Zenon DEF IInv
<1>2. configs[n].kind \in {"leaf", "cache", "priority"}
  BY <1>1, RefsTyped, Zenon DEF TypeOK
<1>3. ASSUME NEW i \in DOMAIN Refs(n), r = child[n][i], IsError(child[n][i])
      PROVE  r \in Result /\ Real(r) /\ ~r.ok /\ r # Nothing /\ r # Dropped
  BY <1>1, <1>3, Zenon DEF TypeOK, NInv, IsError, Pending
<1>4. CASE configs[n].kind = "priority"
  <2>1. r \in TryJoinResult(n)
    BY <1>4, Zenon DEF JoinErrors
  <2>2. ~NoPriority
    BY <1>4, Zenon DEF NoPriority
  <2> QED
    BY <1>3, <2>1, <2>2, Zenon DEF TryJoinResult, Children
<1>5. CASE configs[n].kind = "cache"
  <2>1. r \in JoinResult(n)
    BY <1>5, Zenon DEF JoinErrors
  <2>2. PICK i \in DOMAIN Refs(n) :
           r = child[n][i] /\ IsError(child[n][i]) /\ \A c \in Children(n) : ~Pending(c)
    BY <2>1, Zenon DEF JoinResult
  <2>3. \A j \in DOMAIN Refs(n) : child[n][j] # Started
    BY <2>2, Zenon DEF Children, Pending
  <2> QED
    BY <1>3, <2>2, <2>3, Zenon
<1>6. CASE configs[n].kind = "leaf"
  <2>1. r = Error("Failed", <<n>>) /\ DOMAIN Refs(n) = {} /\ n \in Asked
    BY <1>1, <1>6, RefsTyped, Zenon DEF JoinErrors, TypeOK
  <2>2. <<n>> \in Seq(Asked \cup {Invalid})
    BY <2>1
  <2>3. r \in Result /\ ~r.ok /\ r.error = "Failed" /\ r # Nothing /\ r # Dropped
    BY <2>1, <2>2, Errors, Zenon
  <2> QED
    BY <2>1, <2>3, Zenon DEF Real
<1> QED
  BY <1>2, <1>4, <1>5, <1>6, Zenon

LEMMA BuildFailsKeeps ==
    ASSUME IInv, NEW n \in Name, BuildFails(n)
    PROVE  IInv'
<1>1. PICK r \in JoinErrors(n) : Send(n, r)
  BY Zenon DEF BuildFails
<1>2. Running(n) /\ UNCHANGED <<configs, stores, stack, by, child, call, made>> /\ made \in Nat
  BY Zenon DEF BuildFails, IInv, TypeOK
<1> QED
  BY <1>1, <1>2, JoinErrorsTyped, SendKeeps, Zenon

(* A builder succeeds only when each of its references did. *)
LEMMA BuildSucceedsKeeps ==
    ASSUME IInv, NEW n \in Name, BuildSucceeds(n)
    PROVE  IInv'
<1>1. TypeOK /\ Running(n) /\ (\A c \in Children(n) : ~Pending(c)) /\ made' = made + 1
      /\ Send(n, Ok(made')) /\ UNCHANGED <<configs, stores, stack, by, child, call>>
      /\ (configs[n].kind # "leaf" => JoinErrors(n) = {})
  BY Zenon DEF BuildSucceeds, IInv
<1>2. made' \in Nat
  BY SMTT(30), <1>1 DEF TypeOK
<1>3. \A i \in DOMAIN Refs(n) : ~Pending(child[n][i]) /\ child[n][i] \in Children(n)
  BY <1>1, Zenon DEF Children
<1>4. \A i \in DOMAIN Refs(n) : child[n][i].ok
  <2>1. configs[n].kind \in {"leaf", "cache", "priority"}
    BY <1>1, RefsTyped, Zenon DEF TypeOK
  <2>2. CASE configs[n].kind = "leaf"
    BY <1>1, <2>2, RefsTyped, Zenon DEF TypeOK
  <2>3. CASE configs[n].kind = "cache"
    <3>1. JoinResult(n) = {} /\ DOMAIN Refs(n) = {1, 2}
      BY <1>1, <2>3, RefsTyped, Zenon DEF TypeOK, JoinErrors
    <3>2. ~IsError(child[n][1])
      <4>1. IsError(child[n][1]) => child[n][1] \in JoinResult(n)
        BY SMTT(30), <1>1, <3>1 DEF JoinResult
      <4> QED
        BY <3>1, <4>1, Zenon
    <3>3. ~IsError(child[n][2])
      <4>1. IsError(child[n][2]) => child[n][2] \in JoinResult(n)
        BY SMTT(30), <1>1, <3>1, <3>2 DEF JoinResult
      <4> QED
        BY <3>1, <4>1, Zenon
    <3> QED
      BY <1>3, <3>1, <3>2, <3>3, Zenon DEF IsError
  <2>4. CASE configs[n].kind = "priority"
    <3>1. TryJoinResult(n) = {}
      BY <1>1, <2>4, Zenon DEF JoinErrors
    <3> QED
      BY <1>3, <3>1, Zenon DEF TryJoinResult, IsError
  <2> QED
    BY <2>1, <2>2, <2>3, <2>4, Zenon
<1>5. Ok(made') \in Result /\ Ok(made').ok /\ Ok(made') # Nothing /\ Ok(made') # Dropped
  BY <1>2, Results, Zenon
<1>6. Real(Ok(made'))
  BY <1>5, Zenon DEF Real, IsError
<1>7. \A i \in DOMAIN Refs(n) : child[n][i] # Started
  BY <1>3, Zenon DEF Pending
<1> QED
  BY <1>1, <1>2, <1>4, <1>5, <1>6, <1>7, SendKeeps, Zenon
-----------------------------------------------------------------------------
LEMMA ReceiveKeeps ==
    ASSUME IInv, NEW n \in Name, NEW i \in DOMAIN Refs(n), Receive(n, i)
    PROVE  IInv'
<1>1. /\ Running(n) /\ child[n][i] = Started /\ sent[Refs(n)[i]] # Nothing
      /\ UNCHANGED <<configs, stores, stack, by, made>>
  BY Zenon DEF Receive
<1>2. Refs(n)[i] \in Name /\ by[n] \subseteq Task
  BY <1>1, Zenon DEF IInv, NInv, TypeOK
<1>3. CASE sent[Refs(n)[i]] = Dropped
  <2>1. PICK t \in by[n] : Unwind(t) /\ child' = child
    BY <1>3, Zenon DEF Receive
  <2> QED
    BY <1>1, <1>2, <1>3, <2>1, UnwindKeeps, Zenon
<1>4. CASE sent[Refs(n)[i]] # Dropped
  <2>1. child' = [child EXCEPT ![n][i] = sent[Refs(n)[i]]] /\ UNCHANGED <<call, sent>>
    BY <1>4, Zenon DEF Receive
  <2> QED
    BY <1>1, <1>4, <2>1, ReceiveGetsKeeps, Zenon
<1> QED
  BY <1>3, <1>4, Zenon

LEMMA ReceiveCallKeeps ==
    ASSUME IInv, NEW t \in Task, ReceiveCall(t)
    PROVE  IInv'
<1>1. /\ call[t].result = Started /\ sent[Head(call[t].name)] # Nothing
      /\ UNCHANGED <<configs, stores, stack, by, child, made>>
  BY Zenon DEF ReceiveCall
<1>2. PICK n \in Name : call[t].name = <<n>>
  BY <1>1, Zenon DEF IInv, CInv
<1>3. Head(call[t].name) \in Name
  BY <1>2
<1>4. CASE sent[Head(call[t].name)] = Dropped
  BY <1>1, <1>3, <1>4, UnwindKeeps, Zenon DEF ReceiveCall
<1>5. CASE sent[Head(call[t].name)] # Dropped
  BY <1>1, <1>5, CallGetsKeeps, Zenon DEF ReceiveCall
<1> QED
  BY <1>4, <1>5, Zenon

(* Whatever the callers do at once, the inductive invariant holds. *)
THEOREM Invariance == Spec => []IInv
<1>1. ASSUME IInv, [Next]_vars PROVE IInv'
  <2>1. CASE UNCHANGED vars
    <3>1. UNCHANGED <<configs, stores, stack, by, child, sent, call, made>>
      BY <2>1, Zenon DEF vars
    <3>2. Settled /\ Name' = Name /\ Asked' = Asked /\ Result' = Result
          /\ (\A k : Refs(k)' = Refs(k)) /\ (NoPriority' <=> NoPriority)
      BY <3>1, SameConfigs, Zenon DEF Settled
    <3>3. TypeOK'
      BY <1>1, <3>1, <3>2, Zenon DEF IInv, TypeOK
    <3>4. \A k \in Name : NInv(k)'
      BY <1>1, <3>1, <3>2, NameKept, Zenon DEF IInv
    <3>5. \A t \in Task : CInv(t)'
      BY <1>1, <3>1, <3>2, CallKept, Zenon DEF IInv
    <3>6. NoneDropped' <=> NoneDropped
      BY <3>1, <3>2, Zenon DEF NoneDropped, Running, Driven
    <3> QED
      BY <1>1, <3>2, <3>3, <3>4, <3>5, <3>6, Zenon DEF IInv
  <2>2. CASE \E t \in Task : ReceiveCall(t) \/ \E n \in Asked : build(t, n)
    BY <1>1, <2>2, ReceiveCallKeeps, BuildKeeps, Zenon
  <2>3. CASE \E n \in Name : Step(n)
    BY <1>1, <2>3, ResolveKeeps, ReceiveKeeps, BuildFailsKeeps, BuildSucceedsKeeps, Zenon DEF Step
  <2> QED
    BY <1>1, <2>1, <2>2, <2>3, Zenon DEF Next
<1> QED
  BY InitHolds, <1>1, PTL DEF Spec

(* Every variable keeps its type, for any composition and any callers. *)
THEOREM TypeCorrect == Spec => []TypeOK
<1>1. IInv => TypeOK
  BY Zenon DEF IInv
<1> QED
  BY <1>1, Invariance, PTL

(* build() hands out one instance per name. *)
THEOREM OneInstance == Spec => []SameInstance
<1>1. ASSUME IInv PROVE SameInstance
  <2> SUFFICES ASSUME NEW t \in Task, NEW u \in Task, call[t].result.ok, call[u].result.ok,
                      call[t].name = call[u].name
               PROVE  call[t].result = call[u].result
    BY Zenon DEF SameInstance
  <2>1. PICK m \in Name : call[t].name = <<m>> /\ call[t].result = sent[m]
    BY <1>1, Zenon DEF IInv, CInv
  <2>2. PICK n \in Name : call[u].name = <<n>> /\ call[u].result = sent[n]
    BY <1>1, Zenon DEF IInv, CInv
  <2>3. m = n
    <3>1. <<m>>[1] = m /\ <<n>>[1] = n
      BY Zenon
    <3> QED
      BY <2>1, <2>2, <3>1, Zenon
  <2> QED
    BY <2>1, <2>2, <2>3, Zenon
<1> QED
  BY <1>1, Invariance, PTL

(* A recursion that resolve() reports is a cycle of the composition. *)
THEOREM ReportedRecursionIsReal == Spec => []RecursionIsReal
<1>1. IInv => RecursionIsReal
  <2> SUFFICES ASSUME IInv, NEW n \in Name, NEW i \in DOMAIN Refs(n),
                      IsError(child[n][i]), child[n][i].error = "Recursion"
               PROVE  LET path == child[n][i].path IN
                      /\ \A j \in 1 .. Len(path) - 1 : Edge(path[j], path[j + 1])
                      /\ \E j \in DOMAIN path : Edge(path[Len(path)], path[j])
    BY Zenon DEF RecursionIsReal
  <2>1. Real(child[n][i])
    BY Zenon DEF IInv, NInv
  <2> QED
    BY <2>1, Zenon DEF Real, Chain
<1> QED
  BY <1>1, Invariance, PTL

(* A service that was built rests on services that were built. *)
THEOREM BuiltRestsOnBuilt == Spec => []BuiltOnBuilt
<1>1. ASSUME IInv PROVE BuiltOnBuilt
  <2> SUFFICES ASSUME NEW n \in Name, sent[n].ok, NEW i \in DOMAIN Refs(n)
               PROVE  Refs(n)[i] \in Name /\ sent[Refs(n)[i]].ok
    BY Zenon DEF BuiltOnBuilt
  <2>1. child[n][i].ok /\ Refs(n)[i] \in Name /\ child[n][i] = sent[Refs(n)[i]]
    BY <1>1, ZenonT(30) DEF IInv, NInv
  <2> QED
    BY <2>1, Zenon
<1> QED
  BY <1>1, Invariance, PTL

(* Without a priority list no unwrap() of build_internal() panics. *)
THEOREM ChannelsStayOpen == Spec => []NoClosedChannel
<1>1. IInv => NoClosedChannel
  BY Zenon DEF IInv, NoPriority, NoneDropped, NoClosedChannel
<1> QED
  BY <1>1, Invariance, PTL

(* What a builder sent is final: a service that was built is never built   *)
(* again, and one that failed or was dropped is never retried.             *)
THEOREM ResultsAreFinal == Spec => [][Settled]_vars
<1>1. ASSUME IInv, Next PROVE Settled
  <2>0. ASSUME NEW t \in Task, NEW n \in Asked, build(t, n) PROVE Settled
    <3>1. configs' = configs /\ sent' = sent
      BY <2>0, Zenon DEF build, Enter
    <3> QED
      BY <3>1, Zenon DEF Settled
  <2>1. ASSUME NEW t \in Task, ReceiveCall(t) PROVE Settled
    BY <2>1 DEF ReceiveCall, Unwind, Drop, BuildsOf, Running, Settled
  <2>2. ASSUME NEW n \in Name, NEW i \in DOMAIN Refs(n), Receive(n, i) PROVE Settled
    BY <2>2 DEF Receive, Unwind, Drop, BuildsOf, Running, Settled
  <2>3. ASSUME NEW n \in Name, NEW i \in DOMAIN Refs(n), resolve(n, i) PROVE Settled
    <3>1. configs' = configs /\ sent' = sent
      BY <1>1, <2>3, ResolveCases, Zenon DEF Enter
    <3> QED
      BY <3>1, Zenon DEF Settled
  <2>4. ASSUME NEW n \in Name, NEW r, Running(n), Send(n, r), configs' = configs PROVE Settled
    BY <2>4, Zenon DEF Send, Drop, Builds, Running, Settled
  <2>5. ASSUME NEW n \in Name, BuildFails(n) \/ BuildSucceeds(n) PROVE Settled
    BY <2>4, <2>5, Zenon DEF BuildFails, BuildSucceeds
  <2> QED
    BY <1>1, <2>0, <2>1, <2>2, <2>3, <2>5, Zenon DEF Next, Step
<1>2. IInv /\ [Next]_vars => [Settled]_vars
  BY <1>1, Zenon
<1> QED
  BY <1>2, Invariance, PTL DEF Spec
=============================================================================
