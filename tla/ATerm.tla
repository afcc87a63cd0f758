-------------------------------- MODULE ATerm --------------------------------
(* Derivations written to and read from the ATerm format, at once and from a *)
(* reader that delivers the text in pieces of any size.                      *)
(*                                                                           *)
(* A text is a sequence of symbols: punctuation and escapes are one          *)
(* character each, other words ("Derive", ".drv", "r:", a name, a digest)    *)
(* one symbol.                                                               *)
EXTENDS Naturals, Sequences, SequencesExt, FiniteSets

CONSTANTS Words, HashAlgo,
          Listings,   \* derivations as lists of what a text holds, see below
          Sizes,      \* of the pieces a reader delivers
          Junk        \* what may follow the derivation in the reader

VARIABLES listing,    \* what the text was written from
          text,       \* what the reader holds
          fed,        \* how much of it from_streaming_aterm_bytes has in its buffer
          taken,      \* how much of it was consumed
          outcome     \* of from_streaming_aterm_bytes, or "reading"
vars == <<listing, text, fed, taken, outcome>>

-----------------------------------------------------------------------------
(* Writing. A listing has lists, in any order and with repetitions, where a  *)
(* Derivation has maps and sets that are written in order.                   *)
q == "\""
Escapes == [c \in {"\\", "\n", "\r", "\t", q} |->
  CASE c = "\\" -> "\\" [] c = "\n" -> "n" [] c = "\r" -> "r" [] c = "\t" -> "t" [] c = q -> q]

write_escaped(s) ==
  FlattenSeq([i \in DOMAIN s |->
    IF s[i] \in DOMAIN Escapes THEN <<"\\", Escapes[s[i]]>> ELSE <<s[i]>>])

write_field(s, escape) == <<q>> \o (IF escape THEN write_escaped(s) ELSE s) \o <<q>>
Elements(written) ==
  FlattenSeq([i \in DOMAIN written |-> (IF i > 1 THEN <<",">> ELSE <<>>) \o written[i]])
List(written) == <<"[">> \o Elements(written) \o <<"]">>
Tuple(written) == <<"(">> \o Elements(written) \o <<")">>
Fields(strings, escape) == [i \in DOMAIN strings |-> write_field(strings[i], escape)]

write_outputs(os) ==
  List([i \in DOMAIN os |-> Tuple(Fields(<<os[i].name, os[i].path, os[i].algo, os[i].digest>>, TRUE))])
write_input_derivations(ds) ==
  List([i \in DOMAIN ds |-> Tuple(<<write_field(ds[i].path, FALSE), List(Fields(ds[i].outputs, FALSE))>>)])
write_environment(env) ==
  List([i \in DOMAIN env |-> Tuple(<<write_field(env[i].key, FALSE), write_field(env[i].value, TRUE)>>)])

serialize(l) ==
  <<"Derive">> \o Tuple(<<write_outputs(l.outputs), write_input_derivations(l.drvs),
     List(Fields(l.sources, FALSE)), write_field(l.system, TRUE), write_field(l.builder, TRUE),
     List(Fields(l.arguments, TRUE)), write_environment(l.env)>>)

-----------------------------------------------------------------------------
(* Parsing. A parser gives the position after what it took, and its value,   *)
(* or fails; it is "incomplete" when the text ends before it can tell.       *)
Ok(pos, val) == [is |-> "ok", pos |-> pos, val |-> val]
Error == [is |-> "error"]
Incomplete == [is |-> "incomplete"]

nomchar(t, i, c) ==
  IF i > Len(t) THEN Incomplete ELSE IF t[i] = c THEN Ok(i + 1, c) ELSE Error

\* Mutated form: the text must not end after a backslash.
EndsInEscape_Error == Error

EndsInEscape == Incomplete

parse_escaped_bytes(t, i) ==
  LET f[j \in i..Len(t) + 2] ==
        IF j > Len(t) THEN Incomplete
        ELSE IF t[j] = q THEN Ok(j, <<>>)
        ELSE IF t[j] # "\\" THEN LET r == f[j + 1] IN IF r.is = "ok" THEN Ok(r.pos, <<t[j]>> \o r.val) ELSE r
        ELSE IF j = Len(t) THEN EndsInEscape
        ELSE IF \A c \in DOMAIN Escapes : Escapes[c] # t[j + 1] THEN Error
        ELSE LET r == f[j + 2]
             IN  IF r.is = "ok" THEN Ok(r.pos, <<CHOOSE c \in DOMAIN Escapes : Escapes[c] = t[j + 1]>> \o r.val)
                 ELSE r
  IN  f[i]

AndThen(r, K(_)) == IF r.is = "ok" THEN K(r) ELSE r

delimited(P(_, _), t, i, open, close) ==
  AndThen(nomchar(t, i, open), LAMBDA a : AndThen(P(t, a.pos), LAMBDA b :
    AndThen(nomchar(t, b.pos, close), LAMBDA c : Ok(c.pos, b.val))))
pair(P(_, _), Q(_, _), t, i) ==
  AndThen(P(t, i), LAMBDA a : AndThen(nomchar(t, a.pos, ","), LAMBDA b :
    AndThen(Q(t, b.pos), LAMBDA c : Ok(c.pos, <<a.val, c.val>>))))

(* An element that cannot be parsed ends the list before its separator.      *)
Listed(e, rest) ==
  CASE rest.is = "ok" -> Ok(rest.pos, <<e.val>> \o rest.val)
    [] rest.is = "error" -> Ok(e.pos, <<e.val>>)
    [] OTHER -> rest
separated_list1(P(_, _), t, i) ==
  LET f[j \in i..Len(t) + 1] ==
        AndThen(P(t, j), LAMBDA e : Listed(e, AndThen(nomchar(t, e.pos, ","), LAMBDA s : f[s.pos])))
  IN  f[i]
OrElse(r, other) == IF r.is = "error" THEN other ELSE r
separated_list0(P(_, _), t, i) == OrElse(separated_list1(P, t, i), Ok(i, <<>>))

parse_field(t, i) == delimited(parse_escaped_bytes, t, i, q, q)
StringList(t, i) == separated_list0(parse_field, t, i)
parse_string_list(t, i) == delimited(StringList, t, i, "[", "]")

(* The values of a list become a set; a key that comes twice is an error.    *)
Unique(r, keys) == IF IsInjective(keys) THEN Ok(r.pos, ToSet(r.val)) ELSE Error

StorePath(s) == Len(s) > 1 /\ Head(s) = "/" /\ \A i \in 2..Len(s) : s[i] \in Words \cup {".drv"}
OutputName(s) == s # <<>> /\ ToSet(s) \subseteq Words /\ s # <<"drv">>

(* from_mode_algo_and_digest, after the digest was decoded.                  *)
ValidHash(algo, digest) ==
  \/ algo = <<>> /\ digest = <<>>
  \/ /\ ToSet(digest) \subseteq {"h"} /\ Len(digest) = 1
     /\ \E a \in HashAlgo : algo \in {<<a>>, <<"r:", a>>}

OutputOf(r, v) ==
  IF OutputName(v[1][1]) /\ StorePath(v[1][2]) /\ ValidHash(v[2][1], v[2][2])
  THEN Ok(r.pos, [name |-> v[1][1], path |-> v[1][2], algo |-> v[2][1], digest |-> v[2][2]])
  ELSE Error
parse_output(t, i) ==
  LET Two(u, j) == pair(parse_field, parse_field, u, j)
      Four(u, j) == pair(Two, Two, u, j)
  IN  AndThen(delimited(Four, t, i, "(", ")"), LAMBDA r : OutputOf(r, r.val))

(* Outputs::try_from_iter: names differ; several outputs are not fixed, and  *)
(* a single one is called "out".                                             *)
parse_outputs(t, i) ==
  LET OutputList(u, j) == separated_list1(parse_output, u, j)
      Names(r) == [k \in DOMAIN r.val |-> r.val[k].name]
      Fits(os) == IF Cardinality(os) > 1 THEN \A o \in os : o.algo = <<>>
                  ELSE \A o \in os : o.name = <<"out">>
  IN  AndThen(delimited(OutputList, t, i, "[", "]"), LAMBDA os : AndThen(Unique(os, Names(os)),
              LAMBDA r : IF Fits(r.val) THEN r ELSE Error))

parse_kv(values, t, i) ==
  LET Val(u, j) == IF values = "lists" THEN parse_string_list(u, j) ELSE parse_field(u, j)
      KeyValue(u, j) == pair(parse_field, Val, u, j)
      Entry(u, j) == delimited(KeyValue, u, j, "(", ")")
      Keys(r) == [k \in DOMAIN r.val |-> r.val[k][1]]
      Entries(u, j) == AndThen(separated_list0(Entry, u, j), LAMBDA r : Unique(r, Keys(r)))
  IN  delimited(Entries, t, i, "[", "]")

parse_input_derivations(t, i) ==
  LET Distinct(names) == Cardinality(ToSet(names)) = Len(names)
      Fits(p) == StorePath(p[1]) /\ Distinct(p[2]) /\ \A n \in ToSet(p[2]) : OutputName(n)
  IN  AndThen(parse_kv("lists", t, i), LAMBDA r :
        IF \A p \in r.val : Fits(p) THEN Ok(r.pos, {<<p[1], ToSet(p[2])>> : p \in r.val}) ELSE Error)

parse_input_sources(t, i) ==
  AndThen(parse_string_list(t, i), LAMBDA list : AndThen(Unique(list, list.val),
          LAMBDA r : IF \A s \in r.val : StorePath(s) THEN r ELSE Error))

DerivationOf(v) ==
  [outputs |-> v[1], drvs |-> v[2][1], sources |-> v[2][2][1], system |-> v[2][2][2][1],
   builder |-> v[2][2][2][2][1], arguments |-> v[2][2][2][2][2][1], env |-> v[2][2][2][2][2][2]]
parse_derivation(t, i) ==
  LET environment(u, j) == parse_kv("fields", u, j)
      args_env(u, j) == pair(parse_string_list, environment, u, j)
      builder_(u, j) == pair(parse_field, args_env, u, j)
      system_(u, j) == pair(parse_field, builder_, u, j)
      sources_(u, j) == pair(parse_input_sources, system_, u, j)
      drvs_(u, j) == pair(parse_input_derivations, sources_, u, j)
      outputs_(u, j) == pair(parse_outputs, drvs_, u, j)
  IN  AndThen(nomchar(t, i, "Derive"), LAMBDA p :
        AndThen(delimited(outputs_, t, p.pos, "(", ")"), LAMBDA r : Ok(r.pos, DerivationOf(r.val))))

validate(d) ==
  /\ \A p \in d.drvs : Last(p[1]) = ".drv"
  /\ d.system # <<>> /\ d.builder # <<>> /\ \A p \in d.env : p[1] # <<>>

parse_streaming(t) == AndThen(parse_derivation(t, 1), LAMBDA r : IF validate(r.val) THEN r ELSE Error)
parse(t) == AndThen(parse_streaming(t), LAMBDA r : IF r.pos <= Len(t) THEN Error ELSE r)

-----------------------------------------------------------------------------
Init ==
  /\ listing \in Listings /\ \E junk \in Junk : text = serialize(listing) \o junk
  /\ fed = 0 /\ taken = 0 /\ outcome = [is |-> "reading"]

(* One turn of from_streaming_aterm_bytes: the next piece of the reader is   *)
(* added to the buffer. On success, what is taken for the leftover is the    *)
(* text of the derivation itself.                                            *)
Turn ==
  /\ outcome.is = "reading" /\ UNCHANGED <<listing, text>>
  /\ \/ fed = Len(text) /\ outcome' = Incomplete /\ UNCHANGED <<fed, taken>>
     \/ \E length \in {n \in Sizes : fed + n <= Len(text)} \cup (IF fed < Len(text) THEN {Len(text) - fed} ELSE {}) :
        \E r \in {parse_streaming(SubSeq(text, 1, fed + length))} :
          LET leftover == IF r.is = "ok" THEN r.pos - 1 ELSE 0
          IN  /\ fed' = fed + length
              /\ outcome' = IF r.is = "incomplete" THEN outcome ELSE r
              /\ taken' = IF r.is = "incomplete" THEN taken + length
                          ELSE IF r.is = "ok" /\ length >= leftover THEN taken + (length - leftover)
                          ELSE taken

Over == outcome.is # "reading" /\ UNCHANGED vars
Next == Turn \/ Over
Spec == Init /\ [][Next]_vars

-----------------------------------------------------------------------------
TypeOK == fed \in 0..Len(text) /\ taken \in 0..fed /\ outcome.is \in {"reading", "ok", "error", "incomplete"}

Derivation(l) ==
  [outputs |-> ToSet(l.outputs), drvs |-> {<<d.path, ToSet(d.outputs)>> : d \in ToSet(l.drvs)},
   sources |-> ToSet(l.sources), system |-> l.system, builder |-> l.builder,
   arguments |-> l.arguments, env |-> {<<e.key, e.value>> : e \in ToSet(l.env)}]
Plain(l) == \A e \in ToSet(l.env) : ToSet(e.key) \cap DOMAIN Escapes = {}

Repeats(list) == Cardinality(ToSet(list)) # Len(list)

\* A text that is accepted stands for the derivation it was written from,
\* whatever characters its strings hold: what is parsed from disk has the
\* derivation path of what was written. Nothing is dropped in silence either:
\* an output, input, name or variable that a text lists twice is refused.
\* (Keys of the environment are written without escapes, and must not need any.)
RoundTrip ==
  outcome.is = "ok" /\ Plain(listing) =>
    /\ outcome.val = Derivation(listing)
    /\ ~\E list \in {[i \in DOMAIN listing.outputs |-> listing.outputs[i].name],
                     [i \in DOMAIN listing.drvs |-> listing.drvs[i].path], listing.sources,
                     [i \in DOMAIN listing.env |-> listing.env[i].key]}
                      \cup {d.outputs : d \in ToSet(listing.drvs)} : Repeats(list)

EndsAs(whole) ==
  /\ outcome.is = "ok" => whole.is = "ok" /\ outcome.val = whole.val
  /\ outcome.is = "error" => whole.is = "error"
  /\ outcome.is = "incomplete" => whole.is = "incomplete"

\* However the text is cut into pieces, reading it from a stream ends as
\* parsing the whole text does: a piece that ends inside an escape, a string or
\* a list is not an error, and no part of a text is taken for the whole.
PiecesDoNotMatter == EndsAs(parse(serialize(listing)))
=============================================================================
