------------------------------ MODULE NarInfo ------------------------------
(* NARInfo files: parsing, rendering, fingerprints and signatures            *)
(* (nix-compat/src/narinfo) and the rendering of a PathInfo as one.          *)
(*                                                                           *)
(* A file is a sequence of lines [tag, k, v]: k is the shape of the text     *)
(* after the tag, v the numbers that stand for what it spells. The shapes    *)
(* are "path" (a store path's base name), "abs" (with the store directory),  *)
(* "drv" (with the suffix .drv), "unknown" (unknown-deriver), "word", "num", *)
(* "b32" and "hex" (sha256 digests), "list" (base names separated by blanks, *)
(* 0 for one that is not a store path), "sig", "ca", "empty" and "bad". An   *)
(* optional value is a sequence of length at most one. Numbers of base names *)
(* sort as the names do. Word 0 is "none", 1 is "bzip2".                     *)
EXTENDS Naturals, Sequences, SequencesExt

CONSTANTS Infos,     \* the NarInfos that are rendered, some with signatures
          Texts,     \* lines that a damaged or foreign file may have instead
          Keypairs,  \* the texts of key pairs that the operator configures
          MaxEdits

VARIABLES info, lines, edits
vars == <<info, lines, edits>>

Singular == {"StorePath", "URL", "Compression", "FileHash", "FileSize", "NarHash",
             "NarSize", "References", "System", "Deriver", "CA"}
Required == <<"StorePath", "NarHash", "NarSize", "URL">>

-----------------------------------------------------------------------------
(* Keys. The text of a key pair: sep, name, len and b64 tell whether the     *)
(* colon is there, and whether the name, the length and the base64 are good; *)
(* secret and public are the decoded halves, public 0 when it is no point.   *)
parse_keypair(t) ==
  LET why == IF ~t.sep THEN "MissingSeparator"
             ELSE IF ~t.nameOk THEN "InvalidName"
             ELSE IF ~t.lenOk THEN "InvalidSigningKeyLen"
             ELSE IF ~t.b64Ok THEN "DecodeError"
             ELSE IF t.public = 0 THEN "InvalidVerifyingKey" ELSE ""
  IN  [why |-> why, signing |-> <<t.name, t.secret>>, verifying |-> <<t.name, t.public>>]

(* The parts are separated by ';' and ',', which none of them contains.      *)
fingerprint(n) == <<n.store_path, n.nar_hash, n.nar_size>> \o n.references

(* A signature: the key's name, the key it was made with, what it signs.     *)
sign(key, fp) == key \o fp

add_signature(n, key) == [n EXCEPT !.signatures = Append(@, sign(key, fingerprint(n)))]

verify(key, fp, sig) == key[1] = sig[1] /\ sig = sign(key, fp)

-----------------------------------------------------------------------------
(* What each tag takes.                                                      *)
Reads(l) ==
  CASE l.tag = "StorePath"                        -> l.k = "abs"
    [] l.tag \in {"URL", "Compression", "System"} -> l.k # "empty"
    [] l.tag \in {"FileSize", "NarSize"}          -> l.k = "num"
    [] l.tag = "FileHash"                         -> l.k = "b32"
    [] l.tag = "NarHash"                          -> l.k \in {"b32", "hex"}
    [] l.tag = "References" -> l.k = "empty" \/ (l.k = "list" /\ 0 \notin ToSet(l.v))
    [] l.tag = "Deriver"                          -> l.k \in {"drv", "unknown"}
    [] l.tag = "Sig"                              -> l.k = "sig"
    [] l.tag = "CA"                               -> l.k = "ca"
    [] OTHER                                      -> TRUE

Start == [why |-> "", flags |-> {}, signatures |-> <<>>, field |-> [t \in Singular |-> <<>>]]

LineFlags(l) ==
  CASE l.tag = "NarHash" /\ l.k = "hex"     -> {"NAR_HASH_HEX"}
    [] l.tag = "Deriver" /\ l.k = "unknown" -> {"EXPLICIT_UNKNOWN_DERIVER"}
    [] l.tag = "References" /\ \E i \in 2..Len(l.v) : l.v[i - 1] >= l.v[i] -> {"REFERENCES_OUT_OF_ORDER"}
    [] l.tag \notin Singular \cup {"Sig"}   -> {"UNKNOWN_FIELD"}
    [] OTHER                                -> {}

(* One line, with an empty tag when it has no colon followed by a blank. A   *)
(* field that is set twice is an error; "unknown-deriver" sets none.         *)
ParseLine(a, l) ==
  LET b == [a EXCEPT !.flags = @ \cup LineFlags(l)]
  IN  CASE a.why # "" -> a
        [] a.why = "" /\ l.tag = "" -> [a EXCEPT !.why = "InvalidLine"]
        [] a.why = "" /\ l.tag # "" /\ ~Reads(l) -> [a EXCEPT !.why = l.tag]
        [] a.why = "" /\ l.tag = "Sig" /\ Reads(l) -> [b EXCEPT !.signatures = Append(@, l.v)]
        [] a.why = "" /\ l.tag \in Singular /\ Reads(l) ->
             IF l.k = "unknown" THEN b
             ELSE IF a.field[l.tag] # <<>> THEN [a EXCEPT !.why = "DuplicateField"]
             ELSE [b EXCEPT !.field[l.tag] = <<l.v>>]
        [] OTHER -> b

Missing(a) == SelectSeq(Required, LAMBDA t : a.field[t] = <<>>)

\* The number, word or path of an optional field.
One(o) == IF o = <<>> THEN <<>> ELSE o[1]

parse(ls) ==
  LET after[i \in 0 .. Len(ls)] == IF i = 0 THEN Start ELSE ParseLine(after[i - 1], ls[i])
      a == after[Len(ls)]
      f == a.field
  IN  IF a.why # "" \/ Missing(a) # <<>>
      THEN [why |-> IF a.why # "" THEN a.why ELSE "MissingField"]
      ELSE [why |-> "",
            info |->
             [flags |-> a.flags \cup (IF f["References"] = <<>> THEN {"REFERENCES_MISSING"} ELSE {})
                                \cup (IF f["Compression"] = <<>> THEN {"COMPRESSION_DEFAULT"} ELSE {}),
              store_path |-> f["StorePath"][1][1], nar_hash |-> f["NarHash"][1][1],
              nar_size |-> f["NarSize"][1][1], references |-> One(f["References"]),
              signatures |-> a.signatures, ca |-> One(f["CA"]), system |-> One(f["System"]),
              deriver |-> One(f["Deriver"]), url |-> f["URL"][1][1],
              compression |-> CASE f["Compression"] = <<>>      -> <<1>>
                                [] f["Compression"] = << <<0>> >> -> <<>>
                                [] OTHER                        -> One(f["Compression"]),
              file_hash |-> One(f["FileHash"]), file_size |-> One(f["FileSize"])]]

Line(tag, k, v) == <<[tag |-> tag, k |-> k, v |-> v]>>
Opt(tag, k, o) == IF o = <<>> THEN <<>> ELSE Line(tag, k, o)

Display(n) ==
     Line("StorePath", "abs", <<n.store_path>>)
  \o Line("URL", "word", <<n.url>>)
  \o (IF "COMPRESSION_DEFAULT" \in n.flags THEN <<>>
      ELSE Line("Compression", "word", IF n.compression = <<>> THEN <<0>> ELSE n.compression))
  \o Opt("FileHash", "b32", n.file_hash)
  \o Opt("FileSize", "num", n.file_size)
  \o Line("NarHash", "b32", <<n.nar_hash>>)
  \o Line("NarSize", "num", <<n.nar_size>>)
  \o (IF "REFERENCES_MISSING" \in n.flags THEN <<>>
      ELSE Line("References", IF n.references = <<>> THEN "empty" ELSE "list", n.references))
  \o (IF n.deriver = <<>> /\ "EXPLICIT_UNKNOWN_DERIVER" \in n.flags
      THEN Line("Deriver", "unknown", <<>>) ELSE Opt("Deriver", "drv", n.deriver))
  \o Opt("System", "word", n.system)
  \o FlattenSeq([i \in DOMAIN n.signatures |-> Line("Sig", "sig", n.signatures[i])])
  \o Opt("CA", "ca", n.ca)

(* What is kept of a path info; the URL is for the caller to set.            *)
to_narinfo(p) ==
  [flags |-> {}, store_path |-> p.store_path, nar_hash |-> p.nar_sha256, nar_size |-> p.nar_size,
   references |-> p.references, signatures |-> p.signatures, ca |-> p.ca, system |-> <<>>,
   deriver |-> p.deriver, url |-> 0, compression |-> <<0>>, file_hash |-> <<>>, file_size |-> <<>>]

-----------------------------------------------------------------------------
(* A rendered file is served, damaged or rewritten on its way, and parsed.   *)
Init == info \in Infos /\ lines = Display(info) /\ edits = <<>>

Edited(kind, ls) ==
  /\ Len(edits) < MaxEdits
  /\ lines' = ls /\ edits' = Append(edits, kind) /\ UNCHANGED info

Drop == \E i \in DOMAIN lines : Edited("drop", RemoveAt(lines, i))
Repeat == \E i \in DOMAIN lines : Edited("repeat", Append(lines, lines[i]))
Swap == \E i \in 2..Len(lines) :
          Edited("swap", [lines EXCEPT ![i - 1] = lines[i], ![i] = lines[i - 1]])
Rewrite == \E i \in DOMAIN lines, l \in Texts : lines[i] # l /\ Edited("rewrite", [lines EXCEPT ![i] = l])
Add == \E l \in Texts : Edited("add", Append(lines, l))
Over == Len(edits) = MaxEdits /\ UNCHANGED vars

Next == Drop \/ Repeat \/ Swap \/ Rewrite \/ Add \/ Over
Spec == Init /\ [][Next]_vars

-----------------------------------------------------------------------------
TypeOK == edits \in Seq({"drop", "repeat", "swap", "rewrite", "add"}) /\ Len(edits) <= MaxEdits

\* Whether the line i sets the field t.
Sets(i, t) == lines[i].tag = t /\ lines[i].k # "unknown"

\* A file is accepted exactly when every line has a tag and a value the tag
\* takes, no field is set twice, and the four required ones are there, wherever
\* the lines stand (NarInfo::parse).
AcceptsExactly ==
  (parse(lines).why = "")
    <=> /\ \A i \in DOMAIN lines : lines[i].tag # "" /\ Reads(lines[i])
        /\ \A i \in DOMAIN lines : lines[i].tag \in Singular =>
              \A j \in 1 .. i - 1 : ~(Sets(i, lines[i].tag) /\ Sets(j, lines[i].tag))
        /\ \A t \in ToSet(Required) : \E i \in DOMAIN lines : Sets(i, t)

Same(n, m) ==
  /\ \A f \in DOMAIN n \ {"flags", "compression"} : n[f] = m[f]
  /\ n.compression = m.compression \/ {n.compression, m.compression} = {<<>>, <<0>>}

\* What is rendered is parsed as the same NarInfo, and renders as the same file
\* again; so does a file whose lines, at most, change places, up to the order of
\* its lines (Display and NarInfo::parse agree about the flags that Display looks
\* at; NAR_HASH_HEX is none of them: such a hash is rendered in base 32).
RoundTrip ==
  Range(edits) \subseteq {"swap"} =>
    LET p == parse(lines)
    IN  /\ p.why = "" /\ Same([p.info EXCEPT !.signatures = info.signatures], info)
        /\ ToSet(Display(p.info)) = ToSet(lines)
        /\ edits = <<>> => Display(p.info) = lines

\* When a configured key verifies a signature of a file, the store path, the NAR
\* hash and size and the references that were parsed are ones which the holder
\* of the key signed (NarInfo::fingerprint, VerifyingKey::verify).
SignedFields ==
  LET p == parse(lines)
      pairs == {k \in {parse_keypair(t) : t \in Keypairs} : k.why = ""}
  IN  p.why = "" =>
        \A k \in pairs : \A s \in Range(p.info.signatures) :
          verify(k.verifying, fingerprint(p.info), s) =>
            \E n \in Infos : /\ sign(k.verifying, fingerprint(n)) \in Range(n.signatures)
                             /\ \A f \in {"store_path", "nar_hash", "nar_size", "references"} :
                                  n[f] = p.info[f]
=============================================================================
