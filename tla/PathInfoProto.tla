--------------------------- MODULE PathInfoProto ---------------------------
(* Path infos as protocol messages, as the persistent services store them    *)
(* and gRPC sends them (store/src/proto/mod.rs).                             *)
(*                                                                           *)
(* A store path is a pair of its digest and its name, <<>> where bytes do    *)
(* not parse as one; bytes are [len, d]. Optional fields are sequences.      *)
EXTENDS Naturals, Sequences, SequencesExt

CONSTANTS PathInfos, MaxEdits

VARIABLES path_info, message, edits
vars == <<path_info, message, edits>>

Size == [Md5 |-> 16, Sha1 |-> 20, Sha256 |-> 32, Sha512 |-> 64]
Bytes(n, d) == [len |-> n, d |-> d]

-----------------------------------------------------------------------------
(* nar_info::ca::Hash, in the order of the enumeration's numbers.            *)
Types == << <<"Nar", "Sha256">>, <<"Nar", "Sha1">>, <<"Nar", "Sha512">>, <<"Nar", "Md5">>, <<"Text", "Sha256">>,
            <<"Flat", "Sha1">>, <<"Flat", "Md5">>, <<"Flat", "Sha256">>, <<"Flat", "Sha512">> >>

Hash(ca) ==
  CASE <<ca.mode, ca.algo>> = <<"Nar", "Sha256">>  -> 1
    [] <<ca.mode, ca.algo>> = <<"Nar", "Sha1">>    -> 2
    [] <<ca.mode, ca.algo>> = <<"Nar", "Sha512">>  -> 3
    [] <<ca.mode, ca.algo>> = <<"Nar", "Md5">>     -> 4
    [] ca.mode = "Text"                            -> 5
    [] <<ca.mode, ca.algo>> = <<"Flat", "Sha1">>   -> 6
    [] <<ca.mode, ca.algo>> = <<"Flat", "Md5">>    -> 7
    [] <<ca.mode, ca.algo>> = <<"Flat", "Sha256">> -> 8
    [] <<ca.mode, ca.algo>> = <<"Flat", "Sha512">> -> 9

FromCa(ca) == [type |-> Hash(ca), digest |-> Bytes(Size[ca.algo], ca.d)]

CaError(m) ==
  IF m.type \notin DOMAIN Types THEN "UnknownHashType"
  ELSE IF m.digest.len # Size[Types[m.type][2]] THEN "InvalidReferenceDigestLen" ELSE ""

TryFromCa(m) == [mode |-> Types[m.type][1], algo |-> Types[m.type][2], d |-> m.digest.d]

-----------------------------------------------------------------------------
From(p) ==
  [entry      |-> << [name |-> p.store_path, node |-> p.node] >>,
   references |-> [i \in DOMAIN p.references |-> Bytes(20, p.references[i][1])],
   narinfo    |-> << [nar_size        |-> p.nar_size,
                      nar_sha256      |-> Bytes(32, p.nar_sha256),
                      signatures      |-> [i \in DOMAIN p.signatures |->
                                             [name |-> p.signatures[i][1], data |-> Bytes(64, p.signatures[i][2])]],
                      reference_names |-> p.references,
                      deriver         |-> [i \in DOMAIN p.deriver |-> [name |-> p.deriver[i][2], digest |-> Bytes(20, p.deriver[i][1])]],
                      ca              |-> [i \in DOMAIN p.ca |-> FromCa(p.ca[i])]] >>]

(* The names are parsed and compared with the digests one after the other;   *)
(* the first that fails is reported.                                         *)
ReferenceError(m, n) ==
  LET Bad(i) == \/ n.reference_names[i] = <<>>
                \/ n.reference_names[i][1] # m.references[i].d
  IN  IF \E i \in DOMAIN m.references : m.references[i].len # 20 THEN "InvalidReferenceDigestLen"
      ELSE IF Len(n.reference_names) # Len(m.references) THEN "InconsistentNumberOfReferences"
      ELSE IF \E i \in DOMAIN m.references : Bad(i)
           THEN LET i == CHOOSE i \in DOMAIN m.references : Bad(i) /\ \A j \in 1..(i - 1) : ~Bad(j)
                IN  IF n.reference_names[i] = <<>> THEN "InvalidNarinfoReferenceName"
                    ELSE "InconsistentNarinfoReferenceNameDigest"
      ELSE ""

(* A node of 0 is one that the castore refuses; a name of 0 in the deriver   *)
(* is not the name of a store path. The names of signatures are taken as     *)
(* they come.                                                                *)
Error(m) ==
  IF m.narinfo = <<>> THEN "NarInfoFieldMissing"
  ELSE LET n == m.narinfo[1]
       IN  IF ReferenceError(m, n) # "" THEN ReferenceError(m, n)
           ELSE IF m.entry = <<>> THEN "NoEntryPresent"
           ELSE IF m.entry[1].node = 0 THEN "InvalidRootNode"
           ELSE IF m.entry[1].name = <<>> THEN "InvalidNodeName"
           ELSE IF n.nar_sha256.len # 32 THEN "InvalidNarSha256DigestLen"
           ELSE IF \E i \in DOMAIN n.deriver : n.deriver[i].name = 0 \/ n.deriver[i].digest.len # 20 THEN "InvalidDeriverField"
           ELSE IF \E i \in DOMAIN n.signatures : n.signatures[i].data.len # 64 THEN "InvalidSignature"
           ELSE IF \E i \in DOMAIN n.ca : CaError(n.ca[i]) # "" THEN "InvalidCaField"
           ELSE ""

TryFrom(m) ==
  LET n == m.narinfo[1]
  IN  [store_path |-> m.entry[1].name, node |-> m.entry[1].node, references |-> n.reference_names,
       nar_size |-> n.nar_size, nar_sha256 |-> n.nar_sha256.d,
       signatures |-> [i \in DOMAIN n.signatures |-> <<n.signatures[i].name, n.signatures[i].data.d>>],
       deriver |-> [i \in DOMAIN n.deriver |-> <<n.deriver[i].digest.d, n.deriver[i].name>>],
       ca |-> [i \in DOMAIN n.ca |-> TryFromCa(n.ca[i])]]

-----------------------------------------------------------------------------
(* A message is read back, from a database or a peer, as it was written or   *)
(* with some of its fields different.                                        *)
Init == path_info \in PathInfos /\ message = From(path_info) /\ edits = 0

Becomes(m) == edits < MaxEdits /\ m # message /\ message' = m /\ edits' = edits + 1 /\ UNCHANGED path_info
Becomes1(n) == Becomes([message EXCEPT !.narinfo = <<n>>])

EditRoot ==
  \/ Becomes([message EXCEPT !.entry = <<>>])
  \/ \E i \in DOMAIN message.entry : \/ Becomes([message EXCEPT !.entry[i].node = 0])
                                     \/ Becomes([message EXCEPT !.entry[i].name = <<>>])
  \/ Becomes([message EXCEPT !.narinfo = <<>>])

EditReferences ==
  \/ \E i \in DOMAIN message.references : \E l \in {20, 32}, d \in 1..2 :
       Becomes([message EXCEPT !.references[i] = Bytes(l, d)])
  \/ Becomes([message EXCEPT !.references = Append(@, Bytes(20, 1))])
  \/ \E i \in DOMAIN message.narinfo : LET n == message.narinfo[i] IN
       \/ Becomes1([n EXCEPT !.reference_names = Append(@, <<1, 1>>)])
       \/ \E j \in DOMAIN n.reference_names : \E r \in {<<>>, <<1, 2>>} :
            Becomes1([n EXCEPT !.reference_names[j] = r])

EditFields ==
  \E i \in DOMAIN message.narinfo : LET n == message.narinfo[i] IN
    \/ \E l \in {20, 32} : Becomes1([n EXCEPT !.nar_sha256 = Bytes(l, 2)])
    \/ \E l \in {20, 32}, x \in 0..1 : Becomes1([n EXCEPT !.deriver = << [name |-> x, digest |-> Bytes(l, 1)] >>])
    \/ \E l \in {32, 64} : Becomes1([n EXCEPT !.signatures = Append(@, [name |-> 0, data |-> Bytes(l, 1)])])
    \/ \E t \in 0..9, l \in {16, 20, 32, 64} : Becomes1([n EXCEPT !.ca = << [type |-> t, digest |-> Bytes(l, 1)] >>])

Over == edits = MaxEdits /\ UNCHANGED vars

Next == EditRoot \/ EditReferences \/ EditFields \/ Over
Spec == Init /\ [][Next]_vars

-----------------------------------------------------------------------------
TypeOK == path_info \in PathInfos /\ edits \in 0..MaxEdits

\* A path info that is written is read back as it was (From and TryFrom).
WrittenIsRead == edits = 0 => Error(message) = "" /\ TryFrom(message) = path_info

\* What is read from any message that is accepted would be written as that very
\* message: no field of an accepted message is ignored, the digests of the
\* references included, which are there twice (the checks of TryFrom).
NothingIgnored == Error(message) = "" => From(TryFrom(message)) = message
=============================================================================
