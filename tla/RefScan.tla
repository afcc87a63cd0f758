------------------------------- MODULE RefScan -------------------------------
(* ReferenceReader of castore: bytes pass through while they are scanned for *)
(* the needles of a ReferencePattern. Reads of the underlying reader return  *)
(* as much as they like or are pending, and the consumer takes as much as it *)
(* likes, so that a needle may be spread over any number of reads.           *)
EXTENDS Naturals, Sequences, SequencesExt, FiniteSetsExt

CONSTANTS Streams,     \* what the reader may deliver
          Candidates,  \* the needles, all of one length as nixbase32 digests are
          Capacity     \* of the buffer asked for; it is made to fit a needle

VARIABLES stream,      \* what the reader delivers
          read,        \* how much of it was read
          buffer, consumed, matches,
          at,          \* "idle", "filling" (in the loop of poll_fill_buf), "ready" or "done"
          passed       \* what the consumer got
vars == <<stream, read, buffer, consumed, matches, at, passed>>

longest_candidate == Max({Len(Candidates[i]) : i \in DOMAIN Candidates} \cup {0})
capacity == Max({Capacity, longest_candidate})

\* Mutated form: one byte less is kept.
overlap_Short == IF longest_candidate < 2 THEN 0 ELSE longest_candidate - 2

overlap == IF longest_candidate = 0 THEN 0 ELSE longest_candidate - 1

Init ==
  /\ stream \in Streams /\ read = 0 /\ buffer = <<>> /\ consumed = 0
  /\ matches = {} /\ at = "idle" /\ passed = <<>>

(* The searcher reports matches that do not overlap, from left to right.     *)
find(haystack) ==
  LET At(i) == {c \in DOMAIN Candidates :
                  i + Len(Candidates[c]) - 1 <= Len(haystack)
                    /\ SubSeq(haystack, i, i + Len(Candidates[c]) - 1) = Candidates[c]}
      f[i \in 1..Len(haystack) + longest_candidate] ==
        IF i > Len(haystack) THEN {}
        ELSE At(i) \cup f[IF At(i) = {} THEN i + 1 ELSE i + longest_candidate]
  IN  IF haystack = <<>> \/ Candidates = <<>> THEN {} ELSE f[1]

scan(haystack) ==
  IF Len(haystack) < longest_candidate THEN matches ELSE matches \cup find(haystack)

Kept ==
  [buffer |-> SubSeq(buffer, Len(buffer) - overlap + 1, Len(buffer)), consumed |-> overlap]

(* poll_fill_buf, up to its loop: what is left is handed out again; else the *)
(* tail that may hold the start of a needle moves to the front.              *)
poll_fill_buf ==
  /\ at = "idle"
  /\ IF consumed < Len(buffer) THEN at' = "ready" /\ UNCHANGED <<buffer, consumed>>
     ELSE /\ at' = "filling"
          /\ IF consumed > overlap
             THEN buffer' = Kept.buffer /\ consumed' = Kept.consumed
             ELSE UNCHANGED <<buffer, consumed>>
  /\ UNCHANGED <<stream, read, matches, passed>>

Enough(bytes) == Len(bytes) > overlap

(* One read in the loop. A pending one leaves what was read before it in the *)
(* buffer, where the next call finds it as data that is left.                *)
Read ==
  /\ at = "filling"
  /\ \/ at' = "idle" /\ UNCHANGED <<read, buffer, matches>>
     \/ \E n \in 1..Min({capacity - Len(buffer), Len(stream) - read}) :
          LET bytes == buffer \o SubSeq(stream, read + 1, read + n)
          IN  /\ read' = read + n /\ buffer' = bytes
              /\ IF Enough(bytes) THEN at' = "ready" /\ matches' = scan(bytes)
                 ELSE UNCHANGED <<at, matches>>
     \/ /\ read = Len(stream) /\ at' = "ready" /\ matches' = scan(buffer)
        /\ UNCHANGED <<read, buffer>>
  /\ UNCHANGED <<stream, consumed, passed>>

(* The consumer takes some of what it was given; nothing means the end.      *)
Consume ==
  /\ at = "ready"
  /\ \/ consumed = Len(buffer) /\ at' = "done" /\ UNCHANGED <<consumed, passed>>
     \/ \E amt \in 1..Len(buffer) - consumed :
          /\ at' = "idle" /\ consumed' = consumed + amt
          /\ passed' = passed \o SubSeq(buffer, consumed + 1, consumed + amt)
  /\ UNCHANGED <<stream, read, buffer, matches>>

Over == at = "done" /\ UNCHANGED vars
Next == poll_fill_buf \/ Read \/ Consume \/ Over
Spec == Init /\ [][Next]_vars

-----------------------------------------------------------------------------
TypeOK ==
  /\ Len(buffer) <= capacity /\ consumed \in 0..Len(buffer) /\ read \in 0..Len(stream)
  /\ matches \subseteq DOMAIN Candidates

Places == {<<i, c>> \in (1..Len(stream)) \X DOMAIN Candidates :
             i + Len(Candidates[c]) - 1 <= Len(stream)
               /\ SubSeq(stream, i, i + Len(Candidates[c]) - 1) = Candidates[c]}
Overlapping == \E p, q \in Places : p[1] < q[1] /\ q[1] < p[1] + longest_candidate

\* When the stream has ended, every needle in it was found and no other one,
\* however it was cut into reads: the references of a build output do not
\* depend on the sizes of reads. (Needles that overlap in the stream are not
\* promised.)
NeedlesFound ==
  /\ matches \subseteq {p[2] : p \in Places}
  /\ at = "done" /\ ~Overlapping => matches = {p[2] : p \in Places}

\* Scanning does not change the data: the consumer gets the stream, in order
\* and without the bytes that are kept for the next scan being repeated.
PassedThrough ==
  /\ IsPrefix(passed, stream)
  /\ at = "done" => passed = stream
=============================================================================
