--------------------------- MODULE GrpcDirectory ---------------------------
(***************************************************************************)
(* A directory service behind gRPC: GRPCPutter and get_recursive() of the  *)
(* client (directoryservice/grpc.rs), and put() and get() of the server    *)
(* (proto/grpc_directoryservice_wrapper.rs) on a backend that keeps the    *)
(* promise of ClosedStore.  A client task drives each request; the server  *)
(* consumes its stream message by message; the connection can break at any *)
(* point, after which client and server each see an error.                 *)
(***************************************************************************)
EXTENDS Directories, TLAPS

CONSTANTS Putter, Client, MaxSent, Failure

VARIABLES
    dirs, stored,
    rq,         \* per putter: "open", "closing" (awaiting the task), "closed", "dropped"
    wire,       \* per putter: directories sent and not received yet
    eos,        \* per putter: the sender is gone, the stream will end
    srv,        \* per putter: put() of the server: "recv", "close", "done", "failed"
    accepted,   \* per putter: accepted by its validator, in order
    task,       \* per putter: "running", or what the put request returned: the
                \* "root" of what the server accepted, or "Tonic" (a status)
    given,      \* per putter: the directories put() took, in order
    answers,    \* per putter: what each put() and close() returned, in order
    want, sent, out,    \* per reader: root, received, outcome
    work        \* per reader: worklist of the server, emptied in any order

putters == <<rq, wire, eos, srv, accepted, task, given, answers>>
readers == <<want, work, sent, out>>
vars == <<dirs, stored, putters, readers>>

Init ==
    /\ dirs \in Contents
    /\ stored = {}
    /\ rq = [p \in Putter |-> "open"] /\ wire = [p \in Putter |-> <<>>]
    /\ eos = [p \in Putter |-> FALSE] /\ srv = [p \in Putter |-> "recv"]
    /\ accepted = [p \in Putter |-> <<>>] /\ task = [p \in Putter |-> "running"]
    /\ given = [p \in Putter |-> <<>>] /\ answers = [p \in Putter |-> <<>>]
    /\ want = [c \in Client |-> None] /\ work = [c \in Client |-> {}]
    /\ sent = [c \in Client |-> <<>>] /\ out = [c \in Client |-> "idle"]

Answer(p, a) == answers' = [answers EXCEPT ![p] = Append(@, a)]

(* GRPCPutter::put(): the channel takes anything while the task lives; if  *)
(* it does not, close() tells why.                                         *)
put(p, d) ==
    /\ rq[p] = "open" /\ Len(answers[p]) < MaxSent
    /\ IF task[p] = "running"
       THEN /\ wire' = [wire EXCEPT ![p] = Append(@, d)]
            /\ given' = [given EXCEPT ![p] = Append(@, d)]
            /\ Answer(p, "ok") /\ UNCHANGED <<rq, eos>>
       ELSE /\ rq' = [rq EXCEPT ![p] = "closed"]
            /\ eos' = [eos EXCEPT ![p] = TRUE]
            /\ Answer(p, task[p]) /\ UNCHANGED <<wire, given>>
    /\ UNCHANGED <<dirs, stored, srv, accepted, task, readers>>

(* close() of a putter whose rq is taken. *)
AlreadyClosed(p) ==
    /\ rq[p] = "closed" /\ Len(answers[p]) < MaxSent
    /\ Answer(p, "DirectoryPutterAlreadyClosed")
    /\ UNCHANGED <<dirs, stored, rq, wire, eos, srv, accepted, task, given, readers>>

close(p) ==
    /\ rq[p] = "open"
    /\ rq' = [rq EXCEPT ![p] = "closing"]
    /\ eos' = [eos EXCEPT ![p] = TRUE]
    /\ UNCHANGED <<dirs, stored, wire, srv, accepted, task, answers, given, readers>>

CloseReturns(p) ==
    /\ rq[p] = "closing" /\ task[p] # "running"
    /\ rq' = [rq EXCEPT ![p] = "closed"]
    /\ Answer(p, task[p])
    /\ UNCHANGED <<dirs, stored, wire, eos, srv, accepted, task, given, readers>>

(* A putter dropped without close(): its task goes on, its stream ends. *)
DropPutter(p) ==
    /\ rq[p] \in {"open", "closing"}
    /\ rq' = [rq EXCEPT ![p] = "dropped"]
    /\ eos' = [eos EXCEPT ![p] = TRUE]
    /\ UNCHANGED <<dirs, stored, wire, srv, accepted, task, answers, given, readers>>

-----------------------------------------------------------------------------
(* put() of the server: validator and backend putter take each directory   *)
(* as it comes.                                                            *)

Acceptable(p, d) ==
    \A i \in DOMAIN dirs[d].pointers :
        LET ptr == dirs[d].pointers[i] IN
        ptr.digest \in Range(accepted[p]) /\ ptr.size = dirs[ptr.digest].size

ServerRecv_Stores(p) ==
    /\ srv[p] = "recv" /\ task[p] = "running" /\ wire[p] # <<>>
    /\ wire' = [wire EXCEPT ![p] = Tail(@)]
    /\ stored' = stored \cup {Head(wire[p])}
    /\ accepted' = [accepted EXCEPT ![p] = Append(@, Head(wire[p]))]
    /\ UNCHANGED <<dirs, srv, rq, eos, task, answers, given, readers>>
ServerRecv(p) ==
    /\ srv[p] = "recv" /\ task[p] = "running" /\ wire[p] # <<>>
    /\ wire' = [wire EXCEPT ![p] = Tail(@)]
    /\ \/ /\ Acceptable(p, Head(wire[p]))
          /\ accepted' = [accepted EXCEPT ![p] = Append(@, Head(wire[p]))]
          /\ UNCHANGED srv
       \/ \* an ordering error, or an error of the backend putter
          /\ srv' = [srv EXCEPT ![p] = "failed"] /\ UNCHANGED accepted
    /\ UNCHANGED <<dirs, stored, rq, eos, task, answers, given, readers>>

(* finalize(): exactly one directory nobody refers to. *)
Roots(p) ==
    {d \in Range(accepted[p]) : \A x \in Range(accepted[p]) : d \notin Children(dirs[x])}
Finalizes_Always(p) == TRUE
Finalizes(p) == \E d \in Digest : Roots(p) = {d}

ServerEnd(p) ==
    /\ srv[p] = "recv" /\ task[p] = "running" /\ wire[p] = <<>> /\ eos[p]
    /\ srv' = [srv EXCEPT ![p] = IF Finalizes(p) THEN "close" ELSE "failed"]
    /\ UNCHANGED <<dirs, stored, rq, wire, eos, accepted, task, answers, given, readers>>

(* The backend putter's close(): all of it, or an error after a part that  *)
(* is closed.                                                              *)
ServerClose(p) ==
    /\ srv[p] = "close"
    /\ \/ srv' = [srv EXCEPT ![p] = "done"] /\ stored' = stored \cup Range(accepted[p])
       \/ /\ srv' = [srv EXCEPT ![p] = "failed"]
          /\ \E S \in SUBSET Range(accepted[p]) : Closed(dirs, S) /\ stored' = stored \cup S
    /\ UNCHANGED <<dirs, rq, wire, eos, accepted, task, answers, given, readers>>

(* The response arrives at the client's task. *)
Respond_Lost(p) ==
    /\ task[p] = "running" /\ srv[p] = "failed"
    /\ task' = [task EXCEPT ![p] = "Tonic"]
    /\ UNCHANGED <<dirs, stored, rq, wire, eos, srv, accepted, answers, given, readers>>
Respond(p) ==
    /\ task[p] = "running" /\ srv[p] \in {"done", "failed"}
    /\ \/ srv[p] = "failed" /\ task' = [task EXCEPT ![p] = "Tonic"]
       \/ srv[p] = "done" /\ task' = [task EXCEPT ![p] = "root"]
    /\ UNCHANGED <<dirs, stored, rq, wire, eos, srv, accepted, answers, given, readers>>

(* The connection breaks: a server that is still receiving gets an error   *)
(* from message(), one that is past the stream goes on.                    *)
Disconnect(p) ==
    /\ Failure /\ task[p] = "running"
    /\ task' = [task EXCEPT ![p] = "Tonic"]
    /\ srv' = [srv EXCEPT ![p] = IF @ = "recv" THEN "failed" ELSE @]
    /\ UNCHANGED <<dirs, stored, rq, wire, eos, accepted, answers, given, readers>>

-----------------------------------------------------------------------------
(* get(recursive) of the server, the stream of messages and the client's   *)
(* loop; get_recursive() of the backend yields root first, then children.  *)

get_recursive(c, d) ==
    /\ out[c] = "idle"
    /\ want' = [want EXCEPT ![c] = d]
    /\ work' = [work EXCEPT ![c] = {d}]
    /\ out' = [out EXCEPT ![c] = "streaming"]
    /\ UNCHANGED <<dirs, stored, putters, sent>>

StreamDirectory(c) ==
    /\ out[c] = "streaming"
    /\ \E d \in work[c] \cap stored :
          /\ sent' = [sent EXCEPT ![c] = Append(@, d)]
          /\ work' = [work EXCEPT ![c] = (@ \ {d}) \cup (Children(dirs[d]) \ (Range(sent[c]) \cup {d}))]
    /\ UNCHANGED <<dirs, stored, putters, want, out>>

(* A missing root ends the stream; a missing child is an error in it. *)
StreamEnds_Truncates(c) ==
    /\ out[c] = "streaming"
    /\ work[c] = {} \/ Failure
    /\ out' = [out EXCEPT ![c] = "ended"]
    /\ UNCHANGED <<dirs, stored, putters, want, work, sent>>
StreamEnds(c) ==
    /\ out[c] = "streaming"
    /\ \/ work[c] = {} /\ out' = [out EXCEPT ![c] = "ended"]
       \/ \E d \in work[c] \ stored :
             out' = [out EXCEPT ![c] = IF d = want[c] THEN "ended" ELSE "Tonic"]
    /\ UNCHANGED <<dirs, stored, putters, want, work, sent>>

StreamBreaks(c) ==
    /\ Failure /\ out[c] = "streaming"
    /\ out' = [out EXCEPT ![c] = "Tonic"]
    /\ UNCHANGED <<dirs, stored, putters, want, work, sent>>

Server(p) == ServerRecv(p) \/ ServerEnd(p) \/ ServerClose(p) \/ Respond(p)

Next ==
    \/ \E p \in Putter : \/ Server(p) \/ close(p) \/ CloseReturns(p) \/ DropPutter(p)
                         \/ Disconnect(p) \/ AlreadyClosed(p)
                         \/ \E d \in Digest : put(p, d)
    \/ \E c \in Client : \/ StreamDirectory(c) \/ StreamEnds(c) \/ StreamBreaks(c)
                         \/ \E d \in Digest : get_recursive(c, d)

Spec == Init /\ [][Next]_vars

(* The server's tasks run on, and the client polls what it waits for. *)
FairSpec ==
    /\ Spec
    /\ \A p \in Putter : WF_vars(Server(p)) /\ WF_vars(CloseReturns(p))
    /\ \A c \in Client : WF_vars(StreamDirectory(c) \/ StreamEnds(c))
-----------------------------------------------------------------------------

Answers == {"ok", "root", "Tonic", "DirectoryPutterAlreadyClosed"}

TypeOK ==
    /\ dirs \in [Digest -> Directory] /\ stored \in SUBSET Digest
    /\ rq \in [Putter -> {"open", "closing", "closed", "dropped"}]
    /\ wire \in [Putter -> Seq(Digest)] /\ eos \in [Putter -> BOOLEAN]
    /\ srv \in [Putter -> {"recv", "close", "done", "failed"}]
    /\ accepted \in [Putter -> Seq(Digest)] /\ given \in [Putter -> Seq(Digest)]
    /\ task \in [Putter -> {"running", "root", "Tonic"}]
    /\ answers \in [Putter -> Seq(Answers)]
    /\ want \in [Client -> Digest \cup {None}] /\ work \in [Client -> SUBSET Digest]
    /\ sent \in [Client -> Seq(Digest)]
    /\ out \in [Client -> {"idle", "streaming", "ended", "Tonic"}]

(* Whatever happens between client and server, the store keeps the promise *)
(* of ClosedStore: it only grows, and never holds a directory without its  *)
(* children.                                                               *)
Served == INSTANCE ClosedStore WITH dirs <- dirs, stored <- stored
ServedStoreClosed == Served!Spec

(* A digest returned by put() or close() is the root of what the client    *)
(* put: the server has not refused ("If there's been any invalid Directory *)
(* message uploaded, and error *must* be returned"), no message was lost   *)
(* or reordered on the way, together they are the closure of one root, and *)
(* all of it is in the store.                                              *)
AckedIsStored ==
    \A p \in Putter : "root" \in Range(answers[p]) =>
        /\ srv[p] = "done" /\ accepted[p] = given[p]
        /\ Range(accepted[p]) \subseteq stored
        /\ \E d \in Digest : Roots(p) = {d} /\ ValidClosure(dirs, Range(accepted[p]), d)

(* get_recursive() that ends without an error has yielded the whole        *)
(* closure or nothing, though the client does not finalize its validator.  *)
StreamWholeOrEmpty ==
    \A c \in Client : out[c] = "ended" =>
        sent[c] = <<>> \/ Range(sent[c]) = Reachable(dirs, want[c])

(* close() returns, and a stream ends. *)
Closing(p) == rq[p] = "closing"
Streaming(c) == out[c] = "streaming"
CallsReturn ==
    /\ \A p \in Putter : Closing(p) ~> ~Closing(p)
    /\ \A c \in Client : Streaming(c) ~> ~Streaming(c)
-----------------------------------------------------------------------------
(* Proofs.  What a putter and its server have in common. *)

(* What the server accepted is closed, and all of it below its roots. *)
BelowRoots(p) ==
    \A T \in SUBSET Digest : Roots(p) \subseteq T /\ Closed(dirs, T) => Range(accepted[p]) \subseteq T

PInv(p) ==
    /\ rq[p] = "open" => ~eos[p]
    /\ srv[p] \in {"close", "done"} => eos[p] /\ wire[p] = <<>> /\ Finalizes(p)
    /\ srv[p] # "failed" => given[p] = accepted[p] \o wire[p]
    /\ Closed(dirs, Range(accepted[p])) /\ SizesAgree(dirs, Range(accepted[p])) /\ BelowRoots(p)
    /\ srv[p] = "done" => Range(accepted[p]) \subseteq stored
    /\ task[p] = "root" \/ "root" \in Range(answers[p]) => srv[p] = "done"

(* What a reader has received of the closure it asked for. *)
RInv(c) ==
    /\ out[c] = "idle" => sent[c] = <<>>
    /\ out[c] # "idle" => want[c] \in Digest
    /\ out[c] = "streaming" => PartialWalk(dirs, want[c], work[c], sent[c])
    /\ out[c] = "ended" => sent[c] = <<>> \/ Range(sent[c]) = Reachable(dirs, want[c])

IInv ==
    /\ TypeOK /\ Closed(dirs, stored)
    /\ \A p \in Putter : PInv(p)
    /\ \A c \in Client : RInv(c)

(* A step that is none of the putter's leaves what is known of it. *)
LEMMA PutterKept ==
    ASSUME NEW p \in Putter, PInv(p), dirs' = dirs, stored \subseteq stored',
           rq'[p] = rq[p], wire'[p] = wire[p], eos'[p] = eos[p], srv'[p] = srv[p],
           accepted'[p] = accepted[p], task'[p] = task[p], given'[p] = given[p],
           answers'[p] = answers[p]
    PROVE  PInv(p)'
<1>1. Roots(p)' = Roots(p)
  BY Zenon DEF Roots
<1>2. Finalizes(p)' <=> Finalizes(p)
  BY <1>1, Zenon DEF Finalizes
<1>3. BelowRoots(p)' <=> BelowRoots(p)
  BY <1>1, Zenon DEF BelowRoots
<1> QED
  BY <1>2, <1>3, Zenon DEF PInv

LEMMA ReaderKept ==
    ASSUME NEW c \in Client, RInv(c), dirs' = dirs, want'[c] = want[c], work'[c] = work[c],
           sent'[c] = sent[c], out'[c] = out[c]
    PROVE  RInv(c)'
  BY Zenon DEF RInv, PartialWalk

(* A step of the putter p or its server, as everybody else sees it. *)
OnlyPutter(p) ==
    /\ dirs' = dirs /\ stored \subseteq stored' /\ UNCHANGED readers
    /\ \A q \in Putter \ {p} :
          /\ rq'[q] = rq[q] /\ wire'[q] = wire[q] /\ eos'[q] = eos[q] /\ srv'[q] = srv[q]
          /\ accepted'[q] = accepted[q] /\ task'[q] = task[q] /\ given'[q] = given[q]
          /\ answers'[q] = answers[q]

LEMMA PutterStep ==
    ASSUME IInv, NEW p \in Putter, OnlyPutter(p), TypeOK', Closed(dirs, stored'), PInv(p)'
    PROVE  IInv'
<1>1. \A q \in Putter : PInv(q)'
  <2> SUFFICES ASSUME NEW q \in Putter, q # p PROVE PInv(q)'
    BY Zenon
  <2> QED
    BY PutterKept, Zenon DEF IInv, OnlyPutter
<1>2. \A c \in Client : RInv(c)'
  BY ReaderKept, Zenon DEF IInv, OnlyPutter, readers
<1>3. Closed(dirs, stored)'
  BY Zenon DEF OnlyPutter, Closed
<1> QED
  BY <1>1, <1>2, <1>3, Zenon DEF IInv

LEMMA ReaderStep ==
    ASSUME IInv, NEW c \in Client, UNCHANGED <<dirs, stored, putters>>, TypeOK', RInv(c)',
           \A b \in Client \ {c} : /\ want'[b] = want[b] /\ work'[b] = work[b]
                                   /\ sent'[b] = sent[b] /\ out'[b] = out[b]
    PROVE  IInv'
<1>1. \A p \in Putter : PInv(p)'
  BY PutterKept, Zenon DEF IInv, putters
<1>2. \A b \in Client : RInv(b)'
  <2> SUFFICES ASSUME NEW b \in Client, b # c PROVE RInv(b)'
    BY Zenon
  <2> QED
    BY ReaderKept, Zenon DEF IInv
<1>3. Closed(dirs, stored)'
  BY Zenon DEF IInv, Closed
<1> QED
  BY <1>1, <1>2, <1>3, Zenon DEF IInv
-----------------------------------------------------------------------------
LEMMA InitHolds == Init => IInv
<1> SUFFICES ASSUME Init PROVE IInv
  BY Zenon
<1>1. dirs \in [Digest -> Directory]
  BY ContentsAssumption, Zenon DEF Init
<1>2. TypeOK
  BY <1>1 DEF Init, TypeOK
<1>3. Range(<<>>) = {}
  BY DEF Range
<1>4. ASSUME NEW p \in Putter PROVE PInv(p)
  <2>1. accepted[p] = <<>> /\ wire[p] = <<>> /\ given[p] = <<>> /\ answers[p] = <<>>
    BY Zenon DEF Init
  <2>2. given[p] = accepted[p] \o wire[p]
    BY <2>1
  <2>3. Closed(dirs, {}) /\ SizesAgree(dirs, {})
    BY Zenon DEF Closed, SizesAgree
  <2> QED
    BY <1>3, <2>1, <2>2, <2>3, Zenon DEF Init, PInv, BelowRoots
<1>5. ASSUME NEW c \in Client PROVE RInv(c)
  BY Zenon DEF Init, RInv
<1>6. Closed(dirs, stored)
  BY Zenon DEF Init, Closed
<1> QED
  BY <1>2, <1>4, <1>5, <1>6, Zenon DEF IInv

(* An answer that is not "root" acknowledges nothing. *)
LEMMA AnswerAdded ==
    ASSUME TypeOK, NEW p \in Putter, NEW a \in Answers, Answer(p, a)
    PROVE  /\ answers' \in [Putter -> Seq(Answers)]
           /\ Range(answers'[p]) = Range(answers[p]) \cup {a}
           /\ \A q \in Putter \ {p} : answers'[q] = answers[q]
<1>1. answers[p] \in Seq(Answers) /\ answers'[p] = Append(answers[p], a)
  BY Zenon DEF TypeOK, Answer
<1>2. Append(answers[p], a) \in Seq(Answers) /\ Range(answers'[p]) = Range(answers[p]) \cup {a}
  BY <1>1, RangeAppend
<1> QED
  BY <1>2, Zenon DEF TypeOK, Answer

(* What was accepted, and the roots, when accepted[p] stays as it is. *)
LEMMA SameAccepted ==
    ASSUME NEW p, dirs' = dirs, accepted'[p] = accepted[p]
    PROVE  /\ Finalizes(p)' <=> Finalizes(p)
           /\ BelowRoots(p)' <=> BelowRoots(p)
           /\ Closed(dirs, Range(accepted[p]))' <=> Closed(dirs, Range(accepted[p]))
           /\ SizesAgree(dirs, Range(accepted[p]))' <=> SizesAgree(dirs, Range(accepted[p]))
<1>1. Roots(p)' = Roots(p)
  BY Zenon DEF Roots
<1> QED
  BY <1>1, Zenon DEF Finalizes, BelowRoots
-----------------------------------------------------------------------------
(* The client's half of a putter. *)

(* Two lists one after the other: one more at the end of the second, and   *)
(* the first of the second at the end of the first.                        *)
LEMMA SameSequence ==
    ASSUME NEW S, NEW s \in Seq(S), NEW t \in Seq(S), Len(s) = Len(t),
           \A i \in 1 .. Len(s) : s[i] = t[i]
    PROVE  s = t
<1>1. /\ DOMAIN s = 1 .. Len(s) /\ DOMAIN t = 1 .. Len(s)
      /\ s = [i \in DOMAIN s |-> s[i]] /\ t = [i \in DOMAIN t |-> t[i]]
  OBVIOUS
<1> QED
  BY <1>1, Zenon

LEMMA ConcatAppends ==
    ASSUME NEW s \in Seq(Digest), NEW t \in Seq(Digest), NEW d \in Digest
    PROVE  Append(s \o t, d) = s \o Append(t, d)
<1>1. /\ Append(s \o t, d) \in Seq(Digest) /\ s \o Append(t, d) \in Seq(Digest)
      /\ Len(Append(s \o t, d)) = Len(s \o Append(t, d))
  OBVIOUS
<1>2. \A i \in 1 .. Len(Append(s \o t, d)) : Append(s \o t, d)[i] = (s \o Append(t, d))[i]
  OBVIOUS
<1> QED
  BY <1>1, <1>2, SameSequence, Zenon

LEMMA ConcatMoves ==
    ASSUME NEW S, NEW s \in Seq(S), NEW t \in Seq(S), t # <<>>
    PROVE  s \o t = Append(s, Head(t)) \o Tail(t)
<1>1. Head(t) \in S /\ Tail(t) \in Seq(S) /\ Len(Tail(t)) = Len(t) - 1 /\ Append(s, Head(t)) \in Seq(S)
  OBVIOUS
<1>2. /\ s \o t \in Seq(S) /\ Append(s, Head(t)) \o Tail(t) \in Seq(S)
      /\ Len(s \o t) = Len(Append(s, Head(t)) \o Tail(t))
  BY <1>1
<1>3. \A i \in 1 .. Len(s \o t) : (s \o t)[i] = (Append(s, Head(t)) \o Tail(t))[i]
  BY <1>1
<1> QED
  BY <1>2, <1>3, SameSequence, Zenon

LEMMA PutKeeps ==
    ASSUME IInv, NEW p \in Putter, NEW d \in Digest, put(p, d)
    PROVE  IInv'
<1>1. PInv(p) /\ TypeOK
  BY Zenon DEF IInv
<1>2. dirs' = dirs /\ stored' = stored /\ accepted' = accepted /\ srv' = srv /\ task' = task
      /\ UNCHANGED readers
  BY Zenon DEF put
<1>3. CASE task[p] = "running"
  <2>1. /\ wire' = [wire EXCEPT ![p] = Append(@, d)]
        /\ given' = [given EXCEPT ![p] = Append(@, d)]
        /\ Answer(p, "ok") /\ UNCHANGED <<rq, eos>> /\ rq[p] = "open"
    BY <1>3, Zenon DEF put
  <2>2. /\ answers' \in [Putter -> Seq(Answers)]
        /\ Range(answers'[p]) = Range(answers[p]) \cup {"ok"}
        /\ \A q \in Putter \ {p} : answers'[q] = answers[q]
    BY <1>1, <2>1, AnswerAdded, Zenon DEF Answers
  <2>3. /\ wire'[p] = Append(wire[p], d) /\ given'[p] = Append(given[p], d)
        /\ wire[p] \in Seq(Digest) /\ given[p] \in Seq(Digest) /\ accepted[p] \in Seq(Digest)
    BY <1>1, <2>1, Zenon DEF TypeOK
  <2>4. TypeOK'
    <3>1. Append(wire[p], d) \in Seq(Digest) /\ Append(given[p], d) \in Seq(Digest)
      BY <2>3
    <3>2. wire' \in [Putter -> Seq(Digest)] /\ given' \in [Putter -> Seq(Digest)]
      BY <1>1, <2>1, <3>1, Zenon DEF TypeOK
    <3> QED
      BY <1>1, <1>2, <2>1, <2>2, <3>2, Zenon DEF TypeOK, readers
  <2>5. ~eos[p] /\ srv[p] \notin {"close", "done"}
    BY <1>1, <2>1, Zenon DEF PInv
  <2>6. srv[p] # "failed" => given'[p] = accepted'[p] \o wire'[p]
    <3>1. srv[p] # "failed" => given[p] = accepted[p] \o wire[p]
      BY <1>1, Zenon DEF PInv
    <3>2. \A s, t \in Seq(Digest) : Append(s \o t, d) = s \o Append(t, d)
      BY ConcatAppends, Zenon
    <3>3. Append(accepted[p] \o wire[p], d) = accepted[p] \o Append(wire[p], d)
      BY <2>3, <3>2, Zenon
    <3> QED
      BY <1>2, <2>3, <3>1, <3>3, Zenon
  <2>7. PInv(p)'
    BY <1>1, <1>2, <2>1, <2>2, <2>5, <2>6, SameAccepted, Zenon DEF PInv
  <2>8. OnlyPutter(p)
    BY <1>1, <1>2, <2>1, <2>2, Zenon DEF OnlyPutter, TypeOK
  <2> QED
    BY <1>2, <2>4, <2>7, <2>8, PutterStep, Zenon DEF IInv
<1>4. CASE task[p] # "running"
  <2>1. /\ rq' = [rq EXCEPT ![p] = "closed"] /\ eos' = [eos EXCEPT ![p] = TRUE]
        /\ Answer(p, task[p]) /\ UNCHANGED <<wire, given>>
    BY <1>4, Zenon DEF put
  <2>2. task[p] \in Answers
    BY <1>1, <1>4, Zenon DEF TypeOK, Answers
  <2>3. /\ answers' \in [Putter -> Seq(Answers)]
        /\ Range(answers'[p]) = Range(answers[p]) \cup {task[p]}
        /\ \A q \in Putter \ {p} : answers'[q] = answers[q]
    BY <1>1, <2>1, <2>2, AnswerAdded, Zenon
  <2>4. rq'[p] = "closed" /\ eos'[p] = TRUE
    BY <1>1, <2>1, Zenon DEF TypeOK
  <2>5. TypeOK'
    BY <1>1, <1>2, <2>1, <2>3, Zenon DEF TypeOK, readers
  <2>6. PInv(p)'
    BY <1>1, <1>2, <2>1, <2>3, <2>4, SameAccepted, Zenon DEF PInv
  <2>7. OnlyPutter(p)
    BY <1>1, <1>2, <2>1, <2>3, Zenon DEF OnlyPutter, TypeOK
  <2> QED
    BY <1>2, <2>5, <2>6, <2>7, PutterStep, Zenon DEF IInv
<1> QED
  BY <1>3, <1>4, Zenon

LEMMA AlreadyClosedKeeps ==
    ASSUME IInv, NEW p \in Putter, AlreadyClosed(p)
    PROVE  IInv'
<1>1. PInv(p) /\ TypeOK
  BY Zenon DEF IInv
<1>2. /\ UNCHANGED <<dirs, stored, rq, wire, eos, srv, accepted, task, given, readers>>
      /\ Answer(p, "DirectoryPutterAlreadyClosed")
  BY Zenon DEF AlreadyClosed
<1>3. /\ answers' \in [Putter -> Seq(Answers)]
      /\ Range(answers'[p]) = Range(answers[p]) \cup {"DirectoryPutterAlreadyClosed"}
      /\ \A q \in Putter \ {p} : answers'[q] = answers[q]
  BY <1>1, <1>2, AnswerAdded, Zenon DEF Answers
<1>4. TypeOK'
  BY <1>1, <1>2, <1>3, Zenon DEF TypeOK, readers
<1>5. PInv(p)'
  BY <1>1, <1>2, <1>3, SameAccepted, Zenon DEF PInv
<1>6. OnlyPutter(p)
  BY <1>2, <1>3, Zenon DEF OnlyPutter
<1> QED
  BY <1>2, <1>4, <1>5, <1>6, PutterStep, Zenon DEF IInv

LEMMA CloseReturnsKeeps ==
    ASSUME IInv, NEW p \in Putter, CloseReturns(p)
    PROVE  IInv'
<1>1. PInv(p) /\ TypeOK
  BY Zenon DEF IInv
<1>2. /\ UNCHANGED <<dirs, stored, wire, eos, srv, accepted, task, given, readers>>
      /\ Answer(p, task[p]) /\ rq' = [rq EXCEPT ![p] = "closed"] /\ task[p] # "running"
  BY Zenon DEF CloseReturns
<1>3. task[p] \in Answers
  BY <1>1, <1>2, Zenon DEF TypeOK, Answers
<1>4. /\ answers' \in [Putter -> Seq(Answers)]
      /\ Range(answers'[p]) = Range(answers[p]) \cup {task[p]}
      /\ \A q \in Putter \ {p} : answers'[q] = answers[q]
  BY <1>1, <1>2, <1>3, AnswerAdded, Zenon
<1>5. TypeOK' /\ rq'[p] = "closed"
  BY <1>1, <1>2, <1>4, Zenon DEF TypeOK, readers
<1>6. PInv(p)'
  BY <1>1, <1>2, <1>4, <1>5, SameAccepted, Zenon DEF PInv
<1>7. OnlyPutter(p)
  BY <1>1, <1>2, <1>4, Zenon DEF OnlyPutter, TypeOK
<1> QED
  BY <1>2, <1>5, <1>6, <1>7, PutterStep, Zenon DEF IInv

(* close() and a dropped putter end the stream. *)
LEMMA StreamOverKeeps ==
    ASSUME IInv, NEW p \in Putter, close(p) \/ DropPutter(p)
    PROVE  IInv'
<1>1. PInv(p) /\ TypeOK
  BY Zenon DEF IInv
<1>2. /\ UNCHANGED <<dirs, stored, wire, srv, accepted, task, answers, given, readers>>
      /\ eos' = [eos EXCEPT ![p] = TRUE]
      /\ rq' = [rq EXCEPT ![p] = "closing"] \/ rq' = [rq EXCEPT ![p] = "dropped"]
  BY Zenon DEF close, DropPutter
<1>3. TypeOK' /\ rq'[p] # "open" /\ eos'[p] = TRUE
  BY <1>1, <1>2, Zenon DEF TypeOK, readers
<1>4. PInv(p)'
  BY <1>1, <1>2, <1>3, SameAccepted, Zenon DEF PInv
<1>5. OnlyPutter(p)
  BY <1>1, <1>2, Zenon DEF OnlyPutter, TypeOK
<1> QED
  BY <1>2, <1>3, <1>4, <1>5, PutterStep, Zenon DEF IInv
-----------------------------------------------------------------------------
(* The server's half. *)

(* Accepting a directory whose children were accepted, with right sizes. *)
LEMMA AcceptOne ==
    ASSUME TypeOK, NEW p \in Putter, NEW d \in Digest, Acceptable(p, d),
           Closed(dirs, Range(accepted[p])), SizesAgree(dirs, Range(accepted[p])), BelowRoots(p),
           dirs' = dirs, accepted' = [accepted EXCEPT ![p] = Append(@, d)]
    PROVE  /\ Closed(dirs, Range(accepted[p]))' /\ SizesAgree(dirs, Range(accepted[p]))'
           /\ BelowRoots(p)'
<1> DEFINE S == Range(accepted[p])
<1>1. accepted[p] \in Seq(Digest) /\ accepted'[p] = Append(accepted[p], d)
  BY Zenon DEF TypeOK
<1>2. Range(accepted'[p]) = S \cup {d} /\ S \subseteq Digest
  BY <1>1, RangeAppend DEF Range
<1>3. Children(dirs[d]) \subseteq S
  BY Zenon DEF Acceptable, Children
<1>4. Closed(dirs, S \cup {d})
  BY <1>3, Zenon DEF Closed
<1>5. SizesAgree(dirs, S \cup {d})
  BY Zenon DEF Acceptable, SizesAgree
<1>6. BelowRoots(p)'
  <2> SUFFICES ASSUME NEW T \in SUBSET Digest, Roots(p)' \subseteq T, Closed(dirs, T)
               PROVE  S \cup {d} \subseteq T
    BY <1>2, Zenon DEF BelowRoots
  <2>1. Roots(p)' = {r \in S \cup {d} : \A x \in S \cup {d} : r \notin Children(dirs[x])}
    BY <1>2, Zenon DEF Roots
  <2>2. Roots(p) = {r \in S : \A x \in S : r \notin Children(dirs[x])}
    BY Zenon DEF Roots
  <2>3. CASE d \in S
    <3>1. S \cup {d} = S
      BY <2>3, Zenon
    <3>2. Roots(p)' = Roots(p)
      BY <2>1, <2>2, <3>1, Zenon
    <3> QED
      BY <3>1, <3>2, Zenon DEF BelowRoots
  <2>4. CASE d \notin S
    <3>1. \A x \in S : Children(dirs[x]) \subseteq S
      BY Zenon DEF Closed
    <3>2. d \in T
      BY <1>3, <2>1, <2>4, <3>1, Zenon
    <3>3. Children(dirs[d]) \subseteq T
      BY <3>2, Zenon DEF Closed
    <3>4. Roots(p) \subseteq T
      BY <2>1, <2>2, <3>3, Zenon
    <3> QED
      BY <3>2, <3>4, Zenon DEF BelowRoots
  <2> QED
    BY <2>3, <2>4, Zenon
<1> QED
  BY <1>2, <1>4, <1>5, <1>6, Zenon

LEMMA ServerRecvKeeps ==
    ASSUME IInv, NEW p \in Putter, ServerRecv(p)
    PROVE  IInv'
<1>1. PInv(p) /\ TypeOK
  BY Zenon DEF IInv
<1> DEFINE d == Head(wire[p])
<1>2. /\ UNCHANGED <<dirs, stored, rq, eos, task, answers, given, readers>>
      /\ wire' = [wire EXCEPT ![p] = Tail(@)] /\ srv[p] = "recv"
  BY Zenon DEF ServerRecv
<1>3. /\ wire[p] \in Seq(Digest) /\ wire[p] # <<>> /\ d \in Digest /\ wire'[p] = Tail(wire[p])
      /\ Tail(wire[p]) \in Seq(Digest) /\ accepted[p] \in Seq(Digest)
  BY <1>1, <1>2 DEF ServerRecv, TypeOK
<1>4. task[p] # "root" /\ "root" \notin Range(answers[p])
  BY <1>1, <1>2, Zenon DEF PInv
<1>5. CASE Acceptable(p, d) /\ accepted' = [accepted EXCEPT ![p] = Append(@, d)] /\ UNCHANGED srv
  <2>1. accepted'[p] = Append(accepted[p], d) /\ Append(accepted[p], d) \in Seq(Digest)
    BY <1>1, <1>3, <1>5 DEF TypeOK
  <2>2. TypeOK'
    BY <1>1, <1>2, <1>3, <1>5, <2>1, Zenon DEF TypeOK, readers
  <2>3. /\ Closed(dirs, Range(accepted[p]))' /\ SizesAgree(dirs, Range(accepted[p]))'
        /\ BelowRoots(p)'
    BY <1>1, <1>2, <1>3, <1>5, AcceptOne, Zenon DEF PInv
  <2>4. given'[p] = accepted'[p] \o wire'[p]
    <3>1. given[p] = accepted[p] \o wire[p] /\ given'[p] = given[p]
      BY <1>1, <1>2, Zenon DEF PInv
    <3>2. accepted[p] \o wire[p] = Append(accepted[p], Head(wire[p])) \o Tail(wire[p])
      BY <1>3, ConcatMoves, Zenon
    <3> QED
      BY <1>3, <2>1, <3>1, <3>2, Zenon
  <2>5. PInv(p)'
    BY <1>1, <1>2, <1>4, <1>5, <2>3, <2>4, Zenon DEF PInv
  <2>6. OnlyPutter(p)
    BY <1>1, <1>2, <1>5, Zenon DEF OnlyPutter, TypeOK
  <2> QED
    BY <1>2, <2>2, <2>5, <2>6, PutterStep, Zenon DEF IInv
<1>6. CASE srv' = [srv EXCEPT ![p] = "failed"] /\ UNCHANGED accepted
  <2>1. TypeOK' /\ srv'[p] = "failed"
    BY <1>1, <1>2, <1>3, <1>6, Zenon DEF TypeOK, readers
  <2>2. PInv(p)'
    BY <1>1, <1>2, <1>4, <1>6, <2>1, SameAccepted, Zenon DEF PInv
  <2>3. OnlyPutter(p)
    BY <1>1, <1>2, <1>6, Zenon DEF OnlyPutter, TypeOK
  <2> QED
    BY <1>2, <2>1, <2>2, <2>3, PutterStep, Zenon DEF IInv
<1> QED
  BY <1>5, <1>6, Zenon DEF ServerRecv

LEMMA ServerEndKeeps ==
    ASSUME IInv, NEW p \in Putter, ServerEnd(p)
    PROVE  IInv'
<1>1. PInv(p) /\ TypeOK
  BY Zenon DEF IInv
<1>2. /\ UNCHANGED <<dirs, stored, rq, wire, eos, accepted, task, answers, given, readers>>
      /\ srv' = [srv EXCEPT ![p] = IF Finalizes(p) THEN "close" ELSE "failed"]
      /\ srv[p] = "recv" /\ wire[p] = <<>> /\ eos[p]
  BY Zenon DEF ServerEnd
<1>3. TypeOK' /\ srv'[p] = IF Finalizes(p) THEN "close" ELSE "failed"
  BY <1>1, <1>2, Zenon DEF TypeOK, readers
<1>4. PInv(p)'
  BY SMTT(30), <1>1, <1>2, <1>3, SameAccepted DEF PInv
<1>5. OnlyPutter(p)
  BY <1>1, <1>2, Zenon DEF OnlyPutter, TypeOK
<1> QED
  BY <1>2, <1>3, <1>4, <1>5, PutterStep, Zenon DEF IInv

LEMMA ServerCloseKeeps ==
    ASSUME IInv, NEW p \in Putter, ServerClose(p)
    PROVE  IInv'
<1>1. PInv(p) /\ TypeOK /\ Closed(dirs, stored)
  BY Zenon DEF IInv
<1>2. /\ UNCHANGED <<dirs, rq, wire, eos, accepted, task, answers, given, readers>>
      /\ srv[p] = "close"
  BY Zenon DEF ServerClose
<1>3. PICK S \in SUBSET Range(accepted[p]) :
         /\ Closed(dirs, S) /\ stored' = stored \cup S
         /\ \/ srv' = [srv EXCEPT ![p] = "done"] /\ S = Range(accepted[p])
            \/ srv' = [srv EXCEPT ![p] = "failed"]
  BY <1>1, Zenon DEF ServerClose, PInv
<1>4. Closed(dirs, stored')
  BY <1>1, <1>3, ClosedUnion, Zenon
<1>5. Range(accepted[p]) \subseteq Digest
  BY SMTT(30), <1>1 DEF TypeOK, Range
<1>6. TypeOK' /\ srv'[p] \in {"done", "failed"}
      /\ (srv'[p] = "done" => Range(accepted[p]) \subseteq stored')
  BY <1>1, <1>2, <1>3, <1>5, Zenon DEF TypeOK, readers
<1>7. task[p] # "root" /\ "root" \notin Range(answers[p])
  BY <1>1, <1>2, Zenon DEF PInv
<1>8. PInv(p)'
  BY <1>1, <1>2, <1>6, <1>7, SameAccepted, Zenon DEF PInv
<1>9. OnlyPutter(p)
  BY <1>1, <1>2, <1>3, Zenon DEF OnlyPutter, TypeOK
<1> QED
  BY <1>4, <1>6, <1>8, <1>9, PutterStep, Zenon

LEMMA RespondKeeps ==
    ASSUME IInv, NEW p \in Putter, Respond(p) \/ Disconnect(p)
    PROVE  IInv'
<1>1. PInv(p) /\ TypeOK
  BY Zenon DEF IInv
<1>2. UNCHANGED <<dirs, stored, rq, wire, eos, accepted, answers, given, readers>>
  BY Zenon DEF Respond, Disconnect
<1>3. /\ task' = [task EXCEPT ![p] = "Tonic"] \/ (srv[p] = "done" /\ task' = [task EXCEPT ![p] = "root"])
      /\ srv' = srv \/ (srv[p] = "recv" /\ srv' = [srv EXCEPT ![p] = "failed"])
  BY <1>1, ZenonT(30) DEF Respond, Disconnect, TypeOK
<1>4. /\ TypeOK'
      /\ task'[p] = "Tonic" \/ (srv'[p] = "done" /\ task'[p] = "root")
      /\ srv'[p] = srv[p] \/ (srv[p] = "recv" /\ srv'[p] = "failed")
  BY <1>1, <1>2, <1>3, Zenon DEF TypeOK, readers
<1>5. PInv(p)'
  BY <1>1, <1>2, <1>4, SameAccepted, Zenon DEF PInv
<1>6. OnlyPutter(p)
  BY <1>1, <1>2, <1>3, Zenon DEF OnlyPutter, TypeOK
<1> QED
  BY <1>2, <1>4, <1>5, <1>6, PutterStep, Zenon DEF IInv
-----------------------------------------------------------------------------
(* Readers. *)

LEMMA GetRecursiveKeeps ==
    ASSUME IInv, NEW c \in Client, NEW d \in Digest, get_recursive(c, d)
    PROVE  IInv'
<1>1. RInv(c) /\ TypeOK
  BY Zenon DEF IInv
<1>2. /\ UNCHANGED <<dirs, stored, putters, sent>> /\ out[c] = "idle"
      /\ want' = [want EXCEPT ![c] = d] /\ work' = [work EXCEPT ![c] = {d}]
      /\ out' = [out EXCEPT ![c] = "streaming"]
  BY Zenon DEF get_recursive
<1>3. TypeOK' /\ want'[c] = d /\ work'[c] = {d} /\ out'[c] = "streaming"
  BY <1>1, <1>2, Zenon DEF TypeOK, putters
<1>4. sent'[c] = <<>>
  BY <1>1, <1>2, Zenon DEF RInv
<1>5. PartialWalk(dirs, d, {d}, <<>>)
  BY <1>1, WalkStarts, Zenon DEF TypeOK
<1>6. RInv(c)'
  BY <1>2, <1>3, <1>4, <1>5, Zenon DEF RInv
<1> QED
  BY <1>1, <1>2, <1>3, <1>6, ReaderStep, Zenon DEF TypeOK

LEMMA StreamDirectoryKeeps ==
    ASSUME IInv, NEW c \in Client, StreamDirectory(c)
    PROVE  IInv'
<1>1. RInv(c) /\ TypeOK
  BY Zenon DEF IInv
<1>2. PICK d \in work[c] \cap stored :
         /\ sent' = [sent EXCEPT ![c] = Append(@, d)]
         /\ work' = [work EXCEPT ![c] = (@ \ {d}) \cup (Children(dirs[d]) \ (Range(sent[c]) \cup {d}))]
  BY Zenon DEF StreamDirectory
<1>3. UNCHANGED <<dirs, stored, putters, want, out>> /\ out[c] = "streaming"
  BY Zenon DEF StreamDirectory
<1>4. /\ want[c] \in Digest /\ work[c] \in SUBSET Digest /\ sent[c] \in Seq(Digest)
      /\ dirs \in [Digest -> Directory] /\ PartialWalk(dirs, want[c], work[c], sent[c])
  BY <1>1, <1>3, Zenon DEF RInv, TypeOK
<1> DEFINE new == (work[c] \ {d}) \cup (Children(dirs[d]) \ (Range(sent[c]) \cup {d}))
<1>5. new \in SUBSET Digest /\ PartialWalk(dirs, want[c], new, Append(sent[c], d))
  BY <1>4, WalkStep, Zenon
<1>6. sent'[c] = Append(sent[c], d) /\ work'[c] = new /\ Append(sent[c], d) \in Seq(Digest)
  BY <1>1, <1>2, <1>4 DEF TypeOK
<1>7. TypeOK'
  BY <1>1, <1>2, <1>3, <1>5, <1>6, Zenon DEF TypeOK, putters
<1>8. RInv(c)'
  BY <1>1, <1>3, <1>5, <1>6, Zenon DEF RInv
<1> QED
  BY <1>1, <1>2, <1>3, <1>7, <1>8, ReaderStep, Zenon DEF TypeOK

LEMMA StreamEndsKeeps ==
    ASSUME IInv, NEW c \in Client, StreamEnds(c) \/ StreamBreaks(c)
    PROVE  IInv'
<1>1. RInv(c) /\ TypeOK
  BY Zenon DEF IInv
<1>2. UNCHANGED <<dirs, stored, putters, want, work, sent>> /\ out[c] = "streaming"
  BY Zenon DEF StreamEnds, StreamBreaks
<1>3. \/ out' = [out EXCEPT ![c] = "Tonic"]
      \/ out' = [out EXCEPT ![c] = "ended"] /\ (work[c] = {} \/ want[c] \in work[c])
  BY Zenon DEF StreamEnds, StreamBreaks
<1>4. TypeOK' /\ \A b \in Client \ {c} : out'[b] = out[b]
  BY <1>1, <1>2, <1>3, Zenon DEF TypeOK, putters
<1>5. /\ want[c] \in Digest /\ dirs \in [Digest -> Directory]
      /\ PartialWalk(dirs, want[c], work[c], sent[c])
  BY <1>1, <1>2, Zenon DEF RInv, TypeOK
<1>6. work[c] = {} => Range(sent[c]) = Reachable(dirs, want[c])
  BY <1>5, WalkEnds, Zenon
<1>7. want[c] \in work[c] => sent[c] = <<>>
  BY <1>5, Zenon DEF PartialWalk
<1>8. out'[c] = "Tonic" \/ (out'[c] = "ended" /\ (work[c] = {} \/ want[c] \in work[c]))
  BY <1>1, <1>3, Zenon DEF TypeOK
<1>9. RInv(c)'
  BY <1>2, <1>5, <1>6, <1>7, <1>8, Zenon DEF RInv
<1> QED
  BY <1>2, <1>4, <1>9, ReaderStep, Zenon
-----------------------------------------------------------------------------
(* Client and server, in every interleaving and with the connection broken *)
(* at any point, keep the inductive invariant.                             *)
THEOREM Invariance == Spec => []IInv
<1>1. ASSUME IInv, [Next]_vars PROVE IInv'
  <2>1. CASE UNCHANGED vars
    <3>1. UNCHANGED <<dirs, stored, putters, readers>>
      BY <2>1, Zenon DEF vars
    <3>2. \A p \in Putter : PInv(p)'
      BY <1>1, <3>1, PutterKept, Zenon DEF IInv, putters
    <3>3. \A c \in Client : RInv(c)'
      BY <1>1, <3>1, ReaderKept, Zenon DEF IInv, readers
    <3>4. TypeOK' /\ Closed(dirs, stored)'
      BY <1>1, <3>1, Zenon DEF IInv, TypeOK, Closed, putters, readers
    <3> QED
      BY <3>2, <3>3, <3>4, Zenon DEF IInv
  <2>2. CASE \E p \in Putter : \/ Server(p) \/ close(p) \/ CloseReturns(p) \/ DropPutter(p)
                               \/ Disconnect(p) \/ AlreadyClosed(p)
                               \/ \E d \in Digest : put(p, d)
    BY <1>1, <2>2, ServerRecvKeeps, ServerEndKeeps, ServerCloseKeeps, RespondKeeps,
       StreamOverKeeps, CloseReturnsKeeps, AlreadyClosedKeeps, PutKeeps, Zenon DEF Server
  <2>3. CASE \E c \in Client : \/ StreamDirectory(c) \/ StreamEnds(c) \/ StreamBreaks(c)
                               \/ \E d \in Digest : get_recursive(c, d)
    BY <1>1, <2>3, StreamDirectoryKeeps, StreamEndsKeeps, GetRecursiveKeeps, Zenon
  <2> QED
    BY <1>1, <2>1, <2>2, <2>3, Zenon DEF Next
<1> QED
  BY InitHolds, <1>1, PTL DEF Spec

(* Every variable keeps its type. *)
THEOREM TypeCorrect == Spec => []TypeOK
<1>1. IInv => TypeOK
  BY Zenon DEF IInv
<1> QED
  BY <1>1, Invariance, PTL

(* A digest the client gets back stands for a closure that arrived whole,  *)
(* in order and with right sizes, and that the server's store holds.       *)
THEOREM AcknowledgedIsStored == Spec => []AckedIsStored
<1>1. ASSUME IInv PROVE AckedIsStored
  <2> SUFFICES ASSUME NEW p \in Putter, "root" \in Range(answers[p])
               PROVE  /\ srv[p] = "done" /\ accepted[p] = given[p]
                      /\ Range(accepted[p]) \subseteq stored
                      /\ \E d \in Digest : Roots(p) = {d} /\ ValidClosure(dirs, Range(accepted[p]), d)
    BY Zenon DEF AckedIsStored
  <2> DEFINE S == Range(accepted[p])
  <2>1. TypeOK /\ PInv(p)
    BY <1>1, Zenon DEF IInv
  <2>2. srv[p] = "done" /\ S \subseteq stored /\ wire[p] = <<>> /\ Finalizes(p)
    BY <2>1, Zenon DEF PInv
  <2>3. accepted[p] = given[p]
    <3>1. given[p] = accepted[p] \o <<>> /\ accepted[p] \in Seq(Digest)
      BY <2>1, <2>2, Zenon DEF PInv, TypeOK
    <3> QED
      BY <3>1
  <2>4. PICK d \in Digest : Roots(p) = {d}
    BY <2>2, Zenon DEF Finalizes
  <2>5. Closed(dirs, S) /\ SizesAgree(dirs, S) /\ BelowRoots(p) /\ dirs \in [Digest -> Directory]
    BY <2>1, Zenon DEF PInv, TypeOK
  <2>6. d \in S /\ S \subseteq Digest
    <3>1. accepted[p] \in Seq(Digest)
      BY <2>1, Zenon DEF TypeOK
    <3>2. S \subseteq Digest
      BY <3>1 DEF Range
    <3>3. Roots(p) \subseteq S
      BY Zenon DEF Roots
    <3> QED
      BY <2>4, <3>2, <3>3, Zenon
  <2>7. Reachable(dirs, d) \subseteq S
    BY <2>5, <2>6, ReachableLeast, Zenon
  <2>8. S \subseteq Reachable(dirs, d)
    <3>1. /\ Reachable(dirs, d) \in SUBSET Digest /\ Closed(dirs, Reachable(dirs, d))
          /\ d \in Reachable(dirs, d)
      BY <2>5, ReachableClosed, ReachableRoot, Zenon
    <3> QED
      BY <2>4, <2>5, <3>1, Zenon DEF BelowRoots
  <2>9. ValidClosure(dirs, S, d)
    BY <2>5, <2>6, <2>7, <2>8, Zenon DEF ValidClosure
  <2> QED
    BY <2>2, <2>3, <2>4, <2>9, Zenon
<1> QED
  BY <1>1, Invariance, PTL

(* A recursive read that ends without an error was empty or whole. *)
THEOREM StreamsAreWhole == Spec => []StreamWholeOrEmpty
<1>1. IInv => StreamWholeOrEmpty
  BY Zenon DEF IInv, RInv, StreamWholeOrEmpty
<1> QED
  BY <1>1, Invariance, PTL

(* The store behind the server implements ClosedStore, whatever becomes of *)
(* the uploads.                                                            *)
THEOREM ServedRefinement == Spec => ServedStoreClosed
<1>1. Init => Served!Init
  BY Zenon DEF Init, Served!Init
<1>2. IInv /\ IInv' /\ [Next]_vars => [Served!Grow]_<<dirs, stored>>
  <2> SUFFICES ASSUME IInv, IInv', [Next]_vars PROVE [Served!Grow]_<<dirs, stored>>
    BY Zenon
  <2>1. dirs' = dirs /\ stored \subseteq stored'
    BY Zenon DEF Next, vars, Server, ServerRecv, ServerEnd, ServerClose, Respond, close, CloseReturns,
           DropPutter, Disconnect, AlreadyClosed, put, StreamDirectory, StreamEnds, StreamBreaks,
           get_recursive
  <2>2. stored' \subseteq Digest /\ Closed(dirs, stored')
    BY <2>1, Zenon DEF IInv, TypeOK
  <2> QED
    BY <2>1, <2>2, Zenon DEF Served!Grow, Served!Closed, Closed, Served!Children, Children
<1> QED
  BY <1>1, <1>2, Invariance, PTL DEF Spec, ServedStoreClosed, Served!Spec
=============================================================================
