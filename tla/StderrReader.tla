---------------------------- MODULE StderrReader ----------------------------
(***************************************************************************)
(* StderrReadFramedReader (nix-compat/src/nix_daemon/framing/stderr_read): *)
(* the daemon asks for every piece of the payload with STDERR_READ and the *)
(* length it has room for, and the client answers with a bytes packet of   *)
(* at most that length, or an empty one at its end.  Every pass of the     *)
(* loop of poll_read is a step.  The caller hands in a ReadBuf: a fresh    *)
(* one for every call, or, as read_exact() does, the same one until it is  *)
(* full.                                                                   *)
(***************************************************************************)
EXTENDS Integers, Sequences, SequencesExt, FiniteSetsExt

CONSTANTS Sizes,        \* lengths of the client's data
          Capacities,   \* sizes of the caller's buffers
          Exact,        \* whether callers keep their ReadBuf until it is full
          Amounts       \* how many bytes one call to the connection moves

VARIABLES size,         \* the length of the client's data
          client,       \* how much of it the client has sent
          asked,        \* the request it has not answered yet: a set of at most one length
          inbound, cut, \* bytes on the way to the daemon, and whether no more will come
          stderr,       \* StderrReaderState
          buf, cap,     \* the filled part of the caller's ReadBuf, and its capacity
          given,        \* the bytes callers have got
          ended         \* a caller was given no bytes: "eof", or the reader panicked
vars == <<size, client, asked, inbound, cut, stderr, buf, cap, given, ended>>

Data == [i \in 1..size |-> 100 + i]
Zeros(n) == [i \in 1..n |-> 0]
Pad(n) == (8 - (n % 8)) % 8

request_next_frame == [at |-> "RequestingNextFrame", written |-> 0]
read_written(n) == [at |-> "RequestingFrameLen", written |-> 0, len |-> n]
ReadingPayload(remaining, pad, tmp_buf) ==
    [at |-> "ReadingPayload", remaining |-> remaining, pad |-> pad, tmp_buf |-> tmp_buf]

remaining_room == cap - Len(buf)
Available(n) == 1..Min({n, Len(inbound)})
Take(k) == inbound' = SubSeq(inbound, k + 1, Len(inbound))
Head8(k) == SubSeq(inbound, 1, k)
AtEnd == cut /\ inbound = <<>>

\* poll_read returns with b in the caller's buffer.
Returns(b) ==
    IF Len(b) = Len(buf) THEN ended' = "eof" /\ UNCHANGED <<buf, cap, given>>
    ELSE IF Exact /\ Len(b) < cap THEN buf' = b /\ UNCHANGED <<cap, given, ended>>
    ELSE /\ given' = given \o b /\ buf' = <<>>
         /\ cap' \in Capacities
         /\ UNCHANGED ended
Continues == UNCHANGED <<buf, cap, given, ended>>

RequestFrame ==
    /\ stderr.at \in {"RequestingNextFrame", "RequestingFrameLen"}
    /\ \E k \in Amounts :
         /\ stderr.written + k <= 8
         /\ stderr' = IF stderr.written + k < 8 THEN [stderr EXCEPT !.written = @ + k]
                      ELSE IF stderr.at = "RequestingNextFrame" THEN read_written(remaining_room)
                      ELSE [at |-> "FrameLenRequested", len |-> stderr.len]
    /\ Continues /\ UNCHANGED <<asked, inbound>>
Flush == /\ stderr.at = "FrameLenRequested"
         /\ asked' = {stderr.len}
         /\ stderr' = [at |-> "ReadingSize", buf |-> <<>>]
         /\ Continues /\ UNCHANGED inbound

ReadSize ==
    /\ stderr.at = "ReadingSize"
    /\ IF Len(stderr.buf) < 8
       THEN \/ /\ AtEnd
               /\ Returns(buf) /\ UNCHANGED <<inbound, stderr>>
            \/ \E k \in Available(8 - Len(stderr.buf)) \intersect Amounts :
                 /\ Take(k)
                 /\ stderr' = [stderr EXCEPT !.buf = @ \o Head8(k)]
                 /\ Continues
       ELSE /\ IF stderr.buf[1] = 0
               THEN stderr' = request_next_frame /\ Returns(buf)
               ELSE stderr' = ReadingPayload(stderr.buf[1], Pad(stderr.buf[1]), <<>>) /\ Continues
            /\ UNCHANGED inbound
    /\ UNCHANGED asked

\* A buffer with room for more than the rest of the packet is limited to it,
\* through a buffer of its own whose filled part is empty.
filled_before == IF remaining_room <= stderr.remaining + stderr.pad THEN Len(buf) ELSE 0
\* tmp_buf is filled()[filled_before..payload_size] of the buffer in use.
Stash(filled, n) == SubSeq(IF filled_before = 0 THEN SubSeq(filled, Len(filled) - n + 1, Len(filled)) ELSE filled,
                           filled_before + 1, n)
\* The rest of the frame after n bytes of its payload.
Rest(n) == [stderr EXCEPT !.remaining = @ - n]
ReadPayload ==
    /\ stderr.at = "ReadingPayload" /\ stderr.remaining > 0
    /\ \/ AtEnd /\ Returns(buf) /\ UNCHANGED <<inbound, stderr>>
       \/ \E k \in Available(Min({remaining_room, stderr.remaining + stderr.pad})) \intersect Amounts :
            LET payload_size == Min({k, stderr.remaining})
                filled == buf \o SubSeq(inbound, 1, payload_size)
                pad    == stderr.pad - (k - payload_size)
            IN  /\ Take(k)
                /\ IF payload_size < stderr.remaining
                   THEN stderr' = Rest(payload_size) /\ Returns(filled)
                   ELSE IF pad = 0 THEN stderr' = request_next_frame /\ Returns(filled)
                   ELSE IF filled_before > payload_size
                   THEN ended' = "panic" /\ UNCHANGED <<stderr, buf, cap, given>>
                   ELSE stderr' = ReadingPayload(0, pad, Stash(filled, payload_size)) /\ Continues
    /\ UNCHANGED asked
ReadPadding ==
    /\ stderr.at = "ReadingPayload" /\ stderr.remaining = 0
    /\ \E k \in Available(stderr.pad) \intersect Amounts :
         /\ Take(k)
         /\ IF k < stderr.pad THEN stderr' = [stderr EXCEPT !.pad = @ - k] /\ Continues
            ELSE stderr' = request_next_frame /\ Returns(buf \o stderr.tmp_buf)
    /\ UNCHANGED asked

\* The client answers with as much as it likes of what is asked.
Answer == /\ ~cut /\ asked # {}
          /\ \E n \in asked : \E m \in 0..Min({n, size - client}) :
               /\ m = 0 => size = client
               /\ inbound' = inbound \o <<m>> \o Zeros(7) \o SubSeq(Data, client + 1, client + m) \o Zeros(Pad(m))
               /\ client' = client + m
          /\ asked' = {}
          /\ UNCHANGED <<size, cut, stderr, buf, cap, given, ended>>
\* The connection is lost, with the end of what was on the way.
Cut == /\ ~cut /\ cut' = TRUE
       /\ \E i \in {0, Len(inbound) \div 2, Len(inbound)} : inbound' = SubSeq(inbound, 1, i)
       /\ UNCHANGED <<size, client, asked, stderr, buf, cap, given, ended>>

Init == /\ size \in Sizes /\ client = 0 /\ asked = {} /\ inbound = <<>> /\ cut = FALSE
        /\ stderr = request_next_frame
        /\ buf = <<>> /\ cap \in Capacities
        /\ given = <<>> /\ ended = "no"
poll_read == /\ ended = "no"
             /\ RequestFrame \/ Flush \/ ReadSize \/ ReadPayload \/ ReadPadding
             /\ UNCHANGED <<size, client, cut>>
\* poll_read goes on reading padding after the connection has ended.
Spins == /\ stderr.at = "ReadingPayload" /\ stderr.remaining = 0 /\ AtEnd /\ UNCHANGED vars
Stopped == ended # "no" /\ UNCHANGED vars
Next == poll_read \/ Answer \/ Cut \/ Spins \/ Stopped
Spec == Init /\ [][Next]_vars /\ WF_vars(poll_read) /\ WF_vars(Answer)

-----------------------------------------------------------------------------
\* The bytes that callers get are the client's data, in order and without gaps,
\* although padding is read with them and some are kept back in tmp_buf until it
\* is complete ("we store the payload in this buffer until we've read the padding,
\* and then return the data from here").
StderrDelivers == IsPrefix(given \o buf, Data) /\ ended # "panic"

\* When the reader is about to ask for the next frame, nothing of the last one
\* is left on the connection: no dangling padding that would be taken for the
\* next length, or for the next operation.
NoDanglingPadding == stderr.at = "RequestingNextFrame" /\ ~cut => inbound = <<>> /\ asked = {}

\* The caller sees the end of the data only after all of it, if the connection
\* lasts, and sees it then.
EofAtEnd == ended = "eof" /\ ~cut => given \o buf = Data
Waiting == ~cut /\ ended # "eof"
=============================================================================
