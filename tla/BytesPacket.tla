---------------------------- MODULE BytesPacket ----------------------------
(***************************************************************************)
(* The "bytes wire packet" (nix-compat/src/wire/bytes): BytesWriter and    *)
(* BytesReader at the two ends of a connection, and the one-shot           *)
(* functions read_bytes and write_bytes.                                   *)
(*                                                                         *)
(* A packet is its length in eight bytes, the payload and zeros up to a    *)
(* multiple of eight; a Tag may ask for more fixed bytes after it.  The    *)
(* inner writer and reader take and give any part of what is asked, so     *)
(* every pass of a poll function's loop is a step of its own: between two  *)
(* of them the function may as well have returned Pending and been called  *)
(* again, or another one called in its place.                              *)
(***************************************************************************)
EXTENDS Integers, Sequences, SequencesExt, FiniteSetsExt

CONSTANTS Lengths,      \* lengths of payloads
          Patterns,     \* the patterns of Tags: Pad, and longer ones
          MaxLen,       \* the largest allowed_size
          Amounts       \* how many bytes one call offers or moves

VARIABLES payload,      \* the payload that the packet is for
          pattern,      \* T::PATTERN
          sent, cut,    \* the bytes on the wire, and whether no more will come
          writer,       \* BytesPacketPosition, or where the peer's bytes came from
          shut,         \* how poll_shutdown ended
          taken,        \* how many bytes of sent the reader has read
          reader,       \* State of the BytesReader
          out           \* the bytes it has released
wvars == <<sent, cut, writer, shut>>
rvars == <<taken, reader, out>>
vars == <<payload, pattern, wvars, rvars>>

LEN_SIZE == 8
Zeros(n) == [i \in 1..n |-> 0]
\* u64::to_le_bytes of lengths below 256.
to_le_bytes(n) == <<n>> \o Zeros(LEN_SIZE - 1)
from_le_bytes(bytes) == bytes[1]

padding_len(len) == ((len + 7) \div 8) * 8 - len

\* write_bytes, and what follows it for a Tag.  An empty payload has no block
\* of its own, so only what comes after the first eight bytes of the pattern.
write_bytes(p) == to_le_bytes(Len(p)) \o p \o Zeros(padding_len(Len(p)))
Packet(p, t) == write_bytes(p) \o SubSeq(t, LEN_SIZE + 1, Len(t))

\* read_bytes of a stream that ends after it.
read_bytes(stream) ==
    LET len   == from_le_bytes(stream)
        whole == LEN_SIZE + len + padding_len(len)
    IN  IF Len(stream) < LEN_SIZE THEN [ok |-> FALSE, v |-> "UnexpectedEof"]
        ELSE IF len > MaxLen THEN [ok |-> FALSE, v |-> "InvalidData"]
        ELSE IF Len(stream) < whole THEN [ok |-> FALSE, v |-> "UnexpectedEof"]
        ELSE IF \E i \in (LEN_SIZE + len + 1)..whole : stream[i] # 0 THEN [ok |-> FALSE, v |-> "InvalidData"]
        ELSE [ok |-> TRUE, v |-> SubSeq(stream, LEN_SIZE + 1, LEN_SIZE + len)]

-----------------------------------------------------------------------------
(* BytesWriter *)
At(field, n) == [at |-> field, n |-> n]
PayloadLen == Len(payload)

\* The inner writer accepts some of the bytes it is offered.
Accepts(bytes, k) == /\ k \in 1..Len(bytes)
                     /\ sent' = sent \o SubSeq(bytes, 1, k)

WriteSize == /\ writer.at = "size"
             /\ \E k \in Amounts :
                   /\ Accepts(SubSeq(to_le_bytes(PayloadLen), writer.n + 1, LEN_SIZE), k)
                   /\ writer' = IF writer.n + k = LEN_SIZE THEN At("payload", 0)
                                ELSE At("size", writer.n + k)
             /\ UNCHANGED <<cut, shut>>

\* poll_write with the next n bytes; with more than are expected, with none, or
\* in the padding it is an error that changes nothing.
WritePayload(n) ==
    /\ writer.at = "payload" /\ n > 0 /\ writer.n + n <= PayloadLen
    /\ \E k \in 1..n :
          /\ Accepts(SubSeq(payload, writer.n + 1, writer.n + n), k)
          /\ writer' = IF writer.n + k = PayloadLen THEN At("padding", 0)
                       ELSE At("payload", writer.n + k)
    /\ UNCHANGED <<cut, shut>>
poll_write == /\ shut = "no" /\ ~cut
              /\ WriteSize \/ \E n \in Amounts : WritePayload(n)

WritePadding ==
    /\ writer.at = "padding" /\ writer.n # padding_len(PayloadLen)
    /\ \E k \in Amounts : /\ Accepts(Zeros(padding_len(PayloadLen) - writer.n), k)
                          /\ writer' = At("padding", writer.n + k)
    /\ UNCHANGED <<cut, shut>>
EmptyPayload == /\ writer.at = "payload" /\ PayloadLen = 0
                /\ writer' = At("padding", 0)
                /\ UNCHANGED <<sent, cut, shut>>
poll_flush == /\ shut = "no" /\ ~cut
              /\ WriteSize \/ EmptyPayload \/ WritePadding

\* Nothing is left that poll_flush would write.
Flushed == \/ writer.at = "payload" /\ PayloadLen # 0
           \/ writer.at = "padding" /\ writer.n = padding_len(PayloadLen)
poll_shutdown == /\ shut = "no" /\ ~cut /\ Flushed
                 /\ shut' = IF writer.at = "padding" THEN "clean" ELSE "unclean"
                 /\ cut' = TRUE
                 /\ UNCHANGED <<sent, writer>>

\* The writer is dropped, or the connection is lost.
Cut == /\ ~cut
       /\ cut' = TRUE
       /\ UNCHANGED <<sent, writer, shut>>

-----------------------------------------------------------------------------
(* BytesReader *)
split_user_len(len) == [body |-> ((len - 1) \div 8) * 8, tail |-> ((len - 1) % 8) + 1]

read_trailer(data_len) ==
    [st |-> "ReadTrailer", data_len |-> data_len, filled |-> IF data_len # 0 THEN 0 ELSE 8,
     buf |-> Zeros(IF data_len # 0 THEN 0 ELSE 8)]
Fails(kind) == /\ reader' = [st |-> "Error", kind |-> kind]
               /\ UNCHANGED <<taken, out>>

\* The inner reader gives up to n bytes, or its end.
Available == Len(sent) - taken
Gives(n, k) == k \in 1..Min({n, Available}) /\ taken' = taken + k
Taken(k) == SubSeq(sent, taken + 1, taken + k)
Eof == cut /\ Available = 0

\* new: read_u64_le, then the allowed_size and the first state.
Allowed(size) == size <= MaxLen
new_internal ==
    /\ reader.st = "New"
    /\ \/ Eof /\ Fails("UnexpectedEof")
       \/ \E k \in Amounts :
            /\ Gives(LEN_SIZE - Len(reader.buf), k)
            /\ LET buf  == reader.buf \o Taken(k)
                   size == from_le_bytes(buf)
               IN  reader' = IF Len(buf) < LEN_SIZE THEN [reader EXCEPT !.buf = buf]
                             ELSE IF ~Allowed(size) THEN [st |-> "Error", kind |-> "InvalidData"]
                             ELSE IF size = 0 THEN read_trailer(0)
                             ELSE [st |-> "Body", consumed |-> 0, user_len |-> size]
            /\ UNCHANGED out

\* A caller's buffer has room for n bytes; poll_fill_buf and consume release
\* them the same way.
Body_Whole(n) ==
    /\ reader.st = "Body" /\ reader.consumed < reader.user_len
    /\ \/ Eof /\ Fails("UnexpectedEof")
       \/ \E k \in Amounts : /\ Gives(Min({n, reader.user_len - reader.consumed}), k)
                             /\ reader' = [reader EXCEPT !.consumed = @ + k]
                             /\ out' = out \o Taken(k)
Body(n) ==
    LET remaining == split_user_len(reader.user_len).body - reader.consumed
    IN  /\ reader.st = "Body" /\ remaining # 0
        /\ \/ Eof /\ Fails("UnexpectedEof")
           \/ \E k \in Amounts : /\ Gives(Min({n, remaining}), k)
                                 /\ reader' = [reader EXCEPT !.consumed = @ + k]
                                 /\ out' = out \o Taken(k)
StartTrailer == /\ reader.st = "Body" /\ reader.consumed = split_user_len(reader.user_len).body
                /\ reader' = read_trailer(split_user_len(reader.user_len).tail)
                /\ UNCHANGED <<taken, out>>

\* ReadTrailer::poll: what is there of the padding and the tag is compared
\* before more is read, and the data is released when all of it was.
Valid(r) == \A i \in (r.data_len + 1)..r.filled : r.buf[i] = pattern[i]
ReadTrailer ==
    /\ reader.st = "ReadTrailer"
    /\ IF ~Valid(reader) THEN Fails("InvalidData")
       ELSE IF reader.filled = Len(pattern)
       THEN /\ reader' = [st |-> "ReleaseTrailer", data |-> SubSeq(reader.buf, 1, reader.data_len), consumed |-> 0]
            /\ UNCHANGED <<taken, out>>
       ELSE \/ Eof /\ Fails("UnexpectedEof")
            \/ \E k \in Amounts :
                 /\ Gives(Len(pattern) - reader.filled, k)
                 /\ reader' = [reader EXCEPT !.filled = @ + k, !.buf = @ \o Taken(k)]
                 /\ UNCHANGED out
ReleaseTrailer(n) ==
    LET data == SubSeq(reader.data, reader.consumed + 1, Len(reader.data))
        give == SubSeq(data, 1, Min({Len(data), n}))
    IN  /\ reader.st = "ReleaseTrailer" /\ data # <<>>
        /\ reader' = [reader EXCEPT !.consumed = @ + Len(give)]
        /\ out' = out \o give
        /\ UNCHANGED taken
poll_read(n) == StartTrailer \/ Body(n) \/ ReadTrailer \/ ReleaseTrailer(n)

\* len(): what is left to be read.
len == CASE reader.st = "Body" -> reader.user_len - reader.consumed
         [] reader.st = "ReadTrailer" -> reader.data_len
         [] reader.st = "ReleaseTrailer" -> Len(reader.data) - reader.consumed
         [] OTHER -> 0

-----------------------------------------------------------------------------
\* The peer is a BytesWriter, or sent a packet that is cut short or has one
\* byte changed anywhere after the length.
Damaged(stream) ==
    {SubSeq(stream, 1, i) : i \in 0..Len(stream)} \union
    {[stream EXCEPT ![i] = 7] : i \in (LEN_SIZE + 1)..Len(stream)}
Init ==
    /\ \E n \in Lengths : payload = [i \in 1..n |-> 100 + i]
    /\ pattern \in Patterns
    /\ \/ Len(pattern) = LEN_SIZE /\ sent = <<>> /\ cut = FALSE /\ writer = At("size", 0)
       \/ sent \in Damaged(Packet(payload, pattern)) /\ cut = TRUE /\ writer = At("peer", 0)
    /\ shut = "no"
    /\ taken = 0 /\ reader = [st |-> "New", buf |-> <<>>] /\ out = <<>>

Writes == (poll_write \/ poll_flush \/ poll_shutdown \/ Cut) /\ UNCHANGED <<payload, pattern, rvars>>
Reads == (new_internal \/ \E n \in Amounts : poll_read(n)) /\ UNCHANGED <<payload, pattern, wvars>>
\* The reader is read to its end or has failed, and the connection is closed.
Ended == /\ cut /\ UNCHANGED vars
         /\ reader.st = "Error" \/ (reader.st = "ReleaseTrailer" /\ len = 0)
Next == Writes \/ Reads \/ Ended
Spec == Init /\ [][Next]_vars /\ WF_vars(Reads)

-----------------------------------------------------------------------------
Finished == reader.st = "ReleaseTrailer" /\ len = 0

\* The reader releases the payload in order and whole, whatever way both ends
\* cut it up, and has then read the packet to its last byte and none after it,
\* so that the next packet starts where the next reader looks (BytesReader).
ReadsPacket ==
    /\ IsPrefix(out, SubSeq(sent, LEN_SIZE + 1, Min({Len(sent), LEN_SIZE + PayloadLen})))
    /\ taken <= Len(Packet(payload, pattern))
    /\ Finished => Len(out) = PayloadLen /\ taken = Len(Packet(payload, pattern))

\* No byte of the last block of the payload is released before the padding and
\* the tag after it were read and found right ("It will not return the final
\* bytes before all padding has been successfully consumed as well").
LastBlockVerified ==
    Len(out) > split_user_len(Max({1, PayloadLen})).body =>
        \A i \in (LEN_SIZE + PayloadLen + 1)..Len(Packet(payload, pattern)) :
            i <= taken /\ sent[i] = Packet(payload, pattern)[i]

\* What BytesWriter has sent is at any time the beginning of the packet, and
\* shutting it down succeeds exactly when that is all of it.
WritesPacket ==
    writer.at # "peer" =>
        /\ IsPrefix(sent, write_bytes(payload))
        /\ shut = "clean" => sent = write_bytes(payload)
        /\ shut = "unclean" => sent # write_bytes(payload)

\* Without a tag, the streaming reader and read_bytes accept the same streams
\* and take the same payload from them.
AgreesWithReadBytes ==
    Len(pattern) = LEN_SIZE /\ cut =>
        /\ Finished => read_bytes(sent) = [ok |-> TRUE, v |-> out]
        /\ reader.st = "Error" => ~read_bytes(sent).ok /\ read_bytes(sent).v = reader.kind

\* Once a packet was written and shut down cleanly, or the peer has hung up, the
\* reader gets to its end.
Waiting == cut /\ ~Finished /\ reader.st # "Error"
=============================================================================
