--------------------------- MODULE DaemonSession ---------------------------
(***************************************************************************)
(* A session of the Nix daemon: server_handshake_client,                   *)
(* NixDaemon::initialize and handle_client (nix-compat/src/nix_daemon),    *)
(* the operations of SnixDaemon (nix-daemon/src/lib.rs), and a client that *)
(* waits for the answer to a request before it makes the next.             *)
(*                                                                         *)
(* The connection carries tokens, one for every value that is read or      *)
(* written as a whole; role says what its sender meant it to be.  A NAR is *)
(* two tokens.  The NAR of AddToStoreNar comes bare below version 1.21, in *)
(* answers to STDERR_READ below 1.23, and in frames since.  Whatever its   *)
(* source, ingest_nar_and_hash reads it through a BufReader, which takes   *)
(* all that the source has at hand, and hashes what the BufReader took.    *)
(***************************************************************************)
EXTENDS Integers, Sequences, SequencesExt

CONSTANTS Minors,       \* minor versions of clients
          Digests,      \* of store paths
          Requests,     \* the requests of clients
          MaxRequests,  \* how many one client makes
          Handshakes,   \* how clients begin: "good", or what is special about it
          NoInfo

VARIABLES minor,        \* the client's version, then the one picked
          hello,        \* how the client begins
          made,         \* the requests the client has made
          replies,      \* the replies it got
          inbound,      \* tokens on the way to the daemon
          outbound,     \* and on the way to the client
          conn,         \* "open", "hungup" by the client, "closed" by the daemon
          daemon,       \* where the handler is
          ahead,        \* items the NixReader of AddMultipleToStore has read ahead
          store,        \* PathInfos by digest
          writer        \* who holds the Mutex of the NixWriter: "nobody", or the "source"
vars == <<minor, hello, made, replies, inbound, outbound, conn, daemon, ahead, store, writer>>

PROTOCOL_VERSION == 37
Tok(role, v) == [role |-> role, carries |-> v]
Number(role) == Tok(role, 0)
Awaits(role) == [at |-> role]
AwaitsOp == [at |-> "op", first |-> FALSE]

-----------------------------------------------------------------------------
(* The client, as docs/reference/nix-daemon-protocol describes its requests. *)
(* Of answers it reads what the code writes.  For two operations the docs    *)
(* say otherwise, and a client of the docs would lose track there: BuildPaths *)
(* is answered with nothing, not with the number 1, and QueryPathFromHashPart *)
(* with an optional UnkeyedValidPathInfo, not with an optional store path.   *)
Lowest(a, b) == IF a < b THEN a ELSE b
Greeting(m, how) ==
    <<Tok("magic", how # "bad magic"), Tok("version", how # "bad version")>>
    \o (IF m >= 14 THEN <<Tok("affinity", how = "cpu")>> ELSE <<>>)
    \o (IF m >= 14 /\ how = "cpu" THEN <<Number("cpu")>> ELSE <<>>)
    \o (IF m >= 11 THEN <<Number("reserve")>> ELSE <<>>)
    \o <<Tok("op", IF how = "no options" THEN "IsValidPath" ELSE "SetOptions"), Number("settings")>>

Nar(n) == <<Tok("nar", n), Tok("nar", n)>>
InFrames(items) == [i \in DOMAIN items |-> Tok("frame", items[i])] \o <<Number("end")>>
Dump(entries) == <<Tok("count", Len(entries))>>
                 \o FlattenSeq([i \in DOMAIN entries |-> <<Tok("info", entries[i])>> \o Nar(entries[i].nar)])
\* The tokens of a request; what is asked for with STDERR_READ comes later.
Sent(r) ==
    <<Tok("op", r.op)>> \o
    CASE r.op = "AddToStoreNar" ->
            <<Tok("info", r.entries[1])>>
            \o (CASE minor < 21 -> Nar(r.entries[1].nar)
                 [] minor \in 21..22 -> <<>>
                 [] OTHER -> InFrames(Nar(r.entries[1].nar)))
      [] r.op = "AddMultipleToStore" -> <<Number("flags")>> \o InFrames(Dump(r.entries))
      [] OTHER -> <<Tok("arg", r)>>
\* What the docs say of when an operation was introduced, or took its present form.
Since(op) == CASE op = "AddMultipleToStore" -> 32 [] op = "AddToStoreNar" -> 17
               [] op = "BuildPaths" -> 15 [] OTHER -> 0

Request == /\ conn = "open" /\ Len(made) < MaxRequests /\ Len(replies) = Len(made)
           /\ daemon = AwaitsOp /\ inbound = <<>> /\ outbound = <<>>
           /\ \E r \in Requests : /\ minor >= Since(r.op)
                                  /\ made' = Append(made, r)
                                  /\ inbound' = Sent(r)
           /\ UNCHANGED <<minor, hello, replies, outbound, conn, daemon, ahead, store, writer>>
Receive ==
    /\ conn # "hungup" /\ outbound # <<>>
    /\ LET t == Head(outbound)
       IN  /\ replies' = IF t.role \in {"LAST", "ERROR"} THEN Append(replies, t) ELSE replies
           /\ inbound' = IF t.role = "READ" /\ conn = "open" THEN Append(inbound, Tok("packet", t.carries)) ELSE inbound
    /\ outbound' = Tail(outbound)
    /\ UNCHANGED <<minor, hello, made, conn, daemon, ahead, store, writer>>
HangUp == /\ conn = "open" /\ conn' = "hungup"
          /\ UNCHANGED <<minor, hello, made, replies, inbound, outbound, daemon, ahead, store, writer>>

-----------------------------------------------------------------------------
(* The daemon's reads and writes *)
Runs == conn # "closed"
Reads(role) == /\ Runs /\ daemon.at = role
               /\ inbound # <<>> /\ Head(inbound).role = role
               /\ inbound' = Tail(inbound)
Value == Head(inbound).carries
Writes(toks) == outbound' = outbound \o toks
Goes(d) == daemon' = d /\ UNCHANGED conn
Closes == conn' = "closed" /\ UNCHANGED <<daemon, outbound>>
Keep == UNCHANGED <<hello, made, replies, ahead, writer>>

InSource == daemon.at = "source"
\* The daemon takes the next token for something that it is not.
Misread == /\ Runs /\ inbound # <<>> /\ daemon.at \notin {"welcome", "is_eof", "source", "answer", "confused"}
           /\ Head(inbound).role # daemon.at
           /\ daemon' = Awaits("confused")
           /\ UNCHANGED <<minor, hello, made, replies, inbound, outbound, conn, ahead, store, writer>>
\* The client is gone: reads fail, and the error ends the session.
EndOfFile == /\ conn = "hungup" /\ inbound = <<>> /\ daemon.at \notin {"welcome", "source", "answer"}
             /\ Closes
             /\ Keep /\ UNCHANGED <<minor, inbound, store>>

-----------------------------------------------------------------------------
(* server_handshake_client, and NixDaemon::initialize *)
ReadMagic == /\ Reads("magic")
             /\ IF Value THEN Writes(<<Number("MAGIC2"), Number("VERSION")>>) /\ Goes(Awaits("version")) ELSE Closes
             /\ Keep /\ UNCHANGED <<minor, store>>
\* A version below 1.10, or one that is not of 16 bits, is refused.
ReadVersion == /\ Reads("version")
               /\ minor' = Lowest(PROTOCOL_VERSION, minor)
               /\ IF Value
                  THEN /\ Goes(Awaits(CASE minor' >= 14 -> "affinity" [] minor' \in 11..13 -> "reserve"
                                         [] OTHER -> "welcome"))
                       /\ UNCHANGED outbound
                  ELSE Closes
               /\ Keep /\ UNCHANGED store
ReadObsolete == /\ \/ Reads("affinity") /\ Goes(Awaits(IF Value THEN "cpu" ELSE "reserve"))
                   \/ Reads("cpu") /\ Goes(Awaits("reserve"))
                   \/ Reads("reserve") /\ Goes(Awaits("welcome"))
                /\ Keep /\ UNCHANGED <<minor, store, outbound>>
Welcome == /\ Runs /\ daemon.at = "welcome"
           /\ Writes((IF minor >= 33 THEN <<Number("NIX_VERSION")>> ELSE <<>>)
                     \o (IF minor >= 35 THEN <<Number("TRUST")>> ELSE <<>>)
                     \o <<Number("READY")>>)
           /\ Goes([at |-> "op", first |-> TRUE])
           /\ Keep /\ UNCHANGED <<minor, store, inbound>>
ReadOptions == /\ Reads("settings")
               /\ Writes(<<Number("READY")>>) /\ Goes(AwaitsOp)
               /\ Keep /\ UNCHANGED <<minor, store>>

-----------------------------------------------------------------------------
(* handle_client *)
Simple == {"IsValidPath", "SetOptions", "QueryPathInfo", "QueryPathFromHashPart", "QueryValidPaths",
           "QueryValidDerivers", "QueryReferrers", "QueryRealisation", "BuildPaths"}
Stubs == {"SetOptions", "QueryReferrers", "QueryRealisation", "BuildPaths"}
OpState(op) == CASE op \in Simple -> [at |-> "arg", op |-> op]
                 [] op = "AddToStoreNar" -> Awaits("info")
                 [] op = "AddMultipleToStore" -> Awaits("flags")
ReadOp == /\ Reads("op")
          /\ CASE daemon.first /\ Value = "SetOptions" -> Goes(Awaits("settings")) /\ UNCHANGED outbound
               [] ~daemon.first /\ Value \in Simple \union {"AddToStoreNar", "AddMultipleToStore"} ->
                    Goes(OpState(Value)) /\ UNCHANGED outbound
               [] OTHER -> Closes
          /\ Keep /\ UNCHANGED <<minor, store>>

\* The name must be that of the path which is asked for.
query_path_info(p) ==
    LET i == store[p.digest] IN IF i # NoInfo /\ i.path.name = p.name THEN i ELSE NoInfo
is_valid_path(p) == query_path_info(p) # NoInfo
query_valid_paths(ps) == SelectSeq(ps, is_valid_path)
query_valid_derivers(p) == LET i == query_path_info(p) IN IF i = NoInfo THEN <<>> ELSE <<i.deriver>>
\* BuildPaths and SetOptions answer with nothing, and the stubs with an empty list.
Answer(op, r) ==
    CASE op = "IsValidPath" -> is_valid_path(r.path)
      [] op = "QueryPathInfo" -> query_path_info(r.path)
      [] op = "QueryPathFromHashPart" -> store[r.path.digest]
      [] op = "QueryValidPaths" -> query_valid_paths(<<r.path>>)
      [] op = "QueryValidDerivers" -> query_valid_derivers(r.path)
      [] op \in Stubs -> <<>>
Last_(op, v) == Tok("LAST", [op |-> op, carries |-> v])
Error(why) == Tok("ERROR", why)
\* handle: the future's result is at hand, and what the future held is dropped.
\* The answer is written once the Mutex of the writer is free.
Answering(reply, then) == [at |-> "answer", reply |-> reply, then |-> then]
Respond == /\ Runs /\ daemon.at = "answer" /\ writer = "nobody"
           /\ Writes(<<daemon.reply>>) /\ Goes(daemon.then)
           /\ Keep /\ UNCHANGED <<minor, store, inbound>>
\* An argument that cannot be parsed ends the session; an operation that fails is answered.
Handle == /\ Reads("arg")
          /\ IF ~Value.sound THEN Closes
             ELSE /\ \/ Goes(Answering(Last_(daemon.op, Answer(daemon.op, Value)), AwaitsOp))
                     \/ daemon.op \notin Stubs /\ Goes(Answering(Error("backend"), AwaitsOp))
                  /\ UNCHANGED outbound
          /\ Keep /\ UNCHANGED <<minor, store>>

\* Adding NARs: where they come from, what is to be read next, the entry this is
\* about, how many follow it, and what the BufReader has taken for it.
Source(via, op, wants, entry) ==
    [at |-> "source", via |-> via, op |-> op, wants |-> wants, entry |-> entry, more |-> 0, got |-> <<>>]
Transfer == CASE minor < 21 -> "plain" [] minor \in 21..22 -> "stderr" [] OTHER -> "framed"
\* STDERR_READ is written by the source itself, which locks the writer first.
ReadInfo == /\ Reads("info")
            /\ Goes(Source(Transfer, "AddToStoreNar", "nar", Value))
            /\ IF Transfer = "stderr" THEN writer = "nobody" /\ writer' = "source" ELSE UNCHANGED writer
            /\ UNCHANGED <<minor, hello, made, replies, ahead, store, outbound>>
ReadFlags == /\ Reads("flags")
             /\ Goes(Source("multi", "AddMultipleToStore", "count", NoInfo))
             /\ Keep /\ UNCHANGED <<minor, store, outbound>>

\* StderrReadFramedReader asks for the next piece, through the writer it holds.
AskForMore == /\ Runs /\ InSource /\ daemon.via = "stderr" /\ daemon.wants = "nar"
              /\ Writes(<<Tok("READ", Tok("nar", daemon.entry.nar))>>)
              /\ Goes([daemon EXCEPT !.wants = "packet"])
              /\ Keep /\ UNCHANGED <<minor, store, inbound>>
\* The NixReader over the frames of AddMultipleToStore reads ahead in them.
ReadAhead == /\ Runs /\ InSource /\ daemon.via = "multi" /\ daemon.wants # "done"
             /\ inbound # <<>> /\ Head(inbound).role = "frame"
             /\ ahead' = Append(ahead, Head(inbound).carries)
             /\ inbound' = Tail(inbound)
             /\ UNCHANGED <<minor, hello, made, replies, outbound, conn, daemon, store, writer>>
\* It reads the number of entries and the ValidPathInfo of each.
ReadEntry == /\ Runs /\ InSource /\ daemon.wants \in {"count", "info"} /\ ahead # <<>>
             /\ LET t == Head(ahead)
                IN  daemon' = CASE t.role # daemon.wants -> Awaits("confused")
                                [] t.role = daemon.wants /\ t.role = "count" ->
                                     [daemon EXCEPT !.more = t.carries, !.wants = IF t.carries = 0 THEN "done" ELSE "info"]
                                [] t.role = daemon.wants /\ t.role = "info" ->
                                     [daemon EXCEPT !.more = @ - 1, !.entry = t.carries, !.wants = "nar", !.got = <<>>]
             /\ ahead' = Tail(ahead)
             /\ UNCHANGED <<minor, hello, made, replies, inbound, outbound, conn, store, writer>>

\* ingest_nar: the BufReader takes what its source has, until the NAR is complete.
Filled(items) == [daemon EXCEPT !.got = @ \o items,
                                !.wants = IF Len(daemon.got) + Len(items) >= 2 THEN "ingested" ELSE "nar"]
Fill == /\ Runs /\ InSource
        /\ \/ /\ daemon.via = "multi" /\ daemon.wants = "nar" /\ ahead # <<>>
              /\ daemon' = Filled(ahead) /\ ahead' = <<>> /\ UNCHANGED inbound
           \/ /\ daemon.via = "plain" /\ daemon.wants = "nar" /\ inbound # <<>>
              /\ \E k \in 1..Len(inbound) : /\ daemon' = Filled(SubSeq(inbound, 1, k))
                                            /\ inbound' = SubSeq(inbound, k + 1, Len(inbound))
              /\ UNCHANGED ahead
           \/ /\ daemon.via \in {"framed", "stderr"} /\ daemon.wants # "ingested" /\ inbound # <<>>
              /\ Head(inbound).role = (IF daemon.via = "framed" THEN "frame" ELSE "packet")
              /\ daemon' = Filled(<<Value>>) /\ inbound' = Tail(inbound) /\ UNCHANGED ahead
        /\ UNCHANGED <<minor, hello, made, replies, outbound, conn, store, writer>>

\* SnixDaemon::add_to_store_nar: hash and size must be those declared, and a
\* content address that of the path.
Matches(e) == daemon.got = Nar(e.hash) /\ e.ca # "wrong"
PathInfo(e) == [path |-> e.path, hash |-> e.hash, node |-> daemon.got[1].carries, deriver |-> "drv"]
AfterAdd == IF daemon.via \in {"framed", "multi"} THEN Awaits("is_eof") ELSE AwaitsOp
\* The future ends: the source's buffers go with it, and its hold on the writer.
Finish_Locked(reply, then) == /\ Goes(Answering(reply, then)) /\ ahead' = <<>>
                              /\ UNCHANGED <<outbound, writer>>
Finish(reply, then) == /\ Goes(Answering(reply, then)) /\ ahead' = <<>>
                       /\ writer' = "nobody" /\ UNCHANGED outbound
Ingested ==
    /\ Runs /\ InSource /\ daemon.wants = "ingested"
    /\ IF Matches(daemon.entry)
       THEN /\ store' = [store EXCEPT ![daemon.entry.path.digest] = PathInfo(daemon.entry)]
            /\ IF daemon.more > 0 THEN Goes([daemon EXCEPT !.wants = "info"]) /\ UNCHANGED <<outbound, ahead, writer>>
               ELSE Finish(Last_(daemon.op, <<>>), AfterAdd)
       ELSE Finish(Error("mismatch"), AfterAdd) /\ UNCHANGED store
    /\ UNCHANGED <<minor, hello, made, replies, inbound>>
NothingToAdd == /\ Runs /\ InSource /\ daemon.wants = "done"
                /\ Finish(Last_(daemon.op, <<>>), AfterAdd)
                /\ UNCHANGED <<minor, hello, made, replies, inbound, store>>
\* A service fails, or the stream ends or is no NAR, before the NAR has been read.
AddFails == /\ Runs /\ InSource /\ daemon.wants # "done"
            /\ Finish(Error("backend"), AfterAdd)
            /\ UNCHANGED <<minor, hello, made, replies, inbound, store>>

\* is_eof: a frame that was not read kills the connection.
IsEof == /\ Runs /\ daemon.at = "is_eof" /\ inbound # <<>>
         /\ inbound' = Tail(inbound)
         /\ IF Head(inbound).role = "end" THEN Goes(AwaitsOp) /\ UNCHANGED outbound ELSE Closes
         /\ Keep /\ UNCHANGED <<minor, store>>

-----------------------------------------------------------------------------
Init == /\ minor \in Minors /\ hello \in Handshakes
        /\ made = <<>> /\ replies = <<>>
        /\ inbound = Greeting(Lowest(PROTOCOL_VERSION, minor), hello)
        /\ outbound = <<>> /\ conn = "open"
        /\ daemon = Awaits("magic") /\ ahead = <<>>
        /\ store = [d \in Digests |-> NoInfo] /\ writer = "nobody"
\* What the daemon does by itself; services that fail are not among it.
Proceeds == \/ ReadMagic \/ ReadVersion \/ ReadObsolete \/ Welcome \/ ReadOptions \/ ReadOp \/ Handle
            \/ Respond \/ ReadInfo \/ ReadFlags \/ AskForMore \/ ReadAhead \/ ReadEntry \/ Fill
            \/ Ingested \/ NothingToAdd \/ IsEof \/ Misread \/ EndOfFile
\* The client is gone, or asks for nothing more.
Idle == /\ conn # "open" \/ daemon.at = "confused" \/ (daemon = AwaitsOp /\ inbound = <<>>)
        /\ UNCHANGED vars
Next == Request \/ Receive \/ HangUp \/ Proceeds \/ AddFails \/ Idle
Spec == Init /\ [][Next]_vars /\ WF_vars(Proceeds) /\ WF_vars(Receive)

-----------------------------------------------------------------------------
\* The daemon never takes one value for another, whatever fails: since version
\* 1.23 because is_eof kills the connection when a payload was not read to its
\* end (handler.rs), and within AddMultipleToStore because an entry whose NAR
\* was not taken exactly is refused before the next is read.  Older versions
\* have no such check.
InStep == minor >= 23 => daemon.at # "confused"

\* The answer a client reads is that to its request, and a PathInfo that
\* answers QueryPathInfo is that of the path asked for, its name included.
AnswersFit ==
    \A i \in DOMAIN replies : replies[i].role = "LAST" =>
        /\ replies[i].carries.op = made[i].op
        /\ made[i].op = "QueryPathInfo" /\ replies[i].carries.carries # NoInfo => replies[i].carries.carries.path = made[i].path

\* Only a NAR which has the hash that was declared becomes a store path, also
\* when a connection breaks or an AddMultipleToStore fails halfway
\* (SnixDaemon::add_to_store_nar).
RecordsMatch == \A d \in DOMAIN store : store[d] # NoInfo => store[d].node = store[d].hash

\* What is declared correctly is not refused as a mismatch, in whatever way the
\* NAR is transferred and split (AddToStoreNar, AddMultipleToStore of one path).
Declared(e) == e.nar = e.hash /\ e.ca # "wrong"
Refused(i) == replies[i].role = "ERROR" /\ replies[i].carries = "mismatch"
AcceptsDeclared ==
    \A i \in DOMAIN replies : Refused(i) /\ Len(made[i].entries) = 1 => ~Declared(made[i].entries[1])

\* Every request is answered, unless one side ends the session (or, before
\* version 1.23, the daemon has lost track): nobody waits for the other forever,
\* and the answer to an upload through STDERR_READ does not wait for the lock
\* that the upload itself took (handler.rs).  No failure is needed for it.
Waiting == Len(made) > Len(replies) /\ conn = "open" /\ daemon.at # "confused"
=============================================================================
