---------------------------- MODULE BuildService ----------------------------
(* The two build services that run builds in a sandbox, bubblewrap and OCI,  *)
(* serving several requests at a time, locally or over gRPC.                 *)
(*                                                                           *)
(* A path is a sequence of components. What the sandbox sees at a path is    *)
(* decided by the last mount at or above it; what a build writes into a      *)
(* scratch directory is found on the host after the build.                   *)
EXTENDS Naturals, Sequences, SequencesExt, FiniteSets, FiniteSetsExt

CONSTANTS Jobs,       \* functions from calls of do_build to requests, see the fields used below
          Contents,   \* what a builder may put at a path: a tree or a link, and the
                      \* needles it mentions
          Permits     \* of the semaphore of a service

VARIABLES job,        \* the request of each build; all go to one service
          at,         \* where do_build is, or how it ended
          holders,    \* the builds with a permit
          fuse,       \* "none", "mounting" or "mounted"
          proc,       \* the sandbox: "none", "running", "succeeded" or "failed"
          wrote,      \* per output, what the builder put at its path
          host,       \* per build, host locations and what is there
          result      \* per build and output, what was ingested
vars == <<job, at, holders, fuse, proc, wrote, host, result>>

Ended == {"ok", "failed", "cancelled"}
Absent == [kind |-> "absent", mentions |-> {}]
Build == DOMAIN job
None == [node |-> "none", needles |-> {}]
Outputs(b) == DOMAIN job[b].outputs

Init ==
  /\ job \in Jobs
  /\ at = [b \in Build |-> "waiting"] /\ holders = {}
  /\ fuse = [b \in Build |-> "none"] /\ proc = [b \in Build |-> "none"]
  /\ wrote = [b \in Build |-> [i \in Outputs(b) |-> Absent]]
  /\ host = [b \in Build |-> {}]
  /\ result = [b \in Build |-> [i \in Outputs(b) |-> None]]

-----------------------------------------------------------------------------
(* Mounts, in the order they are made.                                       *)
Mount(dst, src) == [dst |-> dst, src |-> src]

(* Bwrap::initialize: the inputs, then the scratches over them. A scratch    *)
(* at the place of the inputs becomes an overlay.                            *)
bwrap_mounts(r) ==
  <<Mount(r.inputs_dir, "inputs")>>
    \o [i \in DOMAIN r.scratch_paths |->
          Mount(r.scratch_paths[i],
                IF r.scratch_paths[i] = r.inputs_dir THEN "overlay" ELSE "scratch")]

(* configure_mounts of OCI: scratches, then every input.                     *)
configure_mounts(r) ==
  [i \in DOMAIN r.scratch_paths |-> Mount(r.scratch_paths[i], "scratch")]
    \o [i \in 1..Cardinality(r.inputs) |->
          Mount(Append(r.inputs_dir, SetToSeq(r.inputs)[i]), "inputs")]

Mounts(r) == IF r.service = "bwrap" THEN bwrap_mounts(r) ELSE configure_mounts(r)

(* The kernel: a path belongs to the last mount at or above it.              *)
Resolve(mounts, path) ==
  LET above == {i \in DOMAIN mounts : IsPrefix(mounts[i].dst, path)}
  IN  IF above = {} THEN Mount(<<>>, "root") ELSE mounts[Max(above)]
Rest(prefix, path) == SubSeq(path, Len(prefix) + 1, Len(path))

(* Where on the host a path of the sandbox is: bubblewrap's scratches are    *)
(* one tree, OCI's a directory each (scratch_name). Elsewhere a write fails  *)
(* or is lost with the sandbox.                                              *)
Location(root, path) == [root |-> root, path |-> path]
Nowhere == Location(<<>>, <<>>)
Lands(r, path) ==
  LET m == Resolve(Mounts(r), path)
  IN  CASE m.src \in {"inputs", "root"} -> Nowhere
        [] m.src \notin {"inputs", "root"} /\ r.service = "bwrap" -> Location(<<>>, path)
        [] m.src \notin {"inputs", "root"} /\ r.service = "oci" ->
             Location(m.dst, Rest(m.dst, path))

find_path_in_scratchs(path, scratches) ==
  LET above == {i \in DOMAIN scratches : IsPrefix(scratches[i], path)}
  IN  IF above = {} THEN Nowhere
      ELSE Location(scratches[Max(above)], Rest(scratches[Max(above)], path))

HostPath(r, path) ==
  IF r.service = "bwrap" THEN Location(<<>>, path)
  ELSE find_path_in_scratchs(path, r.scratch_paths)

-----------------------------------------------------------------------------
(* Returning from do_build, or dropping it, drops the permit and the file    *)
(* system, which unmounts it; the task that mounts it goes on, though.       *)
Dropped(b) == IF fuse[b] = "mounting" THEN "mounting" ELSE "none"

End(b, how) ==
  /\ at' = [at EXCEPT ![b] = how]
  /\ holders' = holders \ {b}
  /\ fuse' = [fuse EXCEPT ![b] = Dropped(b)]

Go(b, to) == at' = [at EXCEPT ![b] = to] /\ UNCHANGED holders

Acquire(b) ==
  /\ at[b] = "waiting" /\ Cardinality(holders) < Permits
  /\ holders' = holders \cup {b} /\ at' = [at EXCEPT ![b] = "preparing"]
  /\ UNCHANGED <<job, fuse, proc, wrote, host, result>>

(* Additional files: bubblewrap wants each in some scratch; OCI writes them  *)
(* when it comes to a scratch "build", and only there.                       *)
FilesRefused(r) ==
  IF r.service = "bwrap"
  THEN \E f \in r.files : \A i \in DOMAIN r.scratch_paths : ~IsPrefix(r.scratch_paths[i], f)
  ELSE <<"build">> \in ToSet(r.scratch_paths)
         /\ \E f \in r.files : Len(f) < 2 \/ Head(f) # "build"
FilesWritten(r) ==
  IF r.service = "bwrap" THEN {Location(<<>>, f) : f \in r.files}
  ELSE IF <<"build">> \in ToSet(r.scratch_paths)
  THEN {Location(<<"build">>, Tail(f)) : f \in r.files} ELSE {}

(* Bwrap::initialize; make_spec, make_bundle and get_host_output_paths.      *)
Prepare(b) ==
  /\ at[b] = "preparing"
  /\ IF \/ FilesRefused(job[b])
        \/ /\ job[b].service = "oci"
           /\ \E i \in Outputs(b) : HostPath(job[b], job[b].outputs[i]) = Nowhere
     THEN End(b, "failed") /\ UNCHANGED host
     ELSE /\ Go(b, "prepared") /\ UNCHANGED fuse
          /\ host' = [host EXCEPT ![b] = {[place |-> l, is |-> "file"] : l \in FilesWritten(job[b])}]
  /\ UNCHANGED <<job, proc, wrote, result>>

(* bubblewrap mounts and spawns without yielding; OCI mounts in a blocking   *)
(* task, whose result is dropped when nobody waits for it any more.          *)
StartMount(b) ==
  /\ at[b] = "prepared"
  /\ IF job[b].service = "bwrap"
     THEN /\ Go(b, "running") /\ fuse' = [fuse EXCEPT ![b] = "mounted"]
          /\ proc' = [proc EXCEPT ![b] = "running"]
     ELSE Go(b, "mounting") /\ fuse' = [fuse EXCEPT ![b] = "mounting"] /\ UNCHANGED proc
  /\ UNCHANGED <<job, wrote, host, result>>

MountDone(b) ==
  /\ fuse[b] = "mounting"
  /\ fuse' = [fuse EXCEPT ![b] = IF at[b] = "mounting" THEN "mounted" ELSE "none"]
  /\ UNCHANGED <<job, at, holders, proc, wrote, host, result>>

Spawn(b) ==
  /\ at[b] = "mounting" /\ fuse[b] = "mounted"
  /\ Go(b, "running") /\ proc' = [proc EXCEPT ![b] = "running"]
  /\ UNCHANGED <<job, fuse, wrote, host, result>>

(* The builder, in the sandbox, writes what it likes at the paths of its     *)
(* outputs and exits. Nobody stops it when the call is cancelled.            *)
Builder(b) ==
  /\ proc[b] = "running"
  /\ \E status \in {"succeeded", "failed"}, w \in [Outputs(b) -> Contents \cup {Absent}] :
       /\ proc' = [proc EXCEPT ![b] = status]
       /\ wrote' = [wrote EXCEPT ![b] =
            [i \in Outputs(b) |-> IF Lands(job[b], job[b].outputs[i]) = Nowhere THEN Absent ELSE w[i]]]
  /\ host' = [host EXCEPT ![b] = @ \cup
       {[place |-> Lands(job[b], job[b].outputs[i]), is |-> wrote'[b][i]] :
          i \in {i \in Outputs(b) : wrote'[b][i] # Absent}}]
  /\ UNCHANGED <<job, at, holders, fuse, result>>

Found(b, i) == {h \in host[b] : h.place = HostPath(job[b], job[b].outputs[i])}

\* Mutated form: exists() alone, which follows links.
find_path_Exists(b, i) == \E h \in Found(b, i) : h.is.kind # "link"

(* SandboxOutcome::find_path: a link counts even if it leads nowhere.        *)
find_path(b, i) == Found(b, i) # {}

(* The process has exited. bubblewrap's run() drops the mount before the     *)
(* outputs are looked for; OCI leaves it to the ingestion to miss one.       *)
Exited(b) ==
  /\ at[b] = "running" /\ proc[b] # "running"
  /\ IF proc[b] = "failed" \/ (job[b].service = "bwrap" /\ \E i \in Outputs(b) : ~find_path(b, i))
     THEN End(b, "failed")
     ELSE /\ Go(b, "ingesting")
          /\ fuse' = IF job[b].service = "bwrap" THEN [fuse EXCEPT ![b] = "none"] ELSE fuse
  /\ UNCHANGED <<job, proc, wrote, host, result>>

(* Every output is scanned with a scanner of its own.                        *)
Scanned(b, i) == UNION {h.is.mentions : h \in Found(b, i)}

(* try_join_all: outputs are ingested in any order; the result comes in the  *)
(* order of the request.                                                     *)
Ingest(b) ==
  /\ at[b] = "ingesting"
  /\ \E i \in {i \in Outputs(b) : result[b][i] = None} :
       IF Found(b, i) = {} THEN End(b, "failed") /\ UNCHANGED result
       ELSE /\ result' = [result EXCEPT ![b][i] =
                 [node |-> (CHOOSE h \in Found(b, i) : TRUE).is.kind, needles |-> Scanned(b, i)]]
            /\ UNCHANGED <<at, holders, fuse>>
  /\ UNCHANGED <<job, proc, wrote, host>>

(* Over gRPC, nodes travel as entries without a name, and needles as a list. *)
Response(outputs) ==
  [i \in DOMAIN outputs |->
     [output |-> [name |-> "", node |-> outputs[i].node], needles |-> SetToSeq(outputs[i].needles)]]
BuildResult(response) ==
  [i \in DOMAIN response |->
     [node |-> response[i].output.node, needles |-> ToSet(response[i].needles)]]

Finish(b) ==
  /\ at[b] = "ingesting" /\ \A i \in Outputs(b) : result[b][i] # None
  /\ End(b, "ok")
  /\ result' = IF job[b].remote THEN [result EXCEPT ![b] = BuildResult(Response(@))] ELSE result
  /\ UNCHANGED <<job, proc, wrote, host>>

(* Anything else that returns early, and a caller that goes away: the future *)
(* is dropped where it awaits something. The builder is not (see Builder).   *)
Fail(b) ==
  /\ at[b] \in {"preparing", "prepared", "running", "ingesting"}
       \/ (at[b] = "mounting" /\ fuse[b] = "mounted")
  /\ at[b] = "running" => proc[b] # "running"
  /\ End(b, "failed") /\ UNCHANGED <<job, proc, wrote, host, result>>
Cancel(b) ==
  /\ at[b] \in {"waiting", "mounting", "running", "ingesting"}
  /\ End(b, "cancelled") /\ UNCHANGED <<job, proc, wrote, host, result>>

Over ==
  /\ \A b \in Build : at[b] \in Ended /\ fuse[b] # "mounting" /\ proc[b] # "running"
  /\ UNCHANGED vars

Next ==
  \/ \E b \in Build :
       \/ Acquire(b) \/ Prepare(b) \/ StartMount(b) \/ MountDone(b) \/ Spawn(b) \/ Builder(b)
       \/ Exited(b) \/ Ingest(b) \/ Finish(b) \/ Fail(b) \/ Cancel(b)
  \/ Over
Spec == Init /\ [][Next]_vars

-----------------------------------------------------------------------------
TypeOK ==
  /\ at \in [Build -> Ended \cup {"waiting", "preparing", "prepared", "mounting", "running", "ingesting"}]
  /\ holders \subseteq Build /\ Cardinality(holders) <= Permits
  /\ fuse \in [Build -> {"none", "mounting", "mounted"}]
  /\ proc \in [Build -> {"none", "running", "succeeded", "failed"}]

\* A build that is reported as done has, for each output in the order of the
\* request, what the builder left at that path, with the needles mentioned in
\* that output and no others.
OutputsAsWritten ==
  \A b \in Build : at[b] = "ok" =>
    \A i \in Outputs(b) :
      /\ wrote[b][i] # Absent
      /\ result[b][i] = [node |-> wrote[b][i].kind, needles |-> wrote[b][i].mentions]

\* What a builder left in a scratch is found by do_build, wherever scratches
\* are nested and even if it is a link into the store that is unmounted by now.
OutputsFound ==
  \A b \in Build : proc[b] = "succeeded" =>
    \A i \in Outputs(b) :
      wrote[b][i] # Absent =>
        find_path(b, i) /\ {h.is : h \in Found(b, i)} = {wrote[b][i]}

Cares(b) == proc[b] = "running" /\ at[b] = "running"

\* A builder sees the additional files at the paths of the request. (OCI writes
\* them below "build"; a scratch inside that directory hides them.)
FilesVisible ==
  \A b \in Build : Cares(b) =>
    \A f \in job[b].files :
      (job[b].service = "bwrap" \/ Resolve(Mounts(job[b]), f).dst = <<"build">>) =>
        [place |-> Lands(job[b], f), is |-> "file"] \in host[b]

\* A builder sees its inputs, mounted for as long as somebody waits for it.
\* (With bubblewrap, a scratch above the directory of the inputs hides them.)
InputsVisible ==
  \A b \in Build : Cares(b) =>
    LET r == job[b]
    IN  /\ fuse[b] = "mounted"
        /\ \A n \in r.inputs :
             \/ Resolve(Mounts(r), Append(r.inputs_dir, n)).src \in {"inputs", "overlay"}
             \/ r.service = "bwrap" /\ \E s \in ToSet(r.scratch_paths) :
                  IsPrefix(s, Append(r.inputs_dir, n)) /\ s # r.inputs_dir

\* No more file systems are mounted than there are permits, and no more builders
\* run for callers that wait. A builder without a permit was left behind by a
\* caller who went away: the semaphore "to track number of concurrently running
\* builds" (buildservice/oci.rs:33, bwrap.rs:32) does not count it any more, while
\* nothing ends its process, so that in all more builders than permits can run.
BuildersBounded ==
  /\ Cardinality({b \in Build : fuse[b] = "mounted"}) <= Permits
  /\ Cardinality({b \in Build : proc[b] = "running" /\ at[b] # "cancelled"}) <= Permits
  /\ \A b \in Build \ holders : proc[b] = "running" \/ fuse[b] # "none" => at[b] = "cancelled"

\* A file system does not outlive its build: when a call has ended, nothing
\* stays mounted, and no permit is kept. (Unmounting itself does not fail here.)
NothingLeaks ==
  \A b \in Build : at[b] \in Ended => fuse[b] # "mounted" /\ b \notin holders
=============================================================================
