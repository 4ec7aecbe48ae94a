------------------------------- MODULE Pipeline -------------------------------
(***************************************************************************)
(* RunPipeline: connector, dump tool, codec chain and storage as one       *)
(* stream without temporary files.  Three threads of each run meet here:   *)
(* RunPipeline itself, which opens, starts the tool, writes to the storage *)
(* and waits; the goroutine feed, which copies the tool's output through   *)
(* the codecs into an io.Pipe; and the dump tool, a process outside.       *)
(*                                                                         *)
(* The stream of run r is a sequence of pieces <<r, i>>: those of its      *)
(* dump, then one trailer for each codec, innermost first.  A piece that   *)
(* is missing, foreign or out of place makes the artifact unreadable.      *)
(***************************************************************************)
EXTENDS ArtifactStore

CONSTANTS
    MaxCancels,  \* bound: runs whose context ends
    Plans        \* how the runs may be configured: a plan gives every run its
                 \* [connector, engine, codecs, backend, key], the pieces of its
                 \* dump, and whether it is asked for at all

ASSUME BoundsAssumption == MaxCancels \in Nat

\* gzip and zstd pass data on as it comes; tar keeps all of it until its Close;
\* age gets no recipients from the executor and cannot be built.
Codecs == {"stream", "buffer", "age"}

VARIABLES
    conn,       \* see Connector
    run,        \* run[r]: RunPipeline of run r
    tool,       \* tool[r]: its dump process
    feed,       \* feed[r]: its producer goroutine
    pipe,       \* pipe[r]: the io.Pipe between feed and storage
    hash        \* hash[r]: the pieces the checksum was computed over

INSTANCE Connector
INSTANCE DumpTool

ASSUME PlansAssumption ==
    Plans \subseteq
        [Runs -> [asked : BOOLEAN, connector : Kinds, engine : Engines, codecs : Seq(Codecs),
                  backend : Backends, key : Keys, chunks : Nat \ {0}]]

vars == <<conn, up, object, temp, body, synced, older, takenBack, run, tool, feed, pipe, hash>>

Depth(r) == Len(feed[r].codecs)
Chunks(r) == feed[r].chunks   \* pieces of r's complete dump
Buildable(r) == \A i \in 1..Depth(r) : feed[r].codecs[i] # "age"

\* The codecs of r that were built and not closed, once its producer runs; after
\* a failure to build one, feed[r].layer is that one.
OpenCodecs(r) ==
    IF feed[r].pc = "idle" THEN {}
    ELSE (feed[r].layer + IF feed[r].err = "codec" THEN 1 ELSE 0)..Depth(r)

\* The artifact a reader of r's object can restore.
Whole(r) == [i \in 1..(Chunks(r) + Depth(r)) |-> <<r, i>>]

\* Type correctness.
TypeOK ==
    /\ conn \in [Runs -> ConnectorType]
    /\ run \in [Runs -> [pc : {"new", "open", "write", "join", "release",
                                "done", "dead"},
                         result : {"none", "ok", "error"}, cancelled : BOOLEAN]]
    /\ tool \in [Runs -> ToolType]
    /\ \A r \in Runs :
          /\ feed[r].pc \in {"idle", "copy", "close", "done"}
          /\ feed[r].err \in {"none", "codec", "dump", "write", "close"}
          /\ feed[r].read \in 0..tool[r].wrote /\ tool[r].wrote <= Chunks(r)
    /\ pipe \in [Runs -> [slot : Seq(Runs \X Nat), reader : BOOLEAN,
                          writer : {"open", "eof", "error"}]]
    /\ object \in [Keys -> Runs \union {None}]
    /\ temp \in [TempNames -> Runs \union {None}]
    /\ synced \subseteq Runs
    /\ older \in [Keys -> SUBSET (Runs \union {None})] /\ takenBack \subseteq Keys

NewFeed(codecs, chunks) ==
    [pc |-> "idle", codecs |-> codecs, chunks |-> chunks, layer |-> 1, read |-> 0,
     err |-> "none", held |-> [i \in DOMAIN codecs |-> <<>>]]
NewPipe == [slot |-> <<>>, reader |-> TRUE, writer |-> "open"]

Init ==
    \E setup \in Plans :
        /\ conn = [r \in Runs |-> New(setup[r].connector)]
        /\ up = [r \in Runs |-> NewUpload(setup[r].backend, setup[r].key)]
        /\ object = [k \in Keys |-> None]
        /\ temp = [t \in TempNames |-> None]
        /\ body = [f \in Runs |-> <<>>]
        /\ synced = {}
        /\ older = [k \in Keys |-> {}]
        /\ takenBack = {}
        /\ run = [r \in Runs |-> [pc |-> IF setup[r].asked THEN "new" ELSE "done",
                                  result |-> "none", cancelled |-> FALSE]]
        /\ tool = [r \in Runs |-> NewTool(setup[r].engine)]
        /\ feed = [r \in Runs |-> NewFeed(setup[r].codecs, setup[r].chunks)]
        /\ pipe = [r \in Runs |-> NewPipe]
        /\ hash = [r \in Runs |-> <<>>]

Moves(r, pc) == run' = [run EXCEPT ![r].pc = pc]
Ends(r, pc, result) == run' = [run EXCEPT ![r].pc = pc, ![r].result = result]

--------------------------------------------------------------------------------
(* The dump tool *)

ToolWrites(r) ==
    /\ Writes(r, Chunks(r)) \/ LegacyWrites(r, Chunks(r))
    /\ UNCHANGED <<conn, storeVars, run, feed, pipe, hash>>

ToolExits(r) ==
    /\ Exits(r, Chunks(r)) \/ LegacyEnds(r, Chunks(r))
    /\ UNCHANGED <<conn, storeVars, run, feed, pipe, hash>>

\* The commands run under the run's context, which its caller ends on return.
KillTool(r) ==
    /\ (run[r].cancelled \/ run[r].pc = "done") /\ Killed(r)
    /\ UNCHANGED <<conn, storeVars, run, feed, pipe, hash>>

--------------------------------------------------------------------------------
(* feed: the producer goroutine *)

\* A layer's output goes to the next layer out, the outermost one's to the pipe.
\* A pipe write blocks until the piece is read, and fails when the reader left.
Out(r, i, f, piece) ==
    \/ /\ i < Depth(r)
       /\ feed' = [feed EXCEPT ![r] = [f EXCEPT !.held[i + 1] = Append(@, piece)]]
       /\ UNCHANGED pipe
    \/ /\ i = Depth(r) /\ pipe[r].reader
       /\ feed' = [feed EXCEPT ![r] = f]
       /\ pipe' = [pipe EXCEPT ![r].slot = <<piece>>]

Broken(r, i) == i = Depth(r) /\ ~pipe[r].reader
Unblocked(r) == pipe[r].slot = <<>>

\* Mutant of Terminated: an error ends the stream like its end.
TerminatedClean(err) == "eof"

\* pw.CloseWithError: end of file for the storage only when nothing failed.
Terminated(err) == IF err = "none" THEN "eof" ELSE "error"

\* The chain is built from the pipe inward.  A codec that cannot be built ends it,
\* and those built before it, further out, are not closed.
CodecFails(r) ==
    /\ feed[r].pc = "copy" /\ feed[r].read = 0 /\ Unblocked(r)
    /\ Depth(r) > 0 /\ feed[r].held[1] = <<>>
    /\ \E i \in 1..Depth(r) :
          /\ \A j \in (i + 1)..Depth(r) : feed[r].codecs[j] # "age"
          /\ feed' = [feed EXCEPT ![r].pc = "done", ![r].err = "codec", ![r].layer = i]
    /\ pipe' = [pipe EXCEPT ![r].writer = Terminated("codec")]
    /\ UNCHANGED <<conn, storeVars, run, tool, hash>>

\* io.Copy takes the next piece of the dump and writes it into the chain.
CopyPiece(r) ==
    /\ feed[r].pc = "copy" /\ Buildable(r) /\ Unblocked(r) /\ feed[r].read < tool[r].wrote
    /\ LET f == [feed[r] EXCEPT !.read = @ + 1]
       IN IF Broken(r, 0)
          THEN /\ feed' = [feed EXCEPT ![r] = [f EXCEPT !.pc = "close", !.err = "write"]]
               /\ UNCHANGED pipe
          ELSE Out(r, 0, f, <<r, f.read>>)
    /\ UNCHANGED <<conn, storeVars, run, tool, hash>>

\* A streaming codec passes on what it held, within a write.
PassOn(r) ==
    /\ feed[r].pc = "copy" /\ Unblocked(r)
    /\ \E i \in 1..Depth(r) :
          /\ feed[r].codecs[i] = "stream" /\ feed[r].held[i] # <<>>
          /\ LET f == [feed[r] EXCEPT !.held[i] = Tail(@)]
             IN IF Broken(r, i)
                THEN /\ feed' = [feed EXCEPT ![r] = [f EXCEPT !.pc = "close", !.err = "write"]]
                     /\ UNCHANGED pipe
                ELSE Out(r, i, f, Head(feed[r].held[i]))
    /\ UNCHANGED <<conn, storeVars, run, tool, hash>>

\* The tool's output is drained: it is reaped, and a non-zero exit is a read error.
DumpEnds(r) ==
    /\ feed[r].pc = "copy" /\ Buildable(r) /\ Unblocked(r)
    /\ Drained(r) /\ feed[r].read = tool[r].wrote
    /\ ReadEnd(r)
    /\ feed' = [feed EXCEPT ![r].pc = "close", ![r].err = IF EndsInError(r) THEN "dump" ELSE @]
    /\ UNCHANGED <<conn, storeVars, run, pipe, hash>>

\* Mutant of CloseCodec: what a codec held and its trailer are dropped.
CloseCodecSkips(r) ==
    /\ feed[r].pc = "close" /\ Unblocked(r) /\ feed[r].layer <= Depth(r)
    /\ feed' = [feed EXCEPT ![r].layer = @ + 1]
    /\ UNCHANGED <<conn, storeVars, run, tool, pipe, hash>>

\* The codecs are closed inner to outer, also after an error: each passes on
\* what it held and then its trailer.  The first error counts.
CloseCodec(r) ==
    /\ feed[r].pc = "close" /\ Unblocked(r) /\ feed[r].layer <= Depth(r)
    /\ LET i == feed[r].layer
           last == feed[r].held[i] = <<>>
           f == IF last THEN [feed[r] EXCEPT !.layer = i + 1]
                        ELSE [feed[r] EXCEPT !.held[i] = Tail(@)]
           piece == IF last THEN <<r, Chunks(r) + i>> ELSE Head(feed[r].held[i])
       IN IF Broken(r, i)
          THEN /\ feed' = [feed EXCEPT ![r] = [f EXCEPT !.layer = i + 1, !.held[i] = <<>>,
                                                        !.err = IF @ = "none" THEN "close" ELSE @]]
               /\ UNCHANGED pipe
          ELSE Out(r, i, f, piece)
    /\ UNCHANGED <<conn, storeVars, run, tool, hash>>

\* A codec's Close fails by itself: tar's buffer cannot be read back.
CloseFails(r) ==
    /\ feed[r].pc = "close" /\ Unblocked(r) /\ feed[r].layer <= Depth(r)
    /\ feed[r].codecs[feed[r].layer] = "buffer"
    /\ feed' = [feed EXCEPT ![r].layer = @ + 1, ![r].held[feed[r].layer] = <<>>,
                            ![r].err = IF @ = "none" THEN "close" ELSE @]
    /\ UNCHANGED <<conn, storeVars, run, tool, pipe, hash>>

ClosePipe(r) ==
    /\ feed[r].pc = "close" /\ Unblocked(r) /\ feed[r].layer > Depth(r)
    /\ pipe' = [pipe EXCEPT ![r].writer = Terminated(feed[r].err)]
    /\ feed' = [feed EXCEPT ![r].pc = "done"]
    /\ UNCHANGED <<conn, storeVars, run, tool, hash>>

FeedStep(r) ==
    \/ ~Buildable(r) /\ CodecFails(r)
    \/ CopyPiece(r) \/ PassOn(r) \/ DumpEnds(r)
    \/ CloseCodec(r) \/ ClosePipe(r)

--------------------------------------------------------------------------------
(* The storage's reads, through the hashing reader *)

\* A piece is read, hashed and written.
Upload(r) ==
    /\ up[r].pc = "copy" /\ ~up[r].stalled /\ pipe[r].slot # <<>>
    /\ hash' = [hash EXCEPT ![r] = Append(@, Head(pipe[r].slot))]
    /\ pipe' = [pipe EXCEPT ![r].slot = <<>>]
    /\ WritePiece(r, Head(pipe[r].slot))
    /\ UNCHANGED <<conn, run, tool, feed>>

UploadEnds(r) ==
    /\ up[r].pc = "copy" /\ ~up[r].stalled /\ pipe[r].slot = <<>>
    /\ \/ pipe[r].writer = "eof" /\ FinishFile(r)
       \/ pipe[r].writer = "error" /\ GiveUpWrite(r)
    /\ UNCHANGED <<conn, run, tool, feed, pipe, hash>>

\* sftp's reader looks at the context before each read; s3's client has it with
\* each request.  localfs does not see it.
UploadCancelled(r) ==
    /\ run[r].cancelled
    /\ \/ up[r].backend = "sftp" /\ up[r].pc = "copy" /\ ~up[r].stalled
       \/ up[r].backend = "s3" /\ up[r].pc \in {"copy", "commit"}
    /\ GiveUpWrite(r)
    /\ UNCHANGED <<conn, run, tool, feed, pipe, hash>>

StoreStep(r) ==
    /\ run[r].pc = "write"
    /\ BeginWrite(r, run[r].cancelled) \/ Commit(r) \/ Undo(r, run[r].cancelled)
    /\ UNCHANGED <<conn, run, tool, feed, pipe, hash>>

--------------------------------------------------------------------------------
(* RunPipeline *)

Start(r) ==
    /\ run[r].pc = "new"
    /\ Moves(r, "open")
    /\ UNCHANGED <<conn, storeVars, tool, feed, pipe, hash>>

ConnectorWorks(r) ==
    /\ run[r].pc \in {"open", "release"}
    /\ ConnectorStep(r, run[r].cancelled)
    /\ UNCHANGED <<storeVars, run, tool, feed, pipe, hash>>

\* Open returned.  Without an endpoint the run is over and Close is not called.
OpenFails(r) ==
    /\ run[r].pc = "open" /\ OpenFailed(r)
    /\ Ends(r, "done", "error")
    /\ UNCHANGED <<conn, storeVars, tool, feed, pipe, hash>>

\* With one, Dumper.Dump starts the tool, and the producer after it.
StartDump(r) ==
    /\ run[r].pc = "open" /\ conn[r].step = "up"
    /\ Moves(r, "write")
    /\ Dump(r)
    /\ feed' = [feed EXCEPT ![r].pc = "copy"]
    /\ UNCHANGED <<conn, storeVars, pipe, hash>>

DumpFails(r) ==
    /\ run[r].pc = "open" /\ conn[r].step = "up"
    /\ Ends(r, "release", "error")
    /\ DumpRefused(r) /\ Close(r)
    /\ UNCHANGED <<storeVars, feed, pipe, hash>>

\* Mutant of Stored: the pipe stays open after an error.
StoredUnseen(r) ==
    /\ run[r].pc = "write" /\ up[r].pc \in {"ok", "error"}
    /\ Moves(r, "join")
    /\ UNCHANGED <<conn, storeVars, tool, feed, pipe, hash>>

\* Storage.Write returned.  After an error the pipe's reader is closed, which
\* fails the write the producer may be blocked in.
Stored(r) ==
    /\ run[r].pc = "write"
    /\ \/ up[r].pc = "ok" /\ UNCHANGED pipe
       \/ up[r].pc = "error" /\ pipe' = [pipe EXCEPT ![r].reader = FALSE, ![r].slot = <<>>]
    /\ Moves(r, "join")
    /\ UNCHANGED <<conn, storeVars, tool, feed, hash>>

\* <-prodErr: the storage's error counts first, then the producer's.  The defers
\* follow: dump.Close kills and reaps the tool unless its end was seen, then the
\* connector is closed.
Join(r) ==
    /\ run[r].pc = "join" /\ feed[r].pc = "done"
    /\ Ends(r, "release", IF up[r].pc = "ok" /\ feed[r].err = "none" THEN "ok" ELSE "error")
    /\ tool' = [tool EXCEPT ![r] = CloseTool(@)]
    /\ Close(r)
    /\ UNCHANGED <<storeVars, feed, pipe, hash>>

Return(r) ==
    /\ run[r].pc = "release" /\ conn[r].step = "closed"
    /\ Moves(r, "done")
    /\ UNCHANGED <<conn, storeVars, tool, feed, pipe, hash>>

--------------------------------------------------------------------------------
(* Failures, the caller and the world *)

\* The run's context ends: a timeout, a stop of the daemon, an operator's cancel.
Cancel(r) ==
    /\ run[r].pc \notin {"new", "done", "dead"} /\ ~run[r].cancelled
    /\ Cardinality({q \in Runs : run[q].cancelled}) < MaxCancels
    /\ run' = [run EXCEPT ![r].cancelled = TRUE]
    /\ UNCHANGED <<conn, storeVars, tool, feed, pipe, hash>>

StoreFails(r) ==
    /\ run[r].pc = "write"
    /\ WriteFails(r) \/ PeerStalls(r)
    /\ UNCHANGED <<conn, run, tool, feed, pipe, hash>>

ConnectorDisturbed(r) ==
    /\ run[r].pc \in {"open", "write", "join", "release"}
    /\ ConnectorWorld(r)
    /\ UNCHANGED <<storeVars, run, tool, feed, pipe, hash>>

Settles(k) ==
    /\ DirectorySettles(k)
    /\ UNCHANGED <<conn, run, tool, feed, pipe, hash>>

\* What is left of a dead run's connector: a container on another host.
Remains(c) ==
    [New(c.kind) EXCEPT !.step = "failed", !.container = c.container /\ c.kind = "docker_ssh"]

\* The daemon's host loses power: every run under way is dead, and what it held
\* in memory with it; what it held elsewhere stays.
Crash ==
    LET dead == {r \in Runs : run[r].pc \notin {"new", "done", "dead"}}
        Gone(f, x) == [r \in Runs |-> IF r \in dead THEN x[r] ELSE f[r]]
    IN /\ dead # {} \/ \E k \in Keys : older[k] # {}
       /\ run' = Gone(run, [r \in Runs |-> [pc |-> "dead", cancelled |-> FALSE,
              result |-> IF run[r].result = "none" THEN "error" ELSE run[r].result]])
       /\ conn' = Gone(conn, [r \in Runs |-> Remains(conn[r])])
       /\ tool' = Gone(tool, [r \in Runs |-> NewTool(tool[r].engine)])
       /\ feed' = Gone(feed, [r \in Runs |-> NewFeed(feed[r].codecs, Chunks(r))])
       /\ pipe' = Gone(pipe, [r \in Runs |-> NewPipe])
       /\ hash' = Gone(hash, [r \in Runs |-> IF run[r].result = "none" THEN <<>> ELSE hash[r]])
       /\ PowerLoss

RunStep(r) ==
    \/ Start(r) \/ ConnectorWorks(r) \/ OpenFails(r) \/ StartDump(r) \/ KillTool(r)
    \/ FeedStep(r) \/ Upload(r) \/ UploadEnds(r) \/ StoreStep(r)
    \/ up[r].backend = "s3" /\ UploadCancelled(r)
    \/ Stored(r) \/ Join(r) \/ Return(r)

WorldStep(r) ==
    \/ DumpFails(r) \/ ToolWrites(r) \/ ToolExits(r) \/ CodecFails(r) \/ CloseFails(r)
    \/ UploadCancelled(r) \/ Cancel(r) \/ StoreFails(r) \/ ConnectorDisturbed(r)

Next ==
    \/ Crash
    \/ \E k \in Keys : Settles(k)
    \/ \E r \in Runs : RunStep(r) \/ WorldStep(r)

\* The program's own threads go on, and a context that ended is seen where a call
\* has it; nothing is assumed of the tool, the peers (each may fall silent),
\* failures and cancellation.
Fairness == \A r \in Runs : WF_vars(RunStep(r))

Spec == Init /\ [][Next]_vars /\ Fairness

--------------------------------------------------------------------------------
(* Properties *)

\* Under a key there is never anything but one run's whole artifact: the dump of
\* a tool that exited with zero, through every codec to its trailer.
\* (pipeline.go:38-43, localfs.go:45, sftp.go:7-9)
ObjectsAreWhole ==
    \A k \in Keys : object[k] # None =>
        \E r \in Runs : up[r].key = k /\ body[object[k]] = Whole(r)

\* The size and checksum of a successful run are those of a whole artifact, which
\* was under its key when the run returned.  It is still there unless another run
\* replaced it or a power loss took back a rename whose directory had not reached
\* the disk (localfs.go:77 does not sync it).
\* (pipeline.go:85-95)
ResultIsTrue ==
    \A r \in Runs : run[r].result = "ok" =>
        /\ hash[r] = Whole(r) /\ up[r].pos = Len(hash[r])
        /\ \/ up[r].key \in takenBack
           \/ \E q \in Runs \ {r} : up[q].key = up[r].key /\ up[q].published
           \/ body[object[up[r].key]] = hash[r]

\* A run that returned has given back all it took.  What it may leave, and nothing
\* else: a container whose `docker stop` failed, or whose name it never learnt
\* because `docker run` was cut (Released); a legacy MySQL client nobody reads from
\* (ToolGone); the outer codecs of a chain that could not be built; and the
\* temporary file of a failed upload whose connection was lost, or the parts of an
\* s3 upload whose run was cancelled.  (The session of an sftp storage stays open by
\* design, sftp.go:217-218, and is not modelled.)
\* (pipeline.go:49-55, localfs.go:57-62, sftp.go:252-260, dockerproxy.go:133-146)
NothingIsLeft ==
    \A r \in Runs : run[r].pc = "done" =>
        /\ Released(r)
        /\ ToolGone(r)
        /\ feed[r].pc \in {"idle", "done"}
        /\ OpenCodecs(r) # {} => feed[r].err = "codec"
        /\ up[r].pc \in {"idle", "ok", "error"}
        /\ up[r].pc = "error" /\ temp[TempName(r)] # None =>
              up[r].lost \/ Unabortable(r, run[r].cancelled)

\* A run waits for nobody but its dump tool: once the tool has exited or the
\* context has ended, the run returns, unless the call under way is one that no
\* context ends and that is never answered: the ssh handshake, a session for docker
\* over ssh (tunnel.go:129, docker_ssh_proxy.go:199, 251), a request to the sftp
\* server, or one to s3 before the context has ended.
\* (pipeline.go:74-79, execstream.go:50-73, tunnel.go:202-215)
EveryRunReturns ==
    \A r \in Runs :
        (tool[r].state = "exited" \/ run[r].cancelled)
            ~> \/ run[r].pc \in {"done", "dead"}
               \/ conn[r].silent /\ OverSSH(r)
               \/ Waits(r, run[r].cancelled)

\* The same of a cancelled run without the exceptions, as sftp.go:378-380 says of
\* an upload to an unresponsive host.
CancelledRunReturns ==
    \A r \in Runs : run[r].cancelled ~> (run[r].pc \in {"done", "dead"})

\* After the pipeline the proxy container is stopped, as README.md:587-588 says;
\* a `docker stop` that failed is reported.
ContainerIsStopped ==
    \A r \in Runs : run[r].pc = "done" /\ conn[r].container => conn[r].unstopped

\* A broken upload leaves nothing behind at all, as sftp.go:250-251 says.
BrokenUploadLeavesNothing ==
    \A r \in Runs : run[r].pc = "done" /\ up[r].pc = "error" => temp[TempName(r)] = None

\* The run whose whole artifact a file is.
Artifact(f) ==
    IF f = None THEN None
    ELSE IF \E r \in Runs : body[f] = Whole(r) THEN CHOOSE r \in Runs : body[f] = Whole(r)
    ELSE Hole

\* What the pipeline promises its caller.
Published == INSTANCE Publishing WITH
    key <- [r \in Runs |-> up[r].key],
    shown <- [k \in Keys |-> Artifact(object[k])],
    published <- {r \in Runs : up[r].published},
    result <- [r \in Runs |-> run[r].result],
    unsettled <- [k \in Keys |-> {Artifact(f) : f \in older[k]}]

\* A key changes in one step from one whole artifact to another, or back to an
\* earlier one when power is lost before the directory has settled; only a run that
\* has published reports success, and a result is final.
\* (pipeline.go:38-43, localfs.go:1-3, sftp.go:7-9)
ImplementsPublishing == Published!Spec

================================================================================
