---------------------------- MODULE Pipeline_proofs ----------------------------
(***************************************************************************)
(* Theorems about the pipeline, for any number of runs and keys, any chain   *)
(* of codecs and dumps of any length.                                        *)
(***************************************************************************)
EXTENDS Pipeline, SequenceTheorems, TLAPS

--------------------------------------------------------------------------------
(***************************************************************************)
(* The connector: what it holds at each step of Open and Close.            *)
(***************************************************************************)

Grip(c) ==
    /\ c.step \in {"new", "dialled", "started", "published", "failed", "closed"} =>
          c.threads = {} /\ ~c.listening
    /\ c.step \in {"stopping", "waiting"} => ~c.listening
    /\ c.step \in {"new", "failed", "waiting", "closed"} => ~c.ssh
    /\ c.step \in {"new", "dialled"} => ~c.container /\ ~c.named
    /\ c.step \in {"failed", "waiting", "closed"} => (c.container => c.unstopped \/ ~c.named)
    /\ c.kind \in {"direct", "tunnel"} => ~c.container
    /\ c.kind \in {"direct", "docker"} => ~c.ssh
    /\ c.kind = "direct" => c.threads = {} /\ ~c.listening

ConnectorsHeld == conn \in [Runs -> ConnectorType] /\ \A r \in Runs : Grip(conn[r])

\* Another connector's state is none of its business.
LEMMA BecomesHeld ==
    ASSUME ConnectorsHeld, NEW r \in Runs, NEW c \in ConnectorType, Grip(c), Becomes(r, c)
    PROVE  ConnectorsHeld'
<1>1. /\ conn' \in [Runs -> ConnectorType]
      /\ \A q \in Runs : conn'[q] = IF q = r THEN c ELSE conn[q]
    BY DEF ConnectorsHeld, Becomes
<1>2. ASSUME NEW q \in Runs
      PROVE  Grip(conn'[q])
    BY <1>1 DEF ConnectorsHeld
<1> QED
    BY <1>1, <1>2 DEF ConnectorsHeld, Grip

\* A new connector holds nothing.
LEMMA NewHeld ==
    ASSUME NEW kind \in Kinds
    PROVE  New(kind) \in ConnectorType /\ Grip(New(kind))
BY DEF New, ConnectorType, Grip, Kinds

\* Of a dead run's connector a container on another host may be left.
LEMMA RemainsHeld ==
    ASSUME NEW c \in ConnectorType
    PROVE  Remains(c) \in ConnectorType /\ Grip(Remains(c))
<1>1. PICK kind \in Kinds, left \in BOOLEAN :
          kind = c.kind /\ left = (c.container /\ c.kind = "docker_ssh")
    BY DEF ConnectorType
<1>2. Remains(c) = [New(kind) EXCEPT !.step = "failed", !.container = left]
    BY <1>1 DEF Remains
<1>3. left => kind = "docker_ssh"
    BY <1>1
<1> HIDE DEF Kinds
<1> QED
    BY <1>2, <1>3, ZenonT(60) DEF New, ConnectorType, Grip

\* Every step of Open, of Close and of the goroutines keeps the table above.
LEMMA ConnectorKeepsGrip ==
    ASSUME ConnectorsHeld, NEW r \in Runs, NEW cancelled,
           ConnectorStep(r, cancelled) \/ ConnectorWorld(r) \/ Close(r)
    PROVE  ConnectorsHeld'
<1>1. PICK old \in ConnectorType : old = conn[r] /\ Grip(old)
    BY DEF ConnectorsHeld
<1> SUFFICES \E c \in ConnectorType : Grip(c) /\ Becomes(r, c)
    BY BecomesHeld
<1> USE DEF Grip, ConnectorType
<1>2. CASE OpenDirect(r)
    BY <1>1, <1>2 DEF OpenDirect
<1>3. CASE Dial(r)
    BY <1>1, <1>3 DEF Dial, OverSSH
<1>4. CASE DockerRun(r, cancelled) \/ DockerCut(r, cancelled)
    BY <1>1, <1>4 DEF DockerRun, DockerCut, CanStart, GiveUp
<1>5. CASE Inspect(r, cancelled)
    BY <1>1, <1>5 DEF Inspect, InDocker
<1>6. CASE Listen(r)
    BY <1>1, <1>6 DEF Listen
<1>7. CASE ThreadEnds(r)
    BY <1>1, <1>7 DEF ThreadEnds
<1>8. CASE CloseListener(r)
    BY <1>1, <1>8 DEF CloseListener
<1>9. CASE HangUp(r)
    BY <1>1, <1>9, ZenonT(60) DEF HangUp
<1>10. CASE Waited(r)
    BY <1>1, <1>10 DEF Waited
<1>11. CASE ConnectorWorld(r)
    BY <1>1, <1>11, ZenonT(60) DEF ConnectorWorld, Accept, ForwardEnds, KeepaliveFails, PeerFallsSilent,
       CanStart
<1>12. CASE Close(r)
    BY <1>1, <1>12 DEF Close
<1> QED
    BY <1>2, <1>3, <1>4, <1>5, <1>6, <1>7, <1>8, <1>9, <1>10, <1>11, <1>12
    DEF ConnectorStep

--------------------------------------------------------------------------------
(***************************************************************************)
(* Types.                                                                  *)
(***************************************************************************)

Piece == Runs \X Nat

\* A producer with n codecs.
FeedType(n) ==
    [pc : {"idle", "copy", "close", "done"}, codecs : Seq(Codecs), chunks : Nat \ {0},
     layer : 1..(n + 1), read : Nat, err : {"none", "codec", "dump", "write", "close"},
     held : [1..n -> Seq(Piece)]]

PipeType == [slot : Seq(Piece), reader : BOOLEAN, writer : {"open", "eof", "error"}]

RunType == [pc : {"new", "open", "write", "join", "release", "done", "dead"},
            result : {"none", "ok", "error"}, cancelled : BOOLEAN]

UploadType ==
    [backend : Backends, key : Keys,
     pc : {"idle", "copy", "commit", "undo", "ok", "error"},
     file : Runs \union {None}, pos : Nat,
     published : BOOLEAN, lost : BOOLEAN, stalled : BOOLEAN]

StreamTyped ==
    /\ run \in [Runs -> RunType]
    /\ tool \in [Runs -> ToolType]
    /\ feed = [r \in Runs |-> feed[r]]
    /\ pipe \in [Runs -> PipeType]
    /\ hash \in [Runs -> Seq(Piece)]
    /\ \A r \in Runs :
          /\ feed[r] \in FeedType(Depth(r))
          /\ feed[r].read <= tool[r].wrote /\ tool[r].wrote <= Chunks(r)
          /\ Len(pipe[r].slot) <= 1

StoreTyped ==
    /\ up \in [Runs -> UploadType]
    /\ \A r \in Runs : up[r].pc \in {"copy", "commit"} => up[r].file \in Runs
    /\ object \in [Keys -> Runs \union {None}]
    /\ temp \in [TempNames -> Runs \union {None}]
    /\ body \in [Runs -> Seq(Piece \union {Hole})]
    /\ synced \subseteq Runs
    /\ older \in [Keys -> SUBSET (Runs \union {None})] /\ takenBack \subseteq Keys

Typed == ConnectorsHeld /\ StreamTyped /\ StoreTyped

\* What a plan gives a run.
LEMMA PlanTyped ==
    ASSUME NEW setup \in Plans, NEW r \in Runs
    PROVE  /\ setup[r].asked \in BOOLEAN /\ setup[r].connector \in Kinds
           /\ setup[r].engine \in Engines /\ setup[r].codecs \in Seq(Codecs)
           /\ setup[r].backend \in Backends /\ setup[r].key \in Keys
           /\ setup[r].chunks \in Nat \ {0}
BY PlansAssumption

\* A fresh codec chain is typed, and has read nothing.
LEMMA NewFeedTyped ==
    ASSUME NEW codecs \in Seq(Codecs), NEW chunks \in Nat \ {0}
    PROVE  /\ NewFeed(codecs, chunks) \in FeedType(Len(codecs))
           /\ NewFeed(codecs, chunks).codecs = codecs
           /\ NewFeed(codecs, chunks).chunks = chunks
           /\ NewFeed(codecs, chunks).read = 0
<1>1. [i \in DOMAIN codecs |-> <<>>] \in [1..Len(codecs) -> Seq(Piece)]
    OBVIOUS
<1>2. Len(codecs) \in Nat
    OBVIOUS
<1> QED
    BY <1>1, <1>2 DEF NewFeed, FeedType

\* A fresh pipe is typed, empty and open.
LEMMA NewPipeTyped == NewPipe \in PipeType /\ NewPipe.slot = <<>> /\ NewPipe.reader
BY DEF NewPipe, PipeType

\* A tool not started yet is typed and has written nothing.
LEMMA NewToolTyped ==
    ASSUME NEW engine \in Engines
    PROVE  /\ NewTool(engine) \in ToolType /\ NewTool(engine).wrote = 0
           /\ NewTool(engine).state = "none" /\ ~NewTool(engine).password
BY DEF NewTool, ToolType

\* The types hold at the start.
LEMMA InitTyped == Init => Typed
<1> SUFFICES ASSUME NEW setup \in Plans, Init,
                    conn = [r \in Runs |-> New(setup[r].connector)],
                    up = [r \in Runs |-> NewUpload(setup[r].backend, setup[r].key)],
                    object = [k \in Keys |-> None],
                    temp = [t \in TempNames |-> None],
                    body = [f \in Runs |-> <<>>],
                    synced = {}, older = [k \in Keys |-> {}], takenBack = {},
                    run = [r \in Runs |-> [pc |-> IF setup[r].asked THEN "new" ELSE "done",
                                           result |-> "none", cancelled |-> FALSE]],
                    tool = [r \in Runs |-> NewTool(setup[r].engine)],
                    feed = [r \in Runs |-> NewFeed(setup[r].codecs, setup[r].chunks)],
                    pipe = [r \in Runs |-> NewPipe],
                    hash = [r \in Runs |-> <<>>]
             PROVE  Typed
    BY DEF Init
<1>1. ConnectorsHeld
    BY PlanTyped, NewHeld DEF ConnectorsHeld
<1>2. StreamTyped
    <2>1. run \in [Runs -> RunType] /\ hash \in [Runs -> Seq(Piece)]
        BY DEF RunType
    <2>2. tool \in [Runs -> ToolType] /\ pipe \in [Runs -> PipeType]
        BY PlanTyped, NewToolTyped, NewPipeTyped
    <2>3. ASSUME NEW r \in Runs
          PROVE  /\ feed[r] \in FeedType(Depth(r))
                 /\ feed[r].read <= tool[r].wrote /\ tool[r].wrote <= Chunks(r)
                 /\ Len(pipe[r].slot) <= 1
        <3>1. PICK codecs \in Seq(Codecs), chunks \in Nat \ {0}, engine \in Engines :
                  /\ feed[r] = NewFeed(codecs, chunks) /\ tool[r] = NewTool(engine)
                  /\ pipe[r] = NewPipe
            BY PlanTyped
        <3>2. tool[r].wrote = 0 /\ pipe[r].slot = <<>>
            BY <3>1, NewToolTyped, NewPipeTyped
        <3>3. 0 <= chunks /\ Len(<<>>) <= 1
            OBVIOUS
        <3> QED
            BY <3>1, <3>2, <3>3, NewFeedTyped DEF Depth, Chunks
    <2> QED
        BY <2>1, <2>2, <2>3 DEF StreamTyped
<1>3. StoreTyped
    BY PlanTyped DEF StoreTyped, UploadType, NewUpload
<1> QED
    BY <1>1, <1>2, <1>3 DEF Typed

\* A write fills a gap with holes.
LEMMA WriteAtTyped ==
    ASSUME NEW S, Hole \in S, NEW s \in Seq(S), NEW offset \in Nat, NEW piece \in S
    PROVE  WriteAt(s, offset, piece) \in Seq(S)
<1> DEFINE n == IF Len(s) > offset THEN Len(s) ELSE offset + 1
<1>1. n \in Nat /\ Len(s) \in Nat
    OBVIOUS
<1>2. \A i \in 1..n : i <= Len(s) => s[i] \in S
    BY <1>1
<1>3. WriteAt(s, offset, piece) \in [1..n -> S]
    BY <1>1, <1>2 DEF WriteAt
<1> QED
    BY <1>1, <1>3

\* At the end of the file it appends.
LEMMA WriteAtEnd ==
    ASSUME NEW S, NEW s \in Seq(S), NEW piece \in S
    PROVE  WriteAt(s, Len(s), piece) = Append(s, piece)
<1>1. Len(s) \in Nat /\ ~(Len(s) > Len(s))
    OBVIOUS
<1>2. /\ Append(s, piece) \in Seq(S) /\ Len(Append(s, piece)) = Len(s) + 1
      /\ \A i \in 1..Len(s) + 1 : Append(s, piece)[i] = IF i = Len(s) + 1 THEN piece ELSE s[i]
    BY AppendProperties
<1>3. WriteAt(s, Len(s), piece) = [i \in 1..Len(s) + 1 |-> IF i = Len(s) + 1 THEN piece ELSE s[i]]
    BY <1>1 DEF WriteAt
<1>4. WriteAt(s, Len(s), piece) \in Seq(S) /\ Len(WriteAt(s, Len(s), piece)) = Len(s) + 1
    <2>1. [i \in 1..Len(s) + 1 |-> IF i = Len(s) + 1 THEN piece ELSE s[i]] \in [1..Len(s) + 1 -> S]
        BY <1>1
    <2> QED
        BY <1>1, <1>3, <2>1
<1>5. \A i \in 1..Len(s) + 1 : WriteAt(s, Len(s), piece)[i] = Append(s, piece)[i]
    BY <1>2, <1>3
<1> QED
    BY <1>2, <1>4, <1>5, SeqEqual

\* The name a local or sftp writer draws is that of a temporary file.
LEMMA TempNamed ==
    ASSUME StoreTyped, NEW r \in Runs
    PROVE  TempName(r) \in TempNames
BY DEF StoreTyped, UploadType, TempName, TempNames

\* The steps of Write keep the types and what a call was made for.
SameCalls ==
    \A r \in Runs : up'[r].backend = up[r].backend /\ up'[r].key = up[r].key

CallsTyped ==
    /\ up \in [Runs -> UploadType]
    /\ \A r \in Runs : up[r].pc \in {"copy", "commit"} => up[r].file \in Runs

\* A step that moves one upload on leaves the others, and its own call, as they were.
LEMMA CallGoes ==
    ASSUME CallsTyped, NEW r \in Runs, NEW u \in UploadType,
           up' = [up EXCEPT ![r] = u],
           u.backend = up[r].backend, u.key = up[r].key,
           u.pc \in {"copy", "commit"} => u.file \in Runs
    PROVE  CallsTyped' /\ SameCalls
BY DEF CallsTyped, SameCalls

\* The steps of an upload keep its call.
LEMMA CallTyped ==
    ASSUME StoreTyped, NEW r \in Runs,
           \/ Upload(r) \/ UploadEnds(r) \/ UploadCancelled(r) \/ StoreStep(r) \/ StoreFails(r)
    PROVE  CallsTyped' /\ SameCalls
<1>1. CallsTyped
    BY DEF StoreTyped, CallsTyped
<1>2. PICK u \in UploadType : u = up[r] /\ (u.pc \in {"copy", "commit"} => u.file \in Runs)
    BY DEF StoreTyped
<1>3. ASSUME NEW v \in UploadType, up' = [up EXCEPT ![r] = v], v.backend = u.backend, v.key = u.key,
             v.pc \in {"copy", "commit"} => v.file \in Runs
      PROVE  CallsTyped' /\ SameCalls
    BY <1>1, <1>2, <1>3, CallGoes
<1>4. CASE Upload(r)
    <2> DEFINE v == [u EXCEPT !.pos = @ + 1]
    <2>1. /\ v \in UploadType /\ v.backend = u.backend /\ v.key = u.key
          /\ v.pc = u.pc /\ v.file = u.file
        BY DEF UploadType
    <2>2. up' = [up EXCEPT ![r] = v]
        BY <1>2, <1>4 DEF Upload, WritePiece
    <2> HIDE DEF v
    <2> QED
        BY <1>2, <1>3, <2>1, <2>2
<1>5. ASSUME NEW pc \in {"commit", "undo", "ok", "error"}, NEW published \in BOOLEAN,
             NEW lost \in BOOLEAN, NEW stalled \in BOOLEAN,
             up' = [up EXCEPT ![r] = [u EXCEPT !.pc = pc, !.published = published, !.lost = lost,
                                               !.stalled = stalled]],
             pc = "commit" => u.file \in Runs
      PROVE  CallsTyped' /\ SameCalls
    <2> DEFINE v == [u EXCEPT !.pc = pc, !.published = published, !.lost = lost, !.stalled = stalled]
    <2>1. /\ v \in UploadType /\ v.backend = u.backend /\ v.key = u.key
          /\ v.pc = pc /\ v.file = u.file
        BY DEF UploadType
    <2>2. up' = [up EXCEPT ![r] = v]
        BY <1>5
    <2> HIDE DEF v
    <2> QED
        BY <1>3, <1>5, <2>1, <2>2
<1>6. u = [u EXCEPT !.pc = u.pc, !.published = u.published, !.lost = u.lost, !.stalled = u.stalled]
    BY DEF UploadType
<1>7. /\ u.published \in BOOLEAN /\ u.lost \in BOOLEAN /\ u.stalled \in BOOLEAN
    BY DEF UploadType
<1>8. ASSUME NEW pc \in {"commit", "undo", "ok", "error"}, Goes(r, pc), pc = "commit" => u.file \in Runs
      PROVE  CallsTyped' /\ SameCalls
    <2>1. up' = [up EXCEPT ![r] = [u EXCEPT !.pc = pc, !.published = u.published, !.lost = u.lost,
                                            !.stalled = u.stalled]]
        BY <1>2, <1>8 DEF Goes, UploadType
    <2> QED
        BY <1>5, <1>7, <1>8, <2>1
<1>9. CASE UploadEnds(r) \/ UploadCancelled(r)
    BY <1>2, <1>8, <1>9 DEF UploadEnds, UploadCancelled, FinishFile, GiveUpWrite
<1>10. CASE CannotWrite(r, run[r].cancelled) \/ Undo(r, run[r].cancelled)
    BY <1>8, <1>10 DEF CannotWrite, Undo
<1>11. CASE OpenTemp(r)
    <2>1. PICK f \in Runs : up' = [up EXCEPT ![r].pc = "copy", ![r].file = f]
        BY <1>11, TempNamed DEF OpenTemp, StoreTyped
    <2> DEFINE v == [u EXCEPT !.pc = "copy", !.file = f]
    <2>2. v \in UploadType /\ v.backend = u.backend /\ v.key = u.key /\ v.file = f
        BY DEF UploadType
    <2>3. up' = [up EXCEPT ![r] = v]
        BY <1>2, <2>1
    <2> HIDE DEF v
    <2> QED
        BY <1>3, <2>2, <2>3
<1>12. CASE Commit(r)
    <2>1. CASE Goes(r, "undo")
        BY <1>8, <2>1
    <2>2. CASE up' = [up EXCEPT ![r].pc = "ok", ![r].published = TRUE]
        <3>1. up' = [up EXCEPT ![r] = [u EXCEPT !.pc = "ok", !.published = TRUE, !.lost = u.lost,
                                                !.stalled = u.stalled]]
            BY <1>2, <2>2 DEF UploadType
        <3> QED
            BY <1>5, <1>7, <3>1
    <2>3. CASE up' = [up EXCEPT ![r].pc = "undo", ![r].published = TRUE, ![r].lost = TRUE]
        <3>1. up' = [up EXCEPT ![r] = [u EXCEPT !.pc = "undo", !.published = TRUE, !.lost = TRUE,
                                                !.stalled = u.stalled]]
            BY <1>2, <2>3 DEF UploadType
        <3> QED
            BY <1>5, <1>7, <3>1
    <2> QED
        BY <1>12, <2>1, <2>2, <2>3 DEF Commit
<1>13. CASE StoreFails(r)
    <2>1. ASSUME NEW lost \in BOOLEAN, up' = [up EXCEPT ![r].pc = "undo", ![r].lost = lost]
          PROVE  CallsTyped' /\ SameCalls
        <3>1. up' = [up EXCEPT ![r] = [u EXCEPT !.pc = "undo", !.published = u.published, !.lost = lost,
                                                !.stalled = u.stalled]]
            BY <1>2, <2>1 DEF UploadType
        <3> QED
            BY <1>5, <1>7, <3>1
    <2>2. CASE PeerStalls(r)
        <3> DEFINE v == [u EXCEPT !.stalled = TRUE]
        <3>1. /\ v \in UploadType /\ v.backend = u.backend /\ v.key = u.key
              /\ v.pc = u.pc /\ v.file = u.file
            BY DEF UploadType
        <3>2. up' = [up EXCEPT ![r] = v]
            BY <1>2, <2>2 DEF PeerStalls
        <3> HIDE DEF v
        <3> QED
            BY <1>2, <1>3, <3>1, <3>2
    <2> QED
        BY <1>2, <1>7, <1>13, <2>1, <2>2 DEF StoreFails, WriteFails
<1> QED
    BY <1>4, <1>9, <1>10, <1>11, <1>12, <1>13 DEF StoreStep, BeginWrite

\* Every step of a storage backend keeps the types of its calls and its files.
LEMMA StoreStepTyped ==
    ASSUME Typed, NEW r \in Runs,
           \/ Upload(r) \/ UploadEnds(r) \/ UploadCancelled(r) \/ StoreStep(r) \/ StoreFails(r)
    PROVE  StoreTyped' /\ SameCalls
<1>1. StoreTyped /\ TempName(r) \in TempNames /\ up[r] \in UploadType
    BY TempNamed DEF Typed, StoreTyped
<1>2. CallsTyped' /\ SameCalls
    BY <1>1, CallTyped
<1> SUFFICES /\ object' \in [Keys -> Runs \union {None}]
             /\ temp' \in [TempNames -> Runs \union {None}]
             /\ body' \in [Runs -> Seq(Piece \union {Hole})]
             /\ synced' \subseteq Runs
             /\ older' \in [Keys -> SUBSET (Runs \union {None})] /\ takenBack' \subseteq Keys
    BY <1>2 DEF StoreTyped, CallsTyped
<1>3. CASE Upload(r)
    <2>1. up[r].file \in Runs /\ up[r].pos \in Nat
        BY <1>1, <1>3 DEF Upload, StoreTyped, UploadType
    <2>2. Head(pipe[r].slot) \in Piece
        BY <1>3 DEF Typed, StreamTyped, PipeType, Upload
    <2>3. WriteAt(body[up[r].file], up[r].pos, Head(pipe[r].slot)) \in Seq(Piece \union {Hole})
        BY <1>1, <2>1, <2>2, WriteAtTyped DEF StoreTyped
    <2> HIDE DEF Piece, Hole
    <2> QED
        BY <1>1, <1>3, <2>1, <2>3 DEF Upload, WritePiece, StoreTyped, directories
<1>4. CASE OpenTemp(r)
    <2>1. <<>> \in Seq(Piece \union {Hole})
        OBVIOUS
    <2> HIDE DEF Piece, Hole
    <2> QED
        BY <1>1, <1>4, <2>1 DEF OpenTemp, StoreTyped, directories
<1>5. CASE Commit(r)
    <2>1. up[r].key \in Keys
        BY <1>1 DEF UploadType
    <2>2. CASE UNCHANGED files
        BY <1>1, <2>2 DEF files, StoreTyped
    <2>3. CASE ~UNCHANGED files
        <3>1. /\ object' = [object EXCEPT ![up[r].key] = temp[TempName(r)]]
              /\ temp' = [temp EXCEPT ![TempName(r)] = None]
              /\ older' = [older EXCEPT ![up[r].key] = @ \union
                             IF up[r].backend = "localfs" THEN {object[up[r].key]} ELSE {}]
              /\ UNCHANGED <<body, synced, takenBack>>
            BY <1>5, <2>3 DEF Commit
        <3>2. older[up[r].key] \union (IF up[r].backend = "localfs" THEN {object[up[r].key]} ELSE {})
                 \in SUBSET (Runs \union {None})
            BY <1>1, <2>1 DEF StoreTyped
        <3> QED
            BY <1>1, <2>1, <3>1, <3>2 DEF StoreTyped
    <2> QED
        BY <2>2, <2>3
<1>7. CASE CannotWrite(r, run[r].cancelled) \/ Undo(r, run[r].cancelled)
    BY <1>1, <1>7 DEF CannotWrite, Undo, Goes, files, directories, StoreTyped, UploadType
<1>6. CASE UploadEnds(r) \/ UploadCancelled(r) \/ StoreFails(r)
    BY <1>1, <1>6 DEF UploadEnds, UploadCancelled, FinishFile, GiveUpWrite, StoreFails, WriteFails,
       PeerStalls, files, directories, StoreTyped
<1> QED
    BY <1>3, <1>4, <1>5, <1>6, <1>7 DEF StoreStep, BeginWrite

\* What a file may lose is its end.
LEMMA PowerLossTyped ==
    ASSUME Typed, PowerLoss
    PROVE  StoreTyped' /\ SameCalls
<1>1. ASSUME NEW f \in Runs
      PROVE  LosesUnsynced(f) \subseteq Seq(Piece \union {Hole})
    <2>1. body[f] \in Seq(Piece \union {Hole})
        BY DEF Typed, StoreTyped
    <2>2. \A n \in 0..Len(body[f]) : SubSeq(body[f], 1, n) \in Seq(Piece \union {Hole})
        <3> HIDE DEF Piece, Hole
        <3> QED
            BY <2>1
    <2> QED
        BY <2>1, <2>2 DEF LosesUnsynced
<1>2. body' \in [Runs -> Seq(Piece \union {Hole})]
    BY <1>1 DEF PowerLoss
<1>3. up \in [Runs -> UploadType]
    BY DEF Typed, StoreTyped
<1>4. ASSUME NEW r \in Runs
      PROVE  /\ up'[r] \in UploadType /\ up'[r].backend = up[r].backend /\ up'[r].key = up[r].key
             /\ up'[r].pc \notin {"copy", "commit"}
    <2>1. PICK u \in UploadType : u = up[r]
        BY <1>3
    <2>2. up'[r] = IF u.pc \in {"idle", "ok", "error"} THEN u
                   ELSE [u EXCEPT !.pc = "error", !.pos = 0, !.stalled = FALSE]
        BY <2>1 DEF PowerLoss
    <2>3. [u EXCEPT !.pc = "error", !.pos = 0, !.stalled = FALSE] \in UploadType
        BY DEF UploadType
    <2>4. CASE u.pc \in {"idle", "ok", "error"}
        BY <2>1, <2>2, <2>4
    <2>5. CASE u.pc \notin {"idle", "ok", "error"}
        <3>1. up'[r] = [u EXCEPT !.pc = "error", !.pos = 0, !.stalled = FALSE]
            BY <2>2, <2>5
        <3>2. up'[r].backend = u.backend /\ up'[r].key = u.key /\ up'[r].pc = "error"
            BY <3>1 DEF UploadType
        <3> QED
            BY <2>1, <2>3, <3>1, <3>2
    <2> QED
        BY <2>4, <2>5
<1>5. up' \in [Runs -> UploadType]
    BY <1>4 DEF PowerLoss
<1>6. /\ object' \in [Keys -> Runs \union {None}] /\ older' \in [Keys -> SUBSET (Runs \union {None})]
      /\ takenBack' \subseteq Keys /\ UNCHANGED <<temp, synced>>
    BY DEF PowerLoss, Typed, StoreTyped
<1> QED
    BY <1>2, <1>4, <1>5, <1>6 DEF Typed, StoreTyped, SameCalls

--------------------------------------------------------------------------------
(***************************************************************************)
(* The stream.  What has been hashed, what waits in the pipe and what the   *)
(* codecs hold is, read from the outside inward, the stream without a gap.  *)
(***************************************************************************)

\* The pieces that follow the first c of run r's stream.
Numbered(r, c, s) == \A j \in 1..Len(s) : s[j] = <<r, c + j>>

\* a[i] pieces have reached layer i of n, of them the dump's read ones and the trailers
\* of the layers closed; layer n + 1 is the pipe.
LineOf(r, n, layer, read, held, h, s, a) ==
    /\ a[n + 1] = Len(h) + Len(s)
    /\ a[layer] = read + layer - 1
    /\ \A i \in layer..n : a[i] = a[i + 1] + Len(held[i]) /\ Numbered(r, a[i + 1], held[i])
    /\ Numbered(r, 0, h)
    /\ Numbered(r, Len(h), s)

Counts(n) == [1..(n + 1) -> Nat]

Line(r, f, h, s) ==
    \E a \in Counts(Len(f.codecs)) :
        LineOf(r, Len(f.codecs), f.layer, f.read, f.held, h, s, a)

\* An empty queue is numbered from anywhere.
LEMMA NumberedEmpty ==
    ASSUME NEW r, NEW c
    PROVE  Numbered(r, c, <<>>)
BY DEF Numbered

\* Appending the next piece keeps a queue numbered.
LEMMA NumberedAppend ==
    ASSUME NEW r \in Runs, NEW c \in Nat, NEW s \in Seq(Piece), Numbered(r, c, s)
    PROVE  /\ Numbered(r, c, Append(s, <<r, c + Len(s) + 1>>))
           /\ Append(s, <<r, c + Len(s) + 1>>) \in Seq(Piece)
           /\ Len(Append(s, <<r, c + Len(s) + 1>>)) = Len(s) + 1
<1>0. c + Len(s) + 1 \in Nat
    OBVIOUS
<1>1. PICK piece \in Piece : piece = <<r, c + Len(s) + 1>>
    BY <1>0 DEF Piece
<1>2. /\ Append(s, piece) \in Seq(Piece)
      /\ Len(Append(s, piece)) = Len(s) + 1 /\ Len(s) \in Nat
      /\ \A j \in 1..Len(s) : Append(s, piece)[j] = s[j]
      /\ Append(s, piece)[Len(s) + 1] = piece
    BY AppendProperties
<1>3. ASSUME NEW j \in 1..(Len(s) + 1)
      PROVE  Append(s, piece)[j] = <<r, c + j>>
    <2>1. CASE j = Len(s) + 1
        BY <1>1, <1>2, <2>1
    <2>2. CASE j \in 1..Len(s)
        BY <1>2, <2>2 DEF Numbered
    <2> QED
        BY <1>2, <2>1, <2>2
<1> QED
    BY <1>1, <1>2, <1>3 DEF Numbered

\* Taking the head, which is the next piece, leaves the rest numbered.
LEMMA NumberedTail ==
    ASSUME NEW r \in Runs, NEW c \in Nat, NEW s \in Seq(Piece), s # <<>>, Numbered(r, c, s)
    PROVE  /\ Numbered(r, c + 1, Tail(s)) /\ Tail(s) \in Seq(Piece)
           /\ Len(Tail(s)) = Len(s) - 1 /\ Len(s) \in Nat
           /\ Head(s) = <<r, c + 1>>
<1>1. /\ Tail(s) \in Seq(Piece) /\ Len(Tail(s)) = Len(s) - 1 /\ Len(s) \in Nat \ {0}
      /\ \A j \in 1..(Len(s) - 1) : Tail(s)[j] = s[j + 1]
      /\ Head(s) = s[1]
    OBVIOUS
<1>2. ASSUME NEW j \in 1..(Len(s) - 1)
      PROVE  Tail(s)[j] = <<r, (c + 1) + j>>
    <2>1. j + 1 \in 1..Len(s) /\ c + (j + 1) = (c + 1) + j
        BY <1>1
    <2> QED
        BY <1>1, <2>1 DEF Numbered
<1>3. Head(s) = <<r, c + 1>>
    BY <1>1 DEF Numbered
<1> QED
    BY <1>1, <1>2, <1>3 DEF Numbered

\* What a layer holds when one more piece has reached it.
LEMMA ReachedHeld ==
    ASSUME NEW r \in Runs, NEW c \in Nat, NEW s \in Seq(Piece), NEW x, x = c + Len(s),
           Numbered(r, c, s)
    PROVE  x + 1 = c + Len(Append(s, <<r, x + 1>>)) /\ Numbered(r, c, Append(s, <<r, x + 1>>))
<1>1. Len(s) \in Nat
    OBVIOUS
<1> QED
    BY <1>1, NumberedAppend

\* Layer i of n, which c pieces have left, puts out the next one: the head of what it
\* held, or a new piece, of the dump or a trailer.
Puts(r, n, i, c, layer, read, held, layer2, read2, held2) ==
    /\ layer <= i + 1
    /\ \A j \in 1..n : j > i + 1 \/ j < i => held2[j] = held[j]
    /\ i < n => held2[i + 1] = Append(held[i + 1], <<r, c + 1>>)
    /\ \/ /\ layer2 = layer /\ read2 = read /\ layer <= i
          /\ held[i] # <<>> /\ held2[i] = Tail(held[i])
       \/ layer2 = i + 1 /\ c + 1 = read2 + layer2 - 1

\* The piece comes to the next layer, or into the empty pipe.
LEMMA LineOut ==
    ASSUME NEW r \in Runs, NEW n \in Nat, NEW h \in Seq(Piece), NEW a \in Counts(n),
           NEW layer \in 1..(n + 1), NEW read \in Nat, NEW held \in [1..n -> Seq(Piece)],
           LineOf(r, n, layer, read, held, h, <<>>, a),
           NEW i \in 0..n,
           NEW layer2 \in 1..(n + 1), NEW read2 \in Nat, NEW held2 \in [1..n -> Seq(Piece)],
           Puts(r, n, i, a[i + 1], layer, read, held, layer2, read2, held2)
    PROVE  \E b \in Counts(n) : LineOf(r, n, layer2, read2, held2, h,
                                       IF i = n THEN << <<r, a[i + 1] + 1>> >> ELSE <<>>, b)
<1> DEFINE b == [a EXCEPT ![i + 1] = @ + 1]
           s == IF i = n THEN << <<r, a[i + 1] + 1>> >> ELSE <<>>
<1>1. /\ b \in Counts(n) /\ b[i + 1] = a[i + 1] + 1
      /\ \A j \in 1..(n + 1) : a[j] \in Nat /\ (j # i + 1 => b[j] = a[j])
    BY DEF Counts
<1>2. /\ a[n + 1] = Len(h) /\ Numbered(r, 0, h) /\ Len(h) \in Nat
      /\ a[layer] = read + layer - 1
      /\ \A j \in layer..n : a[j] = a[j + 1] + Len(held[j]) /\ Numbered(r, a[j + 1], held[j])
    <2>1. Len(<<>>) = 0 /\ Len(h) \in Nat
        OBVIOUS
    <2>2. a[n + 1] = Len(h) + Len(<<>>)
        BY DEF LineOf
    <2>3. a[n + 1] = Len(h)
        BY <2>1, <2>2
    <2> QED
        BY <2>1, <2>3 DEF LineOf
<1> HIDE DEF b
<1>3. b[n + 1] = Len(h) + Len(s) /\ Numbered(r, Len(h), s)
    <2>1. CASE i = n
        <3>1. PICK p : p = <<r, Len(h) + 1>>
            OBVIOUS
        <3>2. b[n + 1] = Len(h) + 1
            BY <1>1, <1>2, <2>1
        <3>3. s = <<p>>
            BY <1>2, <2>1, <3>1
        <3>4. Len(s) = 1 /\ s[1] = p
            BY <3>3
        <3>5. \A j \in 1 .. Len(s) : s[j] = <<r, Len(h) + j>>
            BY <3>1, <3>4
        <3> QED
            BY <3>2, <3>4, <3>5 DEF Numbered
    <2>2. CASE i # n
        <3>1. s = <<>> /\ Len(s) = 0
            BY <2>2
        <3>2. b[n + 1] = Len(h)
            BY SMTT(30), <1>1, <1>2, <2>2
        <3>3. Numbered(r, Len(h), <<>>)
            BY <1>2, NumberedEmpty
        <3> QED
            BY <1>2, <3>1, <3>2, <3>3
    <2> QED
        BY <2>1, <2>2
<1> HIDE DEF s
<1>4. b[layer2] = read2 + layer2 - 1
    <2>1. \/ layer2 = layer /\ read2 = read /\ layer2 <= i
          \/ layer2 = i + 1 /\ a[i + 1] + 1 = read2 + layer2 - 1
        BY DEF Puts
    <2>2. CASE layer2 = layer /\ read2 = read /\ layer2 <= i
        BY <1>1, <1>2, <2>2
    <2>3. CASE layer2 = i + 1 /\ a[i + 1] + 1 = read2 + layer2 - 1
        BY <1>1, <2>3
    <2> QED
        BY <2>1, <2>2, <2>3
<1>5. ASSUME NEW j \in layer2..n
      PROVE  b[j] = b[j + 1] + Len(held2[j]) /\ Numbered(r, b[j + 1], held2[j])
    <2>1. /\ j \in 1..n /\ j \in layer..n
        BY DEF Puts
    <2>2. /\ held[j] \in Seq(Piece) /\ Len(held[j]) \in Nat
          /\ a[j] \in Nat /\ a[j + 1] \in Nat
        BY <1>1, <2>1
    <2>3. a[j] = a[j + 1] + Len(held[j]) /\ Numbered(r, a[j + 1], held[j])
        BY <1>2, <2>1
    <2>4. PICK c, x : c = a[j + 1] /\ x = a[j]
        OBVIOUS
    <2>5. PICK q : q = held[j]
        OBVIOUS
    <2>6. PICK d, y, p : d = b[j + 1] /\ y = b[j] /\ p = held2[j]
        OBVIOUS
    <2>7. CASE j < i \/ j > i + 1
        <3>1. p = q
            BY <2>1, <2>5, <2>6, <2>7 DEF Puts
        <3>2. y = x /\ d = c
            BY <1>1, <2>1, <2>4, <2>6, <2>7
        <3> QED
            BY <2>3, <2>4, <2>5, <2>6, <3>1, <3>2
    <2>8. CASE j = i + 1
        <3>1. p = Append(q, <<r, x + 1>>)
            BY <2>1, <2>4, <2>5, <2>6, <2>8, SMTT(30) DEF Puts
        <3>2. y = x + 1 /\ d = c
            BY <1>1, <2>1, <2>4, <2>6, <2>8
        <3>3. y = d + Len(p) /\ Numbered(r, d, p)
            BY ZenonT(30), <2>2, <2>3, <2>4, <2>5, <3>1, <3>2, ReachedHeld
        <3> QED
            BY <2>6, <3>3
    <2>9. CASE j = i
        <3>1. q # <<>> /\ p = Tail(q)
            BY <2>1, <2>5, <2>6, <2>9 DEF Puts
        <3>2. y = x /\ d = c + 1
            BY <1>1, <2>1, <2>4, <2>6, <2>9
        <3>3. c \in Nat /\ q \in Seq(Piece) /\ x = c + Len(q) /\ Numbered(r, c, q)
            BY <2>2, <2>3, <2>4, <2>5
        <3>4. Numbered(r, c + 1, p) /\ Len(p) = Len(q) - 1 /\ Len(q) \in Nat
            BY <3>1, <3>3, NumberedTail
        <3>5. y = d + Len(p)
            BY <3>2, <3>3, <3>4
        <3> QED
            BY <2>6, <3>2, <3>4, <3>5
    <2> QED
        BY <2>1, <2>7, <2>8, <2>9
<1>6. LineOf(r, n, layer2, read2, held2, h, s, b)
    BY <1>2, <1>3, <1>4, <1>5 DEF LineOf
<1> QED
    BY <1>1, <1>6 DEF s

\* The producer's state f, the pipe p, the checksum h and the tool t of run r fit.
Flowing(r, f, p, h, t, dead) ==
    /\ f.pc = "idle" => f = NewFeed(f.codecs, f.chunks) /\ p = NewPipe /\ (h = <<>> \/ dead)
    /\ f.pc = "copy" => f.layer = 1 /\ f.err = "none"
    /\ f.pc \in {"close", "done"} /\ f.err = "none" => f.read = f.chunks
    /\ f.pc = "done" /\ f.err # "codec" => f.layer = Len(f.codecs) + 1
    /\ p.writer = "eof" => f.pc = "done" /\ f.err = "none"
    /\ t.state = "exited" /\ ~t.failed => t.wrote = f.chunks
    /\ f.err = "none" /\ p.reader /\ ~dead => Line(r, f, h, p.slot)

Dead(r) == run[r].pc = "dead"
Flow(r) == Flowing(r, feed[r], pipe[r], hash[r], tool[r], Dead(r))
Flows == \A r \in Runs : Flow(r)

SameChains ==
    \A r \in Runs : feed'[r].codecs = feed[r].codecs /\ feed'[r].chunks = feed[r].chunks

\* At first nothing has gone anywhere.
LEMMA NewFlowing ==
    ASSUME NEW r \in Runs, NEW codecs \in Seq(Codecs), NEW chunks \in Nat \ {0},
           NEW t, t.state = "none", NEW h, NEW dead \in BOOLEAN, h = <<>> \/ dead
    PROVE  Flowing(r, NewFeed(codecs, chunks), NewPipe, h, t, dead)
<1> DEFINE n == Len(codecs)
           a == [i \in 1..(n + 1) |-> 0]
<1>1. PICK f : f = NewFeed(codecs, chunks)
    OBVIOUS
<1>2. /\ f.pc = "idle" /\ f.codecs = codecs /\ f.chunks = chunks /\ f.err = "none"
      /\ f.layer = 1 /\ f.read = 0 /\ f.held = [i \in DOMAIN codecs |-> <<>>]
      /\ NewPipe.slot = <<>> /\ NewPipe.writer = "open"
    BY <1>1 DEF NewFeed, NewPipe
<1>3. n \in Nat /\ DOMAIN codecs = 1..n
    OBVIOUS
<1>4. a \in Counts(n) /\ \A i \in 1..(n + 1) : a[i] = 0
    BY <1>3 DEF Counts
<1> HIDE DEF n, a
<1>5. ASSUME ~dead
      PROVE  LineOf(r, n, 1, 0, f.held, h, <<>>, a)
    <2>1. h = <<>> /\ Len(<<>>) = 0
        BY <1>5
    <2>2. \A i \in 1..n : f.held[i] = <<>> /\ i + 1 \in 1..(n + 1) /\ i \in 1..(n + 1)
        BY <1>2, <1>3
    <2>3. \A i \in 1..n : a[i] = a[i + 1] + Len(f.held[i]) /\ Numbered(r, a[i + 1], f.held[i])
        BY <1>4, <2>1, <2>2, NumberedEmpty
    <2>4. a[n + 1] = Len(h) + Len(<<>>) /\ a[1] = 0 + 1 - 1
        BY <1>3, <1>4, <2>1
    <2> QED
        BY <2>1, <2>3, <2>4, NumberedEmpty DEF LineOf
<1>6. ~dead => Line(r, f, h, NewPipe.slot)
    BY <1>2, <1>4, <1>5 DEF Line, n
<1>7. Flowing(r, f, NewPipe, h, t, dead)
    BY <1>1, <1>2, <1>6 DEF Flowing
<1> QED
    BY <1>1, <1>7

\* A step of run r, told by what becomes of its parts.
StreamBecomes(r, u, t, f, p, h) ==
    /\ run' = [run EXCEPT ![r] = u] /\ tool' = [tool EXCEPT ![r] = t]
    /\ feed' = [feed EXCEPT ![r] = f] /\ pipe' = [pipe EXCEPT ![r] = p]
    /\ hash' = [hash EXCEPT ![r] = h]

\* What stays the same also becomes what it was.
LEMMA StreamStays ==
    ASSUME StreamTyped, NEW r \in Runs
    PROVE  /\ run = [run EXCEPT ![r] = run[r]] /\ tool = [tool EXCEPT ![r] = tool[r]]
           /\ feed = [feed EXCEPT ![r] = feed[r]] /\ pipe = [pipe EXCEPT ![r] = pipe[r]]
           /\ hash = [hash EXCEPT ![r] = hash[r]]
           /\ run[r] \in RunType /\ tool[r] \in ToolType /\ feed[r] \in FeedType(Depth(r))
           /\ pipe[r] \in PipeType /\ hash[r] \in Seq(Piece) /\ Len(pipe[r].slot) <= 1
           /\ feed[r].read <= tool[r].wrote /\ tool[r].wrote <= feed[r].chunks
BY DEF StreamTyped, Chunks

\* A step that touches one run only, and leaves that run flowing, leaves all of them flowing.
LEMMA StreamGoes ==
    ASSUME StreamTyped, Flows, NEW r \in Runs,
           NEW u \in RunType, NEW t \in ToolType, NEW f \in FeedType(Depth(r)),
           NEW p \in PipeType, NEW h \in Seq(Piece),
           StreamBecomes(r, u, t, f, p, h),
           f.codecs = feed[r].codecs, f.chunks = feed[r].chunks,
           f.read <= t.wrote, t.wrote <= f.chunks, Len(p.slot) <= 1,
           Flowing(r, f, p, h, t, u.pc = "dead")
    PROVE  StreamTyped' /\ Flows' /\ SameChains
<1>1. /\ run' \in [Runs -> RunType] /\ tool' \in [Runs -> ToolType]
      /\ pipe' \in [Runs -> PipeType] /\ hash' \in [Runs -> Seq(Piece)]
    BY DEF StreamTyped, StreamBecomes
<1>2. feed' = [q \in Runs |-> feed'[q]]
    BY DEF StreamTyped, StreamBecomes
<1>3. /\ run'[r] = u /\ tool'[r] = t /\ feed'[r] = f /\ pipe'[r] = p /\ hash'[r] = h
      /\ \A q \in Runs : q # r =>
            /\ run'[q] = run[q] /\ tool'[q] = tool[q] /\ feed'[q] = feed[q]
            /\ pipe'[q] = pipe[q] /\ hash'[q] = hash[q]
    BY DEF StreamTyped, StreamBecomes
<1>4. SameChains
    BY <1>3 DEF SameChains
<1>5. ASSUME NEW q \in Runs
      PROVE  /\ feed'[q] \in FeedType(Len(feed'[q].codecs))
             /\ feed'[q].read <= tool'[q].wrote /\ tool'[q].wrote <= feed'[q].chunks
             /\ Len(pipe'[q].slot) <= 1
             /\ Flowing(q, feed'[q], pipe'[q], hash'[q], tool'[q], run'[q].pc = "dead")
    <2>1. CASE q = r
        BY <1>3, <2>1 DEF Depth
    <2>2. CASE q # r
        BY <1>3, <2>2 DEF StreamTyped, Flows, Flow, Dead, Depth, Chunks
    <2> QED
        BY <2>1, <2>2
<1>6. StreamTyped'
    BY <1>1, <1>2, <1>5 DEF StreamTyped, Depth, Chunks
<1>7. Flows'
    BY <1>5 DEF Flows, Flow, Dead
<1> QED
    BY <1>4, <1>6, <1>7

\* What Out does to the producer and the pipe.
Passes(n, i, f, piece, g) ==
    /\ g.pc = f.pc /\ g.codecs = f.codecs /\ g.chunks = f.chunks /\ g.layer = f.layer
    /\ g.read = f.read /\ g.err = f.err
    /\ i < n => g.held[i + 1] = Append(f.held[i + 1], piece)
    /\ \A j \in 1..n : j # i + 1 => g.held[j] = f.held[j]
Fills(n, i, piece, q, p) ==
    /\ p.slot = IF i = n THEN <<piece>> ELSE <<>>
    /\ p.reader = q.reader /\ p.writer = q.writer /\ Len(p.slot) <= 1

\* What a layer hands on lands in the next layer or in the pipe.
LEMMA OutBecomes ==
    ASSUME StreamTyped, NEW r \in Runs, NEW n \in Nat, n = Depth(r), Unblocked(r),
           NEW i \in 0..n, NEW f \in FeedType(n), NEW piece \in Piece, Out(r, i, f, piece)
    PROVE  \E g \in FeedType(n), p \in PipeType :
              /\ feed' = [feed EXCEPT ![r] = g] /\ pipe' = [pipe EXCEPT ![r] = p]
              /\ Passes(n, i, f, piece, g) /\ Fills(n, i, piece, pipe[r], p)
<1>1. PICK p0 \in PipeType : p0 = pipe[r] /\ p0.slot = <<>>
    BY DEF StreamTyped, Unblocked
<1>2. CASE i < n
    <2>1. i + 1 \in 1..n /\ f.held \in [1..n -> Seq(Piece)]
        BY <1>2 DEF FeedType
    <2>2. Append(f.held[i + 1], piece) \in Seq(Piece)
        BY <2>1, AppendProperties
    <2> DEFINE g == [f EXCEPT !.held[i + 1] = Append(@, piece)]
    <2>3. /\ g.held = [f.held EXCEPT ![i + 1] = Append(@, piece)]
          /\ g.pc = f.pc /\ g.codecs = f.codecs /\ g.chunks = f.chunks /\ g.layer = f.layer
          /\ g.read = f.read /\ g.err = f.err
        BY DEF FeedType
    <2>4. /\ g.held \in [1..n -> Seq(Piece)]
          /\ g.held[i + 1] = Append(f.held[i + 1], piece)
          /\ \A j \in 1..n : j # i + 1 => g.held[j] = f.held[j]
        BY <2>1, <2>2, <2>3
    <2>5. g \in FeedType(n)
        BY <2>4 DEF FeedType
    <2>6. feed' = [feed EXCEPT ![r] = g] /\ pipe' = pipe
        BY <1>2 DEF Out
    <2>7. pipe' = [pipe EXCEPT ![r] = p0]
        BY <1>1, <2>6, StreamStays
    <2>8. Len(p0.slot) <= 1 /\ p0.slot = IF i = n THEN <<piece>> ELSE <<>>
        BY <1>1, <1>2
    <2> HIDE DEF g
    <2> g \in FeedType(n)
        BY <2>5
    <2> WITNESS g \in FeedType(n), p0 \in PipeType
    <2> QED
        BY <1>1, <2>3, <2>4, <2>6, <2>7, <2>8 DEF Passes, Fills
<1>3. CASE i = n
    <2> DEFINE p == [p0 EXCEPT !.slot = <<piece>>]
    <2>1. <<piece>> \in Seq(Piece) /\ Len(<<piece>>) = 1
        OBVIOUS
    <2>2. p \in PipeType /\ p.slot = <<piece>> /\ p.reader = p0.reader /\ p.writer = p0.writer
        BY <2>1 DEF PipeType
    <2>3. feed' = [feed EXCEPT ![r] = f] /\ pipe' = [pipe EXCEPT ![r] = p]
        BY <1>1, <1>3 DEF Out
    <2> HIDE DEF p
    <2>4. Len(p.slot) <= 1 /\ p.slot = IF i = n THEN <<piece>> ELSE <<>>
        BY <1>3, <2>1, <2>2
    <2>5. i < n => f.held[i + 1] = Append(f.held[i + 1], piece)
        BY <1>3
    <2> p \in PipeType
        BY <2>2
    <2>6. \A j \in 1..n : j # i + 1 => f.held[j] = f.held[j]
        OBVIOUS
    <2> WITNESS f \in FeedType(n), p \in PipeType
    <2> QED
        BY <1>1, <2>2, <2>3, <2>4, <2>5, <2>6 DEF Passes, Fills
<1> QED
    BY <1>2, <1>3

\* The line of pieces after a layer put one out.
LEMMA LineFeed ==
    ASSUME NEW r \in Runs, NEW n \in Nat, NEW f \in FeedType(n), Len(f.codecs) = n,
           NEW g \in FeedType(n), g.codecs = f.codecs, NEW h \in Seq(Piece), NEW i \in 0..n,
           Line(r, f, h, <<>>), NEW piece,
           \A a \in Counts(n) : LineOf(r, n, f.layer, f.read, f.held, h, <<>>, a) =>
              /\ piece = <<r, a[i + 1] + 1>>
              /\ Puts(r, n, i, a[i + 1], f.layer, f.read, f.held, g.layer, g.read, g.held)
    PROVE  Line(r, g, h, IF i = n THEN <<piece>> ELSE <<>>)
<1>1. PICK a \in Counts(n) : LineOf(r, n, f.layer, f.read, f.held, h, <<>>, a)
    BY DEF Line
<1>2. /\ piece = <<r, a[i + 1] + 1>>
      /\ Puts(r, n, i, a[i + 1], f.layer, f.read, f.held, g.layer, g.read, g.held)
    BY <1>1
<1>3. /\ f.layer \in 1..(n + 1) /\ f.read \in Nat /\ f.held \in [1..n -> Seq(Piece)]
      /\ g.layer \in 1..(n + 1) /\ g.read \in Nat /\ g.held \in [1..n -> Seq(Piece)]
    BY DEF FeedType
<1>4. \E b \in Counts(n) : LineOf(r, n, g.layer, g.read, g.held, h,
                                  IF i = n THEN << <<r, a[i + 1] + 1>> >> ELSE <<>>, b)
    BY <1>1, <1>2, <1>3, LineOut
<1> QED
    BY <1>2, <1>4 DEF Line

\* A codec that cannot be built ends the stream with an error.
LEMMA CodecFailsFlows ==
    ASSUME StreamTyped, Flows, NEW r \in Runs, CodecFails(r)
    PROVE  StreamTyped' /\ Flows' /\ SameChains
<1>0. PICK n \in Nat : n = Depth(r)
    BY StreamStays DEF Depth, FeedType
<1>1. PICK f0 \in FeedType(n), p0 \in PipeType : f0 = feed[r] /\ p0 = pipe[r]
    BY <1>0, StreamStays
<1>6. PICK i \in 1..n :
          /\ feed' = [feed EXCEPT ![r].pc = "done", ![r].err = "codec", ![r].layer = i]
          /\ pipe' = [pipe EXCEPT ![r].writer = Terminated("codec")]
    BY <1>0 DEF CodecFails
<1>7. i \in 1..(n + 1) /\ UNCHANGED <<run, tool, hash>>
    BY DEF CodecFails
<1> DEFINE f == [f0 EXCEPT !.pc = "done", !.err = "codec", !.layer = i]
           p == [p0 EXCEPT !.writer = "error"]
<1>2. /\ f \in FeedType(n) /\ f.pc = "done" /\ f.err = "codec"
      /\ f.codecs = f0.codecs /\ f.chunks = f0.chunks /\ f.read = f0.read
    BY <1>7 DEF FeedType
<1>3. p \in PipeType /\ p.writer = "error" /\ p.slot = p0.slot
    BY DEF PipeType
<1>4. StreamBecomes(r, run[r], tool[r], f, p, hash[r])
    BY <1>1, <1>6, <1>7, StreamStays DEF StreamBecomes, Terminated
<1> HIDE DEF f, p
<1>5. Flowing(r, f, p, hash[r], tool[r], run[r].pc = "dead")
    BY <1>1, <1>2, <1>3 DEF Flows, Flow, Flowing
<1> QED
    BY <1>0, <1>1, <1>2, <1>3, <1>4, <1>5, StreamStays, StreamGoes, ZenonT(40)

\* f is the producer f0 when its layer i has let go of the next of its pieces, c of which
\* went before: the head of what it held, or a new one, of the dump or a trailer.
Takes(n, i, c, f0, f) ==
    /\ f0.layer <= i + 1 /\ \A j \in 1..n : j # i => f.held[j] = f0.held[j]
    /\ \/ /\ f.layer = f0.layer /\ f.read = f0.read /\ f0.layer <= i
          /\ f0.held[i] # <<>> /\ f.held[i] = Tail(f0.held[i])
       \/ f.layer = i + 1 /\ c + 1 = f.read + f.layer - 1

Gives(r, n, i, f0, h, f, piece) ==
    \A a \in Counts(n) : LineOf(r, n, f0.layer, f0.read, f0.held, h, <<>>, a) =>
        piece = <<r, a[i + 1] + 1>> /\ Takes(n, i, a[i + 1], f0, f)

\* A layer that takes the next piece and hands it on neither loses nor repeats one.
LEMMA TakesPuts ==
    ASSUME NEW r \in Runs, NEW n \in Nat, NEW i \in 0..n, NEW c \in Nat,
           NEW f0 \in FeedType(n), NEW f \in FeedType(n), NEW g \in FeedType(n),
           Takes(n, i, c, f0, f), Passes(n, i, f, <<r, c + 1>>, g)
    PROVE  Puts(r, n, i, c, f0.layer, f0.read, f0.held, g.layer, g.read, g.held)
<1>1. f0.layer <= i + 1
    BY DEF Takes
<1>2. \A j \in 1..n : j > i + 1 \/ j < i => g.held[j] = f0.held[j]
    BY DEF Takes, Passes
<1>3. i < n => g.held[i + 1] = Append(f0.held[i + 1], <<r, c + 1>>)
    <2>1. i < n => i + 1 \in 1..n /\ i + 1 # i
        OBVIOUS
    <2> QED
        BY <2>1 DEF Takes, Passes
<1>4. g.layer = f.layer /\ g.read = f.read
    BY DEF Passes
<1>5. f0.layer <= i => g.held[i] = f.held[i]
    <2>1. f0.layer <= i => i \in 1..n /\ i # i + 1
        BY DEF FeedType
    <2> QED
        BY <2>1 DEF Passes
<1>6. \/ /\ g.layer = f0.layer /\ g.read = f0.read /\ f0.layer <= i
         /\ f0.held[i] # <<>> /\ g.held[i] = Tail(f0.held[i])
      \/ g.layer = i + 1 /\ c + 1 = g.read + g.layer - 1
    BY <1>4, <1>5 DEF Takes
<1> QED
    BY <1>1, <1>2, <1>3, <1>6 DEF Puts

\* A layer puts out its next piece.
LEMMA OutFlows ==
    ASSUME StreamTyped, Flows, NEW r \in Runs, NEW n \in Nat, n = Depth(r), Unblocked(r),
           NEW i \in 0..n, NEW f \in FeedType(n), NEW piece \in Piece, Out(r, i, f, piece),
           UNCHANGED <<run, tool, hash>>,
           f.codecs = feed[r].codecs, f.chunks = feed[r].chunks, f.err = feed[r].err,
           f.pc = feed[r].pc, f.pc \in {"copy", "close"}, f.pc = "copy" => f.layer = 1,
           f.read <= tool[r].wrote, f.pc = "close" => f.read = feed[r].read,
           Gives(r, n, i, feed[r], hash[r], f, piece)
    PROVE  StreamTyped' /\ Flows' /\ SameChains
<1>1. PICK f0 \in FeedType(n) : f0 = feed[r] /\ Len(f0.codecs) = n
    BY StreamStays DEF Depth
<1>2. PICK g \in FeedType(n), p \in PipeType :
          /\ feed' = [feed EXCEPT ![r] = g] /\ pipe' = [pipe EXCEPT ![r] = p]
          /\ Passes(n, i, f, piece, g) /\ Fills(n, i, piece, pipe[r], p)
    BY OutBecomes
<1>3. /\ g.pc = f.pc /\ g.codecs = f.codecs /\ g.chunks = f.chunks /\ g.layer = f.layer
      /\ g.read = f.read /\ g.err = f.err
      /\ p.slot = IF i = n THEN <<piece>> ELSE <<>>
      /\ p.reader = pipe[r].reader /\ p.writer = pipe[r].writer /\ Len(p.slot) <= 1
    BY <1>2 DEF Passes, Fills
<1>4. hash[r] \in Seq(Piece) /\ pipe[r].slot = <<>>
    BY StreamStays DEF Unblocked
<1>5. ASSUME NEW a \in Counts(n), LineOf(r, n, f0.layer, f0.read, f0.held, hash[r], <<>>, a)
      PROVE  /\ piece = <<r, a[i + 1] + 1>>
             /\ Puts(r, n, i, a[i + 1], f0.layer, f0.read, f0.held, g.layer, g.read, g.held)
    <2>1. PICK c \in Nat : c = a[i + 1]
        BY DEF Counts
    <2>2. piece = <<r, c + 1>> /\ Takes(n, i, c, f0, f)
        BY <1>1, <1>5, <2>1 DEF Gives
    <2>3. Passes(n, i, f, <<r, c + 1>>, g)
        BY <1>2, <2>2
    <2>4. Puts(r, n, i, c, f0.layer, f0.read, f0.held, g.layer, g.read, g.held)
        BY <2>2, <2>3, TakesPuts
    <2> QED
        BY <2>1, <2>2, <2>4
<1>6. Flowing(r, f0, pipe[r], hash[r], tool[r], run[r].pc = "dead")
    BY <1>1 DEF Flows, Flow, Dead
<1>7. f0.err = "none" /\ pipe[r].reader /\ run[r].pc # "dead" => Line(r, f0, hash[r], <<>>)
    BY <1>4, <1>6 DEF Flowing
<1>8. f0.err = "none" /\ pipe[r].reader /\ run[r].pc # "dead" => Line(r, g, hash[r], p.slot)
    <2>1. PICK h \in Seq(Piece) : h = hash[r]
        BY <1>4
    <2>2. g.codecs = f0.codecs
        BY <1>1, <1>3
    <2>3. \A a \in Counts(n) : LineOf(r, n, f0.layer, f0.read, f0.held, h, <<>>, a) =>
              /\ piece = <<r, a[i + 1] + 1>>
              /\ Puts(r, n, i, a[i + 1], f0.layer, f0.read, f0.held, g.layer, g.read, g.held)
        BY <1>5, <2>1
    <2>4. Line(r, f0, h, <<>>) => Line(r, g, h, IF i = n THEN <<piece>> ELSE <<>>)
        BY <1>1, <2>2, <2>3, LineFeed
    <2> QED
        BY <1>3, <1>7, <2>1, <2>4
<1>9. Flowing(r, g, p, hash[r], tool[r], run[r].pc = "dead")
    BY <1>1, <1>3, <1>6, <1>8 DEF Flowing
<1>10. StreamBecomes(r, run[r], tool[r], g, p, hash[r])
    BY <1>2, StreamStays DEF StreamBecomes
<1>11. /\ g.codecs = feed[r].codecs /\ g.chunks = feed[r].chunks
       /\ g.read <= tool[r].wrote /\ tool[r].wrote <= g.chunks /\ Len(p.slot) <= 1
       /\ run[r] \in RunType /\ tool[r] \in ToolType /\ g \in FeedType(Depth(r))
    BY <1>1, <1>3, StreamStays
<1> HIDE DEF Gives, Piece
<1> QED
    BY <1>4, <1>9, <1>10, <1>11, StreamGoes

\* A numbered piece of a run is a piece.
LEMMA PieceMade ==
    ASSUME NEW r \in Runs, NEW m \in Nat
    PROVE  <<r, m>> \in Piece
BY DEF Piece

\* After an error the producer's line no longer counts.
LEMMA FeedFailsFlows ==
    ASSUME StreamTyped, Flows, NEW r \in Runs, NEW g \in FeedType(Depth(r)),
           feed' = [feed EXCEPT ![r] = g], UNCHANGED <<run, tool, pipe, hash>>,
           feed[r].pc \in {"copy", "close"}, g.pc = "close", g.err # "none",
           g.codecs = feed[r].codecs, g.chunks = feed[r].chunks, g.read <= tool[r].wrote
    PROVE  StreamTyped' /\ Flows' /\ SameChains
<1>1. Flowing(r, feed[r], pipe[r], hash[r], tool[r], run[r].pc = "dead")
    BY DEF Flows, Flow, Dead
<1>2. Flowing(r, g, pipe[r], hash[r], tool[r], run[r].pc = "dead")
    BY <1>1 DEF Flowing
<1>3. StreamBecomes(r, run[r], tool[r], g, pipe[r], hash[r])
    BY StreamStays DEF StreamBecomes
<1>4. /\ run[r] \in RunType /\ tool[r] \in ToolType /\ pipe[r] \in PipeType
      /\ hash[r] \in Seq(Piece) /\ tool[r].wrote <= g.chunks /\ Len(pipe[r].slot) <= 1
    BY StreamStays
<1> QED
    BY <1>2, <1>3, <1>4, StreamGoes

\* io.Copy puts the dump's next piece into the chain.
LEMMA CopyPieceFlows ==
    ASSUME StreamTyped, Flows, NEW r \in Runs, CopyPiece(r)
    PROVE  StreamTyped' /\ Flows' /\ SameChains
<1>0. PICK n \in Nat : n = Depth(r)
    BY StreamStays DEF Depth, FeedType
<1>1. PICK f0 \in FeedType(n) : f0 = feed[r] /\ Len(f0.codecs) = n
    BY <1>0, StreamStays DEF Depth
<1>2. /\ f0.pc = "copy" /\ f0.read < tool[r].wrote /\ Unblocked(r)
      /\ UNCHANGED <<run, tool, hash>>
    BY <1>1 DEF CopyPiece
<1>3. f0.layer = 1 /\ f0.err = "none"
    BY <1>1, <1>2 DEF Flows, Flow, Flowing
<1>4. PICK m \in Nat : f0.read \in Nat /\ m = f0.read + 1 /\ m <= tool[r].wrote
    <2>1. f0.read \in Nat /\ tool[r].wrote \in Nat
        BY StreamStays DEF FeedType, ToolType
    <2> QED
        BY <1>2, <2>1
<1> DEFINE f == [f0 EXCEPT !.read = m]
<1>5. /\ f.read = m /\ f.codecs = f0.codecs /\ f.chunks = f0.chunks /\ f.pc = f0.pc
      /\ f.layer = f0.layer /\ f.err = f0.err /\ f.held = f0.held /\ f \in FeedType(n)
    BY DEF FeedType
<1>6. CASE Broken(r, 0)
    <2> DEFINE g == [f EXCEPT !.pc = "close", !.err = "write"]
    <2>1. /\ g \in FeedType(n) /\ g.pc = "close" /\ g.err = "write"
          /\ g.codecs = f.codecs /\ g.chunks = f.chunks /\ g.read = f.read
        BY <1>5 DEF FeedType
    <2>2. feed' = [feed EXCEPT ![r] = g] /\ UNCHANGED pipe
        BY <1>1, <1>4, <1>6 DEF CopyPiece
    <2> HIDE DEF f, g
    <2> QED
        BY <1>0, <1>1, <1>2, <1>4, <1>5, <2>1, <2>2, FeedFailsFlows
<1>7. CASE Out(r, 0, f, <<r, m>>)
    <2> HIDE DEF f
    <2>1. <<r, m>> \in Piece
        BY PieceMade
    <2>2. Gives(r, n, 0, f0, hash[r], f, <<r, m>>)
        <3>1. ASSUME NEW a \in Counts(n), LineOf(r, n, f0.layer, f0.read, f0.held, hash[r], <<>>, a)
              PROVE  <<r, m>> = <<r, a[0 + 1] + 1>> /\ Takes(n, 0, a[0 + 1], f0, f)
            <4>1. a[1] = f0.read
                BY <1>3, <1>4, <3>1 DEF LineOf
            <4>2. PICK c : c = a[0 + 1] /\ c = f0.read
                BY <4>1
            <4>3. Takes(n, 0, c, f0, f)
                BY <1>3, <1>4, <1>5, <4>2 DEF Takes
            <4> QED
                BY <1>4, <4>2, <4>3
        <3> QED
            BY <3>1 DEF Gives
    <2>3. 0 \in 0..n
        OBVIOUS
    <2> HIDE DEF Piece, Gives
    <2> QED
        BY <1>0, <1>1, <1>2, <1>3, <1>4, <1>5, <1>7, <2>1, <2>2, <2>3, OutFlows
<1> QED
    BY <1>1, <1>4, <1>6, <1>7 DEF CopyPiece

\* A layer that holds something passes on the head of it.
HeadTaken(f0, i) == [f0 EXCEPT !.held[i] = Tail(@)]

\* Taking the first held piece out of a layer gives the next one of the stream.
LEMMA HeadTakenTyped ==
    ASSUME NEW r \in Runs, NEW n \in Nat, NEW i \in 1..n, NEW f0 \in FeedType(n), f0.held[i] # <<>>,
           f0.layer <= i, NEW h
    PROVE  /\ HeadTaken(f0, i) \in FeedType(n) /\ Head(f0.held[i]) \in Piece
           /\ HeadTaken(f0, i).pc = f0.pc /\ HeadTaken(f0, i).codecs = f0.codecs
           /\ HeadTaken(f0, i).chunks = f0.chunks /\ HeadTaken(f0, i).layer = f0.layer
           /\ HeadTaken(f0, i).read = f0.read /\ HeadTaken(f0, i).err = f0.err
           /\ Gives(r, n, i, f0, h, HeadTaken(f0, i), Head(f0.held[i]))
<1>1. f0.held \in [1..n -> Seq(Piece)] /\ f0.held[i] \in Seq(Piece)
    BY DEF FeedType
<1>2. PICK q \in Seq(Piece) : q = f0.held[i] /\ q # <<>>
    BY <1>1
<1>3. Tail(q) \in Seq(Piece) /\ Head(q) \in Piece
    BY <1>2
<1>4. HeadTaken(f0, i).held = [f0.held EXCEPT ![i] = Tail(q)]
    BY <1>2 DEF HeadTaken, FeedType
<1>5. /\ HeadTaken(f0, i).pc = f0.pc /\ HeadTaken(f0, i).codecs = f0.codecs
      /\ HeadTaken(f0, i).chunks = f0.chunks /\ HeadTaken(f0, i).layer = f0.layer
      /\ HeadTaken(f0, i).read = f0.read /\ HeadTaken(f0, i).err = f0.err
    BY DEF HeadTaken, FeedType
<1>6. [f0.held EXCEPT ![i] = Tail(q)] \in [1..n -> Seq(Piece)]
    BY <1>1, <1>3
<1>7. HeadTaken(f0, i) = [f0 EXCEPT !.held = [f0.held EXCEPT ![i] = Tail(q)]]
    BY <1>2 DEF HeadTaken
<1>8. HeadTaken(f0, i) \in FeedType(n)
    BY <1>6, <1>7 DEF FeedType
<1>9. ASSUME NEW a \in Counts(n), LineOf(r, n, f0.layer, f0.read, f0.held, h, <<>>, a)
      PROVE  Head(f0.held[i]) = <<r, a[i + 1] + 1>> /\ Takes(n, i, a[i + 1], f0, HeadTaken(f0, i))
    <2>1. PICK c \in Nat : c = a[i + 1]
        BY DEF Counts
    <2>2. i \in f0.layer..n
        BY DEF FeedType
    <2>3. Numbered(r, c, q)
        BY <1>2, <1>9, <2>1, <2>2 DEF LineOf
    <2>4. Head(q) = <<r, c + 1>>
        BY <1>2, <2>3, NumberedTail
    <2>5. f0.layer <= i + 1
        BY DEF FeedType
    <2>6. Takes(n, i, c, f0, HeadTaken(f0, i))
        BY <1>1, <1>2, <1>4, <1>5, <2>5 DEF Takes
    <2> QED
        BY <1>2, <2>1, <2>4, <2>6
<1> QED
    BY <1>2, <1>3, <1>5, <1>8, <1>9 DEF Gives

\* A layer passing a piece on keeps the stream in order.
LEMMA PassOnFlows ==
    ASSUME StreamTyped, Flows, NEW r \in Runs, PassOn(r)
    PROVE  StreamTyped' /\ Flows' /\ SameChains
<1>0. PICK n \in Nat : n = Depth(r)
    BY StreamStays DEF Depth, FeedType
<1>1. PICK f0 \in FeedType(n) : f0 = feed[r]
    BY <1>0, StreamStays
<1>2. PICK i \in 1..n :
          /\ f0.held[i] # <<>>
          /\ IF Broken(r, i)
             THEN /\ feed' = [feed EXCEPT ![r] = [HeadTaken(f0, i) EXCEPT !.pc = "close", !.err = "write"]]
                  /\ UNCHANGED pipe
             ELSE Out(r, i, HeadTaken(f0, i), Head(f0.held[i]))
    BY <1>0, <1>1 DEF PassOn, HeadTaken
<1>3. f0.pc = "copy" /\ Unblocked(r) /\ UNCHANGED <<run, tool, hash>>
    BY <1>1 DEF PassOn
<1>4. f0.layer = 1
    BY <1>1, <1>3 DEF Flows, Flow, Flowing
<1>5. f0.read <= tool[r].wrote /\ f0.layer <= i
    BY <1>1, <1>4, StreamStays
<1>6. PICK f \in FeedType(n) : f = HeadTaken(f0, i) /\ f.pc = f0.pc /\ f.codecs = f0.codecs
          /\ f.chunks = f0.chunks /\ f.layer = f0.layer /\ f.read = f0.read /\ f.err = f0.err
          /\ Gives(r, n, i, f0, hash[r], f, Head(f0.held[i])) /\ Head(f0.held[i]) \in Piece
    BY <1>2, <1>5, HeadTakenTyped
<1>7. CASE Broken(r, i)
    <2> DEFINE g == [f EXCEPT !.pc = "close", !.err = "write"]
    <2>1. /\ g \in FeedType(n) /\ g.pc = "close" /\ g.err = "write"
          /\ g.codecs = f.codecs /\ g.chunks = f.chunks /\ g.read = f.read
        BY DEF FeedType
    <2>2. feed' = [feed EXCEPT ![r] = g] /\ UNCHANGED pipe
        BY <1>2, <1>6, <1>7
    <2> HIDE DEF g
    <2> QED
        BY <1>0, <1>1, <1>3, <1>5, <1>6, <2>1, <2>2, FeedFailsFlows
<1>8. CASE ~Broken(r, i)
    <2>1. Out(r, i, f, Head(f0.held[i])) /\ i \in 0..n
        BY <1>2, <1>6, <1>8
    <2> HIDE DEF Piece, Gives
    <2> QED
        BY <1>0, <1>1, <1>3, <1>4, <1>5, <1>6, <2>1, OutFlows
<1> QED
    BY <1>7, <1>8

\* A codec is closed: it passes on what it held, then its trailer.
LEMMA CloseCodecFlows ==
    ASSUME StreamTyped, Flows, NEW r \in Runs, CloseCodec(r)
    PROVE  StreamTyped' /\ Flows' /\ SameChains
<1>0. PICK n \in Nat : n = Depth(r)
    BY StreamStays DEF Depth, FeedType
<1>1. PICK f0 \in FeedType(n) : f0 = feed[r]
    BY <1>0, StreamStays
<1>2. PICK i \in 1..n : i = f0.layer
    BY <1>0, <1>1 DEF CloseCodec, FeedType
<1> f0.layer <= i /\ f0.layer <= i + 1 /\ i + 1 \in 1..(n + 1)
    BY <1>2
<1>3. f0.pc = "close" /\ Unblocked(r) /\ UNCHANGED <<run, tool, hash>>
    BY <1>1 DEF CloseCodec
<1>4. /\ f0.read \in Nat /\ f0.chunks \in Nat /\ f0.held \in [1..n -> Seq(Piece)]
      /\ f0.read <= tool[r].wrote
    BY <1>1, StreamStays DEF FeedType
<1>5. ASSUME NEW f \in FeedType(n), f.codecs = f0.codecs, f.chunks = f0.chunks, f.read = f0.read,
             Broken(r, i),
             feed' = [feed EXCEPT ![r] = [f EXCEPT !.layer = i + 1, !.held[i] = <<>>,
                                                   !.err = IF @ = "none" THEN "close" ELSE @]],
             UNCHANGED pipe, f.pc = "close"
      PROVE  StreamTyped' /\ Flows' /\ SameChains
    <2> DEFINE g == [f EXCEPT !.layer = i + 1, !.held[i] = <<>>,
                              !.err = IF @ = "none" THEN "close" ELSE @]
    <2>1. [f.held EXCEPT ![i] = <<>>] \in [1..n -> Seq(Piece)] /\ i + 1 \in 1..(n + 1)
        BY DEF FeedType
    <2>2. g \in FeedType(n)
        BY <2>1 DEF FeedType
    <2>3. /\ g.pc = "close" /\ g.err # "none"
          /\ g.codecs = f.codecs /\ g.chunks = f.chunks /\ g.read = f.read
        BY <1>5 DEF FeedType
    <2>4. feed' = [feed EXCEPT ![r] = g] /\ UNCHANGED pipe
        BY <1>5
    <2> HIDE DEF g
    <2> QED
        BY <1>0, <1>1, <1>3, <1>4, <1>5, <2>2, <2>3, <2>4, FeedFailsFlows
<1>6. CASE f0.held[i] # <<>>
    <2>1. PICK f \in FeedType(n) : f = HeadTaken(f0, i) /\ f.pc = f0.pc /\ f.codecs = f0.codecs
              /\ f.chunks = f0.chunks /\ f.layer = f0.layer /\ f.read = f0.read /\ f.err = f0.err
              /\ Gives(r, n, i, f0, hash[r], f, Head(f0.held[i])) /\ Head(f0.held[i]) \in Piece
        BY <1>2, <1>6, HeadTakenTyped
    <2>2. CASE Broken(r, i)
        <3>1. /\ feed' = [feed EXCEPT ![r] = [f EXCEPT !.layer = i + 1, !.held[i] = <<>>,
                                                       !.err = IF @ = "none" THEN "close" ELSE @]]
              /\ UNCHANGED pipe
            BY <1>1, <1>2, <1>6, <2>1, <2>2 DEF CloseCodec, HeadTaken
        <3> QED
            BY <1>3, <1>5, <2>1, <2>2, <3>1
    <2>3. CASE ~Broken(r, i)
        <3>1. Out(r, i, f, Head(f0.held[i])) /\ i \in 0..n
            BY <1>1, <1>2, <1>6, <2>1, <2>3 DEF CloseCodec, HeadTaken
        <3> HIDE DEF Piece, Gives
        <3> QED
            BY <1>0, <1>1, <1>3, <1>4, <2>1, <3>1, OutFlows
    <2> QED
        BY <2>2, <2>3
<1>7. CASE f0.held[i] = <<>>
    <2> DEFINE f == [f0 EXCEPT !.layer = i + 1]
    <2>1. /\ f.layer = i + 1 /\ f.pc = f0.pc /\ f.codecs = f0.codecs /\ f.chunks = f0.chunks
          /\ f.read = f0.read /\ f.err = f0.err /\ f.held = f0.held /\ f \in FeedType(n)
        BY DEF FeedType
    <2>2. CASE Broken(r, i)
        <3>1. /\ feed' = [feed EXCEPT ![r] = [f EXCEPT !.layer = i + 1, !.held[i] = <<>>,
                                                       !.err = IF @ = "none" THEN "close" ELSE @]]
              /\ UNCHANGED pipe
            BY <1>1, <1>2, <1>7, <2>2 DEF CloseCodec
        <3> HIDE DEF f
        <3> QED
            BY <1>3, <1>5, <2>1, <2>2, <3>1
    <2>3. CASE ~Broken(r, i) /\ f0.err = "none"
        <3>1. f0.read = f0.chunks
            BY <1>1, <1>3, <2>3 DEF Flows, Flow, Flowing
        <3>2. PICK m \in Nat : m = f0.read + i /\ m = f0.chunks + i
            BY <1>4, <3>1
        <3>3. Out(r, i, f, <<r, m>>) /\ i \in 0..n
            BY <1>1, <1>2, <1>7, <2>3, <3>2 DEF CloseCodec, Chunks
        <3> HIDE DEF f
        <3>4. ASSUME NEW a \in Counts(n), LineOf(r, n, f0.layer, f0.read, f0.held, hash[r], <<>>, a)
              PROVE  <<r, m>> = <<r, a[i + 1] + 1>> /\ Takes(n, i, a[i + 1], f0, f)
            <4>1. PICK c \in Nat : c = a[i + 1]
                BY DEF Counts
            <4>2. a[i] = f0.read + i - 1 /\ a[i] = a[i + 1] + Len(<<>>)
                BY <1>2, <1>7, <3>4 DEF LineOf
            <4>3. Len(<<>>) = 0
                OBVIOUS
            <4>4. c = f0.read + i - 1
                BY <4>1, <4>2, <4>3
            <4>5. Takes(n, i, c, f0, f)
                <5>1. f.layer = i + 1 /\ c + 1 = f.read + f.layer - 1
                    BY <1>4, <2>1, <4>4
                <5>2. \A j \in 1..n : j # i => f.held[j] = f0.held[j]
                    BY <2>1
                <5> QED
                    BY <5>1, <5>2 DEF Takes
            <4>6. m = c + 1
                BY <1>4, <3>2, <4>4
            <4> QED
                BY <4>1, <4>5, <4>6
        <3>5. Gives(r, n, i, f0, hash[r], f, <<r, m>>)
            BY <3>4 DEF Gives
        <3>6. <<r, m>> \in Piece
            BY PieceMade
        <3> HIDE DEF Piece, Gives
        <3> QED
            BY <1>0, <1>1, <1>3, <1>4, <2>1, <3>3, <3>5, <3>6, OutFlows
    <2>4. CASE ~Broken(r, i) /\ f0.err # "none"
        <3>1. PICK m \in Nat : m = f0.chunks + i
            BY <1>4
        <3>2. Out(r, i, f, <<r, m>>) /\ i \in 0..n
            BY <1>1, <1>2, <1>7, <2>4, <3>1 DEF CloseCodec, Chunks
        <3> HIDE DEF f
        <3>3. <<r, m>> \in Piece
            BY PieceMade
        <3>4. PICK g \in FeedType(n), p \in PipeType :
                  /\ feed' = [feed EXCEPT ![r] = g] /\ pipe' = [pipe EXCEPT ![r] = p]
                  /\ Passes(n, i, f, <<r, m>>, g) /\ Fills(n, i, <<r, m>>, pipe[r], p)
            <4> HIDE DEF Piece
            <4> QED
                BY <1>0, <1>3, <2>1, <3>2, <3>3, OutBecomes
        <3>5. /\ g.pc = f.pc /\ g.codecs = f.codecs /\ g.chunks = f.chunks /\ g.read = f.read
              /\ g.err = f.err
              /\ p.writer = pipe[r].writer /\ Len(p.slot) <= 1
            BY <3>4 DEF Passes, Fills
        <3>6. Flowing(r, g, p, hash[r], tool[r], run[r].pc = "dead")
            BY <1>1, <1>3, <2>1, <2>4, <3>5 DEF Flows, Flow, Flowing
        <3>7. StreamBecomes(r, run[r], tool[r], g, p, hash[r])
            BY <1>3, <3>4, StreamStays DEF StreamBecomes
        <3>8. /\ run[r] \in RunType /\ tool[r] \in ToolType /\ hash[r] \in Seq(Piece)
              /\ tool[r].wrote <= g.chunks /\ g.read <= tool[r].wrote /\ g \in FeedType(Depth(r))
              /\ g.codecs = feed[r].codecs /\ g.chunks = feed[r].chunks
            BY <1>0, <1>1, <2>1, <3>5, StreamStays
        <3> QED
            BY <3>5, <3>6, <3>7, <3>8, StreamGoes
    <2> QED
        BY <2>2, <2>3, <2>4
<1> QED
    BY <1>6, <1>7

\* A layer whose Close fails keeps the stream in order.
LEMMA CloseFailsFlows ==
    ASSUME StreamTyped, Flows, NEW r \in Runs, CloseFails(r)
    PROVE  StreamTyped' /\ Flows' /\ SameChains
<1>0. PICK n \in Nat : n = Depth(r)
    BY StreamStays DEF Depth, FeedType
<1>1. PICK f \in FeedType(n) : f = feed[r] /\ f.read <= tool[r].wrote
    BY <1>0, StreamStays
<1>2. PICK i \in 1..n : i = f.layer
    BY <1>0, <1>1 DEF CloseFails, FeedType
<1>3. f.pc = "close" /\ UNCHANGED <<run, tool, pipe, hash>>
    BY <1>1 DEF CloseFails
<1> DEFINE g == [f EXCEPT !.layer = i + 1, !.held[i] = <<>>,
                          !.err = IF @ = "none" THEN "close" ELSE @]
<1>4. [f.held EXCEPT ![i] = <<>>] \in [1..n -> Seq(Piece)] /\ i + 1 \in 1..(n + 1)
    BY DEF FeedType
<1>5. g \in FeedType(n)
    BY <1>4 DEF FeedType
<1>6. /\ g.pc = "close" /\ g.err # "none"
      /\ g.codecs = f.codecs /\ g.chunks = f.chunks /\ g.read = f.read
    BY <1>3 DEF FeedType
<1>7. feed' = [feed EXCEPT ![r] = g]
    BY <1>1, <1>2 DEF CloseFails
<1> HIDE DEF g
<1> QED
    BY <1>0, <1>1, <1>3, <1>5, <1>6, <1>7, FeedFailsFlows

\* The end of the stream, or its error, is told to the storage.
LEMMA ClosePipeFlows ==
    ASSUME StreamTyped, Flows, NEW r \in Runs, ClosePipe(r)
    PROVE  StreamTyped' /\ Flows' /\ SameChains
<1>0. PICK n \in Nat : n = Depth(r)
    BY StreamStays DEF Depth, FeedType
<1>1. PICK f0 \in FeedType(n), p0 \in PipeType : f0 = feed[r] /\ p0 = pipe[r]
    BY <1>0, StreamStays
<1> DEFINE f == [f0 EXCEPT !.pc = "done"]
           p == [p0 EXCEPT !.writer = Terminated(f0.err)]
<1>2. /\ f \in FeedType(n) /\ f.pc = "done" /\ f.err = f0.err /\ f.layer = f0.layer
      /\ f.codecs = f0.codecs /\ f.chunks = f0.chunks /\ f.read = f0.read /\ f.held = f0.held
    BY DEF FeedType
<1>3. /\ p \in PipeType /\ p.writer = Terminated(f0.err) /\ p.slot = p0.slot /\ p.reader = p0.reader
    BY DEF PipeType, Terminated
<1>4. StreamBecomes(r, run[r], tool[r], f, p, hash[r])
    BY <1>1, StreamStays DEF ClosePipe, StreamBecomes
<1>5. f0.pc = "close" /\ f0.layer = n + 1 /\ Len(f0.codecs) = n
    BY <1>0, <1>1 DEF ClosePipe, FeedType, Depth
<1> HIDE DEF f, p
<1>6. Flowing(r, f0, p0, hash[r], tool[r], run[r].pc = "dead")
    BY <1>1 DEF Flows, Flow, Dead
<1>7. Flowing(r, f, p, hash[r], tool[r], run[r].pc = "dead")
    BY <1>2, <1>3, <1>5, <1>6 DEF Flowing, Line, Terminated
<1> QED
    BY <1>0, <1>1, <1>2, <1>3, <1>4, <1>7, StreamStays, StreamGoes

\* A dump that ended well was copied to its last piece.
LEMMA DumpEndsFlows ==
    ASSUME StreamTyped, Flows, NEW r \in Runs, DumpEnds(r)
    PROVE  StreamTyped' /\ Flows' /\ SameChains
<1>0. PICK n \in Nat : n = Depth(r)
    BY StreamStays DEF Depth, FeedType
<1>1. PICK f0 \in FeedType(n), t0 \in ToolType : f0 = feed[r] /\ t0 = tool[r]
    BY <1>0, StreamStays
<1> DEFINE f == [f0 EXCEPT !.pc = "close", !.err = IF t0.failed THEN "dump" ELSE @]
           t == [t0 EXCEPT !.state = "reaped"]
<1>2. /\ f \in FeedType(n) /\ f.pc = "close" /\ f.err = (IF t0.failed THEN "dump" ELSE f0.err)
      /\ f.layer = f0.layer /\ f.codecs = f0.codecs /\ f.chunks = f0.chunks
      /\ f.read = f0.read /\ f.held = f0.held
    BY DEF FeedType
<1>3. t \in ToolType /\ t.state = "reaped" /\ t.wrote = t0.wrote
    BY DEF ToolType
<1>4. StreamBecomes(r, run[r], t, f, pipe[r], hash[r])
    BY <1>1, StreamStays DEF DumpEnds, ReadEnd, ToolBecomes, EndsInError, StreamBecomes
<1>5. f0.pc = "copy" /\ f0.read = t0.wrote /\ t0.state = "exited"
    BY <1>1 DEF DumpEnds, Drained
<1> HIDE DEF f, t
<1>6. Flowing(r, f0, pipe[r], hash[r], t0, run[r].pc = "dead")
    BY <1>1 DEF Flows, Flow, Dead
<1>7. Flowing(r, f, pipe[r], hash[r], t, run[r].pc = "dead")
    BY <1>2, <1>3, <1>5, <1>6 DEF Flowing, Line
<1> QED
    BY <1>0, <1>1, <1>2, <1>3, <1>4, <1>7, StreamStays, StreamGoes

\* The tool and RunPipeline leave the producer's line alone.
LEMMA ToolFlows ==
    ASSUME StreamTyped, Flows, NEW r \in Runs, NEW u \in RunType, NEW t \in ToolType,
           run' = [run EXCEPT ![r] = u], tool' = [tool EXCEPT ![r] = t],
           UNCHANGED <<feed, pipe, hash>>,
           u.pc = "dead" <=> run[r].pc = "dead",
           tool[r].wrote <= t.wrote, t.wrote <= Chunks(r),
           t.state = "exited" /\ ~t.failed => t.wrote = Chunks(r)
    PROVE  StreamTyped' /\ Flows' /\ SameChains
<1>1. /\ feed[r] \in FeedType(Depth(r)) /\ pipe[r] \in PipeType /\ hash[r] \in Seq(Piece)
      /\ Len(pipe[r].slot) <= 1 /\ feed[r].read <= tool[r].wrote
      /\ feed[r].read \in Nat /\ tool[r].wrote \in Nat /\ t.wrote \in Nat
    BY StreamStays DEF FeedType, ToolType
<1>2. feed[r].read <= t.wrote
    BY <1>1
<1>3. StreamBecomes(r, u, t, feed[r], pipe[r], hash[r])
    BY StreamStays DEF StreamBecomes
<1>4. Flowing(r, feed[r], pipe[r], hash[r], t, u.pc = "dead")
    BY DEF Flows, Flow, Flowing, Dead, Chunks
<1> QED
    BY <1>1, <1>2, <1>3, <1>4, StreamGoes DEF Chunks

\* The dump process.
LEMMA ToolRunsFlows ==
    ASSUME StreamTyped, Flows, NEW r \in Runs, ToolWrites(r) \/ ToolExits(r) \/ KillTool(r)
    PROVE  StreamTyped' /\ Flows' /\ SameChains
<1>1. PICK t0 \in ToolType : t0 = tool[r] /\ t0.wrote \in Nat /\ t0.wrote <= Chunks(r)
    BY StreamStays DEF ToolType, Chunks
<1>2. PICK m \in Nat : m = Chunks(r)
    BY StreamStays DEF FeedType, Chunks
<1>3. \E t \in ToolType :
          /\ tool' = [tool EXCEPT ![r] = t] /\ t0.wrote <= t.wrote /\ t.wrote <= m
          /\ t.state = "exited" /\ ~t.failed => t.wrote = m
    <2>1. CASE ToolWrites(r)
        <3>1. t0.wrote < m /\ t0.state = "running" /\ tool' = [tool EXCEPT ![r] = [t0 EXCEPT !.wrote = @ + 1]]
            BY <1>1, <1>2, <2>1 DEF ToolWrites, Writes, LegacyWrites, ToolBecomes
        <3>2. PICK w \in Nat : w = t0.wrote + 1 /\ t0.wrote <= w /\ w <= m
            BY <1>1, <3>1
        <3> DEFINE t == [t0 EXCEPT !.wrote = w]
        <3>3. t \in ToolType /\ t.wrote = w /\ t.state = "running"
            BY <3>1 DEF ToolType
        <3>4. tool' = [tool EXCEPT ![r] = t]
            BY <3>1, <3>2
        <3> HIDE DEF t
        <3> QED
            BY <3>2, <3>3, <3>4
    <2>2. CASE ToolExits(r)
        <3>1. PICK failed \in BOOLEAN :
                  /\ ~failed => t0.wrote = m
                  /\ tool' = [tool EXCEPT ![r] = [t0 EXCEPT !.state = "exited", !.failed = failed]]
            BY <1>1, <1>2, <2>2 DEF ToolExits, Exits, LegacyEnds, ToolBecomes
        <3> DEFINE t == [t0 EXCEPT !.state = "exited", !.failed = failed]
        <3>2. t \in ToolType /\ t.wrote = t0.wrote /\ t.failed = failed
            BY DEF ToolType
        <3>3. t.state = "exited" /\ ~t.failed => t.wrote = m
            BY <3>1, <3>2
        <3>4. tool' = [tool EXCEPT ![r] = t]
            BY <3>1
        <3>5. t0.wrote <= t.wrote /\ t.wrote <= m
            BY <1>1, <1>2, <3>2
        <3> HIDE DEF t
        <3> QED
            BY <3>2, <3>3, <3>4, <3>5
    <2>3. CASE KillTool(r)
        <3> DEFINE t == [t0 EXCEPT !.state = "exited", !.failed = TRUE]
        <3>1. t \in ToolType /\ t.wrote = t0.wrote /\ t.failed = TRUE
            BY DEF ToolType
        <3>2. tool' = [tool EXCEPT ![r] = t]
            BY <1>1, <2>3 DEF KillTool, Killed, ToolBecomes
        <3>3. t.state = "exited" /\ ~t.failed => t.wrote = m
            BY <3>1
        <3>4. t0.wrote <= t.wrote /\ t.wrote <= m
            BY <1>1, <1>2, <3>1
        <3> HIDE DEF t
        <3> QED
            BY <3>1, <3>2, <3>3, <3>4
    <2> QED
        BY <2>1, <2>2, <2>3
<1>4. UNCHANGED <<run, feed, pipe, hash>>
    BY DEF ToolWrites, ToolExits, KillTool
<1>5. run' = [run EXCEPT ![r] = run[r]] /\ run[r] \in RunType
    BY <1>4, StreamStays
<1> QED
    BY <1>1, <1>2, <1>3, <1>4, <1>5, ToolFlows

\* RunPipeline goes on or is told to stop.
LEMMA RunGoesFlows ==
    ASSUME StreamTyped, Flows, NEW r \in Runs,
           Start(r) \/ OpenFails(r) \/ Return(r) \/ Cancel(r) \/ (Stored(r) /\ UNCHANGED pipe)
    PROVE  StreamTyped' /\ Flows' /\ SameChains
<1>1. PICK u0 \in RunType : u0 = run[r]
    BY StreamStays
<1>2. \E u \in RunType : run' = [run EXCEPT ![r] = u] /\ u.pc # "dead"
    <2>1. \A pc \in {"open", "join", "done"} : [u0 EXCEPT !.pc = pc] \in RunType
        BY DEF RunType
    <2>2. \A pc \in {"open", "join", "done"} : [u0 EXCEPT !.pc = pc].pc = pc
        BY DEF RunType
    <2>3. CASE Start(r) \/ Return(r) \/ Stored(r)
        <3>1. PICK pc \in {"open", "join", "done"} : run' = [run EXCEPT ![r] = [u0 EXCEPT !.pc = pc]]
            BY <1>1, <2>3 DEF Start, Return, Stored, Moves
        <3> QED
            BY <2>1, <2>2, <3>1
    <2>4. CASE OpenFails(r)
        <3> DEFINE u == [u0 EXCEPT !.pc = "done", !.result = "error"]
        <3>1. u \in RunType /\ u.pc = "done"
            BY DEF RunType
        <3>2. run' = [run EXCEPT ![r] = u]
            BY <1>1, <2>4 DEF OpenFails, Ends
        <3> HIDE DEF u
        <3> QED
            BY <3>1, <3>2
    <2>5. CASE Cancel(r)
        <3> DEFINE u == [u0 EXCEPT !.cancelled = TRUE]
        <3>1. u \in RunType /\ u.pc = u0.pc
            BY DEF RunType
        <3>2. run' = [run EXCEPT ![r] = u]
            BY <1>1, <2>5 DEF Cancel
        <3>3. u0.pc # "dead"
            BY <1>1, <2>5 DEF Cancel
        <3> HIDE DEF u
        <3> QED
            BY <3>1, <3>2, <3>3
    <2> QED
        BY <2>3, <2>4, <2>5
<1>3. UNCHANGED <<tool, feed, pipe, hash>> /\ run[r].pc # "dead"
    BY DEF Start, OpenFails, Return, Cancel, Stored
<1>4. /\ tool' = [tool EXCEPT ![r] = tool[r]] /\ tool[r] \in ToolType /\ tool[r].wrote <= Chunks(r)
      /\ tool[r].wrote <= tool[r].wrote
      /\ tool[r].state = "exited" /\ ~tool[r].failed => tool[r].wrote = Chunks(r)
    <2>1. tool[r] \in ToolType /\ tool[r].wrote \in Nat
        BY StreamStays DEF ToolType
    <2> QED
        BY <1>3, <2>1, StreamStays DEF Flows, Flow, Flowing, Chunks
<1> QED
    BY <1>2, <1>3, <1>4, ToolFlows

\* Dump fails, or what is left of it is closed.
LEMMA ToolClosesFlows ==
    ASSUME StreamTyped, Flows, NEW r \in Runs, DumpFails(r) \/ Join(r)
    PROVE  StreamTyped' /\ Flows' /\ SameChains
<1>1. PICK u0 \in RunType, t0 \in ToolType : u0 = run[r] /\ t0 = tool[r] /\ t0.wrote \in Nat
    BY StreamStays DEF ToolType
<1>2. PICK result \in {"ok", "error"} : run' = [run EXCEPT ![r] = [u0 EXCEPT !.pc = "release", !.result = result]]
    BY <1>1 DEF DumpFails, Join, Ends
<1> DEFINE u == [u0 EXCEPT !.pc = "release", !.result = result]
<1>3. u \in RunType /\ u.pc = "release"
    BY DEF RunType
<1>4. run' = [run EXCEPT ![r] = u]
    BY <1>2
<1>5. \E t \in ToolType : tool' = [tool EXCEPT ![r] = t] /\ t.wrote = t0.wrote /\ t.state # "exited"
    <2>1. CASE DumpFails(r)
        <3> DEFINE t == [t0 EXCEPT !.password = FALSE]
        <3>1. t \in ToolType /\ t.wrote = t0.wrote /\ t.state = t0.state
            BY DEF ToolType
        <3>2. tool' = [tool EXCEPT ![r] = t] /\ t0.state = "none"
            BY <1>1, <2>1 DEF DumpFails, DumpRefused, ToolBecomes
        <3> HIDE DEF t
        <3> QED
            BY <3>1, <3>2
    <2>2. CASE Join(r)
        <3>1. /\ CloseTool(t0) \in ToolType /\ CloseTool(t0).wrote = t0.wrote
              /\ CloseTool(t0).state # "exited"
            BY DEF ToolType, CloseTool
        <3>2. tool' = [tool EXCEPT ![r] = CloseTool(t0)]
            BY <1>1, <2>2 DEF Join
        <3> QED
            BY <3>1, <3>2
    <2> QED
        BY <2>1, <2>2
<1>6. UNCHANGED <<feed, pipe, hash>> /\ run[r].pc # "dead" /\ t0.wrote <= Chunks(r)
    BY <1>1, StreamStays DEF DumpFails, Join, Chunks
<1>7. t0.wrote <= t0.wrote
    BY <1>1
<1> HIDE DEF u
<1> QED
    BY <1>1, <1>3, <1>4, <1>5, <1>6, <1>7, ToolFlows

\* The tool and the producer start.
LEMMA StartDumpFlows ==
    ASSUME StreamTyped, Flows, NEW r \in Runs, StartDump(r), feed[r].pc = "idle"
    PROVE  StreamTyped' /\ Flows' /\ SameChains
<1>0. PICK n \in Nat : n = Depth(r)
    BY StreamStays DEF Depth, FeedType
<1>1. PICK u0 \in RunType, t0 \in ToolType, f0 \in FeedType(n) :
          u0 = run[r] /\ t0 = tool[r] /\ f0 = feed[r]
    BY <1>0, StreamStays
<1> DEFINE u == [u0 EXCEPT !.pc = "write"]
           f == [f0 EXCEPT !.pc = "copy"]
<1>2. /\ u \in RunType /\ u.pc = "write" /\ f \in FeedType(n) /\ f.pc = "copy"
      /\ f.codecs = f0.codecs /\ f.chunks = f0.chunks /\ f.layer = f0.layer
      /\ f.read = f0.read /\ f.held = f0.held /\ f.err = f0.err
    BY DEF RunType, FeedType
<1>3. \E t \in ToolType : tool' = [tool EXCEPT ![r] = t] /\ t.wrote = t0.wrote /\ t.state = "running"
    <2>1. ASSUME NEW legacy \in BOOLEAN, NEW password \in BOOLEAN,
                 tool' = [tool EXCEPT ![r] = [t0 EXCEPT !.state = "running", !.legacy = legacy,
                                                        !.password = password]]
          PROVE  \E t \in ToolType : tool' = [tool EXCEPT ![r] = t] /\ t.wrote = t0.wrote
                                     /\ t.state = "running"
        <3> DEFINE t == [t0 EXCEPT !.state = "running", !.legacy = legacy, !.password = password]
        <3>1. t \in ToolType /\ t.wrote = t0.wrote /\ t.state = "running"
            BY DEF ToolType
        <3>2. tool' = [tool EXCEPT ![r] = t]
            BY <2>1
        <3> HIDE DEF t
        <3> QED
            BY <3>1, <3>2
    <2>2. PICK legacy \in BOOLEAN, password \in BOOLEAN :
              tool' = [tool EXCEPT ![r] = [t0 EXCEPT !.state = "running", !.legacy = legacy,
                                                     !.password = password]]
        <3>1. Dump(r)
            BY DEF StartDump
        <3>2. /\ t0.legacy \in BOOLEAN /\ t0.password \in BOOLEAN
              /\ [t0 EXCEPT !.state = "running"] = [t0 EXCEPT !.state = "running",
                    !.legacy = t0.legacy, !.password = t0.password]
              /\ [Started(t0) EXCEPT !.legacy = TRUE] = [t0 EXCEPT !.state = "running",
                    !.legacy = TRUE, !.password = t0.password]
              /\ [Started(t0) EXCEPT !.password = TRUE] = [t0 EXCEPT !.state = "running",
                    !.legacy = t0.legacy, !.password = TRUE]
            BY DEF ToolType, Started
        <3>3. \/ tool' = [tool EXCEPT ![r] = Started(t0)]
              \/ tool' = [tool EXCEPT ![r] = [Started(t0) EXCEPT !.legacy = TRUE]]
              \/ tool' = [tool EXCEPT ![r] = [Started(t0) EXCEPT !.password = TRUE]]
            BY <1>1, <3>1 DEF Dump, DumpPostgres, DumpRedis, DumpMySQL, DumpLegacy, DumpMongo,
               ToolBecomes
        <3>4. CASE tool' = [tool EXCEPT ![r] = Started(t0)]
            BY <3>2, <3>4 DEF Started
        <3>5. CASE tool' = [tool EXCEPT ![r] = [Started(t0) EXCEPT !.legacy = TRUE]]
            BY <3>2, <3>5
        <3>6. CASE tool' = [tool EXCEPT ![r] = [Started(t0) EXCEPT !.password = TRUE]]
            BY <3>2, <3>6
        <3> QED
            BY <3>3, <3>4, <3>5, <3>6
    <2> QED
        BY <2>1, <2>2
<1>4. PICK t \in ToolType : tool' = [tool EXCEPT ![r] = t] /\ t.wrote = t0.wrote /\ t.state = "running"
    BY <1>3
<1>5. StreamBecomes(r, u, t, f, pipe[r], hash[r])
    BY <1>1, <1>4, StreamStays DEF StartDump, Moves, StreamBecomes
<1>6. u0.pc = "open" /\ f0.pc = "idle"
    BY <1>1 DEF StartDump
<1>7. Flowing(r, f0, pipe[r], hash[r], t0, u0.pc = "dead")
    BY <1>1 DEF Flows, Flow, Dead
<1>8. f0.layer = 1 /\ f0.err = "none" /\ pipe[r].writer = "open"
    <2>1. f0 = NewFeed(f0.codecs, f0.chunks) /\ pipe[r] = NewPipe
        BY <1>6, <1>7 DEF Flowing
    <2> QED
        BY <2>1 DEF NewFeed, NewPipe
<1> HIDE DEF u, f
<1>9. Flowing(r, f, pipe[r], hash[r], t, u.pc = "dead")
    BY <1>2, <1>4, <1>6, <1>7, <1>8 DEF Flowing, Line
<1> QED
    BY ZenonT(30), <1>0, <1>1, <1>2, <1>4, <1>5, <1>9, StreamStays, StreamGoes

\* The reader leaves after an error of the storage.
LEMMA StoredFlows ==
    ASSUME StreamTyped, Flows, NEW r \in Runs, Stored(r), ~UNCHANGED pipe, feed[r].pc # "idle"
    PROVE  StreamTyped' /\ Flows' /\ SameChains
<1>1. PICK u0 \in RunType, p0 \in PipeType : u0 = run[r] /\ p0 = pipe[r]
    BY StreamStays
<1> DEFINE u == [u0 EXCEPT !.pc = "join"]
           p == [p0 EXCEPT !.reader = FALSE, !.slot = <<>>]
<1>2. /\ u \in RunType /\ u.pc = "join"
      /\ p \in PipeType /\ p.reader = FALSE /\ p.slot = <<>> /\ p.writer = p0.writer
    <2>1. <<>> \in Seq(Piece)
        OBVIOUS
    <2> QED
        BY <2>1 DEF RunType, PipeType
<1>3. StreamBecomes(r, u, tool[r], feed[r], p, hash[r])
    BY <1>1, StreamStays DEF Stored, Moves, StreamBecomes
<1> HIDE DEF u, p
<1>4. Flowing(r, feed[r], p, hash[r], tool[r], u.pc = "dead")
    BY <1>1, <1>2 DEF Flows, Flow, Flowing
<1>5. Len(p.slot) <= 1
    BY <1>2
<1> QED
    BY <1>2, <1>3, <1>4, <1>5, StreamStays, StreamGoes

\* The storage reads what waits in the pipe, and the hash with it.
LEMMA LineRead ==
    ASSUME NEW r \in Runs, NEW n \in Nat, NEW f \in FeedType(n), Len(f.codecs) = n,
           NEW h \in Seq(Piece), NEW s \in Seq(Piece), s # <<>>, Len(s) <= 1, Line(r, f, h, s)
    PROVE  Line(r, f, Append(h, Head(s)), <<>>)
<1>1. PICK a \in Counts(n) : LineOf(r, n, f.layer, f.read, f.held, h, s, a)
    BY DEF Line
<1>2. Len(h) \in Nat /\ Len(s) = 1 /\ Head(s) = s[1]
    <2>1. Len(h) \in Nat
        OBVIOUS
    <2>2. Len(s) \in Nat /\ Len(s) # 0
        BY EmptySeq
    <2>3. Len(s) = 1
        <3>1. PICK k \in Nat : k = Len(s)
            BY <2>2
        <3>2. k # 0 /\ k <= 1
            BY <2>2, <3>1
        <3>3. k = 1
            BY <3>2
        <3> QED
            BY <3>1, <3>3
    <2>4. Head(s) = s[1]
        OBVIOUS
    <2> QED
        BY <2>1, <2>3, <2>4
<1>3. /\ Numbered(r, 0, h) /\ Numbered(r, Len(h), s) /\ a[n + 1] = Len(h) + Len(s)
      /\ a[f.layer] = f.read + f.layer - 1
      /\ \A i \in f.layer..n : a[i] = a[i + 1] + Len(f.held[i]) /\ Numbered(r, a[i + 1], f.held[i])
    BY <1>1 DEF LineOf
<1>4. PICK m \in Nat : m = Len(h)
    BY <1>2
<1>5. Head(s) = <<r, 0 + m + 1>>
    BY <1>2, <1>3, <1>4 DEF Numbered
<1>6. Numbered(r, 0, Append(h, Head(s))) /\ Len(Append(h, Head(s))) = m + 1
    <2>1. Head(s) = <<r, 0 + Len(h) + 1>>
        BY <1>4, <1>5
    <2>2. /\ Numbered(r, 0, Append(h, <<r, 0 + Len(h) + 1>>))
          /\ Len(Append(h, <<r, 0 + Len(h) + 1>>)) = Len(h) + 1
        BY <1>3, NumberedAppend
    <2> QED
        BY <1>4, <2>1, <2>2
<1>7. PICK h2 : h2 = Append(h, Head(s))
    OBVIOUS
<1>8. Len(<<>>) = 0 /\ a[n + 1] = Len(h2) + Len(<<>>)
    BY <1>2, <1>3, <1>4, <1>6, <1>7
<1>9. LineOf(r, n, f.layer, f.read, f.held, h2, <<>>, a)
    BY <1>3, <1>6, <1>7, <1>8, NumberedEmpty DEF LineOf
<1> QED
    BY <1>7, <1>9 DEF Line

\* The store reading a piece from the pipe keeps the stream in order.
LEMMA UploadFlows ==
    ASSUME StreamTyped, Flows, NEW r \in Runs, Upload(r)
    PROVE  StreamTyped' /\ Flows' /\ SameChains
<1>0. PICK n \in Nat : n = Depth(r)
    BY StreamStays DEF Depth, FeedType
<1>1. PICK f \in FeedType(n), p0 \in PipeType, h0 \in Seq(Piece) :
          f = feed[r] /\ p0 = pipe[r] /\ h0 = hash[r] /\ Len(f.codecs) = n /\ Len(p0.slot) <= 1
    BY <1>0, StreamStays DEF Depth
<1> DEFINE p == [p0 EXCEPT !.slot = <<>>]
<1>2. /\ p \in PipeType /\ p.reader = p0.reader /\ p.slot = <<>> /\ p.writer = p0.writer
    <2>1. <<>> \in Seq(Piece)
        OBVIOUS
    <2> QED
        BY <2>1 DEF PipeType
<1>3. p0.slot # <<>> /\ p0.slot \in Seq(Piece)
    BY <1>1 DEF Upload, PipeType
<1>4. PICK h \in Seq(Piece) : h = Append(h0, Head(p0.slot))
    <2>1. PICK s \in Seq(Piece) : s = p0.slot /\ s # <<>>
        BY <1>3
    <2>2. Head(s) \in Piece
        BY <2>1
    <2> QED
        BY <2>1, <2>2, AppendProperties
<1>5. StreamBecomes(r, run[r], tool[r], f, p, h)
    BY <1>1, <1>4, StreamStays DEF Upload, StreamBecomes
<1> HIDE DEF p
<1>6. Flowing(r, f, p0, h0, tool[r], run[r].pc = "dead")
    BY <1>1 DEF Flows, Flow, Dead
<1>7. f.pc # "idle"
    BY <1>3, <1>6, NewPipeTyped DEF Flowing
<1>8. Line(r, f, h0, p0.slot) => Line(r, f, h, <<>>)
    BY <1>1, <1>3, <1>4, LineRead
<1>9. Flowing(r, f, p, h, tool[r], run[r].pc = "dead")
    BY <1>2, <1>6, <1>7, <1>8 DEF Flowing
<1>10. Len(p.slot) <= 1
    BY <1>2
<1> QED
    BY <1>0, <1>1, <1>2, <1>4, <1>5, <1>9, <1>10, StreamStays, StreamGoes

\* After a crash the run's parts in memory are new.
LEMMA CrashFlows ==
    ASSUME StreamTyped, Flows, Crash
    PROVE  StreamTyped' /\ Flows' /\ SameChains
<1> DEFINE dead == {r \in Runs : run[r].pc \notin {"new", "done", "dead"}}
<1>1. /\ run' = [r \in Runs |-> IF r \in dead
                    THEN [pc |-> "dead", cancelled |-> FALSE,
                          result |-> IF run[r].result = "none" THEN "error" ELSE run[r].result]
                    ELSE run[r]]
      /\ tool' = [r \in Runs |-> IF r \in dead THEN NewTool(tool[r].engine) ELSE tool[r]]
      /\ feed' = [r \in Runs |-> IF r \in dead THEN NewFeed(feed[r].codecs, feed[r].chunks) ELSE feed[r]]
      /\ pipe' = [r \in Runs |-> IF r \in dead THEN NewPipe ELSE pipe[r]]
      /\ hash' = [r \in Runs |-> IF r \in dead
                    THEN IF run[r].result = "none" THEN <<>> ELSE hash[r] ELSE hash[r]]
    BY DEF Crash, Chunks
<1> HIDE DEF dead
<1>2. ASSUME NEW r \in Runs
      PROVE  /\ run'[r] \in RunType /\ tool'[r] \in ToolType /\ pipe'[r] \in PipeType
             /\ hash'[r] \in Seq(Piece)
             /\ feed'[r] \in FeedType(Len(feed'[r].codecs))
             /\ feed'[r].codecs = feed[r].codecs /\ feed'[r].chunks = feed[r].chunks
             /\ feed'[r].read <= tool'[r].wrote /\ tool'[r].wrote <= feed'[r].chunks
             /\ Len(pipe'[r].slot) <= 1
             /\ Flowing(r, feed'[r], pipe'[r], hash'[r], tool'[r], run'[r].pc = "dead")
    <2>1. CASE r \in dead
        <3>1. PICK codecs \in Seq(Codecs), chunks \in Nat \ {0}, engine \in Engines :
                  codecs = feed[r].codecs /\ chunks = feed[r].chunks /\ engine = tool[r].engine
            BY StreamStays DEF FeedType, ToolType
        <3>2. /\ feed'[r] = NewFeed(codecs, chunks) /\ pipe'[r] = NewPipe
              /\ tool'[r] = NewTool(engine)
            BY <1>1, <2>1, <3>1
        <3>3. run'[r] \in RunType /\ run'[r].pc = "dead"
            BY <1>1, <2>1, StreamStays DEF RunType
        <3>4. hash'[r] \in Seq(Piece)
            <4>1. <<>> \in Seq(Piece) /\ hash[r] \in Seq(Piece)
                BY StreamStays
            <4> QED
                BY <1>1, <2>1, <4>1
        <3>5. PICK dead2 \in BOOLEAN : dead2 = (run'[r].pc = "dead") /\ dead2
            BY <3>3
        <3>6. PICK h : h = hash'[r]
            OBVIOUS
        <3>7. PICK t \in ToolType : t = NewTool(engine) /\ t.state = "none" /\ t.wrote = 0
            BY NewToolTyped
        <3>8. Flowing(r, NewFeed(codecs, chunks), NewPipe, h, t, dead2)
            BY <3>5, <3>7, NewFlowing
        <3>9. Flowing(r, feed'[r], pipe'[r], hash'[r], tool'[r], run'[r].pc = "dead")
            BY <3>2, <3>5, <3>6, <3>7, <3>8
        <3>10. Len(NewPipe.slot) <= 1
            BY NewPipeTyped
        <3>11. 0 <= chunks
            OBVIOUS
        <3> QED
            BY <3>1, <3>2, <3>3, <3>4, <3>10, <3>11, <3>7, <3>9, NewFeedTyped, NewPipeTyped
    <2>2. CASE r \notin dead
        <3>1. /\ run'[r] = run[r] /\ tool'[r] = tool[r] /\ feed'[r] = feed[r]
              /\ pipe'[r] = pipe[r] /\ hash'[r] = hash[r]
            BY <1>1, <2>2
        <3> QED
            BY <3>1, StreamStays DEF Flows, Flow, Dead, Depth
    <2> QED
        BY <2>1, <2>2
<1>3. /\ run' \in [Runs -> RunType] /\ tool' \in [Runs -> ToolType] /\ pipe' \in [Runs -> PipeType]
      /\ hash' \in [Runs -> Seq(Piece)] /\ feed' = [r \in Runs |-> feed'[r]]
    BY <1>1, <1>2
<1>4. StreamTyped'
    BY <1>2, <1>3 DEF StreamTyped, Depth, Chunks
<1>5. Flows'
    BY <1>2 DEF Flows, Flow, Dead
<1>6. SameChains
    BY <1>2 DEF SameChains
<1> QED
    BY <1>4, <1>5, <1>6

\* A step of one run leaves the parts of the others alone.
OthersStay(r) ==
    \A q \in Runs \ {r} :
        /\ conn'[q] = conn[q] /\ up'[q] = up[q] /\ run'[q] = run[q] /\ tool'[q] = tool[q]
        /\ feed'[q] = feed[q] /\ pipe'[q] = pipe[q] /\ hash'[q] = hash[q]

ConnectorMoves(r) == ConnectorWorks(r) \/ ConnectorDisturbed(r)
StoreMoves(r) ==
    Upload(r) \/ UploadEnds(r) \/ UploadCancelled(r) \/ StoreStep(r) \/ StoreFails(r)
FeedMoves(r) ==
    \/ CodecFails(r) \/ CopyPiece(r) \/ PassOn(r) \/ DumpEnds(r)
    \/ CloseCodec(r) \/ CloseFails(r) \/ ClosePipe(r)
ToolMoves(r) == ToolWrites(r) \/ ToolExits(r) \/ KillTool(r)
RunMoves(r) ==
    \/ Start(r) \/ OpenFails(r) \/ StartDump(r) \/ DumpFails(r)
    \/ Stored(r) \/ Join(r) \/ Return(r) \/ Cancel(r)

\* Every step is a power loss, a directory reaching the disk, or one process of one run moving.
LEMMA NextMoves ==
    ASSUME Next
    PROVE  \/ Crash
           \/ \E k \in Keys : Settles(k)
           \/ \E r \in Runs : \/ ConnectorMoves(r) \/ StoreMoves(r) \/ FeedMoves(r)
                              \/ ToolMoves(r) \/ RunMoves(r)
BY DEF Next, RunStep, WorldStep, FeedStep, ConnectorMoves, StoreMoves, FeedMoves, ToolMoves, RunMoves

\* A process of one run leaves the other runs alone.
LEMMA OthersStayThere ==
    ASSUME Typed, NEW r \in Runs,
           \/ ConnectorMoves(r) \/ StoreMoves(r) \/ FeedMoves(r) \/ ToolMoves(r) \/ RunMoves(r)
    PROVE  OthersStay(r)
<1> SUFFICES ASSUME NEW q \in Runs \ {r}
             PROVE  /\ conn'[q] = conn[q] /\ up'[q] = up[q] /\ run'[q] = run[q]
                    /\ tool'[q] = tool[q] /\ feed'[q] = feed[q] /\ pipe'[q] = pipe[q]
                    /\ hash'[q] = hash[q]
    BY DEF OthersStay
<1>0. /\ DOMAIN conn = Runs /\ DOMAIN up = Runs /\ DOMAIN run = Runs /\ DOMAIN tool = Runs
      /\ DOMAIN feed = Runs /\ DOMAIN pipe = Runs /\ DOMAIN hash = Runs
    BY DEF Typed, ConnectorsHeld, StreamTyped, StoreTyped
<1>1. CASE ConnectorMoves(r)
    <2>1. UNCHANGED <<up, run, tool, feed, pipe, hash>>
        BY <1>1 DEF ConnectorMoves, ConnectorWorks, ConnectorDisturbed, storeVars
    <2>2. \E c : Becomes(r, c)
        BY <1>1 DEF ConnectorMoves, ConnectorWorks, ConnectorDisturbed, ConnectorStep, ConnectorWorld,
           OpenDirect, Dial, DockerRun, DockerCut, Inspect, Listen, Accept, ForwardEnds,
           KeepaliveFails, PeerFallsSilent, ThreadEnds, CloseListener, HangUp, Waited
    <2> QED
        BY <1>0, <2>1, <2>2 DEF Becomes
<1>2. CASE StoreMoves(r)
    <2>1. UNCHANGED <<conn, run, tool, feed>> /\ pipe'[q] = pipe[q] /\ hash'[q] = hash[q]
        BY <1>0, <1>2 DEF StoreMoves, Upload, UploadEnds, UploadCancelled, StoreStep, StoreFails
    <2>2. up'[q] = up[q]
        BY <1>0, <1>2 DEF StoreMoves, Upload, WritePiece, UploadEnds, FinishFile, GiveUpWrite,
           UploadCancelled, StoreStep, BeginWrite, CannotWrite, OpenTemp, Commit, Undo, StoreFails,
           WriteFails, PeerStalls, Goes
    <2> QED
        BY <2>1, <2>2
<1>3. CASE FeedMoves(r)
    <2>1. UNCHANGED <<conn, up, run, hash>> /\ tool'[q] = tool[q]
        BY <1>0, <1>3 DEF FeedMoves, CodecFails, CopyPiece, PassOn, DumpEnds, CloseCodec, CloseFails,
           ClosePipe, storeVars, ReadEnd, ToolBecomes
    <2>2. ASSUME NEW i, NEW f, NEW piece, Out(r, i, f, piece)
          PROVE  feed'[q] = feed[q] /\ pipe'[q] = pipe[q]
        BY <1>0, <2>2 DEF Out
    <2>3. feed'[q] = feed[q] /\ pipe'[q] = pipe[q]
        BY <1>0, <1>3, <2>2 DEF FeedMoves, CodecFails, CopyPiece, PassOn, DumpEnds, CloseCodec, CloseFails,
           ClosePipe
    <2> QED
        BY <2>1, <2>3
<1>4. CASE ToolMoves(r)
    BY <1>0, <1>4 DEF ToolMoves, ToolWrites, ToolExits, KillTool, Writes, LegacyWrites, Exits, LegacyEnds,
       Killed, ToolBecomes, storeVars
<1>5. CASE RunMoves(r)
    <2>1. UNCHANGED <<up, hash>> /\ run'[q] = run[q] /\ conn'[q] = conn[q] /\ pipe'[q] = pipe[q]
        BY <1>0, <1>5 DEF RunMoves, Start, OpenFails, StartDump, DumpFails, Stored, Join, Return, Cancel,
           Moves, Ends, Close, Becomes, storeVars
    <2>2. tool'[q] = tool[q] /\ feed'[q] = feed[q]
        BY <1>0, <1>5 DEF RunMoves, Start, OpenFails, StartDump, DumpFails, Stored, Join, Return, Cancel,
           Dump, DumpPostgres, DumpRedis, DumpMySQL, DumpLegacy, DumpMongo, DumpRefused, ToolBecomes
    <2> QED
        BY <2>1, <2>2
<1> QED
    BY <1>1, <1>2, <1>3, <1>4, <1>5

--------------------------------------------------------------------------------
(***************************************************************************)
(* How far the threads of one run can be apart.                            *)
(***************************************************************************)

Phase(r) ==
    /\ run[r].pc = "new" => conn[r].step = "new"
    /\ run[r].pc \in {"new", "open"} =>
          /\ feed[r].pc = "idle" /\ tool[r].state = "none" /\ ~tool[r].password
          /\ up[r].pc = "idle" /\ run[r].result = "none"
    /\ run[r].pc = "write" => feed[r].pc # "idle" /\ run[r].result = "none"
    /\ run[r].pc = "join" => up[r].pc \in {"ok", "error"} /\ run[r].result = "none"
    /\ run[r].pc \in {"release", "done"} =>
          feed[r].pc \in {"idle", "done"} /\ up[r].pc \in {"idle", "ok", "error"} /\ ToolGone(r)
    /\ run[r].pc = "done" => conn[r].step \in {"new", "failed", "closed"}
    /\ run[r].pc = "done" /\ run[r].result = "none" => up[r].pc = "idle"
    /\ run[r].pc \in {"release", "dead"} => run[r].result # "none"
    /\ run[r].result = "ok" => up[r].pc = "ok"
    /\ up[r].pc \in {"copy", "commit", "undo"} => run[r].pc = "write"
    /\ run[r].pc = "dead" => feed[r].pc = "idle" /\ tool[r].state = "none"
    /\ feed[r].pc = "idle" => up[r].pc = "idle" \/ run[r].pc = "dead"
    /\ ~pipe[r].reader => up[r].pc = "error"

Phases == \A r \in Runs : Phase(r)

\* The phases of run, tool, feed and upload agree at the start.
LEMMA InitPhases == Init => Phases
BY PlanTyped DEF Init, Phases, Phase, New, NewUpload, NewTool, NewFeed, NewPipe, ToolGone

\* The fields a run's phase reads.
LEMMA RunFields ==
    ASSUME Typed, NEW r \in Runs
    PROVE  /\ conn \in [Runs -> ConnectorType] /\ up \in [Runs -> UploadType]
           /\ run \in [Runs -> RunType] /\ tool \in [Runs -> ToolType]
           /\ pipe \in [Runs -> PipeType] /\ DOMAIN feed = Runs /\ feed[r] \in FeedType(Depth(r))
BY DEF Typed, ConnectorsHeld, StreamTyped, StoreTyped

\* A step of one run that keeps its own phases in agreement keeps all of them.
LEMMA OnePhase ==
    ASSUME Phases, NEW r \in Runs, OthersStay(r), Phase(r)'
    PROVE  Phases'
BY DEF Phases, Phase, OthersStay, ToolGone

\* Reaching a database, through a tunnel or not, keeps the phases in agreement.
LEMMA ConnectorPhases ==
    ASSUME Typed, Phases, NEW r \in Runs, ConnectorMoves(r)
    PROVE  Phases'
<1>1. /\ UNCHANGED <<up, run, tool, feed, pipe>>
      /\ run[r].pc \in {"open", "write", "join", "release"}
    BY DEF ConnectorMoves, ConnectorWorks, ConnectorDisturbed, storeVars
<1>2. Phase(r)'
    BY <1>1 DEF Phases, Phase, ToolGone
<1> QED
    BY <1>2, OnePhase, OthersStayThere

\* The steps of the dump tool keep the phases in agreement.
LEMMA ToolPhases ==
    ASSUME Typed, Phases, NEW r \in Runs, ToolMoves(r)
    PROVE  Phases'
<1>1. /\ UNCHANGED <<conn, up, run, feed, pipe>> /\ tool[r].state = "running"
      /\ tool' = [tool EXCEPT ![r] = tool'[r]]
      /\ tool'[r].password = tool[r].password /\ tool'[r].legacy = tool[r].legacy
      /\ tool'[r].left = tool[r].left /\ tool'[r].state \in {"running", "exited"}
    BY ZenonT(30), RunFields
    DEF ToolMoves, ToolWrites, ToolExits, KillTool, Writes, LegacyWrites, Exits,
        LegacyEnds, Killed, ToolBecomes, storeVars, ToolType
<1>2. Phase(r)'
    BY <1>1 DEF Phases, Phase, ToolGone
<1> QED
    BY <1>2, OnePhase, OthersStayThere

\* A producer that has begun goes on to its end.
LEMMA FeedPhases ==
    ASSUME Typed, Phases, NEW r \in Runs, FeedMoves(r)
    PROVE  Phases'
<1>1. /\ feed[r].pc \in {"copy", "close"} /\ UNCHANGED <<conn, up, run>>
      /\ tool'[r].state \in {tool[r].state, "reaped"} /\ tool'[r].password = tool[r].password
    <2>1. CASE DumpEnds(r)
        BY <2>1, RunFields DEF DumpEnds, storeVars, ReadEnd, ToolBecomes, ToolType
    <2>2. CASE CodecFails(r) \/ CopyPiece(r) \/ PassOn(r)
        BY <2>2 DEF CodecFails, CopyPiece, PassOn, storeVars
    <2>3. CASE CloseCodec(r) \/ CloseFails(r) \/ ClosePipe(r)
        BY <2>3 DEF CloseCodec, CloseFails, ClosePipe, storeVars
    <2> QED
        BY <2>1, <2>2, <2>3 DEF FeedMoves
<1>2. feed'[r].pc \in {"copy", "close", "done"} /\ pipe'[r].reader = pipe[r].reader
    <2>1. ASSUME NEW i, NEW f, NEW piece, Out(r, i, f, piece), f.pc \in {"copy", "close"}
          PROVE  feed'[r].pc \in {"copy", "close", "done"} /\ pipe'[r].reader = pipe[r].reader
        <3>1. CASE feed' = [feed EXCEPT ![r] = f] /\ pipe' = [pipe EXCEPT ![r].slot = <<piece>>]
            BY <2>1, <3>1, RunFields DEF PipeType
        <3>2. CASE feed' = [feed EXCEPT ![r] = [f EXCEPT !.held[i + 1] = Append(@, piece)]] /\ UNCHANGED pipe
            BY <2>1, <3>2, RunFields
        <3> QED
            BY <2>1, <3>1, <3>2 DEF Out
    <2>2. feed[r] \in FeedType(Depth(r)) /\ DOMAIN feed = Runs /\ pipe \in [Runs -> PipeType]
        BY RunFields
    <2>3. CASE CodecFails(r)
        BY <2>2, <2>3 DEF CodecFails, FeedType, PipeType
    <2>4. CASE CopyPiece(r)
        <3>1. [feed[r] EXCEPT !.read = @ + 1].pc = feed[r].pc
            BY <2>2 DEF FeedType
        <3> QED
            BY ZenonT(30), <1>1, <2>1, <2>2, <2>4, <3>1 DEF CopyPiece, FeedType
    <2>5. CASE PassOn(r)
        <3>1. \A i : [feed[r] EXCEPT !.held[i] = Tail(@)].pc = feed[r].pc
            BY <2>2 DEF FeedType
        <3> QED
            BY ZenonT(30), <1>1, <2>1, <2>2, <2>5, <3>1 DEF PassOn, FeedType
    <2>6. CASE DumpEnds(r)
        BY <2>2, <2>6 DEF DumpEnds, FeedType
    <2>7. CASE CloseCodec(r)
        <3>1. PICK f0 \in FeedType(Depth(r)) : f0 = feed[r]
            BY <2>2
        <3>2. PICK i : i = f0.layer
            OBVIOUS
        <3> DEFINE Ended(f) == [f EXCEPT !.layer = i + 1, !.held[i] = <<>>,
                                         !.err = IF @ = "none" THEN "close" ELSE @]
        <3>3. ASSUME NEW f, NEW piece, f.pc = f0.pc, Ended(f).pc = f0.pc,
                     IF Broken(r, i) THEN feed' = [feed EXCEPT ![r] = Ended(f)] /\ UNCHANGED pipe
                                     ELSE Out(r, i, f, piece)
              PROVE  feed'[r].pc \in {"copy", "close", "done"} /\ pipe'[r].reader = pipe[r].reader
            BY <1>1, <2>1, <2>2, <3>1, <3>3
        <3>4. CASE f0.held[i] = <<>>
            <4> DEFINE f == [f0 EXCEPT !.layer = i + 1]
            <4>1. f.pc = f0.pc /\ Ended(f).pc = f0.pc
                BY DEF FeedType
            <4>2. IF Broken(r, i) THEN feed' = [feed EXCEPT ![r] = Ended(f)] /\ UNCHANGED pipe
                                  ELSE Out(r, i, f, <<r, Chunks(r) + i>>)
                BY <2>7, <3>1, <3>2, <3>4 DEF CloseCodec
            <4> HIDE DEF f, Ended
            <4> QED
                BY <3>3, <4>1, <4>2
        <3>5. CASE f0.held[i] # <<>>
            <4> DEFINE f == [f0 EXCEPT !.held[i] = Tail(@)]
            <4>1. f.pc = f0.pc /\ Ended(f).pc = f0.pc
                BY DEF FeedType
            <4>2. IF Broken(r, i) THEN feed' = [feed EXCEPT ![r] = Ended(f)] /\ UNCHANGED pipe
                                  ELSE Out(r, i, f, Head(f0.held[i]))
                BY <2>7, <3>1, <3>2, <3>5 DEF CloseCodec
            <4> HIDE DEF f, Ended
            <4> QED
                BY <3>3, <4>1, <4>2
        <3> QED
            BY <3>4, <3>5
    <2>8. CASE CloseFails(r)
        BY <1>1, <2>2, <2>8 DEF CloseFails, FeedType
    <2>9. CASE ClosePipe(r)
        BY <2>2, <2>9 DEF ClosePipe, FeedType, PipeType
    <2> QED
        BY <2>3, <2>4, <2>5, <2>6, <2>7, <2>8, <2>9 DEF FeedMoves
<1>3. Phase(r)'
    BY <1>1, <1>2, RunFields DEF Phases, Phase, ToolGone, RunType, UploadType
<1> QED
    BY <1>3, OnePhase, OthersStayThere

\* The steps of the storage backend keep the phases in agreement.
LEMMA StorePhases ==
    ASSUME Typed, Phases, NEW r \in Runs, StoreMoves(r)
    PROVE  Phases'
<1>1. /\ run[r].pc = "write" /\ UNCHANGED <<conn, run, tool, feed>>
      /\ pipe'[r].reader = pipe[r].reader
      /\ up[r].pc \in {"idle", "copy", "commit", "undo"}
    <2>1. up[r].pc \in {"idle", "copy", "commit", "undo", "ok", "error"} /\ Phase(r)
        BY RunFields DEF UploadType, Phases
    <2>2. UNCHANGED <<conn, run, tool, feed>>
        BY DEF StoreMoves, Upload, UploadEnds, UploadCancelled, StoreStep, StoreFails
    <2>3. pipe'[r].reader = pipe[r].reader
        BY RunFields DEF StoreMoves, Upload, UploadEnds, UploadCancelled, StoreStep, StoreFails, PipeType
    <2>4. CASE Upload(r) \/ UploadEnds(r) \/ UploadCancelled(r)
        BY <2>1, <2>2, <2>3, <2>4 DEF Upload, UploadEnds, UploadCancelled, Phase
    <2>5. CASE StoreStep(r) \/ StoreFails(r)
        <3>1. run[r].pc = "write"
            BY <2>5 DEF StoreStep, StoreFails
        <3>2. up[r].pc \in {"idle", "copy", "commit", "undo"}
            BY <2>1, <2>5 DEF StoreStep, StoreFails, BeginWrite, CannotWrite, OpenTemp, Commit, Undo,
               WriteFails, PeerStalls
        <3> QED
            BY <2>2, <2>3, <3>1, <3>2
    <2> QED
        BY <2>4, <2>5 DEF StoreMoves
<1>2. Phase(r)'
    BY <1>1 DEF Phases, Phase
<1> QED
    BY <1>2, OnePhase, OthersStayThere

\* The steps of Pipeline.Run itself keep the phases in agreement.
LEMMA RunPhases ==
    ASSUME Typed, Phases, NEW r \in Runs, RunMoves(r)
    PROVE  Phases'
<1> SUFFICES Phase(r)'
    BY OnePhase, OthersStayThere
<1>0. Phase(r) /\ UNCHANGED up
    BY DEF Phases, RunMoves, Start, OpenFails, StartDump, DumpFails, Stored, Join, Return, Cancel,
       storeVars
<1> USE DEF Phase, ToolGone
<1>1. CASE Start(r)
    BY <1>0, <1>1, RunFields DEF Start, Moves, storeVars, RunType
<1>2. CASE OpenFails(r)
    BY <1>0, <1>2, RunFields DEF OpenFails, Ends, OpenFailed, storeVars, RunType
<1>3. CASE StartDump(r)
    <2>1. /\ UNCHANGED <<conn, pipe>> /\ run'[r].pc = "write" /\ run'[r].result = run[r].result
          /\ run[r].pc = "open" /\ feed'[r].pc = "copy"
        BY <1>3, RunFields DEF StartDump, Moves, RunType, FeedType
    <2> QED
        BY <1>0, <2>1
<1>4. CASE DumpFails(r)
    <2>1. /\ UNCHANGED <<feed, pipe>> /\ run'[r].pc = "release" /\ run'[r].result = "error"
          /\ run[r].pc = "open" /\ ~tool'[r].password /\ tool'[r].state = "none"
        BY <1>4, RunFields DEF DumpFails, Ends, DumpRefused, ToolBecomes, RunType, ToolType
    <2> QED
        BY <1>0, <2>1
<1>5. CASE Stored(r)
    <2>1. /\ UNCHANGED <<conn, tool, feed>> /\ run'[r].pc = "join" /\ run'[r].result = run[r].result
          /\ run[r].pc = "write" /\ up[r].pc \in {"ok", "error"}
          /\ pipe'[r].reader # pipe[r].reader => up[r].pc = "error"
        BY <1>5, RunFields DEF Stored, Moves, RunType
    <2> QED
        BY <1>0, <2>1
<1>6. CASE Join(r)
    <2>1. /\ UNCHANGED <<feed, pipe>> /\ run'[r].pc = "release" /\ run[r].pc = "join"
          /\ feed[r].pc = "done"
          /\ run'[r].result = IF up[r].pc = "ok" /\ feed[r].err = "none" THEN "ok" ELSE "error"
          /\ tool'[r] = CloseTool(tool[r])
        BY <1>6, RunFields DEF Join, Ends, RunType
    <2>2. /\ ~CloseTool(tool[r]).password
          /\ CloseTool(tool[r]).state = "running" => CloseTool(tool[r]).legacy /\ CloseTool(tool[r]).left
        BY RunFields DEF CloseTool, ToolType
    <2>3. run'[r].result \in {"ok", "error"} /\ (run'[r].result = "ok" => up[r].pc = "ok")
        BY <2>1
    <2> QED
        BY <1>0, <2>1, <2>2, <2>3
<1>7. CASE Return(r)
    BY <1>0, <1>7, RunFields DEF Return, Moves, storeVars, RunType
<1>8. CASE Cancel(r)
    <2>1. /\ UNCHANGED <<conn, tool, feed, pipe>>
          /\ run'[r].pc = run[r].pc /\ run'[r].result = run[r].result
        BY <1>8, RunFields DEF Cancel, RunType
    <2> QED
        BY <1>0, <2>1
<1> QED
    BY <1>1, <1>2, <1>3, <1>4, <1>5, <1>6, <1>7, <1>8 DEF RunMoves

\* A power loss kills the runs at work and keeps the phases in agreement.
LEMMA CrashPhases ==
    ASSUME Typed, Phases, Crash
    PROVE  Phases'
<1> SUFFICES ASSUME NEW r \in Runs
             PROVE  Phase(r)'
    BY DEF Phases
<1> DEFINE dead == {q \in Runs : run[q].pc \notin {"new", "done", "dead"}}
<1>1. /\ run'[r] = IF r \in dead
                   THEN [pc |-> "dead", cancelled |-> FALSE,
                         result |-> IF run[r].result = "none" THEN "error" ELSE run[r].result]
                   ELSE run[r]
      /\ r \notin dead => conn'[r] = conn[r]
      /\ tool'[r] = IF r \in dead THEN NewTool(tool[r].engine) ELSE tool[r]
      /\ feed'[r] = IF r \in dead THEN NewFeed(feed[r].codecs, feed[r].chunks) ELSE feed[r]
      /\ pipe'[r] = IF r \in dead THEN NewPipe ELSE pipe[r]
    BY DEF Crash, Chunks
<1>2. /\ up[r].pc \in {"idle", "ok", "error"} => up'[r] = up[r]
      /\ up[r].pc \notin {"idle", "ok", "error"} => up'[r].pc = "error"
    <2>1. PICK u \in UploadType : u = up[r]
        BY RunFields
    <2>2. up'[r] = IF u.pc \in {"idle", "ok", "error"} THEN u
                   ELSE [u EXCEPT !.pc = "error", !.pos = 0, !.stalled = FALSE]
        BY <2>1 DEF Crash, PowerLoss
    <2>3. [u EXCEPT !.pc = "error", !.pos = 0, !.stalled = FALSE].pc = "error"
        BY DEF UploadType
    <2> QED
        BY <2>1, <2>2, <2>3
<1>3. Phase(r)
    BY DEF Phases
<1>4. CASE r \in dead
    <2>1. /\ run'[r].pc = "dead" /\ run'[r].result # "none" /\ feed'[r].pc = "idle"
          /\ tool'[r].state = "none" /\ pipe'[r].reader
          /\ run'[r].result = "ok" => run[r].result = "ok"
        BY <1>1, <1>4 DEF NewFeed, NewTool, NewPipe
    <2>2. run'[r].result = "ok" => up'[r].pc = "ok"
        BY <1>2, <1>3, <2>1 DEF Phase
    <2>3. up'[r].pc \notin {"copy", "commit", "undo"}
        BY <1>2
    <2> QED
        BY <2>1, <2>2, <2>3 DEF Phase
<1>5. CASE r \notin dead
    <2>1. /\ run'[r] = run[r] /\ conn'[r] = conn[r] /\ tool'[r] = tool[r] /\ feed'[r] = feed[r]
          /\ pipe'[r] = pipe[r]
        BY <1>1, <1>5
    <2>2. up'[r] = up[r]
        BY <1>2, <1>3, <1>5, RunFields DEF Phase, UploadType
    <2> QED
        BY <1>3, <2>1, <2>2 DEF Phase, ToolGone
<1> QED
    BY <1>4, <1>5

--------------------------------------------------------------------------------
(***************************************************************************)
(* The three together hold of every pipeline.                              *)
(***************************************************************************)

Inner == Typed /\ Flows /\ Phases

\* The inner invariant holds at the start.
LEMMA InitInner == Init => Inner
<1> SUFFICES ASSUME Init
             PROVE  Inner
    OBVIOUS
<1>1. Flows
    <2> SUFFICES ASSUME NEW r \in Runs
                 PROVE  Flow(r)
        BY DEF Flows
    <2>1. PICK setup \in Plans :
              /\ feed = [q \in Runs |-> NewFeed(setup[q].codecs, setup[q].chunks)]
              /\ pipe = [q \in Runs |-> NewPipe] /\ hash = [q \in Runs |-> <<>>]
              /\ tool = [q \in Runs |-> NewTool(setup[q].engine)]
        BY DEF Init
    <2>2. PICK dead \in BOOLEAN : dead = (run[r].pc = "dead")
        OBVIOUS
    <2>3. PICK t : t = tool[r] /\ t.state = "none"
        BY <2>1 DEF NewTool
    <2>4. PICK codecs \in Seq(Codecs), chunks \in Nat \ {0} :
              feed[r] = NewFeed(codecs, chunks)
        BY <2>1, PlanTyped
    <2>5. PICK h : h = hash[r] /\ h = <<>>
        BY <2>1
    <2>6. Flowing(r, NewFeed(codecs, chunks), NewPipe, h, t, dead)
        BY <2>3, <2>5, NewFlowing
    <2> QED
        BY <2>1, <2>2, <2>3, <2>4, <2>5, <2>6 DEF Flow, Dead
<1> QED
    BY <1>1, InitTyped, InitPhases DEF Inner

\* What a run was configured with stays.
LEMMA SameChainsStay ==
    ASSUME UNCHANGED feed
    PROVE  SameChains
BY DEF SameChains

\* Uploads that stay keep their calls.
LEMMA SameCallsStay ==
    ASSUME UNCHANGED up
    PROVE  SameCalls
BY DEF SameCalls

\* A step beside the stream leaves it in order.
LEMMA StreamUnmoved ==
    ASSUME StreamTyped, Flows, UNCHANGED <<run, tool, feed, pipe, hash>>
    PROVE  StreamTyped' /\ Flows' /\ SameChains
BY DEF StreamTyped, Flows, Flow, Dead, Depth, Chunks, SameChains

\* A step beside the storage leaves its types alone.
LEMMA StoreUnmoved ==
    ASSUME StoreTyped, UNCHANGED storeVars
    PROVE  StoreTyped' /\ SameCalls
BY DEF StoreTyped, storeVars, SameCalls

\* A step beside the connectors leaves them as they were.
LEMMA ConnectorUnmoved ==
    ASSUME ConnectorsHeld, UNCHANGED conn
    PROVE  ConnectorsHeld'
BY DEF ConnectorsHeld, Grip

\* Whatever process of a run moves, the inner invariant is kept.
LEMMA InnerMoves ==
    ASSUME Inner, NEW r \in Runs,
           \/ ConnectorMoves(r) \/ StoreMoves(r) \/ FeedMoves(r) \/ ToolMoves(r) \/ RunMoves(r)
    PROVE  Inner' /\ SameCalls /\ SameChains
<1>0. ConnectorsHeld /\ StreamTyped /\ StoreTyped /\ Typed /\ Flows /\ Phases
    BY DEF Inner, Typed
<1>1. CASE ConnectorMoves(r)
    <2>1. UNCHANGED <<run, tool, feed, pipe, hash>> /\ UNCHANGED storeVars
        BY <1>1 DEF ConnectorMoves, ConnectorWorks, ConnectorDisturbed
    <2>2. ConnectorsHeld'
        BY <1>0, <1>1, ConnectorKeepsGrip DEF ConnectorMoves, ConnectorWorks, ConnectorDisturbed
    <2> QED
        BY <1>0, <1>1, <2>1, <2>2, StreamUnmoved, StoreUnmoved, ConnectorPhases DEF Inner, Typed
<1>2. CASE StoreMoves(r)
    <2>1. UNCHANGED conn
        BY <1>2 DEF StoreMoves, Upload, UploadEnds, UploadCancelled, StoreStep, StoreFails
    <2>2. StoreTyped' /\ SameCalls
        BY <1>0, <1>2, StoreStepTyped DEF StoreMoves
    <2>3. StreamTyped' /\ Flows' /\ SameChains
        <3>1. CASE Upload(r)
            BY <1>0, <3>1, UploadFlows
        <3>2. CASE ~Upload(r)
            <4>1. UNCHANGED <<run, tool, feed, pipe, hash>>
                BY <1>2, <3>2 DEF StoreMoves, UploadEnds, UploadCancelled, StoreStep, StoreFails
            <4> QED
                BY <1>0, <4>1, StreamUnmoved
        <3> QED
            BY <3>1, <3>2
    <2> QED
        BY <1>0, <1>2, <2>1, <2>2, <2>3, ConnectorUnmoved, StorePhases DEF Inner, Typed
<1>3. CASE FeedMoves(r)
    <2>1. UNCHANGED conn /\ UNCHANGED storeVars
        BY <1>3 DEF FeedMoves, CodecFails, CopyPiece, PassOn, DumpEnds, CloseCodec, CloseFails, ClosePipe
    <2>2. StreamTyped' /\ Flows' /\ SameChains
        BY <1>0, <1>3, CodecFailsFlows, CopyPieceFlows, PassOnFlows, DumpEndsFlows, CloseCodecFlows,
           CloseFailsFlows, ClosePipeFlows DEF FeedMoves
    <2> QED
        BY <1>0, <1>3, <2>1, <2>2, ConnectorUnmoved, StoreUnmoved, FeedPhases DEF Inner, Typed
<1>4. CASE ToolMoves(r)
    <2>1. UNCHANGED conn /\ UNCHANGED storeVars
        BY <1>4 DEF ToolMoves, ToolWrites, ToolExits, KillTool
    <2>2. StreamTyped' /\ Flows' /\ SameChains
        BY <1>0, <1>4, ToolRunsFlows DEF ToolMoves
    <2> QED
        BY <1>0, <1>4, <2>1, <2>2, ConnectorUnmoved, StoreUnmoved, ToolPhases DEF Inner, Typed
<1>5. CASE RunMoves(r)
    <2>1. UNCHANGED storeVars
        BY <1>5 DEF RunMoves, Start, OpenFails, StartDump, DumpFails, Stored, Join, Return, Cancel
    <2>2. ConnectorsHeld'
        <3>1. UNCHANGED conn \/ Close(r)
            BY <1>5 DEF RunMoves, Start, OpenFails, StartDump, DumpFails, Stored, Join, Return, Cancel
        <3> QED
            BY <1>0, <3>1, ConnectorUnmoved, ConnectorKeepsGrip
    <2>3. StreamTyped' /\ Flows' /\ SameChains
        <3>1. CASE StartDump(r)
            <4>1. feed[r].pc = "idle"
                BY <1>0, <3>1 DEF StartDump, Phases, Phase
            <4> QED
                BY <1>0, <3>1, <4>1, StartDumpFlows
        <3>2. CASE Stored(r) /\ ~UNCHANGED pipe
            <4>1. feed[r].pc # "idle"
                BY <1>0, <3>2 DEF Stored, Phases, Phase
            <4> QED
                BY <1>0, <3>2, <4>1, StoredFlows
        <3>3. CASE \/ Start(r) \/ OpenFails(r) \/ Return(r) \/ Cancel(r) \/ (Stored(r) /\ UNCHANGED pipe)
            BY <1>0, <3>3, RunGoesFlows
        <3>4. CASE DumpFails(r) \/ Join(r)
            BY <1>0, <3>4, ToolClosesFlows
        <3> QED
            BY <1>5, <3>1, <3>2, <3>3, <3>4 DEF RunMoves
    <2> QED
        BY <1>0, <1>5, <2>1, <2>2, <2>3, StoreUnmoved, RunPhases DEF Inner, Typed
<1> QED
    BY <1>1, <1>2, <1>3, <1>4, <1>5

\* A power loss keeps the inner invariant.
LEMMA InnerCrash ==
    ASSUME Inner, Crash
    PROVE  Inner' /\ SameCalls /\ SameChains
<1>0. ConnectorsHeld /\ StreamTyped /\ StoreTyped /\ Typed /\ Flows /\ Phases
    BY DEF Inner, Typed
<1>1. ConnectorsHeld'
    <2>1. PICK dead \in SUBSET Runs :
              conn' = [r \in Runs |-> IF r \in dead THEN Remains(conn[r]) ELSE conn[r]]
        BY DEF Crash
    <2>2. \A r \in Runs : conn[r] \in ConnectorType /\ conn[r].kind \in Kinds /\ Grip(conn[r])
        BY <1>0 DEF ConnectorsHeld, ConnectorType
    <2>3. ASSUME NEW r \in Runs
          PROVE  conn'[r] \in ConnectorType /\ Grip(conn'[r])
        <3>1. CASE r \in dead
            <4>1. PICK c : c = conn'[r] /\ c = Remains(conn[r])
                BY <2>1, <3>1
            <4>2. c \in ConnectorType /\ Grip(c)
                BY <2>2, <4>1, RemainsHeld
            <4> QED
                BY <4>1, <4>2
        <3>2. CASE r \notin dead
            <4>1. PICK c : c = conn'[r] /\ c = conn[r]
                BY <2>1, <3>2
            <4>2. c \in ConnectorType /\ Grip(c)
                BY <2>2, <4>1
            <4> QED
                BY <4>1, <4>2
        <3> QED
            BY <3>1, <3>2
    <2> QED
        BY <2>1, <2>3 DEF ConnectorsHeld, Grip
<1>2. StoreTyped' /\ SameCalls
    BY <1>0, PowerLossTyped DEF Crash
<1> QED
    BY <1>0, <1>1, <1>2, CrashFlows, CrashPhases DEF Inner, Typed

\* A directory that reaches the disk is the storage's alone.
LEMMA InnerSettles ==
    ASSUME Inner, NEW k \in Keys, Settles(k)
    PROVE  Inner' /\ SameCalls /\ SameChains
<1>1. /\ UNCHANGED <<conn, run, tool, feed, pipe, hash>>
      /\ UNCHANGED <<up, object, temp, body, synced, takenBack>>
      /\ older' = [older EXCEPT ![k] = {}]
    BY DEF Settles, DirectorySettles
<1>2. ConnectorsHeld'
    BY <1>1, ConnectorUnmoved DEF Inner, Typed
<1>3. StreamTyped' /\ Flows' /\ SameChains
    BY <1>1, StreamUnmoved DEF Inner, Typed
<1>4. StoreTyped' /\ SameCalls
    BY <1>1 DEF Inner, Typed, StoreTyped, SameCalls
<1>5. Phases'
    BY <1>1 DEF Inner, Phases, Phase, ToolGone
<1> QED
    BY <1>2, <1>3, <1>4, <1>5 DEF Inner, Typed

\* Every step, and a stutter, keeps the inner invariant.
LEMMA InnerStep ==
    ASSUME Inner, [Next]_vars
    PROVE  Inner' /\ SameCalls /\ SameChains
<1>1. CASE Next
    BY <1>1, NextMoves, InnerMoves, InnerSettles, InnerCrash
<1>2. CASE UNCHANGED vars
    <2>1. /\ UNCHANGED conn /\ UNCHANGED storeVars /\ UNCHANGED <<run, tool, feed, pipe, hash>>
        BY <1>2 DEF vars, storeVars
    <2>2. Phases'
        BY <2>1 DEF Inner, Phases, Phase, ToolGone, storeVars
    <2> QED
        BY <2>1, <2>2, ConnectorUnmoved, StreamUnmoved, StoreUnmoved DEF Inner, Typed
<1> QED
    BY <1>1, <1>2

\* Types, order of the stream (copying, the codec chain, the pipe) and agreement of the
\* phases of the goroutines of a run hold in every reachable state, whatever the plans.
THEOREM InnerAlways == Spec => []Inner
<1>1. Init => Inner
    BY InitInner
<1>2. Inner /\ [Next]_vars => Inner'
    BY InnerStep
<1> QED
    BY <1>1, <1>2, PTL DEF Spec

\* The pipeline's state has its types, in every pipeline.
THEOREM PipelineTypes == Spec => []TypeOK
<1>1. Inner => TypeOK
    <2> SUFFICES ASSUME Inner
                 PROVE  TypeOK
        OBVIOUS
    <2>1. ConnectorsHeld /\ StreamTyped /\ StoreTyped
        BY DEF Inner, Typed
    <2>2. ASSUME NEW r \in Runs
          PROVE  /\ feed[r].pc \in {"idle", "copy", "close", "done"}
                 /\ feed[r].err \in {"none", "codec", "dump", "write", "close"}
                 /\ feed[r].read \in 0..tool[r].wrote /\ tool[r].wrote <= Chunks(r)
        <3>1. tool[r].wrote \in Nat /\ feed[r].read \in Nat
            BY <2>1, StreamStays DEF ToolType, FeedType
        <3> QED
            BY <2>1, <3>1, StreamStays DEF FeedType, Chunks
    <2> QED
        BY <2>1, <2>2 DEF TypeOK, ConnectorsHeld, StreamTyped, StoreTyped, RunType, PipeType, Piece
<1> QED
    BY <1>1, InnerAlways, PTL

--------------------------------------------------------------------------------
(***************************************************************************)
(* The files, as long as no two runs that are asked for write to one key    *)
(* over sftp, whose temporary name is made of the key.                      *)
(***************************************************************************)

OneSftpWriter ==
    \A setup \in Plans : \A r, q \in Runs :
        /\ setup[r].asked /\ setup[r].backend = "sftp"
        /\ setup[q].asked /\ setup[q].backend = "sftp"
        /\ setup[r].key = setup[q].key
        => r = q

\* A run that never gets to its storage.
Aside(r) == run[r].pc = "done" /\ up[r].pc = "idle"
Apart == \A r, q \in Runs : r # q /\ TempName(r) = TempName(q) => Aside(r) \/ Aside(q)

\* What the files say of the Write call of run r.
Filed(r) ==
    /\ up[r].file \in {None, r}
    /\ up[r].pc \in {"idle", "copy", "commit"} => ~up[r].published
    /\ up[r].pc = "idle" => ~up[r].lost /\ up[r].pos = 0 /\ hash[r] = <<>>
    /\ up[r].pc = "idle" /\ run[r].pc # "done" => temp[TempName(r)] = None
    /\ up[r].pc \in {"copy", "commit"} =>
          /\ up[r].file = r /\ temp[TempName(r)] = r
          /\ body[r] = hash[r] /\ up[r].pos = Len(hash[r])
    /\ up[r].pc = "commit" => hash[r] = Whole(r)
    /\ up[r].published =>
          body[r] = Whole(r) /\ (object[up[r].key] # None \/ up[r].key \in takenBack)
    /\ (up[r].pc = "commit" \/ up[r].published) /\ up[r].backend = "localfs" => r \in synced
    /\ up[r].pc = "ok" => up[r].published
    /\ up[r].pc = "ok" /\ (run[r].pc # "dead" \/ run[r].result = "ok") =>
          hash[r] = Whole(r) /\ up[r].pos = Len(hash[r])
    /\ up[r].pc = "error" /\ run[r].pc # "dead" /\ temp[TempName(r)] # None =>
          up[r].lost \/ Unabortable(r, run[r].cancelled)

\* An object, and what a power loss may put in its place, is the file of a run that
\* published it, or nothing.
Objects ==
    \A k \in Keys : \A f \in {object[k]} \union older[k] :
        f # None => up[f].published /\ up[f].key = k

Files == Apart /\ Objects /\ \A r \in Runs : Filed(r)

\* No file is there at the start.
LEMMA InitFiles ==
    ASSUME OneSftpWriter
    PROVE  Init => Files
<1> SUFFICES ASSUME NEW setup \in Plans, Init,
                    up = [r \in Runs |-> NewUpload(setup[r].backend, setup[r].key)],
                    object = [k \in Keys |-> None], older = [k \in Keys |-> {}],
                    temp = [t \in TempNames |-> None], hash = [r \in Runs |-> <<>>],
                    run = [r \in Runs |-> [pc |-> IF setup[r].asked THEN "new" ELSE "done",
                                           result |-> "none", cancelled |-> FALSE]]
             PROVE  Files
    BY DEF Init
<1>1. \A r \in Runs : /\ up[r].pc = "idle" /\ up[r].key = setup[r].key /\ up[r].backend = setup[r].backend
                      /\ up[r].file = None /\ ~up[r].published /\ ~up[r].lost /\ up[r].pos = 0
                      /\ ~setup[r].asked => run[r].pc = "done"
    BY DEF NewUpload
<1>2. Apart
    <2> SUFFICES ASSUME NEW r \in Runs, NEW q \in Runs, r # q, TempName(r) = TempName(q),
                        setup[r].asked, setup[q].asked
                 PROVE  FALSE
        BY <1>1 DEF Apart, Aside
    <2>1. up[r].backend = "sftp" /\ up[q].backend = "sftp" /\ up[r].key = up[q].key
        BY <1>1, PlanTyped, NamesAreApart DEF TempName
    <2> QED
        BY <1>1, <2>1 DEF OneSftpWriter
<1>3. Objects
    BY DEF Objects
<1>4. ASSUME NEW r \in Runs
      PROVE  Filed(r)
    <2>1. TempName(r) \in TempNames
        BY InitTyped, TempNamed DEF Typed
    <2> QED
        BY <1>1, <2>1 DEF Filed
<1> QED
    BY <1>2, <1>3, <1>4 DEF Files

\* What a run was configured with fixes its names and its artifact.
LEMMA SameNames ==
    ASSUME SameCalls, SameChains, NEW r \in Runs
    PROVE  TempName(r)' = TempName(r) /\ Whole(r)' = Whole(r)
BY DEF SameCalls, SameChains, TempName, Whole, Chunks, Depth

\* A run that is over, or dead, stays so, and a context that has ended does as long as the
\* run is alive.
Steady ==
    \A q \in Runs :
        /\ run[q].pc \in {"done", "dead"} => run'[q] = run[q]
        /\ run[q].cancelled => run'[q].cancelled \/ run'[q].pc = "dead"

\* Of two runs that would write one temporary file, one never gets to its storage, and a
\* step that starts no upload of such a run leaves it so.
LEMMA ApartStays ==
    ASSUME Inner, Apart, SameCalls, SameChains, Steady,
           \A q \in Runs : Aside(q) => up'[q] = up[q]
    PROVE  Apart'
<1> SUFFICES ASSUME NEW r \in Runs, NEW q \in Runs, r # q, TempName(r)' = TempName(q)'
             PROVE  Aside(r)' \/ Aside(q)'
    BY DEF Apart
<1>1. Aside(r) \/ Aside(q)
    BY SameNames DEF Apart
<1> QED
    BY <1>1 DEF Aside, Steady

\* Steps that leave the files and the storage's calls alone.
LEMMA FilesStay ==
    ASSUME Inner, Files, SameChains, Steady, UNCHANGED <<storeVars, hash>>
    PROVE  Files'
<1>1. SameCalls
    BY DEF SameCalls, storeVars
<1>2. UNCHANGED <<up, object, temp, body, synced, older, takenBack, hash>>
    BY DEF storeVars
<1>3. Apart'
    BY <1>1, <1>2, ApartStays DEF Files
<1>4. Objects'
    BY <1>2 DEF Files, Objects
<1>5. ASSUME NEW r \in Runs
      PROVE  Filed(r)'
    BY <1>1, <1>2, SameNames DEF Files, Filed, Steady, Unabortable
<1> QED
    BY <1>3, <1>4, <1>5 DEF Files

\* No process of any run revives a run that is over or dead.
LEMMA MovesSteady ==
    ASSUME Inner, NEW r \in Runs,
           \/ ConnectorMoves(r) \/ FeedMoves(r) \/ ToolMoves(r) \/ RunMoves(r) \/ StoreMoves(r)
    PROVE  Steady
<1>1. \A q \in Runs \ {r} : run'[q] = run[q]
    BY OthersStayThere DEF Inner, OthersStay
<1>2. run[r].pc \in {"done", "dead"} => run'[r] = run[r]
    BY DEF ConnectorMoves, ConnectorWorks, ConnectorDisturbed, FeedMoves, CodecFails, CopyPiece, PassOn,
       DumpEnds, CloseCodec, CloseFails, ClosePipe, ToolMoves, ToolWrites, ToolExits, KillTool,
       RunMoves, Start, OpenFails, StartDump, DumpFails, Stored, Join, Return, Cancel,
       StoreMoves, Upload, UploadEnds, UploadCancelled, StoreStep, StoreFails
<1>3. run[r].cancelled => run'[r].cancelled
    <2>1. CASE UNCHANGED run
        BY <2>1
    <2>2. CASE RunMoves(r)
        BY <2>2, RunFields DEF Inner, RunMoves, Start, OpenFails, StartDump, DumpFails, Stored, Join,
           Return, Cancel, Moves, Ends, RunType
    <2> QED
        BY <2>1, <2>2 DEF ConnectorMoves, ConnectorWorks, ConnectorDisturbed, FeedMoves, CodecFails,
           CopyPiece, PassOn, DumpEnds, CloseCodec, CloseFails, ClosePipe, ToolMoves, ToolWrites,
           ToolExits, KillTool, StoreMoves, Upload, UploadEnds, UploadCancelled, StoreStep, StoreFails
<1> QED
    BY <1>1, <1>2, <1>3 DEF Steady

\* The producer's line, read to its end.
LEMMA WholeRead ==
    ASSUME Inner, NEW r \in Runs, up[r].pc = "copy", pipe[r].slot = <<>>, pipe[r].writer = "eof"
    PROVE  hash[r] = Whole(r)
<1>1. PICK n \in Nat : n = Depth(r)
    BY SMTT(30), StreamStays DEF Inner, Typed, Depth, FeedType
<1>2. PICK f \in FeedType(n), h \in Seq(Piece) : f = feed[r] /\ h = hash[r] /\ Len(f.codecs) = n
    BY <1>1, StreamStays DEF Inner, Typed, Depth
<1>3. run[r].pc # "dead" /\ pipe[r].reader
    BY DEF Inner, Phases, Phase
<1>4. /\ f.pc = "done" /\ f.err = "none" /\ f.read = f.chunks /\ f.layer = n + 1
      /\ Line(r, f, h, <<>>)
    BY <1>2, <1>3 DEF Inner, Flows, Flow, Flowing, Dead
<1>5. PICK a \in Counts(n) : LineOf(r, n, f.layer, f.read, f.held, h, <<>>, a)
    BY <1>2, <1>4 DEF Line
<1>6. Len(<<>>) = 0 /\ Len(h) \in Nat
    OBVIOUS
<1>7. f.chunks \in Nat
    BY DEF FeedType
<1>8. PICK m \in Nat : m = f.chunks + n
    BY <1>7
<1>9. Len(h) = m
    <2>1. a[n + 1] = Len(h) + Len(<<>>) /\ a[f.layer] = f.read + f.layer - 1
        BY <1>5 DEF LineOf
    <2>2. a[n + 1] = Len(h)
        BY <1>6, <2>1
    <2>3. a[n + 1] = f.chunks + (n + 1) - 1
        BY <1>4, <2>1
    <2>4. a[n + 1] = m
        BY <1>7, <1>8, <2>3
    <2> QED
        BY <2>2, <2>4
<1>10. \A j \in 1..m : h[j] = <<r, 0 + j>>
    BY <1>5, <1>9 DEF LineOf, Numbered
<1>11. \A j \in 1..m : h[j] = <<r, j>>
    BY <1>10
<1>12. h = [j \in 1..m |-> <<r, j>>]
    <2>1. h \in [1..m -> Piece]
        BY <1>9
    <2> QED
        BY <1>11, <2>1
<1> QED
    BY <1>1, <1>2, <1>8, <1>12 DEF Whole, Chunks

\* What a step of run r's Write may do to the files.
OwnFiles(r) ==
    /\ run[r].pc = "write" /\ UNCHANGED run
    /\ \A q \in Runs \ {r} : body'[q] = body[q] /\ (q \in synced' <=> q \in synced)
    /\ \A t \in TempNames \ {TempName(r)} : temp'[t] = temp[t]
    /\ \A k \in Keys : \/ object'[k] = object[k]
                       \/ object'[k] = r /\ k = up[r].key /\ up'[r].published
    /\ \A k \in Keys : older'[k] \subseteq older[k] \union {object[k]}
    /\ UNCHANGED takenBack
    /\ up[r].published => up'[r].published

\* A step that writes only the files of its own run keeps those of the others.
LEMMA OwnFilesKeep ==
    ASSUME Inner, Files, NEW r \in Runs, OthersStay(r), SameCalls, SameChains, OwnFiles(r), Filed(r)'
    PROVE  Files'
<1>1. Apart'
    <2>1. Steady
        BY DEF OwnFiles, Steady
    <2>2. \A q \in Runs : Aside(q) => up'[q] = up[q]
        BY DEF Aside, OwnFiles, OthersStay
    <2> QED
        BY <2>1, <2>2, ApartStays DEF Files
<1>2. Objects'
    <2> SUFFICES ASSUME NEW k \in Keys, NEW f \in {object'[k]} \union older'[k], f # None
                 PROVE  up'[f].published /\ up'[f].key = k
        BY DEF Objects
    <2>1. CASE f \in {object[k]} \union older[k]
        <3>1. f \in Runs
            BY <2>1 DEF Inner, Typed, StoreTyped
        <3>2. up[f].published /\ up[f].key = k
            BY <2>1 DEF Files, Objects
        <3> QED
            BY <3>1, <3>2 DEF SameCalls, OthersStay, OwnFiles
    <2>2. CASE f = r /\ k = up[r].key /\ up'[r].published
        BY <2>2 DEF SameCalls
    <2> QED
        BY <2>1, <2>2 DEF OwnFiles
<1>3. ASSUME NEW q \in Runs, q # r
      PROVE  Filed(q)'
    <2>1. /\ up'[q] = up[q] /\ hash'[q] = hash[q] /\ run'[q] = run[q] /\ body'[q] = body[q]
          /\ q \in synced' <=> q \in synced
          /\ TempName(q)' = TempName(q) /\ Whole(q)' = Whole(q)
        BY <1>3, SameNames DEF OthersStay, OwnFiles
    <2>2. TempName(q) = TempName(r) => run[q].pc = "done" /\ up[q].pc = "idle"
        BY <1>3 DEF Files, Apart, Aside, OwnFiles
    <2>3. TempName(q) # TempName(r) => temp'[TempName(q)] = temp[TempName(q)]
        BY TempNamed DEF Inner, Typed, OwnFiles
    <2>4. up[q].key \in Keys
        BY DEF Inner, Typed, StoreTyped, UploadType
    <2>5. /\ object[up[q].key] # None => object'[up[q].key] # None
          /\ takenBack' = takenBack
        BY <2>4, NoneIsNothing DEF OwnFiles
    <2>6. Filed(q)
        BY DEF Files
    <2> QED
        BY <2>1, <2>2, <2>3, <2>5, <2>6 DEF Filed, Unabortable
<1> QED
    BY <1>1, <1>2, <1>3 DEF Files

\* A piece goes to the end of the run's own file.
LEMMA UploadFiles ==
    ASSUME Inner, Files, NEW r \in Runs, Upload(r), SameCalls, SameChains
    PROVE  Filed(r)' /\ OwnFiles(r)
<1>1. PICK u \in UploadType, h \in Seq(Piece) : u = up[r] /\ h = hash[r]
    BY StreamStays DEF Inner, Typed, StoreTyped
<1>2. PICK s \in Seq(Piece) : s = pipe[r].slot /\ s # <<>>
    BY StreamStays DEF Inner, Typed, PipeType, Upload
<1>3. PICK piece \in Piece : piece = Head(s)
    BY <1>2
<1>4. u.pc = "copy" /\ u.file = r /\ body[r] = h /\ u.pos = Len(h)
    BY <1>1 DEF Upload, Files, Filed
<1>5. /\ hash' = [hash EXCEPT ![r] = Append(h, piece)]
      /\ body' = [body EXCEPT ![r] = WriteAt(h, Len(h), piece)]
      /\ up' = [up EXCEPT ![r].pos = @ + 1]
      /\ UNCHANGED <<object, temp, synced, older, takenBack, run>>
    BY <1>1, <1>2, <1>3, <1>4 DEF Upload, WritePiece, directories
<1>6. WriteAt(h, Len(h), piece) = Append(h, piece) /\ Len(Append(h, piece)) = Len(h) + 1
    BY WriteAtEnd, AppendProperties
<1>7. /\ up \in [Runs -> UploadType] /\ hash \in [Runs -> Seq(Piece)]
      /\ DOMAIN body = Runs
    BY DEF Inner, Typed, StoreTyped, StreamTyped
<1>8. /\ up'[r].pc = u.pc /\ up'[r].file = u.file /\ up'[r].published = u.published
      /\ up'[r].lost = u.lost /\ up'[r].key = u.key /\ up'[r].backend = u.backend
      /\ up'[r].pos = u.pos + 1
    BY <1>1, <1>5, <1>7 DEF UploadType
<1>9. PICK h2 : h2 = Append(h, piece)
    OBVIOUS
<1>10. hash'[r] = h2 /\ body'[r] = h2 /\ up'[r].pos = Len(h2)
    BY <1>4, <1>5, <1>6, <1>7, <1>8, <1>9
<1>11. TempName(r)' = TempName(r) /\ Whole(r)' = Whole(r)
    BY SameNames
<1>12. ~u.published
    BY <1>1, <1>4 DEF Files, Filed
<1>13. Filed(r)'
    BY <1>1, <1>4, <1>5, <1>8, <1>10, <1>11, <1>12 DEF Files, Filed
<1>14. run[r].pc = "write"
    BY <1>1, <1>4 DEF Inner, Phases, Phase
<1>15. \A q \in Runs \ {r} : body'[q] = body[q]
    BY <1>5, <1>7
<1> QED
    BY <1>1, <1>5, <1>8, <1>13, <1>14, <1>15 DEF OwnFiles

\* Write goes on, gives up or fails, and touches at most the name it drew.
LEMMA CallFiles ==
    ASSUME Inner, Files, NEW r \in Runs, SameCalls, SameChains, run[r].pc = "write",
           UNCHANGED <<run, hash>>,
           \/ UploadEnds(r) \/ UploadCancelled(r) \/ StoreFails(r)
           \/ CannotWrite(r, run[r].cancelled) \/ Undo(r, run[r].cancelled)
    PROVE  Filed(r)' /\ OwnFiles(r)
<1>1. PICK u \in UploadType : u = up[r]
    BY DEF Inner, Typed, StoreTyped
<1>2. Filed(r) /\ TempName(r)' = TempName(r) /\ Whole(r)' = Whole(r)
    BY SameNames DEF Files
<1>3. /\ up \in [Runs -> UploadType] /\ DOMAIN temp = TempNames /\ TempName(r) \in TempNames
    BY TempNamed DEF Inner, Typed, StoreTyped
<1>4. UNCHANGED <<object, body, older, takenBack>>
    BY DEF UploadEnds, FinishFile, GiveUpWrite, UploadCancelled, CannotWrite, Undo, StoreFails,
       WriteFails, PeerStalls, files, directories
<1>5. /\ up'[r].file = u.file /\ up'[r].published = u.published
      /\ up'[r].key = u.key /\ up'[r].backend = u.backend /\ up'[r].pos = u.pos
    BY <1>1, <1>3 DEF UploadEnds, FinishFile, GiveUpWrite, UploadCancelled, CannotWrite, Undo,
       StoreFails, WriteFails, PeerStalls, Goes, UploadType
<1>6. CASE CannotWrite(r, run[r].cancelled)
    <2>1. u.pc = "idle" /\ up'[r].pc = "error" /\ UNCHANGED <<temp, synced>>
        BY <1>1, <1>3, <1>6 DEF CannotWrite, Goes, files, UploadType
    <2>2. temp[TempName(r)] = None /\ ~u.published
        BY <1>1, <1>2, <2>1 DEF Filed
    <2> QED
        BY <1>1, <1>2, <1>4, <1>5, <2>1, <2>2 DEF Filed, OwnFiles
<1>7. CASE Undo(r, run[r].cancelled)
    <2>1. /\ u.pc = "undo" /\ up'[r].pc = "error" /\ up'[r].lost = u.lost /\ UNCHANGED synced
          /\ temp' = IF u.lost \/ Unabortable(r, run[r].cancelled)
                     THEN temp ELSE [temp EXCEPT ![TempName(r)] = None]
        BY <1>1, <1>3, <1>7 DEF Undo, Goes, UploadType
    <2>2. /\ u.lost \/ Unabortable(r, run[r].cancelled) \/ temp'[TempName(r)] = None
          /\ \A t \in TempNames \ {TempName(r)} : temp'[t] = temp[t]
        BY <1>3, <2>1
    <2>3. Unabortable(r, run[r].cancelled)' = Unabortable(r, run[r].cancelled)
        BY <1>1, <1>5 DEF Unabortable
    <2> QED
        BY <1>1, <1>2, <1>4, <1>5, <2>1, <2>2, <2>3 DEF Filed, OwnFiles
<1>8. CASE UploadEnds(r) /\ pipe[r].writer = "eof"
    <2>1. /\ u.pc = "copy" /\ up'[r].pc = "commit" /\ up'[r].lost = u.lost /\ UNCHANGED temp
          /\ synced' = synced \union IF u.backend = "localfs" THEN {u.file} ELSE {}
        BY <1>1, <1>3, <1>8 DEF UploadEnds, FinishFile, GiveUpWrite, Goes, UploadType
    <2>2. hash[r] = Whole(r) /\ u.file = r /\ ~u.published
        BY <1>1, <1>2, <1>8, <2>1, WholeRead DEF UploadEnds, Filed
    <2> QED
        BY <1>1, <1>2, <1>4, <1>5, <2>1, <2>2 DEF Filed, OwnFiles
<1>9. CASE (UploadEnds(r) /\ pipe[r].writer # "eof") \/ UploadCancelled(r)
    <2>1. /\ u.pc \in {"copy", "commit"} /\ up'[r].pc = "undo" /\ UNCHANGED <<temp, synced>>
        BY <1>1, <1>3, <1>9 DEF UploadEnds, GiveUpWrite, UploadCancelled, Goes, files, UploadType
    <2>2. ~u.published
        BY <1>1, <1>2, <2>1 DEF Filed
    <2> QED
        BY <1>1, <1>2, <1>4, <1>5, <2>1, <2>2 DEF Filed, OwnFiles
<1>10. CASE StoreFails(r)
    <2>1. /\ u.pc \in {"idle", "copy", "commit", "undo"} /\ UNCHANGED <<temp, synced>>
          /\ up'[r].pc = "undo" \/ (up'[r].pc = u.pc /\ up'[r].lost = u.lost)
        BY <1>1, <1>3, <1>10 DEF StoreFails, WriteFails, PeerStalls, files, UploadType
    <2> QED
        BY <1>1, <1>2, <1>4, <1>5, <2>1 DEF Filed, OwnFiles
<1> QED
    BY <1>6, <1>7, <1>8, <1>9, <1>10

\* The name is free: the file there is a new one.
LEMMA OpenFiles ==
    ASSUME Inner, Files, NEW r \in Runs, SameCalls, SameChains, run[r].pc = "write",
           UNCHANGED <<run, hash>>, OpenTemp(r)
    PROVE  Filed(r)' /\ OwnFiles(r)
<1>1. PICK u \in UploadType : u = up[r] /\ u.pc = "idle"
    BY DEF Inner, Typed, StoreTyped, OpenTemp
<1>2. Filed(r) /\ TempName(r)' = TempName(r) /\ Whole(r)' = Whole(r)
    BY SameNames DEF Files
<1>3. /\ up \in [Runs -> UploadType] /\ DOMAIN temp = TempNames /\ TempName(r) \in TempNames
      /\ DOMAIN body = Runs
    BY TempNamed DEF Inner, Typed, StoreTyped
<1>4. temp[TempName(r)] = None /\ ~u.published /\ ~u.lost /\ u.pos = 0
    BY <1>1, <1>2 DEF Filed
<1>5. /\ up' = [up EXCEPT ![r].pc = "copy", ![r].file = r]
      /\ temp' = [temp EXCEPT ![TempName(r)] = r] /\ body' = [body EXCEPT ![r] = <<>>]
      /\ synced' = synced \ {r} /\ UNCHANGED <<object, older, takenBack>>
    BY <1>4 DEF OpenTemp, directories
<1>6. /\ up'[r].pc = "copy" /\ up'[r].file = r /\ up'[r].published = u.published
      /\ up'[r].pos = u.pos
    BY <1>1, <1>3, <1>5 DEF UploadType
<1>7. hash[r] = <<>> /\ Len(<<>>) = 0
    BY <1>1, <1>2 DEF Filed
<1> QED
    BY <1>1, <1>2, <1>3, <1>4, <1>5, <1>6, <1>7 DEF Filed, OwnFiles

\* The rename, or the completion of the multipart upload: the one step in which an object
\* changes.
LEMMA CommitFiles ==
    ASSUME Inner, Files, NEW r \in Runs, SameCalls, SameChains, run[r].pc = "write",
           UNCHANGED <<run, hash>>, Commit(r)
    PROVE  /\ Filed(r)' /\ OwnFiles(r) /\ UNCHANGED body /\ ~up[r].published
           /\ \A q \in Runs \ {r} : up'[q].published = up[q].published
           /\ up'[r].published /\ object' = [object EXCEPT ![up[r].key] = r]
           /\ older' = [older EXCEPT ![up[r].key] =
                           @ \union IF up[r].backend = "localfs" THEN {object[up[r].key]} ELSE {}]
           /\ body[r] = Whole(r)
<1>1. PICK u \in UploadType : u = up[r] /\ u.pc = "commit"
    BY DEF Inner, Typed, StoreTyped, Commit
<1>2. Filed(r) /\ TempName(r)' = TempName(r) /\ Whole(r)' = Whole(r)
    BY SameNames DEF Files
<1>3. /\ up \in [Runs -> UploadType] /\ DOMAIN temp = TempNames /\ TempName(r) \in TempNames
      /\ DOMAIN object = Keys /\ u.key \in Keys
    BY TempNamed DEF Inner, Typed, StoreTyped, UploadType
<1>4. /\ temp[TempName(r)] = r /\ u.file = r /\ ~u.published /\ body[r] = hash[r]
      /\ hash[r] = Whole(r) /\ u.pos = Len(hash[r])
      /\ u.backend = "localfs" => r \in synced
    BY <1>1, <1>2 DEF Filed
<1>5. /\ object' = [object EXCEPT ![u.key] = r] /\ temp' = [temp EXCEPT ![TempName(r)] = None]
      /\ older' = [older EXCEPT ![u.key] = @ \union IF u.backend = "localfs" THEN {object[u.key]} ELSE {}]
      /\ UNCHANGED <<body, synced, takenBack>>
      /\ \/ up' = [up EXCEPT ![r].pc = "ok", ![r].published = TRUE]
         \/ up' = [up EXCEPT ![r].pc = "undo", ![r].published = TRUE, ![r].lost = TRUE]
    BY <1>1, <1>4, NoneIsNothing DEF Commit
<1>6. /\ up'[r].file = u.file /\ up'[r].published /\ up'[r].key = u.key
      /\ up'[r].backend = u.backend /\ up'[r].pos = u.pos /\ up'[r].pc \in {"ok", "undo"}
      /\ \A q \in Runs \ {r} : up'[q] = up[q]
    BY <1>1, <1>3, <1>5 DEF UploadType
<1>7. object'[u.key] = r /\ \A k \in Keys \ {u.key} : object'[k] = object[k]
    BY <1>3, <1>5
<1>8. \A t \in TempNames \ {TempName(r)} : temp'[t] = temp[t]
    BY <1>3, <1>5
<1>9. Filed(r)'
    BY <1>1, <1>2, <1>4, <1>5, <1>6, <1>7, NoneIsNothing DEF Filed
<1>10. \A k \in Keys : older'[k] \subseteq older[k] \union {object[k]}
    BY <1>3, <1>5 DEF Inner, Typed, StoreTyped
<1>11. OwnFiles(r)
    BY <1>1, <1>5, <1>6, <1>7, <1>8, <1>10 DEF OwnFiles
<1> QED
    BY <1>1, <1>4, <1>5, <1>6, <1>9, <1>11

\* Every step of a storage backend keeps the invariant of the files.
LEMMA StoreFiles ==
    ASSUME Inner, Files, NEW r \in Runs, SameCalls, SameChains, StoreMoves(r)
    PROVE  Files'
<1>1. OthersStay(r)
    BY OthersStayThere DEF Inner
<1>2. Filed(r)' /\ OwnFiles(r)
    <2>1. CASE Upload(r)
        BY <2>1, UploadFiles
    <2>2. CASE ~Upload(r)
        <3>1. /\ UNCHANGED <<run, hash>>
              /\ \/ UploadEnds(r) \/ UploadCancelled(r) \/ StoreFails(r)
                 \/ CannotWrite(r, run[r].cancelled) \/ Undo(r, run[r].cancelled)
                 \/ OpenTemp(r) \/ Commit(r)
            BY <2>2 DEF StoreMoves, UploadEnds, UploadCancelled, StoreStep, StoreFails, BeginWrite
        <3>2. run[r].pc = "write"
            BY <2>2 DEF StoreMoves, UploadEnds, UploadCancelled, StoreStep, StoreFails, Inner, Phases,
               Phase
        <3> QED
            BY <3>1, <3>2, CallFiles, OpenFiles, CommitFiles
    <2> QED
        BY <2>1, <2>2
<1> QED
    BY <1>1, <1>2, OwnFilesKeep

\* The power fails: what is under a key was synced, or is not on this host.
LEMMA CrashFiles ==
    ASSUME Inner, Files, SameCalls, SameChains, Crash
    PROVE  Files'
<1>1. /\ UNCHANGED <<temp, synced>>
      /\ \A f \in Runs : body'[f] \in LosesUnsynced(f)
      /\ \A k \in Keys : /\ object'[k] \in {object[k]} \union older[k] /\ older'[k] = {}
                         /\ object'[k] = object[k] \/ k \in takenBack'
      /\ takenBack \subseteq takenBack'
    BY DEF Crash, PowerLoss
<1>2. Steady
    BY DEF Steady, Crash
<1>3. ASSUME NEW r \in Runs
      PROVE  /\ up'[r].file = up[r].file /\ up'[r].published = up[r].published
             /\ up'[r].lost = up[r].lost
             /\ up[r].pc \in {"idle", "ok", "error"} => up'[r] = up[r]
             /\ up[r].pc \notin {"idle", "ok", "error"} => up'[r].pc = "error"
    <2>1. PICK u \in UploadType : u = up[r]
        BY DEF Inner, Typed, StoreTyped
    <2>2. up'[r] = IF u.pc \in {"idle", "ok", "error"} THEN u
                   ELSE [u EXCEPT !.pc = "error", !.pos = 0, !.stalled = FALSE]
        BY <2>1 DEF Crash, PowerLoss
    <2>3. /\ [u EXCEPT !.pc = "error", !.pos = 0, !.stalled = FALSE].pc = "error"
          /\ [u EXCEPT !.pc = "error", !.pos = 0, !.stalled = FALSE].file = u.file
          /\ [u EXCEPT !.pc = "error", !.pos = 0, !.stalled = FALSE].lost = u.lost
          /\ [u EXCEPT !.pc = "error", !.pos = 0, !.stalled = FALSE].published = u.published
        BY DEF UploadType
    <2> QED
        BY <2>1, <2>2, <2>3
<1>4. Apart'
    BY <1>2, <1>3, ApartStays DEF Files, Aside
<1>5. Objects'
    <2> SUFFICES ASSUME NEW k \in Keys, NEW f \in {object[k]} \union older[k], f # None
                 PROVE  up'[f].published /\ up'[f].key = k
        BY <1>1 DEF Objects
    <2>1. f \in Runs
        BY DEF Inner, Typed, StoreTyped
    <2>2. up[f].published /\ up[f].key = k
        BY DEF Files, Objects
    <2> QED
        BY <1>3, <2>1, <2>2 DEF SameCalls
<1>6. ASSUME NEW r \in Runs
      PROVE  Filed(r)'
    <2>1. Filed(r) /\ Phase(r) /\ TempName(r)' = TempName(r) /\ Whole(r)' = Whole(r)
        BY SameNames DEF Files, Inner, Phases
    <2>2. up[r].published => body'[r] = body[r]
        <3> SUFFICES ASSUME up[r].published
                     PROVE  LosesUnsynced(r) = {body[r]}
            BY <1>1
        <3>1. CASE r \in synced
            BY <3>1 DEF LosesUnsynced
        <3>2. CASE r \notin synced
            <4>1. up[r].backend # "localfs"
                BY <2>1, <3>2 DEF Filed
            <4>2. \A q \in Runs : up[q].file = r => q = r
                BY NoneIsNothing DEF Files, Filed
            <4> QED
                BY <4>1, <4>2 DEF LosesUnsynced
        <3> QED
            BY <3>1, <3>2
    <2>3. /\ run'[r].pc = "dead" \/ run'[r] = run[r]
          /\ run'[r].pc = "done" <=> run[r].pc = "done"
          /\ run'[r].pc # "dead" => hash'[r] = hash[r] /\ run[r].pc # "dead"
          /\ run[r].pc = "write" => run'[r].pc = "dead"
          /\ run'[r].result = "ok" => run[r].result = "ok" /\ hash'[r] = hash[r]
          /\ hash'[r] \in {hash[r], <<>>}
        <3> DEFINE dead == {q \in Runs : run[q].pc \notin {"new", "done", "dead"}}
        <3>1. /\ run'[r] = IF r \in dead
                           THEN [pc |-> "dead", cancelled |-> FALSE,
                                 result |-> IF run[r].result = "none" THEN "error" ELSE run[r].result]
                           ELSE run[r]
              /\ hash'[r] = IF r \in dead
                            THEN IF run[r].result = "none" THEN <<>> ELSE hash[r] ELSE hash[r]
            BY DEF Crash
        <3>2. CASE r \in dead
            BY <3>1, <3>2
        <3>3. CASE r \notin dead
            BY <3>1, <3>3
        <3> QED
            BY <3>2, <3>3
    <2>6. /\ up'[r].key = up[r].key /\ up[r].key \in Keys
          /\ object[up[r].key] # None \/ up[r].key \in takenBack
                => object'[up[r].key] # None \/ up[r].key \in takenBack'
        <3>1. up[r].key \in Keys
            BY DEF Inner, Typed, StoreTyped, UploadType
        <3> QED
            BY <1>1, <3>1 DEF SameCalls
    <2>7. run'[r].pc = "dead" \/ (run'[r].cancelled = run[r].cancelled /\ run'[r].pc = run[r].pc)
        BY <2>3
    <2>4. CASE up[r].pc \in {"idle", "ok", "error"}
        <3>1. up'[r] = up[r]
            BY <1>3, <2>4
        <3> QED
            BY <1>1, <2>1, <2>2, <2>3, <2>4, <2>6, <2>7, <3>1 DEF Filed, Unabortable
    <2>5. CASE up[r].pc \notin {"idle", "ok", "error"}
        <3>1. up'[r].pc = "error" /\ run'[r].pc = "dead"
            <4>1. up[r].pc \in {"copy", "commit", "undo"}
                BY <2>5 DEF Inner, Typed, StoreTyped, UploadType
            <4> QED
                BY <1>3, <2>1, <2>3, <2>5, <4>1 DEF Phase
        <3> QED
            BY <1>1, <1>3, <2>1, <2>2, <2>6, <3>1 DEF Filed, SameCalls
    <2> QED
        BY <2>4, <2>5
<1> QED
    BY <1>4, <1>5, <1>6 DEF Files

\* A directory that reaches the disk changes no file.
LEMMA SettlesFiles ==
    ASSUME Inner, Files, SameCalls, SameChains, NEW k \in Keys, Settles(k)
    PROVE  Files'
<1>1. /\ UNCHANGED <<run, hash>> /\ UNCHANGED <<up, object, temp, body, synced, takenBack>>
      /\ older' = [older EXCEPT ![k] = {}]
    BY DEF Settles, DirectorySettles
<1>2. Apart'
    BY <1>1, ApartStays DEF Files, Steady
<1>3. \A q \in Keys : older'[q] \subseteq older[q]
    BY <1>1 DEF Inner, Typed, StoreTyped
<1>4. Objects'
    BY <1>1, <1>3 DEF Files, Objects
<1>5. ASSUME NEW r \in Runs
      PROVE  Filed(r)'
    BY <1>1, SameNames DEF Files, Filed, Unabortable
<1> QED
    BY <1>2, <1>4, <1>5 DEF Files

\* Every step, and a stutter, keeps the invariant of the files.
LEMMA FilesStep ==
    ASSUME Inner, Files, [Next]_vars
    PROVE  Files'
<1>1. SameCalls /\ SameChains
    BY InnerStep
<1>2. CASE Next
    <2>1. CASE Crash
        BY <1>1, <2>1, CrashFiles
    <2>4. ASSUME NEW k \in Keys, Settles(k)
          PROVE  Files'
        BY <1>1, <2>4, SettlesFiles
    <2>2. ASSUME NEW r \in Runs, StoreMoves(r)
          PROVE  Files'
        BY <1>1, <2>2, StoreFiles
    <2>3. ASSUME NEW r \in Runs, ConnectorMoves(r) \/ FeedMoves(r) \/ ToolMoves(r) \/ RunMoves(r)
          PROVE  Files'
        <3>1. UNCHANGED <<storeVars, hash>>
            BY <2>3 DEF ConnectorMoves, ConnectorWorks, ConnectorDisturbed, FeedMoves, CodecFails,
               CopyPiece, PassOn, DumpEnds, CloseCodec, CloseFails, ClosePipe, ToolMoves, ToolWrites,
               ToolExits, KillTool, RunMoves, Start, OpenFails, StartDump, DumpFails, Stored, Join,
               Return, Cancel
        <3>2. Steady
            BY <2>3, MovesSteady
        <3> QED
            BY <1>1, <3>1, <3>2, FilesStay
    <2> QED
        BY <1>2, <2>1, <2>2, <2>3, <2>4, NextMoves
<1>3. CASE UNCHANGED vars
    <2>1. UNCHANGED <<storeVars, hash>> /\ Steady
        BY <1>3 DEF vars, storeVars, Steady
    <2> QED
        BY <1>1, <2>1, FilesStay
<1> QED
    BY <1>2, <1>3

\* The inductive invariant of the pipeline, for plans in which no two runs write to one
\* key over sftp.
LEMMA FilesAlways ==
    ASSUME OneSftpWriter
    PROVE  Spec => [](Inner /\ Files)
<1>1. Init => Inner /\ Files
    BY InitInner, InitFiles
<1>2. Inner /\ Files /\ [Next]_vars => (Inner /\ Files)'
    BY InnerStep, FilesStep
<1> QED
    BY <1>1, <1>2, PTL DEF Spec

\* Under a key there is never anything but one run's whole artifact, whatever fails and
\* whenever the host loses power.
THEOREM ObjectsStayWhole ==
    ASSUME OneSftpWriter
    PROVE  Spec => []ObjectsAreWhole
<1>1. Inner /\ Files => ObjectsAreWhole
    <2> SUFFICES ASSUME Inner, Files, NEW k \in Keys, object[k] # None
                 PROVE  \E r \in Runs : up[r].key = k /\ body[object[k]] = Whole(r)
        BY DEF ObjectsAreWhole
    <2>1. object[k] \in Runs
        BY DEF Inner, Typed, StoreTyped
    <2> QED
        BY <2>1 DEF Files, Objects, Filed
<1> QED
    BY <1>1, FilesAlways, PTL

\* A successful run's size and checksum are those of a whole artifact, which is under its key
\* unless another run replaced it or a power loss took a rename of the key back.
THEOREM ResultsAreTrue ==
    ASSUME OneSftpWriter
    PROVE  Spec => []ResultIsTrue
<1>1. Inner /\ Files => ResultIsTrue
    <2> SUFFICES ASSUME Inner, Files, NEW r \in Runs, run[r].result = "ok"
                 PROVE  /\ hash[r] = Whole(r) /\ up[r].pos = Len(hash[r])
                        /\ \/ up[r].key \in takenBack
                           \/ \E q \in Runs \ {r} : up[q].key = up[r].key /\ up[q].published
                           \/ body[object[up[r].key]] = hash[r]
        BY DEF ResultIsTrue
    <2>1. up[r].pc = "ok"
        BY DEF Inner, Phases, Phase
    <2>2. /\ up[r].published /\ hash[r] = Whole(r) /\ up[r].pos = Len(hash[r])
          /\ body[r] = Whole(r) /\ (object[up[r].key] # None \/ up[r].key \in takenBack)
        BY <2>1 DEF Files, Filed
    <2> SUFFICES ASSUME object[up[r].key] # None
                 PROVE  \/ \E q \in Runs \ {r} : up[q].key = up[r].key /\ up[q].published
                        \/ body[object[up[r].key]] = hash[r]
        BY <2>2
    <2>3. PICK f \in Runs : f = object[up[r].key]
        BY <2>2 DEF Inner, Typed, StoreTyped, UploadType
    <2>4. up[f].published /\ up[f].key = up[r].key
        <3>1. up[r].key \in Keys
            BY DEF Inner, Typed, StoreTyped, UploadType
        <3> QED
            BY <2>2, <2>3, <3>1 DEF Files, Objects
    <2> QED
        BY <2>2, <2>3, <2>4
<1> QED
    BY <1>1, FilesAlways, PTL

\* A run that returned left neither a process, a goroutine, a connection, a container, a codec
\* nor a temporary file, except in the cases NothingIsLeft lists: the call that releases it
\* failed or cannot be made (a container whose name nobody learnt, the parts of a cancelled s3
\* upload, a lost connection), or the chain of codecs could not be built.
THEOREM NothingStays ==
    ASSUME OneSftpWriter
    PROVE  Spec => []NothingIsLeft
<1>1. Inner /\ Files => NothingIsLeft
    <2> SUFFICES ASSUME Inner, Files, NEW r \in Runs, run[r].pc = "done"
                 PROVE  /\ Released(r)
                        /\ ToolGone(r)
                        /\ feed[r].pc \in {"idle", "done"}
                        /\ OpenCodecs(r) # {} => feed[r].err = "codec"
                        /\ up[r].pc \in {"idle", "ok", "error"}
                        /\ up[r].pc = "error" /\ temp[TempName(r)] # None =>
                              up[r].lost \/ Unabortable(r, run[r].cancelled)
        BY DEF NothingIsLeft
    <2>1. Phase(r) /\ Grip(conn[r]) /\ Filed(r)
        BY DEF Inner, Typed, ConnectorsHeld, Phases, Files
    <2>2. Released(r)
        BY <2>1 DEF Phase, Grip, Released
    <2>3. ASSUME feed[r].err # "codec"
          PROVE  OpenCodecs(r) = {}
        <3>1. CASE feed[r].pc = "idle"
            BY <3>1 DEF OpenCodecs
        <3>2. CASE feed[r].pc = "done"
            <4>1. PICK n \in Nat : n = Depth(r)
                BY StreamStays DEF Inner, Typed, Depth, FeedType
            <4>2. feed[r].layer = n + 1
                BY <2>3, <3>2, <4>1 DEF Inner, Flows, Flow, Flowing, Depth
            <4>3. OpenCodecs(r) = (n + 1 + 0)..n
                BY <2>3, <3>2, <4>1, <4>2 DEF OpenCodecs
            <4> QED
                BY <4>1, <4>3
        <3> QED
            BY <2>1, <3>1, <3>2 DEF Phase
    <2> QED
        BY <2>1, <2>2, <2>3 DEF Phase, Filed
<1> QED
    BY <1>1, FilesAlways, PTL

--------------------------------------------------------------------------------
(***************************************************************************)
(* The pipeline implements Publishing.                                     *)
(***************************************************************************)

\* The refinement mapping, by name.
KeyOf == [r \in Runs |-> up[r].key]
Shown == [k \in Keys |-> Artifact(object[k])]
Unsettled == [k \in Keys |-> {Artifact(f) : f \in older[k]}]
PublishedOnes == {r \in Runs : up[r].published}
Result == [r \in Runs |-> run[r].result]

\* An artifact tells whose it is: it has at least one piece.
LEMMA WholeIsOnes ==
    ASSUME Inner, NEW r \in Runs, NEW q \in Runs, Whole(r) = Whole(q)
    PROVE  r = q
<1>1. PICK c \in Nat \ {0}, d \in Nat : c = Chunks(r) /\ d = Depth(r)
    <2>1. Chunks(r) \in Nat \ {0}
        BY StreamStays DEF Inner, Typed, Chunks, FeedType
    <2>2. Depth(r) \in Nat
        BY StreamStays DEF Inner, Typed, Depth, FeedType
    <2> QED
        BY <2>1, <2>2
<1>2. PICK e \in Nat \ {0}, g \in Nat : e = Chunks(q) /\ g = Depth(q)
    <2>1. Chunks(q) \in Nat \ {0}
        BY StreamStays DEF Inner, Typed, Chunks, FeedType
    <2>2. Depth(q) \in Nat
        BY StreamStays DEF Inner, Typed, Depth, FeedType
    <2> QED
        BY <2>1, <2>2
<1>3. Whole(r) = [i \in 1..(c + d) |-> <<r, i>>] /\ Whole(q) = [i \in 1..(e + g) |-> <<q, i>>]
    BY <1>1, <1>2 DEF Whole
<1>4. 1 \in 1..(c + d) /\ 1 \in 1..(e + g)
    OBVIOUS
<1>5. Whole(r)[1] = <<r, 1>> /\ Whole(q)[1] = <<q, 1>>
    BY <1>3, <1>4
<1> QED
    BY <1>5

\* The file of a run that published it is that run's artifact.
LEMMA ArtifactIsFile ==
    ASSUME Inner, Files, NEW k \in Keys, NEW f \in {object[k]} \union older[k]
    PROVE  Artifact(f) = f
<1>1. CASE f = None
    BY <1>1 DEF Artifact
<1>2. CASE f # None
    <2>1. f \in Runs
        BY <1>2 DEF Inner, Typed, StoreTyped
    <2>2. body[f] = Whole(f)
        BY <1>2, <2>1 DEF Files, Objects, Filed
    <2>3. \A r \in Runs : body[f] = Whole(r) => r = f
        BY <2>1, <2>2, WholeIsOnes
    <2>4. (CHOOSE r \in Runs : body[f] = Whole(r)) = f
        BY <2>1, <2>2, <2>3
    <2>5. Artifact(f) = CHOOSE r \in Runs : body[f] = Whole(r)
        BY <1>2, <2>1, <2>2 DEF Artifact
    <2> QED
        BY <2>4, <2>5
<1> QED
    BY <1>1, <1>2

\* What the mapping shows, of the storage and of what a power loss may bring back.
Told == Shown = object /\ Unsettled = older

\* What a reader of the storage is shown is the abstract object of each key.
LEMMA ShownIsObject ==
    ASSUME Inner, Files
    PROVE  Told
<1>1. ASSUME NEW k \in Keys
      PROVE  Artifact(object[k]) = object[k] /\ {Artifact(f) : f \in older[k]} = older[k]
    BY ArtifactIsFile
<1>2. object = [k \in Keys |-> object[k]] /\ older = [k \in Keys |-> older[k]]
    BY DEF Inner, Typed, StoreTyped
<1>3. Shown = object
    BY <1>1, <1>2 DEF Shown
<1>4. Unsettled = older
    BY <1>1, <1>2 DEF Unsettled
<1> QED
    BY <1>3, <1>4 DEF Told

\* Before the commit nobody sees a thing of the upload.
LEMMA UnseenMoves ==
    ASSUME Inner, NEW r \in Runs, StoreMoves(r), ~Commit(r)
    PROVE  PublishedOnes' = PublishedOnes /\ UNCHANGED <<object, older, run>>
<1>1. up \in [Runs -> UploadType]
    BY DEF Inner, Typed, StoreTyped
<1>2. up'[r].published = up[r].published
    BY <1>1 DEF StoreMoves, Upload, WritePiece, UploadEnds, FinishFile, GiveUpWrite, UploadCancelled,
       StoreStep, BeginWrite, CannotWrite, OpenTemp, Undo, StoreFails, WriteFails, PeerStalls, Goes,
       UploadType
<1>3. UNCHANGED <<object, older, run>>
    BY DEF StoreMoves, Upload, WritePiece, UploadEnds, FinishFile, GiveUpWrite, UploadCancelled,
       StoreStep, BeginWrite, CannotWrite, OpenTemp, Undo, StoreFails, WriteFails, PeerStalls, files,
       directories
<1>4. \A q \in Runs \ {r} : up'[q] = up[q]
    BY OthersStayThere DEF Inner, OthersStay
<1> QED
    BY <1>2, <1>3, <1>4 DEF PublishedOnes

\* Committing an upload is publishing its run; what it replaced has settled or may come back.
LEMMA CommitPublishes ==
    ASSUME Inner, Files, NEW r \in Runs, SameCalls, SameChains, StoreMoves(r), Commit(r)
    PROVE  /\ Result' = Result /\ Result[r] = "none"
           /\ r \notin PublishedOnes /\ PublishedOnes' = PublishedOnes \union {r}
           /\ object' = [object EXCEPT ![KeyOf[r]] = r]
           /\ \/ older' = [older EXCEPT ![KeyOf[r]] = @ \union {object[KeyOf[r]]}]
              \/ UNCHANGED older
<1>1. run[r].pc = "write" /\ UNCHANGED <<run, hash>>
    BY DEF StoreMoves, Upload, UploadEnds, UploadCancelled, StoreStep, StoreFails, Commit, Inner, Phases,
       Phase
<1>2. Result' = Result /\ Result[r] = "none"
    BY <1>1 DEF Result, Inner, Phases, Phase
<1>3. /\ ~up[r].published
      /\ \A q \in Runs \ {r} : up'[q].published = up[q].published
      /\ up'[r].published /\ object' = [object EXCEPT ![up[r].key] = r]
      /\ older' = [older EXCEPT ![up[r].key] =
                      @ \union IF up[r].backend = "localfs" THEN {object[up[r].key]} ELSE {}]
    BY <1>1, CommitFiles
<1>4. KeyOf[r] = up[r].key
    BY DEF KeyOf
<1>5. \/ older' = [older EXCEPT ![KeyOf[r]] = @ \union {object[KeyOf[r]]}]
      \/ UNCHANGED older
    <2>1. CASE up[r].backend = "localfs"
        BY <1>3, <1>4, <2>1
    <2>2. CASE up[r].backend # "localfs"
        BY <1>3, <2>2 DEF Inner, Typed, StoreTyped
    <2> QED
        BY <2>1, <2>2
<1>6. r \notin PublishedOnes /\ PublishedOnes' = PublishedOnes \union {r}
    BY <1>3 DEF PublishedOnes
<1> QED
    BY <1>2, <1>3, <1>4, <1>5, <1>6

\* RunPipeline's result is set once.
LEMMA ResultMoves ==
    ASSUME Inner, Files, NEW r \in Runs,
           ConnectorMoves(r) \/ FeedMoves(r) \/ ToolMoves(r) \/ RunMoves(r)
    PROVE  /\ PublishedOnes' = PublishedOnes /\ UNCHANGED <<object, older>>
           /\ \/ Result' = Result
              \/ Result[r] = "none" /\ r \in PublishedOnes /\ Result' = [Result EXCEPT ![r] = "ok"]
              \/ Result[r] = "none" /\ Result' = [Result EXCEPT ![r] = "error"]
<1>1. UNCHANGED <<up, object, older>>
    BY DEF ConnectorMoves, ConnectorWorks, ConnectorDisturbed, FeedMoves, CodecFails,
       CopyPiece, PassOn, DumpEnds, CloseCodec, CloseFails, ClosePipe, ToolMoves, ToolWrites,
       ToolExits, KillTool, RunMoves, Start, OpenFails, StartDump, DumpFails, Stored, Join,
       Return, Cancel, storeVars
<1>2. run \in [Runs -> RunType] /\ \A q \in Runs \ {r} : run'[q] = run[q]
    BY OthersStayThere DEF Inner, Typed, StreamTyped, OthersStay
<1>3. \/ run'[r].result = run[r].result
      \/ run[r].result = "none" /\ up[r].published /\ run'[r].result = "ok"
      \/ run[r].result = "none" /\ run'[r].result = "error"
    <2>1. Phase(r) /\ Filed(r)
        BY DEF Inner, Phases, Files
    <2>2. CASE UNCHANGED run
        BY <2>2
    <2>3. CASE Join(r)
        <3>1. /\ run[r].result = "none"
              /\ run'[r].result = IF up[r].pc = "ok" /\ feed[r].err = "none" THEN "ok" ELSE "error"
            BY <1>2, <2>1, <2>3 DEF Join, Ends, Phase, RunType
        <3> QED
            BY <2>1, <3>1 DEF Filed
    <2>4. CASE OpenFails(r) \/ DumpFails(r)
        BY <1>2, <2>1, <2>4 DEF OpenFails, DumpFails, Ends, Phase, RunType
    <2>5. CASE Start(r) \/ StartDump(r) \/ Stored(r) \/ Return(r) \/ Cancel(r)
        BY <1>2, <2>5 DEF Start, StartDump, Stored, Return, Cancel, Moves, RunType
    <2> QED
        BY <2>2, <2>3, <2>4, <2>5 DEF ConnectorMoves, ConnectorWorks, ConnectorDisturbed, FeedMoves,
           CodecFails, CopyPiece, PassOn, DumpEnds, CloseCodec, CloseFails, ClosePipe, ToolMoves,
           ToolWrites, ToolExits, KillTool, RunMoves
<1> QED
    BY <1>1, <1>2, <1>3 DEF PublishedOnes, Result

\* A power loss fails some unfinished runs and may take renames back.
LEMMA ResultCrash ==
    ASSUME Inner, Crash
    PROVE  /\ PublishedOnes' = PublishedOnes /\ object' = [k \in Keys |-> object'[k]]
           /\ \A k \in Keys : object'[k] \in {object[k]} \union older[k]
           /\ older' = [k \in Keys |-> {}]
           /\ \E failed \in SUBSET {r \in Runs : Result[r] = "none"} :
                 Result' = [r \in Runs |-> IF r \in failed THEN "error" ELSE Result[r]]
<1>1. /\ object' = [k \in Keys |-> object'[k]] /\ older' = [k \in Keys |-> {}]
      /\ \A k \in Keys : object'[k] \in {object[k]} \union older[k]
    BY DEF Crash, PowerLoss
<1>2. PublishedOnes' = PublishedOnes
    <2>1. ASSUME NEW r \in Runs
          PROVE  up'[r].published = up[r].published
        <3>1. PICK u \in UploadType : u = up[r]
            BY DEF Inner, Typed, StoreTyped
        <3>2. up'[r] = IF u.pc \in {"idle", "ok", "error"} THEN u
                       ELSE [u EXCEPT !.pc = "error", !.pos = 0, !.stalled = FALSE]
            BY <3>1 DEF Crash, PowerLoss
        <3>3. [u EXCEPT !.pc = "error", !.pos = 0, !.stalled = FALSE].published = u.published
            BY DEF UploadType
        <3> QED
            BY <3>1, <3>2, <3>3
    <2> QED
        BY <2>1 DEF PublishedOnes
<1> DEFINE dead == {q \in Runs : run[q].pc \notin {"new", "done", "dead"}}
           failed == {q \in dead : run[q].result = "none"}
<1>3. ASSUME NEW r \in Runs
      PROVE  run'[r].result = IF r \in failed THEN "error" ELSE run[r].result
    BY DEF Crash
<1>4. failed \in SUBSET {r \in Runs : Result[r] = "none"}
    BY DEF Result
<1>5. Result' = [r \in Runs |-> IF r \in failed THEN "error" ELSE Result[r]]
    BY <1>3 DEF Result
<1> HIDE DEF failed
<1> QED
    BY <1>1, <1>2, <1>4, <1>5

\* A key changes in one step from one whole artifact to another, or back to an earlier one when
\* power is lost before the directory has settled; only a run that published reports success,
\* and a result is final.
THEOREM PipelinePublishes ==
    ASSUME OneSftpWriter
    PROVE  Spec => ImplementsPublishing
<1>1. Init /\ Inner /\ Files => Published!Init
    <2> SUFFICES ASSUME Init, Inner, Files
                 PROVE  Published!Init
        OBVIOUS
    <2>1. Shown = [k \in Keys |-> None] /\ Unsettled = [k \in Keys |-> {}]
        BY ShownIsObject DEF Init, Told
    <2>2. PublishedOnes = {}
        BY DEF Init, PublishedOnes, NewUpload
    <2>3. Result = [r \in Runs |-> "none"]
        BY DEF Init, Result
    <2>4. KeyOf \in [Runs -> Keys]
        BY DEF KeyOf, Inner, Typed, StoreTyped, UploadType
    <2> QED
        BY <2>1, <2>2, <2>3, <2>4 DEF Published!Init, Shown, Unsettled, PublishedOnes, Result, KeyOf
<1>2. Inner /\ Files => Told
    BY ShownIsObject
<1>3. (Inner /\ Files)' => Told'
    BY <1>2, PTL
<1>4. Inner /\ Files /\ [Next]_vars => [Published!Next]_(Published!vars)
    <2> SUFFICES ASSUME Inner, Files, [Next]_vars
                 PROVE  [Published!Next]_(Published!vars)
        OBVIOUS
    <2>1. (Inner /\ Files)' /\ SameCalls /\ SameChains
        BY InnerStep, FilesStep
    <2>2. Shown = object /\ Shown' = object' /\ Unsettled = older /\ Unsettled' = older'
        BY <1>2, <1>3, <2>1 DEF Told
    <2>3. KeyOf' = KeyOf
        BY <2>1 DEF KeyOf, SameCalls
    <2>4. ASSUME NEW r \in Runs, Result[r] = "none", r \notin PublishedOnes, PublishedOnes' = PublishedOnes \union {r},
                 object' = [object EXCEPT ![KeyOf[r]] = r], Result' = Result,
                 \/ older' = [older EXCEPT ![KeyOf[r]] = @ \union {object[KeyOf[r]]}]
                 \/ UNCHANGED older
          PROVE  Published!Publish(r)
        BY <2>2, <2>3, <2>4 DEF Published!Publish, KeyOf, Shown, Unsettled, PublishedOnes, Result
    <2>5. ASSUME NEW r \in Runs, Result[r] = "none", r \in PublishedOnes, PublishedOnes' = PublishedOnes,
                 UNCHANGED <<object, older>>, Result' = [Result EXCEPT ![r] = "ok"]
          PROVE  Published!Succeed(r)
        BY <2>2, <2>3, <2>5 DEF Published!Succeed, KeyOf, Shown, Unsettled, PublishedOnes, Result
    <2>6. ASSUME NEW failed \in SUBSET {r \in Runs : Result[r] = "none"},
                 Result' = [r \in Runs |-> IF r \in failed THEN "error" ELSE Result[r]]
          PROVE  Published!Fails(failed)
        BY <2>6 DEF Published!Fails, Result
    <2>7. ASSUME PublishedOnes' = PublishedOnes, UNCHANGED <<object, older>>, Result' = Result
          PROVE  UNCHANGED Published!vars
        BY <2>2, <2>3, <2>7 DEF Published!vars, KeyOf, Shown, Unsettled, PublishedOnes, Result
    <2>8. CASE UNCHANGED vars
        BY <2>7, <2>8 DEF vars, PublishedOnes, Result
    <2>9. CASE Crash
        <3>1. PICK failed \in SUBSET {r \in Runs : Result[r] = "none"} :
                  Result' = [r \in Runs |-> IF r \in failed THEN "error" ELSE Result[r]]
            BY <2>9, ResultCrash
        <3>2. /\ PublishedOnes' = PublishedOnes /\ object' = [k \in Keys |-> object'[k]]
              /\ \A k \in Keys : object'[k] \in {object[k]} \union older[k]
              /\ older' = [k \in Keys |-> {}]
            BY <2>9, ResultCrash
        <3>3. Published!Fails(failed) /\ failed \in SUBSET Runs
            BY <2>6, <3>1
        <3>4. Published!PowerLoss
            BY <2>2, <2>3, <3>2, <3>3 DEF Published!PowerLoss, KeyOf, Shown, Unsettled, PublishedOnes
        <3> QED
            BY <3>4 DEF Published!Next
    <2>12. ASSUME NEW k \in Keys, Settles(k)
           PROVE  Published!Settle(k)
        <3>1. UNCHANGED <<up, object, run>> /\ older' = [older EXCEPT ![k] = {}]
            BY <2>12 DEF Settles, DirectorySettles
        <3>2. PublishedOnes' = PublishedOnes /\ Result' = Result
            BY <3>1 DEF PublishedOnes, Result
        <3> QED
            BY <2>2, <2>3, <3>1, <3>2 DEF Published!Settle, KeyOf, Shown, Unsettled, PublishedOnes, Result
    <2>10. ASSUME NEW r \in Runs, StoreMoves(r)
           PROVE  [Published!Next]_(Published!vars)
        <3>1. CASE Commit(r)
            BY <2>1, <2>4, <2>7, <2>10, <3>1, CommitPublishes DEF Published!Next
        <3>2. CASE ~Commit(r)
            <4>1. PublishedOnes' = PublishedOnes /\ UNCHANGED <<object, older, run>>
                BY <2>10, <3>2, UnseenMoves
            <4>2. Result' = Result
                BY <4>1 DEF Result
            <4> QED
                BY <2>7, <4>1, <4>2
        <3> QED
            BY <3>1, <3>2
    <2>11. ASSUME NEW r \in Runs, ConnectorMoves(r) \/ FeedMoves(r) \/ ToolMoves(r) \/ RunMoves(r)
           PROVE  [Published!Next]_(Published!vars)
        <3>1. PublishedOnes' = PublishedOnes /\ UNCHANGED <<object, older>>
            BY <2>11, ResultMoves
        <3>2. \/ Result' = Result
              \/ Result[r] = "none" /\ r \in PublishedOnes /\ Result' = [Result EXCEPT ![r] = "ok"]
              \/ Result[r] = "none" /\ Result' = [Result EXCEPT ![r] = "error"]
            BY <2>11, ResultMoves
        <3>3. CASE Result' = Result
            BY <2>7, <3>1, <3>3
        <3>4. CASE Result[r] = "none" /\ r \in PublishedOnes /\ Result' = [Result EXCEPT ![r] = "ok"]
            BY <2>5, <3>1, <3>4 DEF Published!Next
        <3>5. CASE Result[r] = "none" /\ Result' = [Result EXCEPT ![r] = "error"]
            <4>1. Result' = [q \in Runs |-> IF q \in {r} THEN "error" ELSE Result[q]]
                BY <3>5 DEF Result
            <4>2. {r} \in SUBSET {q \in Runs : Result[q] = "none"}
                BY <3>5
            <4>3. Published!Fails({r})
                BY <2>6, <4>1, <4>2
            <4>4. Published!Fail(r)
                BY <2>2, <2>3, <3>1, <4>3
                DEF Published!Fail, KeyOf, Shown, Unsettled, PublishedOnes
            <4> QED
                BY <4>4 DEF Published!Next
        <3> QED
            BY <3>2, <3>3, <3>4, <3>5
    <2> QED
        BY <2>8, <2>9, <2>10, <2>11, <2>12, NextMoves DEF Published!Next
<1> QED
    BY <1>1, <1>4, FilesAlways, PTL DEF Spec, ImplementsPublishing, Published!Spec

================================================================================
