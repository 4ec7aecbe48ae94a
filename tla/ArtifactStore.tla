----------------------------- MODULE ArtifactStore -----------------------------
(***************************************************************************)
(* Storage.Write of the three backends: localfs, sftp and s3 write an      *)
(* object under its key in one step, whatever happens to the upload.       *)
(*                                                                         *)
(*   localfs  a temporary file of its own name, written, synced, renamed   *)
(*   sftp     a temporary file named after the key, written, renamed       *)
(*   s3       parts of a multipart upload, completed at the end            *)
(*                                                                         *)
(* Paths lead to files (inodes), as rename and O_TRUNC see them: a file    *)
(* keeps its writers when its name changes.  A file is named for the run   *)
(* that created it; its content is a sequence of pieces, each told apart   *)
(* by its writer and its place in that writer's stream.                    *)
(*                                                                         *)
(* cancelled, where an operator takes it: the context of the run has ended. *)
(***************************************************************************)
EXTENDS Naturals, Sequences, SequencesExt

CONSTANTS Runs, Keys, None
ASSUME NoneIsNothing == None \notin Runs
ASSUME NamesAreApart == Runs \cap Keys = {}   \* a run stands for the name its writer draws

VARIABLES
    up,         \* up[r]: the Write call of run r
    object,     \* object[k]: the file under key k, or None
    temp,       \* temp[t]: the file under the temporary name t, or None
    body,       \* body[f]: the content of file f
    synced,     \* the files of localfs that reached the disk
    older,      \* older[k]: what was under k before renames that may not have
                \* reached the disk, or None
    takenBack   \* history: the keys a power loss gave an older file back

directories == <<older, takenBack>>
storeVars == <<up, object, temp, body, synced, older, takenBack>>
files == <<object, temp, body, synced, older, takenBack>>

Backends == {"localfs", "sftp", "s3"}
TempNames == Runs \union Keys
Hole == <<>>    \* bytes nobody wrote

\* pc: where Write stands; "ok" and "error" are its result.  file: the open
\* file.  pos: the writer's own offset.  published: the object was put under its
\* key, whether the writer heard of it or not.  lost: the connection to the
\* backend is gone.  stalled: the server has stopped answering.
NewUpload(backend, key) ==
    [backend |-> backend, key |-> key, pc |-> "idle", file |-> None, pos |-> 0,
     published |-> FALSE, lost |-> FALSE, stalled |-> FALSE]

\* The temporary name: localfs draws a fresh one, s3 gets an upload id, sftp
\* appends a fixed suffix to the key.
TempName(r) == IF up[r].backend = "sftp" THEN up[r].key ELSE r

\* Content after a piece was written at an offset, which may lie past the end
\* when somebody truncated the file.
WriteAt(s, offset, piece) ==
    [i \in 1..IF Len(s) > offset THEN Len(s) ELSE offset + 1 |->
        IF i = offset + 1 THEN piece ELSE IF i <= Len(s) THEN s[i] ELSE Hole]

Goes(r, pc) == up' = [up EXCEPT ![r].pc = pc]

--------------------------------------------------------------------------------

\* The server does not answer, and nothing ends the wait: the context does in s3's
\* client alone.  (sftp.go:175-194 bounds the dial and the handshake, not what follows.)
Waits(r, cancelled) == up[r].stalled /\ ~(up[r].backend = "s3" /\ cancelled)

\* No connection, no handshake, no session, no directory.
CannotWrite(r, cancelled) ==
    /\ up[r].pc = "idle" /\ ~Waits(r, cancelled)
    /\ Goes(r, "error")
    /\ UNCHANGED files

\* The temporary file: O_TRUNC on a name that exists empties the file there.
OpenTemp(r) ==
    /\ up[r].pc = "idle" /\ ~up[r].stalled
    /\ LET t == TempName(r)
           f == IF temp[t] = None THEN r ELSE temp[t]
       IN /\ up' = [up EXCEPT ![r].pc = "copy", ![r].file = f]
          /\ temp' = [temp EXCEPT ![t] = f]
          /\ body' = [body EXCEPT ![f] = <<>>]
          /\ synced' = synced \ {f}
          /\ UNCHANGED <<object, directories>>

BeginWrite(r, cancelled) == CannotWrite(r, cancelled) \/ OpenTemp(r)

\* One piece read from the pipe goes to the file.
WritePiece(r, piece) ==
    /\ body' = [body EXCEPT ![up[r].file] = WriteAt(@, up[r].pos, piece)]
    /\ up' = [up EXCEPT ![r].pos = @ + 1]
    /\ UNCHANGED <<object, temp, synced, directories>>

\* The stream ended: localfs syncs and closes, sftp closes, s3 sends the last part.
FinishFile(r) ==
    /\ Goes(r, "commit")
    /\ synced' = synced \union IF up[r].backend = "localfs" THEN {up[r].file} ELSE {}
    /\ UNCHANGED <<object, temp, body, directories>>

\* A read from the pipe failed, or sftp's reader or s3's client saw the context end.
GiveUpWrite(r) ==
    /\ Goes(r, "undo")
    /\ UNCHANGED files

\* A chmod, write, sync, close or the connection failed.
WriteFails(r) ==
    /\ ~up[r].stalled /\ up[r].pc \in {"copy", "commit", "undo"}
    /\ \E lost \in {up[r].lost, up[r].backend # "localfs"} :
          up' = [up EXCEPT ![r].pc = "undo", ![r].lost = lost]
    /\ UNCHANGED files

\* rename, posix-rename or CompleteMultipartUpload.  The temporary name may be
\* gone; the reply of a remote backend may be lost after the effect.  localfs does
\* not sync the directory: until that has reached the disk by itself, what was
\* under the key may come back.
Commit(r) ==
    /\ up[r].pc = "commit" /\ ~up[r].stalled
    /\ LET t == TempName(r)
           k == up[r].key
           here == up[r].backend = "localfs"
       IN IF temp[t] = None
          THEN Goes(r, "undo") /\ UNCHANGED files
          ELSE /\ object' = [object EXCEPT ![k] = temp[t]]
               /\ temp' = [temp EXCEPT ![t] = None]
               /\ older' = [older EXCEPT ![k] = @ \union IF here THEN {object[k]} ELSE {}]
               /\ UNCHANGED <<body, synced, takenBack>>
               /\ \/ up' = [up EXCEPT ![r].pc = "ok", ![r].published = TRUE]
                  \/ /\ ~here
                     /\ up' = [up EXCEPT ![r].pc = "undo", ![r].published = TRUE,
                                         ![r].lost = TRUE]

\* Mutant of Undo: the temporary file stays.
UndoKeeps(r, cancelled) ==
    /\ up[r].pc = "undo" /\ ~Waits(r, cancelled)
    /\ Goes(r, "error")
    /\ UNCHANGED files

\* The abort of a multipart upload is sent under the run's context.
Unabortable(r, cancelled) == up[r].backend = "s3" /\ cancelled

\* The deferred removal of the temporary file (s3: the abort of the upload), for
\* which a lost connection, or the context of an s3 run, leaves no way.
Undo(r, cancelled) ==
    /\ up[r].pc = "undo" /\ ~Waits(r, cancelled)
    /\ Goes(r, "error")
    /\ temp' = IF up[r].lost \/ Unabortable(r, cancelled)
               THEN temp ELSE [temp EXCEPT ![TempName(r)] = None]
    /\ UNCHANGED <<object, body, synced, directories>>

\* A remote server accepts requests and answers none.
PeerStalls(r) ==
    /\ up[r].backend # "localfs" /\ up[r].pc \notin {"ok", "error"} /\ ~up[r].stalled
    /\ up' = [up EXCEPT ![r].stalled = TRUE]
    /\ UNCHANGED files

\* The directory of a key is written to the daemon's disk.
DirectorySettles(k) ==
    /\ older[k] # {}
    /\ older' = [older EXCEPT ![k] = {}]
    /\ UNCHANGED <<up, object, temp, body, synced, takenBack>>

\* The host of the daemon loses power: a file on its own disk that was not
\* synced keeps a prefix of what was written.
LosesUnsynced(f) ==
    IF f \notin synced /\ (\E r \in Runs : up[r].backend = "localfs" /\ up[r].file = f)
    THEN {SubSeq(body[f], 1, n) : n \in 0..Len(body[f])}
    ELSE {body[f]}

\* The last renames of a key may be gone with it.  The temporary name such a file
\* may have again is left out: nobody opens it any more.
PowerLoss ==
    /\ up' = [r \in Runs |-> IF up[r].pc \in {"idle", "ok", "error"} THEN up[r]
                             ELSE [up[r] EXCEPT !.pc = "error", !.pos = 0, !.stalled = FALSE]]
    /\ body' \in [Runs -> UNION {LosesUnsynced(f) : f \in Runs}]
    /\ \A f \in Runs : body'[f] \in LosesUnsynced(f)
    /\ object' \in [Keys -> Runs \union {None}]
    /\ \A k \in Keys : object'[k] \in {object[k]} \union older[k]
    /\ older' = [k \in Keys |-> {}]
    /\ takenBack' = takenBack \union {k \in Keys : object'[k] # object[k]}
    /\ UNCHANGED <<temp, synced>>

================================================================================
