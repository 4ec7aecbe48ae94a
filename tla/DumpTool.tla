------------------------------- MODULE DumpTool --------------------------------
(***************************************************************************)
(* The dump tool of a run and the reader of its output.  postgres, redis   *)
(* and a current MySQL are one client process whose stdout is read         *)
(* (execstream); mongodb adds a file that holds the password; a MySQL too  *)
(* old for the installed client is dumped by a goroutine that runs one     *)
(* client after the other into a pipe of its own ("legacy").               *)
(*                                                                         *)
(* wrote counts the pieces of dump put out; failed is the exit status, or  *)
(* the error the legacy goroutine closed its pipe with.                    *)
(***************************************************************************)
EXTENDS Naturals

CONSTANT Runs

VARIABLE tool

Engines == {"postgres", "mysql", "mongodb", "redis"}

NewTool(engine) ==
    [engine |-> engine, state |-> "none", legacy |-> FALSE, left |-> FALSE,
     wrote |-> 0, failed |-> FALSE, password |-> FALSE]

\* left: the reader closed the legacy pipe.  password: the file exists.
ToolType ==
    [engine : Engines, state : {"none", "running", "exited", "reaped"},
     legacy : BOOLEAN, left : BOOLEAN, wrote : Nat, failed : BOOLEAN, password : BOOLEAN]

ToolBecomes(r, t) == tool' = [tool EXCEPT ![r] = t]
Started(t) == [t EXCEPT !.state = "running"]

--------------------------------------------------------------------------------
(* Dumper.Dump *)

\* The version probe may fail and only chooses the binary.
DumpPostgres(r) ==
    /\ tool[r].engine = "postgres"
    /\ ToolBecomes(r, Started(tool[r]))

DumpRedis(r) ==
    /\ tool[r].engine = "redis"
    /\ ToolBecomes(r, Started(tool[r]))

DumpMySQL(r) ==
    /\ tool[r].engine = "mysql"
    /\ ToolBecomes(r, Started(tool[r]))

\* The probe told an old server and no old client is installed: a goroutine walks
\* the tables.
DumpLegacy(r) ==
    /\ tool[r].engine = "mysql"
    /\ ToolBecomes(r, [Started(tool[r]) EXCEPT !.legacy = TRUE])

\* The password file is there before the process.
DumpMongo(r) ==
    /\ tool[r].engine = "mongodb"
    /\ ToolBecomes(r, [Started(tool[r]) EXCEPT !.password = TRUE])

Dump(r) ==
    DumpPostgres(r) \/ DumpRedis(r) \/ DumpMySQL(r) \/ DumpLegacy(r) \/ DumpMongo(r)

\* Dump failed: bad options, no client, no password file, no list of databases
\* or tables.  mongodb removes its file again.
DumpRefused(r) ==
    /\ tool[r].state = "none"
    /\ ToolBecomes(r, [tool[r] EXCEPT !.password = FALSE])

--------------------------------------------------------------------------------
(* The processes *)

\* The process puts out a piece of dump.
Writes(r, chunks) ==
    /\ tool[r].state = "running" /\ ~tool[r].legacy /\ tool[r].wrote < chunks
    /\ ToolBecomes(r, [tool[r] EXCEPT !.wrote = @ + 1])

\* The process exits, with zero only after the whole dump.
Exits(r, chunks) ==
    /\ tool[r].state = "running" /\ ~tool[r].legacy
    /\ \E failed \in BOOLEAN :
          /\ ~failed => tool[r].wrote = chunks
          /\ ToolBecomes(r, [tool[r] EXCEPT !.state = "exited", !.failed = failed])

\* A table's definition or rows, or a view, as long as somebody reads.
LegacyWrites(r, chunks) ==
    /\ tool[r].state = "running" /\ tool[r].legacy
    /\ tool[r].wrote < chunks /\ ~tool[r].left
    /\ ToolBecomes(r, [tool[r] EXCEPT !.wrote = @ + 1])

\* The last statement is out, a client failed, or nobody reads any more.
LegacyEnds(r, chunks) ==
    /\ tool[r].state = "running" /\ tool[r].legacy
    /\ \E failed \in BOOLEAN :
          /\ ~failed => tool[r].wrote = chunks
          /\ ToolBecomes(r, [tool[r] EXCEPT !.state = "exited", !.failed = failed])

\* Every client runs under the run's context, which kills it.
Killed(r) ==
    /\ tool[r].state = "running"
    /\ ToolBecomes(r, [tool[r] EXCEPT !.state = "exited", !.failed = TRUE])

--------------------------------------------------------------------------------
(* The reader *)

\* All output was read: the process is reaped, and a non-zero exit becomes a
\* read error in place of the end of file.
Drained(r) == tool[r].state = "exited"
ReadEnd(r) == ToolBecomes(r, [tool[r] EXCEPT !.state = "reaped"])
EndsInError(r) == tool[r].failed

\* Close kills the process and reaps it, once; mongodb removes the file.  The
\* legacy goroutine only finds nobody to write to.
CloseTool(t) ==
    [t EXCEPT !.state = IF t.legacy /\ @ = "running" THEN @ ELSE "reaped",
              !.left = TRUE, !.password = FALSE]

\* Nothing is left of a closed dump but the legacy goroutine's current client,
\* which nobody waits for.
ToolGone(r) ==
    /\ ~tool[r].password
    /\ tool[r].state = "running" => tool[r].legacy /\ tool[r].left

================================================================================
