------------------------------- MODULE Connector -------------------------------
(***************************************************************************)
(* The connectors: what stands between a run and its database.  A run      *)
(* builds a connector of its own, calls Open, and when Open gave it an     *)
(* endpoint calls Close in a defer.  "direct" answers at once; "tunnel"    *)
(* holds an ssh client, a local listener and the goroutines that serve it; *)
(* "docker" holds a proxy container; "docker_ssh" holds all of them.       *)
(*                                                                         *)
(* An action is one blocking call of Open or Close with the code up to the *)
(* next one.  The bytes forwarded and the remote ends are left out.        *)
(***************************************************************************)
EXTENDS Naturals, FiniteSets

CONSTANT Runs

VARIABLE conn     \* conn[r]: the connector value of run r

Kinds == {"direct", "tunnel", "docker", "docker_ssh"}

\* step: where Open or Close stands.  "failed" and "closed" are final, "up" is
\* an open connector.  container: there is one.  named: p.container is set, so
\* that Close stops it.  unstopped: `docker stop` failed.  silent: the call under
\* way to the ssh server or to docker is never answered.
New(kind) == [kind |-> kind, step |-> "new", ssh |-> FALSE, listening |-> FALSE,
              stop |-> FALSE, threads |-> {}, container |-> FALSE,
              named |-> FALSE, unstopped |-> FALSE, silent |-> FALSE]

ConnectorType ==
    [kind : Kinds,
     step : {"new", "dialled", "started", "published", "up",
             "closing", "stopping", "waiting", "closed", "failed"},
     ssh : BOOLEAN, listening : BOOLEAN, stop : BOOLEAN,
     threads : SUBSET {"serve", "keepalive", "forward"},
     container : BOOLEAN, named : BOOLEAN, unstopped : BOOLEAN, silent : BOOLEAN]

OverSSH(r) == conn[r].kind \in {"tunnel", "docker_ssh"}
InDocker(r) == conn[r].kind \in {"docker", "docker_ssh"}

Becomes(r, c) == conn' = [conn EXCEPT ![r] = c]

--------------------------------------------------------------------------------
(* Open *)

OpenDirect(r) ==
    /\ conn[r].kind = "direct" /\ conn[r].step = "new"
    /\ Becomes(r, [conn[r] EXCEPT !.step = "up"])

\* The key is parsed, the host key checked and the host dialled: nothing is
\* held when any of it fails.  The timeout bounds the TCP connect alone, and the
\* context is not looked at: a handshake that is not answered goes on for ever.
Dial(r) ==
    /\ OverSSH(r) /\ conn[r].step = "new" /\ ~conn[r].silent
    /\ \/ Becomes(r, [conn[r] EXCEPT !.step = "dialled", !.ssh = TRUE])
       \/ Becomes(r, [conn[r] EXCEPT !.step = "failed"])

\* What Open does after docker failed it: only docker_ssh calls its own Close,
\* to give the ssh client back.
GiveUp(c) == [c EXCEPT !.step = IF c.kind = "docker_ssh" THEN "closing" ELSE "failed"]

CanStart(r) ==
    \/ conn[r].kind = "docker" /\ conn[r].step = "new"
    \/ conn[r].kind = "docker_ssh" /\ conn[r].step = "dialled"

\* A docker command that is not answered ends with the context when docker is
\* here; over ssh the code waits for the session first, with nothing to end it.
Answered(r, cancelled) == conn[r].silent => conn[r].kind = "docker" /\ cancelled

\* `docker run -d`: the container's name, which Close needs, is taken from the
\* output of a successful command alone.
DockerRun(r, cancelled) ==
    /\ CanStart(r)
    /\ \/ /\ ~conn[r].silent
          /\ Becomes(r, [conn[r] EXCEPT !.step = "started", !.container = TRUE, !.named = TRUE])
       \/ Answered(r, cancelled) /\ Becomes(r, GiveUp(conn[r]))

\* The command was cut after docker had started the container: the context ended,
\* or the connection to docker or to its host broke.  Nobody learns the name.
DockerCut(r, cancelled) ==
    /\ CanStart(r) /\ Answered(r, cancelled)
    /\ Becomes(r, GiveUp([conn[r] EXCEPT !.container = TRUE]))

\* `docker inspect` for the published port; its failure closes the connector.
Inspect(r, cancelled) ==
    /\ InDocker(r) /\ conn[r].step = "started"
    /\ \/ /\ ~conn[r].silent
          /\ Becomes(r, [conn[r] EXCEPT !.step = IF conn[r].kind = "docker" THEN "up" ELSE "published"])
       \/ Answered(r, cancelled) /\ Becomes(r, [conn[r] EXCEPT !.step = "closing"])

\* The local listener and the two goroutines.  When the listener fails, the
\* tunnel closes its client; docker_ssh closes itself.
Listen(r) ==
    /\ \/ conn[r].kind = "tunnel" /\ conn[r].step = "dialled"
       \/ conn[r].kind = "docker_ssh" /\ conn[r].step = "published"
    /\ \/ Becomes(r, [conn[r] EXCEPT !.step = "up", !.listening = TRUE,
                                     !.threads = {"serve", "keepalive"}])
       \/ /\ conn[r].kind = "tunnel"
          /\ Becomes(r, [conn[r] EXCEPT !.step = "failed", !.ssh = FALSE])
       \/ /\ conn[r].kind = "docker_ssh"
          /\ Becomes(r, [conn[r] EXCEPT !.step = "closing"])

--------------------------------------------------------------------------------
(* The goroutines *)

\* serve accepts the dump tool's connection: forward joins the wait group.  It
\* may have accepted just before the listener was closed.
Accept(r) ==
    /\ "serve" \in conn[r].threads /\ "forward" \notin conn[r].threads
    /\ conn[r].step \in {"up", "stopping"}
    /\ conn[r].listening \/ conn[r].step = "stopping"
    /\ Becomes(r, [conn[r] EXCEPT !.threads = @ \union {"forward"}])

\* One direction of a forward ended, or the far side could not be dialled.
ForwardEnds(r) ==
    /\ "forward" \in conn[r].threads
    /\ Becomes(r, [conn[r] EXCEPT !.threads = @ \ {"forward"}])

\* A keepalive request failed: the peer is gone, the other goroutines stay.
KeepaliveFails(r) ==
    /\ "keepalive" \in conn[r].threads
    /\ Becomes(r, [conn[r] EXCEPT !.threads = @ \ {"keepalive"}])

\* What is sure to end each goroutine once Close is at work: serve sees the
\* closed listener; a forward that is still dialling and a keepalive waiting for
\* its reply see the stop channel only after the client was closed.
ThreadEnds(r) ==
    /\ conn[r].step \in {"stopping", "waiting"}
    /\ \E t \in conn[r].threads :
          /\ IF t = "serve" THEN ~conn[r].listening ELSE conn[r].stop /\ ~conn[r].ssh
          /\ Becomes(r, [conn[r] EXCEPT !.threads = @ \ {t}])

--------------------------------------------------------------------------------
(* Close *)

\* The caller's Close; the steps below are also Open's own p.Close().
Close(r) ==
    /\ conn[r].step = "up"
    /\ Becomes(r, [conn[r] EXCEPT !.step = IF conn[r].kind = "direct" THEN "closed" ELSE "closing"])

\* The stop channel and the listener; they exist only when Open came that far.
CloseListener(r) ==
    /\ conn[r].step = "closing"
    /\ Becomes(r, [conn[r] EXCEPT !.step = "stopping",
                                  !.stop = conn[r].listening, !.listening = FALSE])

\* `docker stop` of a container with a name, under a context of its own and only
\* reported when it fails; afterwards the ssh client goes.  Over ssh the session
\* comes first, for which that context does nothing.
HangUp(r) ==
    /\ conn[r].step = "stopping"
    /\ conn[r].kind = "docker_ssh" /\ conn[r].named => ~conn[r].silent
    /\ \/ Becomes(r, [conn[r] EXCEPT !.step = "waiting", !.ssh = FALSE,
                                     !.container = @ /\ ~conn[r].named])
       \/ /\ conn[r].named
          /\ Becomes(r, [conn[r] EXCEPT !.step = "waiting", !.ssh = FALSE, !.unstopped = TRUE])

\* wg.Wait
Waited(r) ==
    /\ conn[r].step = "waiting" /\ conn[r].threads = {}
    /\ Becomes(r, [conn[r] EXCEPT !.step = "closed"])

\* Every step the connector's own code takes, once called.
ConnectorStep(r, cancelled) ==
    \/ OpenDirect(r) \/ Dial(r) \/ DockerRun(r, cancelled) \/ DockerCut(r, cancelled)
    \/ Inspect(r, cancelled) \/ Listen(r)
    \/ ThreadEnds(r) \/ CloseListener(r) \/ HangUp(r) \/ Waited(r)

\* The ssh server or docker does not answer the call under way.
PeerFallsSilent(r) ==
    /\ \/ OverSSH(r) /\ conn[r].step = "new"
       \/ CanStart(r)
       \/ InDocker(r) /\ conn[r].step = "started"
       \/ conn[r].kind = "docker_ssh" /\ conn[r].step = "stopping" /\ conn[r].named
    /\ Becomes(r, [conn[r] EXCEPT !.silent = TRUE])

\* What the tool and the peers do to it.
ConnectorWorld(r) ==
    Accept(r) \/ ForwardEnds(r) \/ KeepaliveFails(r) \/ PeerFallsSilent(r)

\* Open returned without an endpoint.
OpenFailed(r) == conn[r].step \in {"failed", "closed"}

\* An ended connector has no goroutine, listener or ssh client, and the container
\* is stopped, unless `docker stop` failed or its name was never learnt: then
\* `docker run` was cut, and nothing is there to stop it.
Released(r) ==
    /\ conn[r].threads = {} /\ ~conn[r].listening /\ ~conn[r].ssh
    /\ conn[r].container => conn[r].unstopped \/ ~conn[r].named

================================================================================
