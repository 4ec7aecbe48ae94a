------------------------------ MODULE MC_Pipeline ------------------------------
EXTENDS Pipeline

CONSTANTS r1, r2, k1, k2

Setup(connector, engine, codecs, backend, key, chunks) ==
    [asked |-> TRUE, connector |-> connector, engine |-> engine, codecs |-> codecs,
     backend |-> backend, key |-> key, chunks |-> chunks]

Alone(setup) == [r \in {r1, r2} |-> [setup EXCEPT !.asked = (r = r1)]]
Both(setup, other) == [r \in {r1, r2} |-> IF r = r1 THEN setup ELSE other]

\* One run on each connector, backend and kind of chain.
OneRun ==
    {Alone(Setup("direct", "postgres", <<"stream">>, b, k1, 2)) : b \in Backends}
    \union {Alone(Setup("direct", "redis", <<"buffer", "stream">>, "localfs", k1, 2)),
            Alone(Setup("direct", "redis", <<"stream", "age">>, "localfs", k1, 1))}
    \union {Alone(Setup(c, e, <<>>, "localfs", k1, 1)) : c \in {"tunnel", "docker", "docker_ssh"},
                                                 e \in {"mysql", "mongodb"}}

\* Two runs of one key on localfs and s3: each has a temporary name of its own.
TwoRuns ==
    {Both(Setup("direct", "postgres", <<>>, b, k1, 1), Setup("direct", "postgres", <<>>, b, k1, 1)) : b \in {"localfs", "s3"}}

OneOrTwo == OneRun \union TwoRuns

\* One run that stores over sftp, and one behind a container on another host.
SftpAlone == {Alone(Setup("direct", "postgres", <<>>, "sftp", k1, 1))}
ContainerAlone == {Alone(Setup("docker_ssh", "postgres", <<>>, "localfs", k1, 1))}

\* Two runs of one key on sftp.
SameKey == {Both(Setup("direct", "postgres", <<>>, "sftp", k1, 1), Setup("direct", "postgres", <<>>, "sftp", k1, 1))}
================================================================================
