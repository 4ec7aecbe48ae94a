--------------------------- MODULE MC_Notifications ---------------------------
EXTENDS Notifications, TLC

\* Three requests, two at a time; or an event, and two requests beside it.
RequestsOverlap == {[clients |-> Clients, requests |-> 3, events |-> {}]}
EventBeside == {[clients |-> {c}, requests |-> 2, events |-> Events] : c \in Clients}
EitherLoad == RequestsOverlap \cup EventBeside

Interchangeable == Permutations(Storages) \cup Permutations(Names) \cup Permutations(Clients)
=============================================================================
