-------------------------------- MODULE Users --------------------------------
(***************************************************************************)
(* The accounts of app_user and the guard on the last enabled administrator. *)
(* A PATCH reads a row, replaces the fields it was given in the copy, hashes a *)
(* password perhaps, and writes the whole copy back in a transaction.        *)
(*                                                                           *)
(* The sign-in (SignIn) is extended beside this module by Accounts_proofs, so *)
(* the names that the two would share are prefixed here.                      *)
(***************************************************************************)
EXTENDS FiniteSets

CONSTANTS
  Ids,       \* row ids of app_user, handed out again after a deletion
  Token,     \* DUSKRUN_API_TOKEN: an administrator without an account
  Patches    \* PATCH requests in flight

ASSUME TokenIsNobody == Token \notin Ids

VARIABLES
  row,       \* app_user
  session,   \* the ids that have sessions
  patch      \* what each PATCH request has read and is going to write

userVars == <<row, session, patch>>

Roles  == {"admin", "operator", "viewer"}
User   == [role : Roles, disabled : BOOLEAN]
NoUser == [role |-> "none", disabled |-> FALSE]
Rows   == User \cup {NoUser}

\* A request between its reading and its writing; resets says that it was also given
\* a password, and resetting that only that is left to do.
Patch == [pc : {"read", "resetting"}, id : Ids, next : User, resets : BOOLEAN]
NoPatch == [pc |-> "idle"]

UsersTypeOK ==
  /\ row \in [Ids -> Rows]
  /\ session \subseteq Ids
  /\ patch \in [Patches -> Patch \cup {NoPatch}]

Exists(u)  == row[u] # NoUser
IsAdmin(x) == x.role = "admin" /\ ~x.disabled
Admins     == {u \in Ids : IsAdmin(row[u])}
Callers    == Admins \cup {Token}

\* An instance set up: `duskrun user add` has made the first administrator.
UsersInit ==
  /\ \E u \in Ids :
       row = [v \in Ids |-> IF v = u THEN [role |-> "admin", disabled |-> FALSE] ELSE NoUser]
  /\ session = {}
  /\ patch = [r \in Patches |-> NoPatch]

\* createUser and `duskrun user add`.
CreateUser(u) ==
  /\ ~Exists(u)
  /\ \E role \in Roles : row' = [row EXCEPT ![u] = [role |-> role, disabled |-> FALSE]]
  /\ UNCHANGED <<session, patch>>

\* issueSession: an account that was enabled when it signed in. The row may be disabled
\* by now, and the session is then of no use.
SignIn(u) ==
  /\ Exists(u)
  /\ session' = session \cup {u}
  /\ UNCHANGED <<row, patch>>

SignOut(u) ==
  /\ u \in session
  /\ session' = session \ {u}
  /\ UNCHANGED <<row, patch>>

\* Any request of an administrator; the own role and the own account are only ever
\* copied. The caller is an administrator when the request is authenticated.
ReadUser(r, who, u) ==
  /\ patch[r] = NoPatch
  /\ who \in Callers /\ Exists(u)
  /\ \E next \in User, resets \in BOOLEAN :
       /\ who = u => next = row[u]
       /\ patch' = [patch EXCEPT ![r] = [pc |-> "read", id |-> u, next |-> next, resets |-> resets]]
  /\ UNCHANGED <<row, session>>

\* ensureNotLastAdmin counts the others in the transaction that changes the row.
OtherAdmins(u) == Admins \ {u}

\* Mutant of MayBecome: an administrator may always disable the account.
MayBecomeDisabled(u, next) ==
  IsAdmin(row[u]) /\ next.role # "admin" => OtherAdmins(u) # {}

MayBecome(u, next) == IsAdmin(row[u]) /\ ~IsAdmin(next) => OtherAdmins(u) # {}

\* UpdateUser: the row is read once more, the guard evaluated, the copy written, and
\* the sessions of an account that becomes disabled go.
UpdateUser(r) ==
  /\ patch[r] # NoPatch /\ patch[r].pc = "read"
  /\ LET u == patch[r].id  next == patch[r].next IN
     \/ /\ Exists(u) /\ MayBecome(u, next)
        /\ row' = [row EXCEPT ![u] = next]
        /\ session' = IF next.disabled /\ ~row[u].disabled THEN session \ {u} ELSE session
        /\ patch' = [patch EXCEPT ![r] = IF patch[r].resets THEN [@ EXCEPT !.pc = "resetting"] ELSE NoPatch]
     \/ /\ ~(Exists(u) /\ MayBecome(u, next))
        /\ patch' = [patch EXCEPT ![r] = NoPatch]
        /\ UNCHANGED <<row, session>>

\* SetUserPassword: the sessions of the account go; the caller's own is kept.
SetUserPassword(r) ==
  /\ patch[r] # NoPatch /\ patch[r].pc = "resetting"
  /\ session' \in {session, session \ {patch[r].id}}
  /\ patch' = [patch EXCEPT ![r] = NoPatch]
  /\ UNCHANGED row

\* Mutant of DeleteUser: nothing cascades.
DeleteUserAlone(u) ==
  /\ Exists(u)
  /\ Callers \ {u} # {}
  /\ IsAdmin(row[u]) => OtherAdmins(u) # {}
  /\ row' = [row EXCEPT ![u] = NoUser]
  /\ UNCHANGED <<session, patch>>

\* Nobody deletes the own account; the token may delete any. The sessions go by cascade.
DeleteUser(u) ==
  /\ Exists(u)
  /\ Callers \ {u} # {}
  /\ IsAdmin(row[u]) => OtherAdmins(u) # {}
  /\ row' = [row EXCEPT ![u] = NoUser]
  /\ session' = session \ {u}
  /\ UNCHANGED patch

\* The daemon restarts, or clients give up.
GiveUp(r) ==
  /\ patch[r] # NoPatch
  /\ patch' = [patch EXCEPT ![r] = NoPatch]
  /\ UNCHANGED <<row, session>>

UsersNext ==
  \/ \E u \in Ids : CreateUser(u) \/ SignIn(u) \/ SignOut(u) \/ DeleteUser(u)
  \/ \E r \in Patches :
       \/ UpdateUser(r) \/ SetUserPassword(r) \/ GiveUp(r)
       \/ \E who \in Ids \cup {Token}, u \in Ids : ReadUser(r, who, u)

UsersSpec == UsersInit /\ [][UsersNext]_userVars

-----------------------------------------------------------------------------
(***************************************************************************)
(* Properties.                                                             *)
(***************************************************************************)

\* Whoever demotes, disables and deletes whom at the same time, from rows read long
\* before, an enabled administrator is left (user.go:14-17, 106-111).
AdminRemains == Admins # {}

\* Sessions belong to an account, also while ids are handed out again: one that comes
\* into being has none (0007_users.sql:23, user.go:148).
NobodyElsesSession == \A u \in session : Exists(u)

=============================================================================
