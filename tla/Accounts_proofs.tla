--------------------------- MODULE Accounts_proofs ---------------------------
(***************************************************************************)
(* Theorems about who may enter: the accounts, for any number of accounts,   *)
(* PATCH requests in flight and reuses of an id; and the sign-in, for any     *)
(* number of requests in flight, of challenges and of enrolments, and any     *)
(* limits on wrong answers.                                                   *)
(***************************************************************************)
EXTENDS Users, SignIn, FiniteSetTheorems, TLAPS

-----------------------------------------------------------------------------
(***************************************************************************)
(* The accounts (Users).                                                   *)
(***************************************************************************)

\* A row that exists is a well-typed account.
LEMMA RowType ==
  ASSUME UsersTypeOK, NEW u \in Ids, Exists(u)
  PROVE  row[u] \in User
BY DEF UsersTypeOK, Exists, Rows

\* What a request holds after reading is a well-typed PATCH.
LEMMA PatchType ==
  ASSUME UsersTypeOK, NEW r \in Patches, patch[r] # NoPatch
  PROVE  patch[r] \in Patch
BY DEF UsersTypeOK

-----------------------------------------------------------------------------
(***************************************************************************)
(* Each action preserves UsersTypeOK.                                           *)
(***************************************************************************)

\* Every action leaves the three variables well typed (all of user.go).
LEMMA UsersTypeStep == UsersTypeOK /\ [UsersNext]_userVars => UsersTypeOK'
<1> SUFFICES ASSUME UsersTypeOK, [UsersNext]_userVars PROVE UsersTypeOK'
  OBVIOUS
<1>1. ASSUME NEW u \in Ids, CreateUser(u) PROVE UsersTypeOK'
  <2>1. PICK role \in Roles : row' = [row EXCEPT ![u] = [role |-> role, disabled |-> FALSE]]
    BY <1>1 DEF CreateUser
  <2>2. [role |-> role, disabled |-> FALSE] \in Rows
    BY DEF Rows, User
  <2> QED BY <1>1, <2>1, <2>2 DEF CreateUser, UsersTypeOK
<1>2. ASSUME NEW u \in Ids, SignIn(u) PROVE UsersTypeOK'
  BY <1>2 DEF SignIn, UsersTypeOK
<1>3. ASSUME NEW u \in Ids, SignOut(u) PROVE UsersTypeOK'
  BY <1>3 DEF SignOut, UsersTypeOK
<1>4. ASSUME NEW u \in Ids, DeleteUser(u) PROVE UsersTypeOK'
  <2>1. NoUser \in Rows
    BY DEF Rows
  <2> QED BY <1>4, <2>1 DEF DeleteUser, UsersTypeOK
<1>5. ASSUME NEW r \in Patches, NEW who, NEW u \in Ids, ReadUser(r, who, u) PROVE UsersTypeOK'
  <2>1. PICK next \in User, resets \in BOOLEAN :
          patch' = [patch EXCEPT ![r] = [pc |-> "read", id |-> u, next |-> next, resets |-> resets]]
    BY <1>5 DEF ReadUser
  <2>2. [pc |-> "read", id |-> u, next |-> next, resets |-> resets] \in Patch
    BY DEF Patch
  <2> QED BY <1>5, <2>1, <2>2 DEF ReadUser, UsersTypeOK
<1>6. ASSUME NEW r \in Patches, UpdateUser(r) PROVE UsersTypeOK'
  <2>1. patch[r] \in Patch
    BY <1>6, PatchType DEF UpdateUser
  <2>2. [patch[r] EXCEPT !.pc = "resetting"] \in Patch
    BY <2>1 DEF Patch
  <2>3. patch[r].next \in Rows /\ patch[r].id \in Ids
    BY <2>1 DEF Patch, Rows
  <2>4. row' \in [Ids -> Rows] /\ session' \subseteq Ids
    BY <1>6, <2>3 DEF UpdateUser, UsersTypeOK
  <2>5. patch' \in [Patches -> Patch \cup {NoPatch}]
    BY <1>6, <2>2 DEF UpdateUser, UsersTypeOK
  <2> QED BY <2>4, <2>5 DEF UsersTypeOK
<1>7. ASSUME NEW r \in Patches, SetUserPassword(r) PROVE UsersTypeOK'
  BY <1>7 DEF SetUserPassword, UsersTypeOK
<1>8. ASSUME NEW r \in Patches, GiveUp(r) PROVE UsersTypeOK'
  BY <1>8 DEF GiveUp, UsersTypeOK
<1>9. CASE UNCHANGED userVars
  BY <1>9 DEF userVars, UsersTypeOK
<1> QED BY <1>1, <1>2, <1>3, <1>4, <1>5, <1>6, <1>7, <1>8, <1>9 DEF UsersNext

\* The variables stay well typed in every behaviour (app_user's columns, session).
THEOREM UsersTypes == UsersSpec => []UsersTypeOK
<1>1. UsersInit => UsersTypeOK
  BY DEF UsersInit, UsersTypeOK, Rows, User, Roles
<1> QED BY <1>1, UsersTypeStep, PTL DEF UsersSpec

-----------------------------------------------------------------------------
(***************************************************************************)
(* An administrator remains. What an action does to the set of enabled       *)
(* administrators decides; only the guarded writes take one out of it.       *)
(***************************************************************************)

\* Writing a row that is an administrator's, or beside one that stays, leaves one.
LEMMA WriteKeepsAdmin ==
  ASSUME UsersTypeOK, AdminRemains, NEW u \in Ids, NEW x,
         row' = [row EXCEPT ![u] = x],
         IsAdmin(row[u]) /\ ~IsAdmin(x) => OtherAdmins(u) # {}
  PROVE  AdminRemains'
<1>1. CASE \E v \in Ids : v # u /\ IsAdmin(row[v])
  <2>1. PICK v \in Ids : v # u /\ IsAdmin(row[v])
    BY <1>1
  <2>2. row'[v] = row[v]
    BY <2>1 DEF UsersTypeOK
  <2>3. v \in Admins'
    BY <2>1, <2>2 DEF Admins, IsAdmin
  <2> QED BY <2>3 DEF AdminRemains
<1>2. CASE ~\E v \in Ids : v # u /\ IsAdmin(row[v])
  <2>1. OtherAdmins(u) = {} /\ IsAdmin(row[u])
    BY <1>2 DEF OtherAdmins, Admins, AdminRemains
  <2>2. row'[u] = x
    BY DEF UsersTypeOK
  <2>3. IsAdmin(row'[u])
    BY <2>1, <2>2
  <2>4. u \in Admins'
    BY <2>3 DEF Admins, IsAdmin
  <2> QED BY <2>4 DEF AdminRemains
<1> QED BY <1>1, <1>2

\* No action takes the last enabled administrator away (user.go:133-139, 168-172).
LEMMA AdminStep == UsersTypeOK /\ AdminRemains /\ [UsersNext]_userVars => AdminRemains'
<1> SUFFICES ASSUME UsersTypeOK, AdminRemains, [UsersNext]_userVars PROVE AdminRemains'
  OBVIOUS
<1>0. ASSUME UNCHANGED row PROVE AdminRemains'
  BY <1>0 DEF AdminRemains, Admins, IsAdmin
<1>1. ASSUME NEW u \in Ids, CreateUser(u) PROVE AdminRemains'
  <2>1. PICK role \in Roles : row' = [row EXCEPT ![u] = [role |-> role, disabled |-> FALSE]]
    BY <1>1 DEF CreateUser
  <2>2. ~IsAdmin(row[u])
    BY <1>1 DEF CreateUser, Exists, NoUser, IsAdmin
  <2> QED BY <2>1, <2>2, WriteKeepsAdmin
<1>2. ASSUME NEW u \in Ids, DeleteUser(u) PROVE AdminRemains'
  BY <1>2, WriteKeepsAdmin DEF DeleteUser
<1>3. ASSUME NEW r \in Patches, UpdateUser(r) PROVE AdminRemains'
  <2>1. patch[r].id \in Ids
    BY <1>3, PatchType DEF UpdateUser, Patch
  <2>2. CASE UNCHANGED row
    BY <2>2, <1>0
  <2>3. CASE /\ MayBecome(patch[r].id, patch[r].next)
             /\ row' = [row EXCEPT ![patch[r].id] = patch[r].next]
    BY <2>1, <2>3, WriteKeepsAdmin DEF MayBecome
  <2> QED BY <1>3, <2>2, <2>3 DEF UpdateUser
<1>4. CASE UNCHANGED row
  BY <1>4, <1>0
<1> QED BY <1>1, <1>2, <1>3, <1>4
         DEF UsersNext, SignIn, SignOut, ReadUser, SetUserPassword, GiveUp, userVars

\* An enabled administrator is left in every reachable state, whoever demotes,
\* disables or deletes whom at the same time (user.go:14-17, 116-120).
THEOREM AnAdminRemains == UsersSpec => []AdminRemains
<1>1. UsersInit => AdminRemains
  <2> SUFFICES ASSUME UsersInit PROVE AdminRemains
    OBVIOUS
  <2>1. PICK u \in Ids :
          row = [v \in Ids |-> IF v = u THEN [role |-> "admin", disabled |-> FALSE] ELSE NoUser]
    BY DEF UsersInit
  <2>2. IsAdmin(row[u])
    BY <2>1 DEF IsAdmin
  <2> QED BY <2>2 DEF AdminRemains, Admins
<1> QED BY <1>1, UsersTypes, AdminStep, PTL DEF UsersSpec

-----------------------------------------------------------------------------
\* No action leaves a session without its account: a deletion takes the sessions
\* along, a session is only issued to an account that is there (0007_users.sql:23).
LEMMA SessionStep ==
  UsersTypeOK /\ NobodyElsesSession /\ [UsersNext]_userVars => NobodyElsesSession'
<1> SUFFICES ASSUME UsersTypeOK, NobodyElsesSession, [UsersNext]_userVars PROVE NobodyElsesSession'
  OBVIOUS
<1>0. ASSUME UNCHANGED row, session' \subseteq session PROVE NobodyElsesSession'
  BY <1>0 DEF NobodyElsesSession, Exists
<1>1. ASSUME NEW u \in Ids, CreateUser(u) PROVE NobodyElsesSession'
  <2>1. PICK role \in Roles : row' = [row EXCEPT ![u] = [role |-> role, disabled |-> FALSE]]
    BY <1>1 DEF CreateUser
  <2>2. [role |-> role, disabled |-> FALSE] # NoUser
    BY DEF NoUser, Roles
  <2> QED BY <1>1, <2>1, <2>2 DEF CreateUser, NobodyElsesSession, Exists, UsersTypeOK
<1>2. ASSUME NEW u \in Ids, SignIn(u) PROVE NobodyElsesSession'
  BY <1>2 DEF SignIn, NobodyElsesSession, Exists
<1>3. ASSUME NEW u \in Ids, DeleteUser(u) PROVE NobodyElsesSession'
  BY <1>3 DEF DeleteUser, NobodyElsesSession, Exists, UsersTypeOK
<1>4. ASSUME NEW r \in Patches, UpdateUser(r) PROVE NobodyElsesSession'
  <2>1. patch[r].id \in Ids /\ patch[r].next \in User
    BY <1>4, PatchType DEF UpdateUser, Patch
  <2>2. patch[r].next # NoUser
    BY <2>1 DEF User, Roles, NoUser
  <2>3. CASE UNCHANGED <<row, session>>
    BY <2>3, <1>0
  <2>4. CASE row' = [row EXCEPT ![patch[r].id] = patch[r].next] /\ session' \subseteq session
    BY <2>1, <2>2, <2>4 DEF NobodyElsesSession, Exists, UsersTypeOK
  <2> QED BY <1>4, <2>3, <2>4 DEF UpdateUser
<1>5. CASE UNCHANGED row /\ session' \subseteq session
  BY <1>5, <1>0
<1> QED BY <1>1, <1>2, <1>3, <1>4, <1>5
         DEF UsersNext, SignOut, ReadUser, SetUserPassword, GiveUp, userVars

\* Sessions belong to an account that exists, with ids handed out again
\* (user.go:148, 0007_users.sql:23).
THEOREM SessionsHaveAnAccount == UsersSpec => []NobodyElsesSession
<1>1. UsersInit => NobodyElsesSession
  BY DEF UsersInit, NobodyElsesSession
<1> QED BY <1>1, UsersTypes, SessionStep, PTL DEF UsersSpec

-----------------------------------------------------------------------------
(***************************************************************************)
(* The sign-in (SignIn).                                                   *)
(***************************************************************************)

-----------------------------------------------------------------------------
(***************************************************************************)
(* Types.                                                                  *)
(***************************************************************************)

Proofs == {"none", "totp", "recovery", "passkey"} \X Nat \X Nat \X Nat

RequestRecords ==
  [pc : Phases, first : BOOLEAN, challenge : Challenges \cup {NoSignIn}, step : Steps,
   proof : Proofs]

SignIns == [n : Nat, challenge : Challenges, proof : Proofs]

ChallengeStates == {Fresh, Gone} \cup {Waiting(n) : n \in 0 .. MaxChallengeFail - 1}

\* TypeOK says what its values look like; that the tables are functions, that there is
\* one set of codes at most and finitely many sign-ins, is needed to reason about them.
StoreTyped ==
  /\ account \in {"absent", "enabled", "disabled"}
  /\ totp \in [made : 0 .. MaxMade, last : Steps]
  /\ passkeys \in 0 .. 1
  /\ codes \subseteq 1 .. MaxMade
  /\ \A x, y \in codes : x = y
  /\ sessions \in 0 .. MaxSessions
  /\ now \in 0 .. MaxStep
  /\ made \in 0 .. MaxMade
  /\ totp.made <= made
  /\ \A x \in codes : x <= made

MemoryTyped ==
  /\ challenge \in [Challenges -> ChallengeStates]
  /\ fails \in Nat
  /\ wrong = fails

RequestsTyped ==
  /\ req \in [Requests -> RequestRecords]
  /\ \A r \in Requests : req[r].pc = "idle" => req[r] = Idle

IssuedTyped ==
  /\ issued \subseteq SignIns
  /\ IsFiniteSet(issued)

Typed == StoreTyped /\ MemoryTyped /\ RequestsTyped /\ IssuedTyped

\* A request goes on alone.
LEMMA GoesAlone ==
  ASSUME Typed, NEW r \in Requests, NEW to, Goes(r, to)
  PROVE  req'[r] = to /\ \A q \in Requests : q # r => req'[q] = req[q]
BY DEF Typed, RequestsTyped, Goes

\* A request that goes on in a well-typed way leaves the requests well typed.
LEMMA GoesTyped ==
  ASSUME Typed, NEW r \in Requests, NEW to \in RequestRecords, Goes(r, to),
         to.pc = "idle" => to = Idle
  PROVE  RequestsTyped'
BY DEF Typed, RequestsTyped, Goes

\* A request at rest is well typed.
LEMMA IdleTyped == Idle \in RequestRecords /\ Idle.pc = "idle"
BY SignInBounds DEF Idle, RequestRecords, Phases, Steps, NoProof, Proofs

\* At first everything is well typed.
LEMMA InitTyped == Init => Typed
<1> SUFFICES ASSUME Init PROVE Typed
  OBVIOUS
<1>1. StoreTyped
  <2>1. NoTotp \in [made : 0 .. MaxMade, last : Steps] /\ NoTotp.made = 0
    BY SignInBounds DEF NoTotp, Steps
  <2> QED
    BY <2>1, SignInBounds DEF Init, StoreTyped
<1>2. MemoryTyped
  BY DEF Init, MemoryTyped, ChallengeStates
<1>3. RequestsTyped
  BY IdleTyped DEF Init, RequestsTyped
<1>4. IssuedTyped
  BY FS_EmptySet DEF Init, IssuedTyped
<1> QED
  BY <1>1, <1>2, <1>3, <1>4 DEF Typed

\* What the steps leave alone stays well typed.
LEMMA Untouched ==
  ASSUME Typed
  PROVE  /\ UNCHANGED <<account, factors, sessions, now>> => StoreTyped'
         /\ UNCHANGED <<memory, wrong>> => MemoryTyped'
         /\ UNCHANGED req => RequestsTyped'
         /\ UNCHANGED issued => IssuedTyped'
BY DEF Typed, StoreTyped, MemoryTyped, RequestsTyped, IssuedTyped, factors, memory

\* What others do to the account keeps the types.
LEMMA OthersTyped ==
  ASSUME Typed, Others
  PROVE  Typed'
<1>1. MemoryTyped' /\ RequestsTyped' /\ IssuedTyped'
  BY Untouched DEF Others, SetAccount, AccountDeleted, PasswordSet, ResetUserMFA,
     DeleteSession, history
<1>2. StoreTyped'
  <2> USE SignInBounds DEF Typed, StoreTyped
  <2>1. CASE SetAccount
    BY <2>1 DEF SetAccount, factors
  <2>2. CASE AccountDeleted \/ ResetUserMFA
    BY <2>2 DEF AccountDeleted, ResetUserMFA, NoTotp, Steps
  <2>3. CASE PasswordSet
    BY <2>3 DEF PasswordSet, factors
  <2>4. CASE DeleteSession
    BY <2>4 DEF DeleteSession, factors
  <2> QED
    BY <2>1, <2>2, <2>3, <2>4 DEF Others
<1> QED
  BY <1>1, <1>2 DEF Typed

\* So do the requests that add and remove factors.
LEMMA EnrolTyped ==
  ASSUME Typed, NEW r \in Requests, Enrol(r)
  PROVE  Typed'
<1>1. MemoryTyped' /\ IssuedTyped'
  BY Untouched DEF Enrol, TotpConfirm, PutTOTP, PasskeyRegister, AddWebAuthnCredential,
     TotpDisable, PasskeyDelete, RegenerateRecoveryCodes, Begins, DeleteTOTP,
     DeleteWebAuthnCredential, ReplaceRecoveryCodes, history
<1>2. req[r] \in RequestRecords
  BY DEF Typed, RequestsTyped
<1>3. RequestsTyped'
  <2>1. CASE Goes(r, Idle)
    BY <2>1, GoesTyped, IdleTyped
  <2>2. ASSUME NEW pc \in Phases \ {"idle"}, NEW s \in Steps, NEW first \in BOOLEAN,
               Goes(r, [Idle EXCEPT !.pc = pc, !.step = s, !.first = first])
        PROVE  RequestsTyped'
    <3> DEFINE to == [Idle EXCEPT !.pc = pc, !.step = s, !.first = first]
    <3>1. to \in RequestRecords /\ to.pc # "idle"
      BY IdleTyped DEF RequestRecords
    <3> QED
      BY <2>2, <3>1, GoesTyped
  <2>3. ASSUME NEW phase \in Phases \ {"idle"}, Begins(r, phase)
        PROVE  RequestsTyped'
    <3>1. [Idle EXCEPT !.pc = phase] \in RequestRecords /\ [Idle EXCEPT !.pc = phase].pc # "idle"
      BY IdleTyped DEF RequestRecords
    <3> QED
      BY <2>3, <3>1, GoesTyped DEF Begins
  <2>4. CASE TotpConfirm(r)
    BY <2>2, <2>4 DEF TotpConfirm, Accepted, HasFactor, Phases
  <2>5. CASE PasskeyRegister(r)
    <3>1. [Idle EXCEPT !.pc = "adding", !.first = ~HasFactor] \in RequestRecords
      BY IdleTyped DEF RequestRecords, Phases, HasFactor
    <3>2. [Idle EXCEPT !.pc = "adding", !.first = ~HasFactor].pc # "idle"
      BY DEF Idle
    <3> QED
      BY <2>5, <3>1, <3>2, GoesTyped DEF PasskeyRegister
  <2>6. CASE TotpDisable(r) \/ PasskeyDelete(r) \/ RegenerateRecoveryCodes(r)
    BY <2>3, <2>6 DEF TotpDisable, PasskeyDelete, RegenerateRecoveryCodes, Phases
  <2> QED
    BY <2>1, <2>4, <2>5, <2>6 DEF Enrol, PutTOTP, AddWebAuthnCredential, DeleteTOTP,
       DeleteWebAuthnCredential, ReplaceRecoveryCodes
<1>4. StoreTyped'
  <2> USE SignInBounds DEF Typed, StoreTyped
  <2>1. CASE PutTOTP(r)
    <3>1. [made |-> made + 1, last |-> req[r].step] \in [made : 0 .. MaxMade, last : Steps]
      BY <1>2, <2>1 DEF PutTOTP, RequestRecords
    <3>2. made + 1 \in 1 .. MaxMade
      BY <2>1 DEF PutTOTP
    <3>3. CASE AccountExists
      <4>1. totp' = [made |-> made + 1, last |-> req[r].step] /\ totp'.made = made + 1
        BY <2>1, <3>3 DEF PutTOTP
      <4>2. made' = made + 1 /\ codes' \in {codes, {made + 1}}
            /\ UNCHANGED <<account, passkeys, sessions, now>>
        BY <2>1, <3>3 DEF PutTOTP
      <4> QED
        BY <3>1, <3>2, <4>1, <4>2
    <3>4. CASE ~AccountExists
      BY <2>1, <3>4 DEF PutTOTP
    <3> QED
      BY <3>3, <3>4
  <2>2. CASE AddWebAuthnCredential(r) \/ ReplaceRecoveryCodes(r)
    <3>1. made + 1 \in 1 .. MaxMade
      BY <2>2 DEF AddWebAuthnCredential, ReplaceRecoveryCodes
    <3>2. /\ made' \in {made, made + 1}
          /\ codes' = codes \/ (codes' = {made + 1} /\ made' = made + 1)
          /\ passkeys' \in 0 .. 1
          /\ UNCHANGED <<account, totp, sessions, now>>
      BY <2>2 DEF AddWebAuthnCredential, ReplaceRecoveryCodes
    <3>3. made' \in 0 .. MaxMade /\ made <= made'
      BY <3>1, <3>2
    <3>4. /\ codes' \subseteq 1 .. MaxMade
          /\ \A x, y \in codes' : x = y
          /\ \A x \in codes' : x <= made'
      <4>1. CASE codes' = codes
        BY <3>3, <4>1
      <4>2. CASE codes' = {made + 1} /\ made' = made + 1
        BY <3>1, <4>2
      <4> QED
        BY <3>2, <4>1, <4>2
    <3> QED
      BY <3>2, <3>3, <3>4
  <2>3. CASE DeleteTOTP(r)
    <3>1. NoTotp \in [made : 0 .. MaxMade, last : Steps] /\ NoTotp.made = 0
      BY DEF NoTotp, Steps
    <3>2. totp' = NoTotp /\ codes' \subseteq codes /\ UNCHANGED <<account, passkeys, made, sessions, now>>
      BY <2>3 DEF DeleteTOTP
    <3> QED
      BY <3>1, <3>2
  <2>4. CASE DeleteWebAuthnCredential(r)
    <3>1. passkeys' = 0 /\ codes' \subseteq codes /\ UNCHANGED <<account, totp, made, sessions, now>>
      BY <2>4 DEF DeleteWebAuthnCredential
    <3> QED
      BY <3>1
  <2>5. CASE TotpConfirm(r) \/ PasskeyRegister(r) \/ TotpDisable(r) \/ PasskeyDelete(r)
             \/ RegenerateRecoveryCodes(r)
    BY <2>5, Untouched DEF TotpConfirm, PasskeyRegister, TotpDisable, PasskeyDelete,
       RegenerateRecoveryCodes, Begins
  <2> QED
    BY <2>1, <2>2, <2>3, <2>4, <2>5 DEF Enrol
<1> QED
  BY <1>1, <1>3, <1>4 DEF Typed

\* The steps of a sign-in.
LEMMA SignInTyped ==
  ASSUME Typed, NEW r \in Requests, SignInStep(r)
  PROVE  Typed'
<1>1. req[r] \in RequestRecords
  BY DEF Typed, RequestsTyped
<1>2. StoreTyped'
  <2> USE SignInBounds DEF Typed, StoreTyped
  <2>1. CASE AdvanceTOTPStep(r)
    <3>1. req[r].step \in Steps
      BY <1>1 DEF RequestRecords
    <3>2. totp' \in {totp, [totp EXCEPT !.last = req[r].step]}
      BY <2>1 DEF AdvanceTOTPStep
    <3>3. totp' \in [made : 0 .. MaxMade, last : Steps] /\ totp'.made = totp.made
      BY <3>1, <3>2
    <3> QED
      BY <2>1, <3>3 DEF AdvanceTOTPStep
  <2>2. CASE UseRecoveryCode(r)
    BY <2>2 DEF UseRecoveryCode
  <2>3. CASE IssueSession(r)
    BY <2>3 DEF IssueSession, factors
  <2> QED
    BY <2>1, <2>2, <2>3, Untouched DEF SignInStep, Login, BeginMFA, VerifyTOTP, VerifyPasskey,
       FailMFA, TakeChallenge
<1>3. MemoryTyped'
  <2> USE SignInBounds DEF Typed, MemoryTyped, ChallengeStates
  <2>1. CASE Login(r)
    <3>1. Waiting(0) \in ChallengeStates
      OBVIOUS
    <3> QED
      BY <2>1, <3>1 DEF Login, history
  <2>2. ASSUME NEW c \in Challenges, BeginMFA(r, c)
        PROVE  MemoryTyped'
    BY <2>2 DEF BeginMFA, history
  <2>3. CASE FailMFA(r)
    <3>1. ASSUME NEW c \in Challenges, Live(c), challenge[c].fails + 1 < MaxChallengeFail
          PROVE  Waiting(challenge[c].fails + 1) \in ChallengeStates
      <4>1. challenge[c].fails \in 0 .. MaxChallengeFail - 1
        BY DEF Fresh, Gone, Waiting
      <4> QED
        BY <3>1, <4>1
    <3>2. challenge' \in [Challenges -> ChallengeStates]
      BY <2>3, <3>1 DEF FailMFA
    <3> QED
      BY <2>3, <3>2 DEF FailMFA
  <2>4. CASE TakeChallenge(r)
    BY <2>4 DEF TakeChallenge
  <2> QED
    BY <2>1, <2>2, <2>3, <2>4, Untouched DEF SignInStep, VerifyTOTP, AdvanceTOTPStep,
       UseRecoveryCode, VerifyPasskey, IssueSession, history
<1>4. RequestsTyped'
  <2>1. CASE Goes(r, Idle) \/ UNCHANGED req
    BY <2>1, GoesTyped, IdleTyped, Untouched
  <2>2. ASSUME NEW pc \in Phases \ {"idle"}, NEW s \in Steps, NEW proof \in Proofs,
               Goes(r, [req[r] EXCEPT !.pc = pc, !.step = s, !.proof = proof])
        PROVE  RequestsTyped'
    <3>1. [req[r] EXCEPT !.pc = pc, !.step = s, !.proof = proof] \in RequestRecords
      BY <1>1 DEF RequestRecords
    <3>2. [req[r] EXCEPT !.pc = pc, !.step = s, !.proof = proof].pc # "idle"
      BY <1>1 DEF RequestRecords
    <3> QED
      BY <2>2, <3>1, <3>2, GoesTyped
  <2>3. 0 \in Steps
    BY SignInBounds DEF Steps
  <2>4. ASSUME NEW proof \in Proofs, Proven(r, proof)
        PROVE  RequestsTyped'
    <3>1. "taking" \in Phases \ {"idle"}
      BY DEF Phases
    <3> QED
      BY <2>2, <2>3, <2>4, <3>1 DEF Proven
  <2>5. CASE Login(r)
    <3>1. [Idle EXCEPT !.pc = "issuing"] \in RequestRecords /\ [Idle EXCEPT !.pc = "issuing"].pc # "idle"
      BY IdleTyped DEF RequestRecords, Phases
    <3> QED
      BY <2>1, <2>5, <3>1, GoesTyped DEF Login
  <2>6. ASSUME NEW c \in Challenges, BeginMFA(r, c)
        PROVE  RequestsTyped'
    <3>1. /\ [Idle EXCEPT !.pc = "answering", !.challenge = c] \in RequestRecords
          /\ [Idle EXCEPT !.pc = "answering", !.challenge = c].pc # "idle"
      BY IdleTyped DEF RequestRecords, Phases
    <3> QED
      BY <2>1, <2>6, <3>1, GoesTyped DEF BeginMFA
  <2>7. CASE VerifyTOTP(r)
    <3>1. PICK s \in Accepted(totp.last) :
            Goes(r, [req[r] EXCEPT !.pc = "advancing", !.step = s,
                                   !.proof = <<"totp", 0, s, totp.made>>])
      BY <2>7 DEF VerifyTOTP
    <3>2. s \in Steps /\ <<"totp", 0, s, totp.made>> \in Proofs
      BY SignInBounds DEF Accepted, Steps, Proofs, Typed, StoreTyped
    <3>3. "advancing" \in Phases \ {"idle"}
      BY DEF Phases
    <3> QED
      BY <2>2, <3>1, <3>2, <3>3
  <2>8. CASE AdvanceTOTPStep(r)
    <3>1. req[r].step \in Nat /\ req[r].proof[4] \in Nat /\ totp.made \in Nat
      BY <1>1, SignInBounds DEF Proofs, RequestRecords, Typed, StoreTyped, Steps
    <3>2. <<"totp", totp.made, req[r].step, req[r].proof[4]>> \in Proofs
      BY <3>1 DEF Proofs
    <3>3. "failing" \in Phases \ {"idle"} /\ NoProof \in Proofs
      BY DEF Phases, NoProof, Proofs
    <3> QED
      BY <2>2, <2>3, <2>4, <2>8, <3>2, <3>3 DEF AdvanceTOTPStep
  <2>9. CASE UseRecoveryCode(r)
    <3>1. \A c \in codes : <<"recovery", c, 0, 0>> \in Proofs
      BY SignInBounds DEF Proofs, Typed, StoreTyped
    <3> QED
      BY <2>4, <2>9, <3>1 DEF UseRecoveryCode
  <2>10. CASE VerifyPasskey(r)
    BY <2>4, <2>10 DEF VerifyPasskey, Proofs
  <2>11. CASE TakeChallenge(r)
    <3>1. [req[r] EXCEPT !.pc = "issuing"] \in RequestRecords /\ [req[r] EXCEPT !.pc = "issuing"].pc # "idle"
      BY <1>1 DEF RequestRecords, Phases
    <3> QED
      BY <2>1, <2>11, <3>1, GoesTyped DEF TakeChallenge
  <2> QED
    BY <2>1, <2>5, <2>6, <2>7, <2>8, <2>9, <2>10, <2>11
    DEF SignInStep, FailMFA, IssueSession
<1>5. IssuedTyped'
  <2>1. CASE IssueSession(r)
    <3> DEFINE s == [n |-> Cardinality(issued), challenge |-> req[r].challenge, proof |-> req[r].proof]
    <3>1. issued' \in {issued, issued \cup {s}} /\ (issued' = issued \/ req[r].challenge # NoSignIn)
      BY <2>1 DEF IssueSession
    <3>2. Cardinality(issued) \in Nat
      BY FS_CardinalityType DEF Typed, IssuedTyped
    <3>3. req[r].challenge # NoSignIn => s \in SignIns
      BY <1>1, <3>2 DEF SignIns, RequestRecords
    <3>4. IsFiniteSet(issued \cup {s})
      BY FS_AddElement DEF Typed, IssuedTyped
    <3> HIDE DEF s
    <3> QED
      BY <3>1, <3>3, <3>4 DEF Typed, IssuedTyped
  <2> QED
    BY <2>1, Untouched DEF SignInStep, Login, BeginMFA, VerifyTOTP, AdvanceTOTPStep,
       UseRecoveryCode, VerifyPasskey, FailMFA, TakeChallenge, history
<1> QED
  BY <1>2, <1>3, <1>4, <1>5 DEF Typed

\* Every step keeps the types.
LEMMA NextTyped ==
  ASSUME Typed, [Next]_vars
  PROVE  Typed'
<1>1. CASE StepPasses
  <2>1. StoreTyped'
    BY <1>1, SignInBounds DEF StepPasses, Typed, StoreTyped, factors
  <2> QED
    BY <1>1, <2>1, Untouched DEF StepPasses, Typed, history
<1>2. \A c \in Challenges : Gone \in ChallengeStates /\ Forgotten(c) \in ChallengeStates
  BY DEF Typed, MemoryTyped, ChallengeStates, Forgotten
<1>3. CASE Expire
  <2>1. MemoryTyped'
    BY <1>2, <1>3 DEF Expire, Typed, MemoryTyped, history
  <2> QED
    BY <1>3, <2>1, Untouched DEF Expire, Typed, history
<1>4. CASE WindowPasses
  <2>1. MemoryTyped'
    BY <1>2, <1>4 DEF WindowPasses, Typed, MemoryTyped
  <2> QED
    BY <1>4, <2>1, Untouched DEF WindowPasses, Typed
<1>5. CASE Restart
  <2>1. MemoryTyped'
    BY <1>2, <1>5 DEF Restart, Typed, MemoryTyped
  <2>2. RequestsTyped'
    BY <1>5, IdleTyped DEF Restart, RequestsTyped
  <2>3. StoreTyped'
    BY <1>5, SignInBounds DEF Restart, Typed, StoreTyped, factors
  <2> QED
    BY <1>5, <2>1, <2>2, <2>3, Untouched DEF Restart, Typed
<1>6. CASE UNCHANGED vars
  BY <1>6, Untouched DEF vars, Typed, memory, history
<1> QED
  BY <1>1, <1>3, <1>4, <1>5, <1>6, OthersTyped, EnrolTyped, SignInTyped DEF Next

\* The types hold throughout.
LEMMA TypedInvariant == Spec => []Typed
<1>1. Typed /\ [Next]_vars => Typed'
  BY NextTyped
<1> QED
  BY <1>1, InitTyped, PTL DEF Spec

-----------------------------------------------------------------------------
(***************************************************************************)
(* A proof of the second factor is used once.                              *)
(***************************************************************************)

\* A request that has shown a proof and not yet got its session.
Bearer(r) == req[r].pc \in {"taking", "issuing"}

\* The proofs that must not be shown twice.
Single(p) == p[1] \in {"totp", "recovery"}

\* A proof the store accepts no more: a step of this enrolment that is not later than
\* the recorded one, or of an earlier enrolment; a code that is not there any more.
Spent(p) ==
  /\ p[1] = "totp" => p[2] \in 1 .. made /\ (p[2] = totp.made => p[3] <= totp.last)
  /\ p[1] = "recovery" => p[2] \in 1 .. made /\ p[2] \notin codes

Spending ==
  /\ \A r \in Requests : Bearer(r) => Spent(req[r].proof)
  /\ \A s \in issued : Spent(s.proof)
  /\ \A r, q \in Requests :
       Bearer(r) /\ Bearer(q) /\ Single(req[r].proof) /\ req[r].proof = req[q].proof => r = q
  /\ \A r \in Requests, s \in issued :
       Bearer(r) /\ Single(s.proof) => req[r].proof # s.proof
  /\ ProofOnce

\* A step that spends on, and after which whoever bears a proof bore it before.
LEMMA SpendingKept ==
  ASSUME Typed, Spending,
         \A p \in Proofs : Spent(p) => Spent(p)',
         UNCHANGED issued,
         \A r \in Requests : Bearer(r)' => Bearer(r) /\ req'[r].proof = req[r].proof
  PROVE  Spending'
<1>1. /\ \A r \in Requests : req[r].proof \in Proofs
      /\ \A s \in issued : s.proof \in Proofs
  BY DEF Typed, RequestsTyped, IssuedTyped, RequestRecords, SignIns
<1>2. ASSUME NEW r \in Requests, Bearer(r)'
      PROVE  Spent(req[r].proof)'
  BY <1>1, <1>2 DEF Spending, Spent
<1>3. ASSUME NEW s \in issued
      PROVE  Spent(s.proof)'
  BY <1>1, <1>3 DEF Spending, Spent
<1> QED
  BY <1>2, <1>3 DEF Spending, ProofOnce

\* A step in which one request shows a proof that is spent thereby.
LEMMA SpendingNew ==
  ASSUME Typed, Spending,
         \A p \in Proofs : Spent(p) => Spent(p)',
         UNCHANGED issued,
         NEW r \in Requests, NEW p \in Proofs,
         \A q \in Requests : q # r => req'[q] = req[q],
         req'[r].proof = p,
         Spent(p)',
         Single(p) => ~Spent(p)
  PROVE  Spending'
<1>1. /\ \A q \in Requests : req[q].proof \in Proofs
      /\ \A s \in issued : s.proof \in Proofs
  BY DEF Typed, RequestsTyped, IssuedTyped, RequestRecords, SignIns
<1>2. \A q \in Requests : q # r => (Bearer(q)' <=> Bearer(q)) /\ req'[q].proof = req[q].proof
  BY DEF Bearer
<1>3. ASSUME NEW q \in Requests, Bearer(q)'
      PROVE  Spent(req[q].proof)'
  <2>1. CASE q = r
    BY <2>1 DEF Spent
  <2>2. CASE q # r
    BY <1>1, <1>2, <1>3, <2>2 DEF Spending, Spent
  <2> QED
    BY <2>1, <2>2
<1>4. ASSUME NEW s \in issued
      PROVE  Spent(s.proof)'
  BY <1>1, <1>4 DEF Spending, Spent
<1>5. \A s \in issued : Single(s.proof) => s.proof # p
  BY DEF Spending
<1>6. \A q \in Requests : Bearer(q) /\ Single(req[q].proof) => req[q].proof # p
  BY DEF Spending
<1>7. ASSUME NEW q \in Requests, NEW x \in Requests, Bearer(q)', Bearer(x)',
             Single(req'[q].proof), req'[q].proof = req'[x].proof
      PROVE  q = x
  BY <1>2, <1>6, <1>7 DEF Spending
<1>8. ASSUME NEW q \in Requests, NEW s \in issued, Bearer(q)', Single(s.proof)
      PROVE  req'[q].proof # s.proof
  BY <1>2, <1>5, <1>8 DEF Spending
<1> QED
  BY <1>3, <1>4, <1>7, <1>8 DEF Spending, ProofOnce, Single

\* What is spent stays spent: enrolments and codes are made with new numbers, and the
\* step on record only grows.
LEMMA SpentStays ==
  ASSUME Typed,
         made' \in {made, made + 1},
         codes' \subseteq codes \cup {made + 1},
         \/ totp'.made \in {0, made + 1}
         \/ totp'.made = totp.made /\ totp'.last >= totp.last,
         totp'.last \in Int
  PROVE  \A p \in Proofs : Spent(p) => Spent(p)'
<1> SUFFICES ASSUME NEW p \in Proofs, Spent(p)
             PROVE  Spent(p)'
  OBVIOUS
<1>1. made \in Nat /\ totp.last \in Int /\ p[2] \in Nat /\ p[3] \in Nat
  BY SignInBounds DEF Typed, StoreTyped, Steps, Proofs
<1>2. p[1] = "totp" => p[2] \in 1 .. made' /\ (p[2] = totp'.made => p[3] <= totp'.last)
  <2> SUFFICES ASSUME p[1] = "totp" PROVE p[2] \in 1 .. made' /\ (p[2] = totp'.made => p[3] <= totp'.last)
    OBVIOUS
  <2>1. p[2] \in 1 .. made /\ (p[2] = totp.made => p[3] <= totp.last)
    BY DEF Spent
  <2> QED
    BY <1>1, <2>1
<1>3. p[1] = "recovery" => p[2] \in 1 .. made' /\ p[2] \notin codes'
  BY <1>1 DEF Spent
<1> QED
  BY <1>2, <1>3 DEF Spent

\* What is spent stays spent while the factors stay as they are.
LEMMA UnchangedSpent ==
  ASSUME UNCHANGED factors
  PROVE  \A p \in Proofs : Spent(p) => Spent(p)'
BY DEF factors, Spent

\* Adding and removing factors gives no spent proof back: enrolments and codes are
\* numbered upwards.
LEMMA EnrolSpending ==
  ASSUME Typed, Spending, NEW r \in Requests, Enrol(r)
  PROVE  Spending'
<1>1. UNCHANGED issued
  BY DEF Enrol, TotpConfirm, PutTOTP, PasskeyRegister, AddWebAuthnCredential,
     TotpDisable, PasskeyDelete, RegenerateRecoveryCodes, Begins, DeleteTOTP,
     DeleteWebAuthnCredential, ReplaceRecoveryCodes, history
<1>2. ASSUME NEW to, Goes(r, to), to.pc \notin {"taking", "issuing"}
      PROVE  \A q \in Requests : Bearer(q)' => Bearer(q) /\ req'[q].proof = req[q].proof
  BY <1>2, GoesAlone DEF Bearer
<1>3. \A q \in Requests : Bearer(q)' => Bearer(q) /\ req'[q].proof = req[q].proof
  <2>1. CASE Goes(r, Idle)
    BY <1>2, <2>1 DEF Idle
  <2>2. CASE TotpConfirm(r)
    <3>1. PICK s \in Accepted(0) :
            Goes(r, [Idle EXCEPT !.pc = "confirming", !.step = s, !.first = ~HasFactor])
      BY <2>2 DEF TotpConfirm
    <3>2. [Idle EXCEPT !.pc = "confirming", !.step = s, !.first = ~HasFactor].pc = "confirming"
      BY DEF Idle
    <3> QED
      BY <1>2, <3>1, <3>2
  <2>3. CASE PasskeyRegister(r)
    <3>1. [Idle EXCEPT !.pc = "adding", !.first = ~HasFactor].pc = "adding"
      BY DEF Idle
    <3> QED
      BY <1>2, <2>3, <3>1 DEF PasskeyRegister
  <2>4. ASSUME NEW phase \in {"disabling", "removing", "replacing"}, Begins(r, phase)
        PROVE  \A q \in Requests : Bearer(q)' => Bearer(q) /\ req'[q].proof = req[q].proof
    <3>1. [Idle EXCEPT !.pc = phase].pc = phase
      BY DEF Idle
    <3> QED
      BY <1>2, <2>4, <3>1 DEF Begins
  <2> QED
    BY <2>1, <2>2, <2>3, <2>4 DEF Enrol, PutTOTP, AddWebAuthnCredential, DeleteTOTP,
       DeleteWebAuthnCredential, ReplaceRecoveryCodes, TotpDisable, PasskeyDelete,
       RegenerateRecoveryCodes
<1>4. \A p \in Proofs : Spent(p) => Spent(p)'
  <2>0. totp.last \in Int /\ made \in Nat /\ req[r].step \in Int
    BY SignInBounds DEF Typed, StoreTyped, Steps, RequestsTyped, RequestRecords
  <2>1. CASE UNCHANGED factors
    BY <2>1, UnchangedSpent
  <2>2. CASE PutTOTP(r) /\ AccountExists
    BY <2>0, <2>2, SpentStays DEF PutTOTP
  <2>3. CASE AddWebAuthnCredential(r) \/ ReplaceRecoveryCodes(r)
    BY <2>0, <2>3, SpentStays DEF AddWebAuthnCredential, ReplaceRecoveryCodes
  <2>4. CASE DeleteTOTP(r) \/ DeleteWebAuthnCredential(r)
    BY <2>0, <2>4, SpentStays DEF DeleteTOTP, DeleteWebAuthnCredential, NoTotp
  <2> QED
    BY <2>1, <2>2, <2>3, <2>4 DEF Enrol, TotpConfirm, PasskeyRegister, TotpDisable,
       PasskeyDelete, RegenerateRecoveryCodes, Begins, PutTOTP, factors
<1> QED
  BY <1>1, <1>3, <1>4, SpendingKept

\* A sign-in spends the proof it shows, and nobody else shows it.
LEMMA SignInSpending ==
  ASSUME Typed, Spending, NEW r \in Requests, SignInStep(r)
  PROVE  Spending'
<1>0. /\ totp.last \in Int /\ totp.made \in Nat /\ made \in Nat /\ totp.made <= made
      /\ codes \subseteq 1 .. made
      /\ req[r].step \in Nat /\ req[r].proof \in Proofs /\ req[r] \in RequestRecords
  BY SignInBounds DEF Typed, StoreTyped, Steps, RequestsTyped, RequestRecords
<1>1. ASSUME UNCHANGED <<factors, issued>>, NEW to, Goes(r, to),
             to.pc \in {"taking", "issuing"} => Bearer(r) /\ to.proof = req[r].proof
      PROVE  Spending'
  <2>1. \A q \in Requests : Bearer(q)' => Bearer(q) /\ req'[q].proof = req[q].proof
    BY <1>1, GoesAlone DEF Bearer
  <2> QED
    BY <1>1, <2>1, UnchangedSpent, SpendingKept
<1>3. ASSUME UNCHANGED <<factors, issued, req>>
       PROVE  Spending'
  BY <1>3, UnchangedSpent, SpendingKept DEF Bearer
  \* A request that now bears the proof p.
<1>2. ASSUME NEW p \in Proofs, NEW to, Goes(r, to), to.proof = p, UNCHANGED issued,
             \A x \in Proofs : Spent(x) => Spent(x)', Spent(p)', Single(p) => ~Spent(p)
      PROVE  Spending'
  BY <1>2, GoesAlone, SpendingNew
<1>4. CASE Login(r)
  <2>1. CASE UNCHANGED req
    BY <1>3, <1>4, <2>1 DEF Login, history
  <2>2. CASE Goes(r, [Idle EXCEPT !.pc = "issuing"])
    <3>1. [Idle EXCEPT !.pc = "issuing"].proof = NoProof /\ NoProof \in Proofs
      BY DEF Idle, NoProof, Proofs
    <3>2. ~Single(NoProof) /\ Spent(NoProof)'
      BY DEF Single, Spent, NoProof
    <3> QED
      BY <1>2, <1>4, <2>2, <3>1, <3>2, UnchangedSpent DEF Login, history
  <2> QED
    BY <1>4, <2>1, <2>2 DEF Login
<1>5. ASSUME NEW c \in Challenges, BeginMFA(r, c)
      PROVE  Spending'
  <2>1. [Idle EXCEPT !.pc = "answering", !.challenge = c].pc = "answering"
    BY DEF Idle
  <2> QED
    BY <1>1, <1>3, <1>5, <2>1 DEF BeginMFA, history
<1>6. CASE VerifyTOTP(r)
  <2>1. PICK s : Goes(r, [req[r] EXCEPT !.pc = "advancing", !.step = s,
                                        !.proof = <<"totp", 0, s, totp.made>>])
    BY <1>6 DEF VerifyTOTP
  <2>2. [req[r] EXCEPT !.pc = "advancing", !.step = s,
                       !.proof = <<"totp", 0, s, totp.made>>].pc = "advancing"
    BY <1>0 DEF RequestRecords
  <2> QED
    BY <1>1, <1>6, <2>1, <2>2 DEF VerifyTOTP, history
<1>7. CASE AdvanceTOTPStep(r)
  <2>1. CASE HasTotp /\ totp.last < req[r].step
    <3>1. <<"totp", totp.made, req[r].step, req[r].proof[4]>> \in Proofs
      BY <1>0 DEF Proofs
    <3>2. PICK p \in Proofs : p = <<"totp", totp.made, req[r].step, req[r].proof[4]>>
      BY <3>1
    <3> DEFINE to == [req[r] EXCEPT !.pc = "taking", !.step = 0, !.proof = p]
    <3>3. p[1] = "totp" /\ p[2] = totp.made /\ p[3] = req[r].step
      BY <3>2
    <3>4. Goes(r, to) /\ to.proof = p /\ UNCHANGED issued
      BY <1>0, <1>7, <2>1, <3>2 DEF AdvanceTOTPStep, Proven, history, RequestRecords
    <3>5. /\ totp' = [totp EXCEPT !.last = req[r].step]
          /\ totp'.last = req[r].step /\ totp'.made = totp.made
          /\ UNCHANGED <<made, codes>>
      BY <1>7, <2>1 DEF AdvanceTOTPStep, Typed, StoreTyped
    <3>6. \A x \in Proofs : Spent(x) => Spent(x)'
      BY <1>0, <2>1, <3>5, SpentStays
    <3> HIDE DEF to
    <3>7. Spent(p)' /\ ~Spent(p)
      BY <1>0, <2>1, <3>3, <3>5 DEF Spent, HasTotp
    <3> QED
      BY <1>2, <3>3, <3>4, <3>6, <3>7
  <2>2. CASE ~(HasTotp /\ totp.last < req[r].step)
    <3>1. [req[r] EXCEPT !.pc = "failing", !.step = 0, !.proof = NoProof].pc = "failing"
      BY <1>0 DEF RequestRecords
    <3> QED
      BY <1>1, <1>7, <2>2, <3>1 DEF AdvanceTOTPStep, factors, history
  <2> QED
    BY <2>1, <2>2
<1>8. CASE UseRecoveryCode(r)
  <2>1. PICK c \in codes : codes' = codes \ {c} /\ Proven(r, <<"recovery", c, 0, 0>>)
    BY <1>8 DEF UseRecoveryCode
  <2>2. <<"recovery", c, 0, 0>> \in Proofs
    BY <1>0 DEF Proofs
  <2>3. PICK p \in Proofs : p = <<"recovery", c, 0, 0>>
    BY <2>2
  <2> DEFINE to == [req[r] EXCEPT !.pc = "taking", !.step = 0, !.proof = p]
  <2>4. p[1] = "recovery" /\ p[2] = c
    BY <2>3
  <2>5. Goes(r, to) /\ to.proof = p /\ UNCHANGED <<issued, totp, made>>
    BY <1>0, <1>8, <2>1, <2>3 DEF UseRecoveryCode, Proven, history, RequestRecords
  <2>6. \A x \in Proofs : Spent(x) => Spent(x)'
    BY <1>0, <2>1, <2>5, SpentStays
  <2> HIDE DEF to
  <2>7. Spent(p)' /\ ~Spent(p)
    BY <1>0, <2>1, <2>4, <2>5 DEF Spent
  <2> QED
    BY <1>2, <2>4, <2>5, <2>6, <2>7
<1>9. CASE VerifyPasskey(r)
  <2>1. <<"passkey", 0, 0, 0>> \in Proofs
    BY DEF Proofs
  <2>2. PICK p \in Proofs : p = <<"passkey", 0, 0, 0>>
    BY <2>1
  <2> DEFINE to == [req[r] EXCEPT !.pc = "taking", !.step = 0, !.proof = p]
  <2>3. p[1] = "passkey"
    BY <2>2
  <2>4. Goes(r, to) /\ to.proof = p /\ UNCHANGED <<issued, factors>>
    BY <1>0, <1>9, <2>2 DEF VerifyPasskey, Proven, history, RequestRecords
  <2> HIDE DEF to
  <2>5. ~Single(p) /\ Spent(p)'
    BY <2>3 DEF Single, Spent
  <2> QED
    BY <1>2, <2>3, <2>4, <2>5, UnchangedSpent
<1>10. CASE FailMFA(r)
  BY <1>1, <1>10 DEF FailMFA, Idle
<1>11. CASE TakeChallenge(r)
  <2>1. /\ [req[r] EXCEPT !.pc = "issuing"].proof = req[r].proof
        /\ Bearer(r)
    BY <1>0, <1>11 DEF RequestRecords, TakeChallenge, Bearer
  <2> QED
    BY <1>1, <1>11, <2>1 DEF TakeChallenge, Idle
<1>12. CASE IssueSession(r)
  <2>1. /\ UNCHANGED <<factors>> /\ Bearer(r)
        /\ \A s \in issued' : s \in issued \/ s.proof = req[r].proof
    BY <1>12 DEF IssueSession, Bearer
  <2>2. \A q \in Requests : Bearer(q)' => q # r /\ Bearer(q) /\ req'[q] = req[q]
    BY <1>12, GoesAlone DEF IssueSession, Bearer, Idle
  <2>3. ASSUME NEW q \in Requests, Bearer(q)'
        PROVE  Spent(req[q].proof)'
    BY <2>1, <2>2, <2>3 DEF Spending, Spent, factors
  <2>4. ASSUME NEW s \in issued'
        PROVE  Spent(s.proof)'
    BY <2>1, <2>4 DEF Spending, Spent, factors
  <2>5. ASSUME NEW q \in Requests, NEW s \in issued', Bearer(q)', Single(s.proof)
        PROVE  req'[q].proof # s.proof
    BY <2>1, <2>2, <2>5 DEF Spending
  <2>6. ASSUME NEW s \in issued', NEW t \in issued', s.proof = t.proof, Single(s.proof)
        PROVE  s = t
    <3>1. \A x \in issued' : x \in issued \/
            x = [n |-> Cardinality(issued), challenge |-> req[r].challenge, proof |-> req[r].proof]
      BY <1>12 DEF IssueSession
    <3>2. \A x \in issued : Single(x.proof) => x.proof # req[r].proof
      BY <2>1 DEF Spending
    <3> QED
      BY <2>6, <3>1, <3>2 DEF Spending, ProofOnce, Single
  <2> QED
    BY <2>2, <2>3, <2>4, <2>5, <2>6 DEF Spending, ProofOnce, Single
<1> QED
  BY <1>4, <1>5, <1>6, <1>7, <1>8, <1>9, <1>10, <1>11, <1>12 DEF SignInStep

\* Every step keeps what is spent.
LEMMA NextSpending ==
  ASSUME Typed, Spending, [Next]_vars
  PROVE  Spending'
<1>1. ASSUME UNCHANGED <<factors, issued>>,
             req' = req \/ req' = [r \in Requests |-> Idle]
      PROVE  Spending'
  <2>1. \A q \in Requests : Bearer(q)' => Bearer(q) /\ req'[q].proof = req[q].proof
    BY <1>1 DEF Bearer, Idle
  <2> QED
    BY <1>1, <2>1, UnchangedSpent, SpendingKept
<1>2. CASE Others
  <2>1. CASE AccountDeleted \/ ResetUserMFA
    <3>1. made \in Nat
      BY SignInBounds DEF Typed, StoreTyped
    <3>2. /\ totp' = NoTotp /\ codes' = {} /\ made' = made
          /\ UNCHANGED <<issued, req>>
      BY <2>1 DEF AccountDeleted, ResetUserMFA, history
    <3>3. \A p \in Proofs : Spent(p) => Spent(p)'
      BY <3>1, <3>2, SpentStays DEF NoTotp
    <3> QED
      BY <3>2, <3>3, SpendingKept DEF Bearer
  <2>2. CASE SetAccount \/ PasswordSet \/ DeleteSession
    BY <1>1, <2>2 DEF SetAccount, PasswordSet, DeleteSession, history
  <2> QED
    BY <1>2, <2>1, <2>2 DEF Others
<1>3. CASE StepPasses \/ Expire \/ WindowPasses \/ Restart
  BY <1>1, <1>3 DEF StepPasses, Expire, WindowPasses, Restart, history
<1>4. CASE UNCHANGED vars
  BY <1>1, <1>4 DEF vars, history
<1> QED
  BY <1>2, <1>3, <1>4, EnrolSpending, SignInSpending DEF Next

\* The two statements that compare and record, AdvanceTOTPStep and the deletion of a
\* recovery code, let one of any number of racing requests through.
THEOREM ProofsAreSingle == Spec => []ProofOnce
<1>1. Init => Spending
  BY DEF Init, Spending, Bearer, Idle, ProofOnce
<1>2. Typed /\ Spending /\ [Next]_vars => Spending'
  BY NextSpending
<1>3. Spending => ProofOnce
  BY DEF Spending
<1> QED
  BY <1>1, <1>2, <1>3, TypedInvariant, PTL DEF Spec

-----------------------------------------------------------------------------
(***************************************************************************)
(* A challenge is taken once.                                              *)
(***************************************************************************)

\* A request that has taken its challenge and not yet got its session.
Took(r) == req[r].pc = "issuing" /\ req[r].challenge \in Challenges /\ req[r].challenge # NoSignIn

Taking ==
  /\ \A r \in Requests : Took(r) => challenge[req[r].challenge] = Gone
  /\ \A s \in issued : challenge[s.challenge] = Gone
  /\ \A r, q \in Requests : Took(r) /\ Took(q) /\ req[r].challenge = req[q].challenge => r = q
  /\ \A r \in Requests, s \in issued : Took(r) => req[r].challenge # s.challenge
  /\ ChallengeOnce

\* A step in which nobody takes a challenge.
LEMMA TakingKept ==
  ASSUME Typed, Taking,
         \A c \in Challenges : challenge[c] = Gone => challenge'[c] = Gone,
         UNCHANGED issued,
         \A r \in Requests : Took(r)' => Took(r) /\ req'[r].challenge = req[r].challenge
  PROVE  Taking'
<1>1. \A s \in issued : s.challenge \in Challenges
  BY DEF Typed, IssuedTyped, SignIns
<1>2. \A r \in Requests : Took(r) => req[r].challenge \in Challenges
  BY DEF Took
<1> QED
  BY <1>1, <1>2 DEF Taking, ChallengeOnce

\* A sign-in takes a challenge that nobody has taken.
LEMMA SignInTaking ==
  ASSUME Typed, Taking, NEW r \in Requests, SignInStep(r)
  PROVE  Taking'
<1>0. /\ req[r] \in RequestRecords
      /\ \A c \in Challenges : challenge[c] \in ChallengeStates
      /\ \A s \in issued : s.challenge \in Challenges
      /\ Fresh # Gone
      /\ challenge \in [Challenges -> ChallengeStates]
  BY DEF Typed, RequestsTyped, MemoryTyped, IssuedTyped, SignIns, Fresh, Gone
<1>1. ASSUME UNCHANGED issued,
             \A c \in Challenges : challenge[c] = Gone => challenge'[c] = Gone,
             NEW to, Goes(r, to), to.pc = "issuing" => to.challenge = NoSignIn
      PROVE  Taking'
  <2>1. \A q \in Requests : Took(q)' => Took(q) /\ req'[q].challenge = req[q].challenge
    BY <1>1, GoesAlone DEF Took
  <2> QED
    BY <1>1, <2>1, TakingKept
<1>2. ASSUME UNCHANGED <<issued, req>>,
             \A c \in Challenges : challenge[c] = Gone => challenge'[c] = Gone
      PROVE  Taking'
  BY <1>2, TakingKept DEF Took
<1>3. CASE Login(r)
  <2>1. \A c \in Challenges : challenge[c] = Gone => challenge'[c] = Gone
    BY <1>0, <1>3 DEF Login
  <2>2. [Idle EXCEPT !.pc = "issuing"].challenge = NoSignIn
    BY DEF Idle
  <2> QED
    BY <1>1, <1>2, <1>3, <2>1, <2>2 DEF Login, history
<1>4. ASSUME NEW c \in Challenges, BeginMFA(r, c)
      PROVE  Taking'
  <2>1. \A d \in Challenges : challenge[d] = Gone => challenge'[d] = Gone
    BY <1>0, <1>4 DEF BeginMFA
  <2>2. [Idle EXCEPT !.pc = "answering", !.challenge = c].pc = "answering"
    BY DEF Idle
  <2> QED
    BY <1>1, <1>2, <1>4, <2>1, <2>2 DEF BeginMFA, history
<1>5. CASE VerifyTOTP(r)
  <2>1. PICK s : Goes(r, [req[r] EXCEPT !.pc = "advancing", !.step = s,
                                        !.proof = <<"totp", 0, s, totp.made>>])
    BY <1>5 DEF VerifyTOTP
  <2>2. [req[r] EXCEPT !.pc = "advancing", !.step = s,
                       !.proof = <<"totp", 0, s, totp.made>>].pc = "advancing"
    BY <1>0 DEF RequestRecords
  <2> QED
    BY <1>1, <1>5, <2>1, <2>2 DEF VerifyTOTP, memory, history
<1>6. ASSUME NEW p, Proven(r, p), UNCHANGED <<issued, challenge>>
      PROVE  Taking'
  <2>1. [req[r] EXCEPT !.pc = "taking", !.step = 0, !.proof = p].pc = "taking"
    BY <1>0 DEF RequestRecords
  <2> QED
    BY <1>1, <1>6, <2>1 DEF Proven
<1>7. CASE AdvanceTOTPStep(r)
  <2>1. [req[r] EXCEPT !.pc = "failing", !.step = 0, !.proof = NoProof].pc = "failing"
    BY <1>0 DEF RequestRecords
  <2> QED
    BY <1>1, <1>6, <1>7, <2>1 DEF AdvanceTOTPStep, memory, history
<1>8. CASE UseRecoveryCode(r) \/ VerifyPasskey(r)
  BY <1>6, <1>8 DEF UseRecoveryCode, VerifyPasskey, memory, history
<1>9. CASE FailMFA(r)
  <2>1. \A c \in Challenges : challenge[c] = Gone => challenge'[c] = Gone
    BY <1>0, <1>9 DEF FailMFA, Live, Gone
  <2> QED
    BY <1>1, <1>9, <2>1 DEF FailMFA, Idle
<1>10. CASE TakeChallenge(r)
  <2>1. CASE UNCHANGED challenge /\ Goes(r, Idle)
    BY <1>1, <1>10, <2>1 DEF TakeChallenge, Idle
  <2>2. ASSUME Live(req[r].challenge), Goes(r, [req[r] EXCEPT !.pc = "issuing"]),
               challenge' = [challenge EXCEPT ![req[r].challenge] = Gone]
        PROVE  Taking'
    <3>1. UNCHANGED issued
      BY <1>10 DEF TakeChallenge
    <3>2. /\ \A q \in Requests : q # r => req'[q] = req[q]
          /\ req'[r].pc = "issuing" /\ req'[r].challenge = req[r].challenge
      BY <1>0, <2>2, GoesAlone DEF RequestRecords
    <3>3. \A c \in Challenges : challenge[c] = Gone \/ c = req[r].challenge => challenge'[c] = Gone
      BY <1>0, <2>2
    <3>4. challenge[req[r].challenge] # Gone
      BY <2>2 DEF Live, Gone
    <3>5. \A q \in Requests : q # r => (Took(q)' <=> Took(q))
      BY <3>2 DEF Took
    <3>6. \A q \in Requests : Took(q)' => challenge'[req'[q].challenge] = Gone
      BY <3>2, <3>3, <3>5 DEF Taking, Took
    <3>7. \A s \in issued : challenge'[s.challenge] = Gone /\ s.challenge # req[r].challenge
      BY <1>0, <3>3, <3>4 DEF Taking
    <3>8. \A q \in Requests : q # r /\ Took(q) => req[q].challenge # req[r].challenge
      BY <3>4 DEF Taking
    <3>9. \A p, q \in Requests : Took(p)' /\ Took(q)' /\ req'[p].challenge = req'[q].challenge => p = q
      BY <3>2, <3>5, <3>8 DEF Taking
    <3>10. \A q \in Requests, s \in issued : Took(q)' => req'[q].challenge # s.challenge
      BY <3>2, <3>5, <3>7 DEF Taking
    <3> QED
      BY <3>1, <3>6, <3>7, <3>9, <3>10 DEF Taking, ChallengeOnce
  <2> QED
    BY <1>10, <2>1, <2>2 DEF TakeChallenge
<1>11. CASE IssueSession(r)
  <2>1. /\ UNCHANGED challenge
        /\ \A s \in issued' : s \in issued \/
             /\ s = [n |-> Cardinality(issued), challenge |-> req[r].challenge, proof |-> req[r].proof]
             /\ Took(r)
    BY <1>0, <1>11 DEF IssueSession, memory, Took, RequestRecords
  <2>2. \A q \in Requests : Took(q)' => q # r /\ Took(q) /\ req'[q] = req[q]
    BY <1>11, GoesAlone DEF IssueSession, Took, Idle
  <2>3. \A s \in issued' : s \in issued \/ (s.challenge = req[r].challenge /\ Took(r))
    BY <2>1
  <2>4. \A s \in issued' : challenge'[s.challenge] = Gone
    BY <2>1, <2>3 DEF Taking
  <2>5. \A q \in Requests, s \in issued' : Took(q)' => req'[q].challenge # s.challenge
    BY <2>2, <2>3 DEF Taking
  <2>6. \A s, t \in issued' : s.challenge = t.challenge => s = t
    BY <2>1, <2>3 DEF Taking, ChallengeOnce
  <2> QED
    BY <2>1, <2>2, <2>4, <2>5, <2>6 DEF Taking, ChallengeOnce
<1> QED
  BY <1>3, <1>4, <1>5, <1>7, <1>8, <1>9, <1>10, <1>11 DEF SignInStep

\* Every step leaves a taken challenge with the one that took it.
LEMMA NextTaking ==
  ASSUME Typed, Taking, [Next]_vars
  PROVE  Taking'
<1>1. ASSUME UNCHANGED issued,
             \A c \in Challenges : challenge[c] = Gone => challenge'[c] = Gone,
             \A r \in Requests : req'[r] = req[r] \/ req'[r].pc # "issuing"
      PROVE  Taking'
  <2>1. \A r \in Requests : Took(r)' => Took(r) /\ req'[r].challenge = req[r].challenge
    BY <1>1 DEF Took
  <2> QED
    BY <1>1, <2>1, TakingKept
<1>2. CASE Others
  BY <1>1, <1>2 DEF Others, SetAccount, AccountDeleted, PasswordSet, ResetUserMFA,
     DeleteSession, memory, history
<1>3. CASE StepPasses \/ UNCHANGED vars
  BY <1>1, <1>3 DEF StepPasses, vars, memory, history
<1>4. CASE Expire \/ WindowPasses
  <2>1. \A c \in Challenges : challenge[c] = Gone => challenge'[c] = Gone
    BY <1>4 DEF Expire, WindowPasses, Typed, MemoryTyped
  <2> QED
    BY <1>1, <1>4, <2>1 DEF Expire, WindowPasses, history
<1>5. CASE Restart
  <2>1. \A c \in Challenges : challenge[c] = Gone => challenge'[c] = Gone
    BY <1>5 DEF Restart, Forgotten
  <2> QED
    BY <1>1, <1>5, <2>1 DEF Restart, Idle
<1>6. ASSUME NEW r \in Requests, Enrol(r)
      PROVE  Taking'
  <2>1. UNCHANGED <<challenge, issued>>
    BY <1>6 DEF Enrol, TotpConfirm, PutTOTP, PasskeyRegister, AddWebAuthnCredential,
       TotpDisable, PasskeyDelete, RegenerateRecoveryCodes, Begins, DeleteTOTP,
       DeleteWebAuthnCredential, ReplaceRecoveryCodes, memory, history
  <2>2. ASSUME NEW to, Goes(r, to), to.pc # "issuing"
        PROVE  Taking'
    BY <2>1, <2>2, GoesAlone, <1>1
  <2>3. CASE Goes(r, Idle)
    BY <2>2, <2>3 DEF Idle
  <2>4. CASE TotpConfirm(r)
    <3>1. PICK s \in Accepted(0) :
            Goes(r, [Idle EXCEPT !.pc = "confirming", !.step = s, !.first = ~HasFactor])
      BY <2>4 DEF TotpConfirm
    <3>2. [Idle EXCEPT !.pc = "confirming", !.step = s, !.first = ~HasFactor].pc = "confirming"
      BY DEF Idle
    <3> QED
      BY <2>2, <3>1, <3>2
  <2>5. CASE PasskeyRegister(r)
    <3>1. [Idle EXCEPT !.pc = "adding", !.first = ~HasFactor].pc = "adding"
      BY DEF Idle
    <3> QED
      BY <2>2, <2>5, <3>1 DEF PasskeyRegister
  <2>6. ASSUME NEW phase \in {"disabling", "removing", "replacing"}, Begins(r, phase)
        PROVE  Taking'
    <3>1. [Idle EXCEPT !.pc = phase].pc = phase
      BY DEF Idle
    <3> QED
      BY <2>2, <2>6, <3>1 DEF Begins
  <2> QED
    BY <1>6, <2>3, <2>4, <2>5, <2>6 DEF Enrol, PutTOTP, AddWebAuthnCredential, DeleteTOTP,
       DeleteWebAuthnCredential, ReplaceRecoveryCodes, TotpDisable, PasskeyDelete,
       RegenerateRecoveryCodes
<1> QED
  BY <1>2, <1>3, <1>4, <1>5, <1>6, SignInTaking DEF Next

\* Of any number of requests that verified on one challenge, with whatever proofs, the
\* one that removes it signs in; a restart or an expiry between the two steps included.
THEOREM ChallengesAreSingle == Spec => []ChallengeOnce
<1>1. Init => Taking
  BY DEF Init, Taking, Took, Idle, ChallengeOnce
<1>2. Typed /\ Taking /\ [Next]_vars => Taking'
  BY NextTaking
<1>3. Taking => ChallengeOnce
  BY DEF Taking
<1> QED
  BY <1>1, <1>2, <1>3, TypedInvariant, PTL DEF Spec

-----------------------------------------------------------------------------
(***************************************************************************)
(* The wrong answers an account allows.                                    *)
(***************************************************************************)

\* The requests past the limiter's check that may yet answer wrongly.
Guessing == {r \in Requests : req[r].pc \in {"answering", "advancing", "failing"}}

\* A request passes the check only while the count is below the limit, and counts
\* itself at most once.
Budget == fails + Cardinality(Guessing) <= MaxFail - 1 + Cardinality(Requests)

\* There are at most as many of them as requests.
LEMMA GuessersAreFew ==
  /\ IsFiniteSet(Guessing) /\ Cardinality(Guessing) \in Nat
  /\ IsFiniteSet(Guessing') /\ Cardinality(Guessing') \in Nat
  /\ Cardinality(Requests) \in Nat
  /\ Cardinality(Guessing) <= Cardinality(Requests)
  /\ Cardinality(Guessing') <= Cardinality(Requests)
<1>1. Guessing \subseteq Requests /\ Guessing' \subseteq Requests
  BY DEF Guessing
<1> QED
  BY <1>1, SignInBounds, FS_Subset, FS_CardinalityType

\* The budget after a step that neither counts nor lets a request past the check, that
\* forgets the count, or that lets a request past a check it passes.
LEMMA BudgetKept ==
  ASSUME Typed, Budget,
         \/ fails' = fails /\ Guessing' \subseteq Guessing
         \/ fails' = 0
         \/ fails' = fails /\ fails < MaxFail
  PROVE  Budget'
<1>1. fails \in Nat /\ MaxFail \in Nat \ {0}
  BY SignInBounds DEF Typed, MemoryTyped
<1>2. Guessing' \subseteq Guessing => Cardinality(Guessing') <= Cardinality(Guessing)
  BY GuessersAreFew, FS_Subset
<1>3. CASE fails' = fails /\ Guessing' \subseteq Guessing
  BY <1>1, <1>2, <1>3, GuessersAreFew DEF Budget
<1>4. CASE fails' = 0
  BY <1>1, <1>4, GuessersAreFew DEF Budget
<1>5. CASE fails' = fails /\ fails < MaxFail
  BY <1>1, <1>5, GuessersAreFew DEF Budget
<1> QED
  BY <1>3, <1>4, <1>5

\* A request that answers wrongly leaves the requests that may, and is counted.
LEMMA FailBudget ==
  ASSUME Typed, Budget, NEW r \in Requests, FailMFA(r)
  PROVE  Budget'
<1>1. fails' = fails + 1 /\ r \in Guessing
  BY DEF FailMFA, Guessing
<1>2. Guessing' \subseteq Guessing \ {r}
  BY GoesAlone DEF FailMFA, Guessing, Idle
<1>3. /\ IsFiniteSet(Guessing \ {r})
      /\ Cardinality(Guessing \ {r}) = Cardinality(Guessing) - 1
  BY <1>1, GuessersAreFew, FS_RemoveElement
<1>4. Cardinality(Guessing') <= Cardinality(Guessing) - 1
  BY <1>2, <1>3, FS_Subset
<1>5. fails \in Nat /\ MaxFail \in Nat \ {0}
  BY SignInBounds DEF Typed, MemoryTyped
<1> QED
  BY <1>1, <1>4, <1>5, GuessersAreFew DEF Budget

\* No step but a wrong answer adds to the count.
LEMMA NextBudget ==
  ASSUME Typed, Budget, [Next]_vars
  PROVE  Budget'
<1>1. CASE UNCHANGED <<fails, req>>
  BY <1>1, BudgetKept DEF Guessing
<1>2. CASE Others \/ StepPasses \/ Expire \/ UNCHANGED vars
  BY <1>1, <1>2 DEF Others, SetAccount, AccountDeleted, PasswordSet, ResetUserMFA, DeleteSession,
     StepPasses, Expire, vars, memory
<1>3. CASE WindowPasses \/ Restart
  BY <1>3, BudgetKept DEF WindowPasses, Restart
<1>4. ASSUME NEW r \in Requests, NEW to, Goes(r, to), UNCHANGED fails,
             to.pc \in {"answering", "advancing", "failing"} => r \in Guessing
      PROVE  Budget'
  <2>1. Guessing' \subseteq Guessing
    BY <1>4, GoesAlone DEF Guessing
  <2> QED
    BY <1>4, <2>1, BudgetKept
<1>5. ASSUME NEW r \in Requests, Enrol(r)
      PROVE  Budget'
  <2>1. UNCHANGED fails
    BY <1>5 DEF Enrol, TotpConfirm, PutTOTP, PasskeyRegister, AddWebAuthnCredential,
       TotpDisable, PasskeyDelete, RegenerateRecoveryCodes, Begins, DeleteTOTP,
       DeleteWebAuthnCredential, ReplaceRecoveryCodes, memory
  <2>2. CASE Goes(r, Idle)
    BY <1>4, <2>1, <2>2 DEF Idle
  <2>3. CASE TotpConfirm(r)
    <3>1. PICK s \in Accepted(0) :
            Goes(r, [Idle EXCEPT !.pc = "confirming", !.step = s, !.first = ~HasFactor])
      BY <2>3 DEF TotpConfirm
    <3>2. [Idle EXCEPT !.pc = "confirming", !.step = s, !.first = ~HasFactor].pc = "confirming"
      BY DEF Idle
    <3> QED
      BY <1>4, <2>1, <3>1, <3>2
  <2>4. CASE PasskeyRegister(r)
    <3>1. [Idle EXCEPT !.pc = "adding", !.first = ~HasFactor].pc = "adding"
      BY DEF Idle
    <3> QED
      BY <1>4, <2>1, <2>4, <3>1 DEF PasskeyRegister
  <2>5. ASSUME NEW phase \in {"disabling", "removing", "replacing"}, Begins(r, phase)
        PROVE  Budget'
    <3>1. [Idle EXCEPT !.pc = phase].pc = phase
      BY DEF Idle
    <3> QED
      BY <1>4, <2>1, <2>5, <3>1 DEF Begins
  <2> QED
    BY <1>5, <2>2, <2>3, <2>4, <2>5 DEF Enrol, PutTOTP, AddWebAuthnCredential, DeleteTOTP,
       DeleteWebAuthnCredential, ReplaceRecoveryCodes, TotpDisable, PasskeyDelete,
       RegenerateRecoveryCodes
<1>6. ASSUME NEW r \in Requests, SignInStep(r)
      PROVE  Budget'
  <2>1. req[r] \in RequestRecords
    BY DEF Typed, RequestsTyped
  <2>2. ASSUME NEW p, Proven(r, p), UNCHANGED fails
        PROVE  Budget'
    <3>1. [req[r] EXCEPT !.pc = "taking", !.step = 0, !.proof = p].pc = "taking"
      BY <2>1 DEF RequestRecords
    <3> QED
      BY <1>4, <2>2, <3>1 DEF Proven
  <2>3. CASE Login(r)
    <3>1. [Idle EXCEPT !.pc = "issuing"].pc = "issuing"
      BY DEF Idle
    <3> QED
      BY <1>1, <1>4, <2>3, <3>1 DEF Login
  <2>4. CASE VerifyTOTP(r)
    <3>1. PICK s : Goes(r, [req[r] EXCEPT !.pc = "advancing", !.step = s,
                                          !.proof = <<"totp", 0, s, totp.made>>])
      BY <2>4 DEF VerifyTOTP
    <3>2. r \in Guessing /\ UNCHANGED fails
      BY <2>4 DEF VerifyTOTP, Guessing, memory
    <3> QED
      BY <1>4, <3>1, <3>2
  <2>5. CASE AdvanceTOTPStep(r)
    <3>1. r \in Guessing /\ UNCHANGED fails
      BY <2>5 DEF AdvanceTOTPStep, Guessing, memory
    <3> QED
      BY <1>4, <2>2, <2>5, <3>1 DEF AdvanceTOTPStep
  <2>6. CASE UseRecoveryCode(r) \/ VerifyPasskey(r)
    BY <2>2, <2>6 DEF UseRecoveryCode, VerifyPasskey, memory
  <2>7. CASE TakeChallenge(r)
    <3>1. [req[r] EXCEPT !.pc = "issuing"].pc = "issuing" /\ Idle.pc = "idle"
      BY <2>1 DEF RequestRecords, Idle
    <3> QED
      BY <1>4, <2>7, <3>1, BudgetKept DEF TakeChallenge
  <2>8. CASE IssueSession(r)
    BY <1>4, <2>8 DEF IssueSession, memory, Idle
  <2>9. ASSUME NEW c \in Challenges, BeginMFA(r, c)
        PROVE  Budget'
    BY <2>9, BudgetKept DEF BeginMFA
  <2> QED
    BY <1>6, <2>3, <2>4, <2>5, <2>6, <2>7, <2>8, <2>9, FailBudget DEF SignInStep
<1> QED
  BY <1>2, <1>3, <1>5, <1>6 DEF Next

\* Challenges come and go, the password being right each time; within a window the
\* account still allows no more wrong answers than the limiter's limit and, beyond it,
\* one for each request that was past the check.
THEOREM GuessesAreBounded == Spec => []GuessBudget
<1>1. Init => Budget
  <2> SUFFICES ASSUME Init PROVE Budget
    OBVIOUS
  <2>1. Guessing = {}
    BY DEF Init, Guessing, Idle
  <2> QED
    BY <2>1, GuessersAreFew, SignInBounds DEF Init, Budget
<1>2. Typed /\ Budget /\ [Next]_vars => Budget'
  BY NextBudget
<1>3. Typed /\ Budget => GuessBudget
  BY GuessersAreFew, SignInBounds DEF Typed, MemoryTyped, Budget, GuessBudget
<1> QED
  BY <1>1, <1>2, <1>3, TypedInvariant, PTL DEF Spec

-----------------------------------------------------------------------------
(***************************************************************************)
(* Types.                                                                  *)
(***************************************************************************)

ClosedTyped == closed \subseteq Challenges

\* Only the deletion of the account adds to the challenges that came before it.
LEMMA ClosedStep ==
  ASSUME ClosedTyped, [Next]_vars
  PROVE  ClosedTyped'
<1>1. closed' \subseteq closed \cup Challenges
  <2>1. CASE Others
    BY <2>1 DEF Others, SetAccount, AccountDeleted, PasswordSet, ResetUserMFA, DeleteSession, history
  <2>2. CASE StepPasses \/ Expire \/ WindowPasses \/ Restart \/ UNCHANGED vars
    BY <2>2 DEF StepPasses, Expire, WindowPasses, Restart, vars, history
  <2>3. ASSUME NEW r \in Requests, Enrol(r)
        PROVE  UNCHANGED closed
    BY <2>3 DEF Enrol, TotpConfirm, PutTOTP, PasskeyRegister, AddWebAuthnCredential,
       TotpDisable, PasskeyDelete, RegenerateRecoveryCodes, Begins, DeleteTOTP,
       DeleteWebAuthnCredential, ReplaceRecoveryCodes, history
  <2>4. ASSUME NEW r \in Requests, SignInStep(r)
        PROVE  UNCHANGED closed
    BY <2>4 DEF SignInStep, Login, BeginMFA, VerifyTOTP, AdvanceTOTPStep, UseRecoveryCode,
       VerifyPasskey, FailMFA, TakeChallenge, IssueSession, history
  <2> QED
    BY <2>1, <2>2, <2>3, <2>4 DEF Next
<1> QED
  BY <1>1 DEF ClosedTyped

\* So they are challenges.
LEMMA ClosedInvariant == Spec => []ClosedTyped
<1>1. Init => ClosedTyped
  BY DEF Init, ClosedTyped
<1>2. ClosedTyped /\ [Next]_vars => ClosedTyped'
  BY ClosedStep
<1> QED
  BY <1>1, <1>2, PTL DEF Spec

\* Every value keeps its type and its bounds: the limiter's count passes its limit by
\* the requests in flight at most, and an account has one set of codes.
THEOREM SignInTypes == Spec => []TypeOK
<1>1. Typed /\ GuessBudget /\ ClosedTyped => TypeOK
  <2> SUFFICES ASSUME Typed, GuessBudget, ClosedTyped PROVE TypeOK
    OBVIOUS
  <2>1. Cardinality(codes) <= 1
    <3>1. CASE codes = {}
      BY <3>1, FS_EmptySet
    <3>2. CASE codes # {}
      <4>1. PICK x \in codes : TRUE
        BY <3>2
      <4>2. codes = {x}
        BY <4>1 DEF Typed, StoreTyped
      <4>3. Cardinality(codes) = 1
        BY <4>2, FS_Singleton, Zenon
      <4> QED
        BY <4>3
    <3> QED
      BY <3>1, <3>2
  <2>2. fails \in 0 .. MaxFail + Cardinality(Requests)
    BY GuessersAreFew, SignInBounds DEF Typed, MemoryTyped, GuessBudget
  <2>3. \A s \in issued : s.n \in Nat /\ s.challenge \in Challenges
    BY DEF Typed, IssuedTyped, SignIns
  <2>4. \A r \in Requests :
          /\ req[r].pc \in Phases /\ req[r].first \in BOOLEAN /\ req[r].step \in Steps
          /\ req[r].challenge \in Challenges \cup {NoSignIn}
          /\ req[r].pc = "idle" => req[r] = Idle
    BY DEF Typed, RequestsTyped, RequestRecords
  <2>5. challenge \in [Challenges -> {Fresh, Gone} \cup {Waiting(n) : n \in 0 .. MaxChallengeFail - 1}]
    BY DEF Typed, MemoryTyped, ChallengeStates
  <2> QED
    BY <2>1, <2>2, <2>3, <2>4, <2>5 DEF Typed, StoreTyped, ClosedTyped, TypeOK
<1> QED
  BY <1>1, TypedInvariant, GuessesAreBounded, ClosedInvariant, PTL

==============================================================================
