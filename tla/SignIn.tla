-------------------------------- MODULE SignIn --------------------------------
(***************************************************************************)
(* The sign-in of one account in two steps: its second factors and recovery  *)
(* codes in the database, its challenges and the count of wrong answers in   *)
(* memory, its sessions.                                                      *)
(*                                                                           *)
(* A request reads what it needs, decides, and writes in a later statement;  *)
(* what it read may be old by then. The account's row is the one of Users.   *)
(***************************************************************************)
EXTENDS Integers, FiniteSets

CONSTANTS
  Covered,           \* whether the mfa_required policy demands a factor of the account
  Requests,          \* requests in flight
  Challenges,        \* bound: challenges of the second step, each used for one sign-in
  MaxFail,           \* wrong answers after which the limiter blocks
  MaxChallengeFail,  \* wrong answers after which a challenge is discarded
  MaxStep,           \* bound: TOTP steps of the clock
  MaxMade,           \* bound: TOTP enrolments and sets of recovery codes made
  MaxSessions        \* bound: sessions at a time

ASSUME SignInBounds ==
  /\ Covered \in BOOLEAN
  /\ {MaxFail, MaxChallengeFail} \subseteq Nat \ {0}
  /\ {MaxStep, MaxMade, MaxSessions} \subseteq Nat
  /\ IsFiniteSet(Requests)

VARIABLES
  account,    \* the row of app_user: absent, enabled or disabled
  totp,       \* user_totp: which enrolment it is (0: none), and last_step
  passkeys,   \* how many webauthn_credential rows there are
  codes,      \* the unused recovery codes (one stands for a set of ten)
  sessions,   \* how many session rows there are
  challenge,  \* mfa.challenges: sign-ins that await the second factor
  fails,      \* the limiter's count under mfa:<account>
  now,        \* the present TOTP step
  made,       \* the number of the newest enrolment or code
  req,        \* the requests in flight
  issued,     \* history: the second steps that ended in a session, each with a number
  wrong,      \* history: wrong answers since the window, a restart or a sign-in
  closed      \* history: challenges begun before the account they were for was deleted

factors == <<totp, passkeys, codes, made>>
memory  == <<challenge, fails>>
history == <<issued, wrong, closed>>
vars == <<account, factors, sessions, memory, now, req, history>>

NoTotp    == [made |-> 0, last |-> 0]

\* What a sign-in was proven with: the kind; for a TOTP code the enrolment whose last
\* step it advanced, the step, and the enrolment whose secret it was checked against.
NoProof   == <<"none", 0, 0, 0>>

NoSignIn  == "none"
Steps     == 0 .. MaxStep + 1

\* A challenge: not issued yet, or waiting after so many wrong answers, or gone.
Fresh == [pc |-> "fresh", fails |-> 0]
Waiting(n) == [pc |-> "waiting", fails |-> n]
Gone  == [pc |-> "gone", fails |-> 0]

Idle == [pc |-> "idle", first |-> FALSE, challenge |-> NoSignIn, step |-> 0, proof |-> NoProof]

Phases == {"idle", "confirming", "adding", "disabling", "removing", "replacing",
           "answering", "advancing", "failing", "taking", "issuing"}

TypeOK ==
  /\ account \in {"absent", "enabled", "disabled"}
  /\ totp \in [made : 0 .. MaxMade, last : Steps]
  /\ passkeys \in 0 .. 1 /\ codes \subseteq 1 .. MaxMade /\ Cardinality(codes) <= 1
  /\ sessions \in 0 .. MaxSessions
  /\ challenge \in [Challenges -> {Fresh, Gone} \cup {Waiting(n) : n \in 0 .. MaxChallengeFail - 1}]
  /\ fails \in 0 .. MaxFail + Cardinality(Requests) /\ now \in 0 .. MaxStep /\ made \in 0 .. MaxMade
  /\ \A r \in Requests :
       /\ req[r].pc \in Phases /\ req[r].first \in BOOLEAN /\ req[r].step \in Steps
       /\ req[r].challenge \in Challenges \cup {NoSignIn}
       /\ req[r].pc = "idle" => req[r] = Idle
  /\ \A s \in issued : s.n \in Nat /\ s.challenge \in Challenges
  /\ closed \subseteq Challenges

Init ==
  /\ account = "enabled"
  /\ totp = NoTotp /\ passkeys = 0 /\ codes = {} /\ sessions = 0
  /\ challenge = [c \in Challenges |-> Fresh]
  /\ fails = 0 /\ now = 0 /\ made = 0
  /\ req = [r \in Requests |-> Idle]
  /\ issued = {} /\ wrong = 0 /\ closed = {}

AccountExists == account # "absent"
HasTotp   == totp.made # 0
HasFactor == HasTotp \/ passkeys > 0

Live(c) == challenge[c].pc = "waiting"

Goes(r, to) == req' = [req EXCEPT ![r] = to]

-----------------------------------------------------------------------------
\* What others do to the account.

\* createUser, or updateUser on the disabled flag: disabling ends the sessions.
SetAccount ==
  /\ \/ ~AccountExists /\ account' = "enabled" /\ UNCHANGED sessions
     \/ account = "disabled" /\ account' = "enabled" /\ UNCHANGED sessions
     \/ account = "enabled" /\ account' = "disabled" /\ sessions' = 0
  /\ UNCHANGED <<factors, memory, now, req, history>>

\* The row's sessions, factors and codes go with it by cascade; what is kept in
\* memory under its id stays.
AccountDeleted ==
  /\ AccountExists
  /\ account' = "absent"
  /\ totp' = NoTotp /\ passkeys' = 0 /\ codes' = {} /\ sessions' = 0
  /\ closed' = closed \cup {c \in Challenges : Live(c) \/ \E r \in Requests : req[r].challenge = c}
  /\ UNCHANGED <<made, memory, now, req, issued, wrong>>

\* SetUserPassword: from the settings one session is kept, by an administrator and
\* from the command line none.
PasswordSet ==
  /\ AccountExists
  /\ sessions' \in IF sessions > 0 THEN {0, 1} ELSE {0}
  /\ UNCHANGED <<account, factors, memory, now, req, history>>

\* resetUserMFA and `duskrun user reset-2fa`.
ResetUserMFA ==
  /\ AccountExists
  /\ totp' = NoTotp /\ passkeys' = 0 /\ codes' = {} /\ sessions' = 0
  /\ UNCHANGED <<account, made, memory, now, req, history>>

\* logout, deleteSession, or an expired session that was presented.
DeleteSession ==
  /\ sessions > 0
  /\ sessions' = sessions - 1
  /\ UNCHANGED <<account, factors, memory, now, req, history>>

-----------------------------------------------------------------------------
\* The second factors. Each request needs a live session and acts on the account as
\* it was when the request was authenticated.

SignedIn == sessions > 0 /\ account = "enabled"

\* The steps VerifyTOTP accepts now: the present one and one to either side.
Accepted(after) == {s \in Steps : s \in now - 1 .. now + 1 /\ s > after}

Begins(r, phase) ==
  /\ req[r].pc = "idle" /\ SignedIn
  /\ Goes(r, [Idle EXCEPT !.pc = phase])
  /\ UNCHANGED <<account, factors, sessions, memory, now, history>>

\* totpConfirm: totpSetup has left a secret in memory, a code of it is right; recovery
\* codes are going to be made if the account has no factor.
TotpConfirm(r) ==
  /\ req[r].pc = "idle" /\ SignedIn
  /\ \E s \in Accepted(0) :
       Goes(r, [Idle EXCEPT !.pc = "confirming", !.step = s, !.first = ~HasFactor])
  /\ UNCHANGED <<account, factors, sessions, memory, now, history>>

\* The statement finds the account or fails; enrolling again starts from the step of the
\* code that confirmed it.
PutTOTP(r) ==
  /\ req[r].pc = "confirming"
  /\ made < MaxMade
  /\ IF AccountExists
     THEN /\ totp' = [made |-> made + 1, last |-> req[r].step]
          /\ codes' = IF req[r].first THEN {made + 1} ELSE codes
          /\ made' = made + 1
     ELSE UNCHANGED <<totp, codes, made>>
  /\ Goes(r, Idle)
  /\ UNCHANGED <<account, passkeys, sessions, memory, now, history>>

\* passkeyRegister, after passkeyOptions.
PasskeyRegister(r) ==
  /\ req[r].pc = "idle" /\ SignedIn
  /\ Goes(r, [Idle EXCEPT !.pc = "adding", !.first = ~HasFactor])
  /\ UNCHANGED <<account, factors, sessions, memory, now, history>>

\* One passkey is enough; a second one is refused as already registered.
AddWebAuthnCredential(r) ==
  /\ req[r].pc = "adding"
  /\ made < MaxMade
  /\ IF AccountExists /\ passkeys = 0
     THEN /\ passkeys' = 1
          /\ codes' = IF req[r].first THEN {made + 1} ELSE codes
          /\ made' = made + 1
     ELSE UNCHANGED <<passkeys, codes, made>>
  /\ Goes(r, Idle)
  /\ UNCHANGED <<account, totp, sessions, memory, now, history>>

\* lastFactorGuard, on what was read.
TotpDisable(r)   == HasTotp /\ (passkeys > 0 \/ ~Covered) /\ Begins(r, "disabling")
PasskeyDelete(r) == passkeys > 0 /\ (HasTotp \/ ~Covered) /\ Begins(r, "removing")

\* dropOrphanRecoveryCodes: with the last factor its codes go.
DeleteTOTP(r) ==
  /\ req[r].pc = "disabling"
  /\ totp' = NoTotp
  /\ codes' = IF HasTotp /\ passkeys = 0 THEN {} ELSE codes
  /\ Goes(r, Idle)
  /\ UNCHANGED <<account, passkeys, made, sessions, memory, now, history>>

DeleteWebAuthnCredential(r) ==
  /\ req[r].pc = "removing"
  /\ passkeys' = 0
  /\ codes' = IF passkeys > 0 /\ ~HasTotp THEN {} ELSE codes
  /\ Goes(r, Idle)
  /\ UNCHANGED <<account, totp, made, sessions, memory, now, history>>

RegenerateRecoveryCodes(r) == HasFactor /\ Begins(r, "replacing")

ReplaceRecoveryCodes(r) ==
  /\ req[r].pc = "replacing"
  /\ made < MaxMade
  /\ IF AccountExists THEN codes' = {made + 1} /\ made' = made + 1 ELSE UNCHANGED <<codes, made>>
  /\ Goes(r, Idle)
  /\ UNCHANGED <<account, totp, passkeys, sessions, memory, now, history>>

-----------------------------------------------------------------------------
\* Sign-in.

\* Mutant of Login: the right password also clears the count of the second step.
LoginClears(r) ==
  /\ req[r].pc = "idle" /\ account = "enabled"
  /\ \/ /\ ~HasFactor
        /\ Goes(r, [Idle EXCEPT !.pc = "issuing"])
        /\ UNCHANGED challenge
     \/ /\ HasFactor
        /\ \E c \in Challenges :
             /\ challenge[c] = Fresh
             /\ challenge' = [challenge EXCEPT ![c] = Waiting(0)]
        /\ UNCHANGED req
  /\ fails' = 0
  /\ UNCHANGED <<account, factors, sessions, now, history>>

\* login, the password being right: a challenge, or a session at once.
Login(r) ==
  /\ req[r].pc = "idle" /\ account = "enabled"
  /\ \/ /\ ~HasFactor
        /\ Goes(r, [Idle EXCEPT !.pc = "issuing"])
        /\ UNCHANGED challenge
     \/ /\ HasFactor
        /\ \E c \in Challenges :
             /\ challenge[c] = Fresh
             /\ challenge' = [challenge EXCEPT ![c] = Waiting(0)]
        /\ UNCHANGED req
  /\ UNCHANGED <<account, factors, sessions, fails, now, history>>

\* loginMFA begins: the challenge is live, the limiter does not block, the account may
\* sign in. A challenge whose account may not is discarded; otherwise the request is
\* answered and changes nothing.
BeginMFA(r, c) ==
  /\ req[r].pc = "idle"
  /\ Live(c)
  /\ fails < MaxFail
  /\ \/ /\ account = "enabled"
        /\ Goes(r, [Idle EXCEPT !.pc = "answering", !.challenge = c])
        /\ UNCHANGED challenge
     \/ /\ account # "enabled"
        /\ challenge' = [challenge EXCEPT ![c] = Gone]
        /\ UNCHANGED req
  /\ UNCHANGED <<account, factors, sessions, fails, now, history>>

\* verifyLoginTOTP: a right code of the present secret, of a step later than the
\* recorded one.
VerifyTOTP(r) ==
  /\ req[r].pc = "answering" /\ HasTotp
  /\ \E s \in Accepted(totp.last) :
       Goes(r, [req[r] EXCEPT !.pc = "advancing", !.step = s,
                              !.proof = <<"totp", 0, s, totp.made>>])
  /\ UNCHANGED <<account, factors, sessions, memory, now, history>>

Proven(r, proof) == Goes(r, [req[r] EXCEPT !.pc = "taking", !.step = 0, !.proof = proof])

\* Mutant of AdvanceTOTPStep: the step is recorded and not compared.
AdvanceUnchecked(r) ==
  /\ req[r].pc = "advancing"
  /\ HasTotp
  /\ totp' = [totp EXCEPT !.last = req[r].step]
  /\ Proven(r, <<"totp", totp.made, req[r].step, req[r].proof[4]>>)
  /\ UNCHANGED <<account, passkeys, codes, made, sessions, memory, now, history>>

\* The step is compared and recorded in one statement, with whatever enrolment the
\* account has by then: the secret the code was checked against is not compared.
AdvanceTOTPStep(r) ==
  /\ req[r].pc = "advancing"
  /\ IF HasTotp /\ totp.last < req[r].step
     THEN /\ totp' = [totp EXCEPT !.last = req[r].step]
          /\ Proven(r, <<"totp", totp.made, req[r].step, req[r].proof[4]>>)
     ELSE /\ Goes(r, [req[r] EXCEPT !.pc = "failing", !.step = 0, !.proof = NoProof])
          /\ UNCHANGED totp
  /\ UNCHANGED <<account, passkeys, codes, made, sessions, memory, now, history>>

UseRecoveryCode(r) ==
  /\ req[r].pc = "answering"
  /\ \E c \in codes :
       /\ codes' = codes \ {c}
       /\ Proven(r, <<"recovery", c, 0, 0>>)
  /\ UNCHANGED <<account, totp, passkeys, made, sessions, memory, now, history>>

\* verifyLoginPasskey: an assertion over what was issued for this challenge.
VerifyPasskey(r) ==
  /\ req[r].pc = "answering" /\ passkeys > 0
  /\ Proven(r, <<"passkey", 0, 0, 0>>)
  /\ UNCHANGED <<account, factors, sessions, memory, now, history>>

\* A wrong answer counts on the challenge, and on the account.
FailMFA(r) ==
  /\ req[r].pc \in {"answering", "failing"}
  /\ LET c == req[r].challenge IN
     challenge' = [challenge EXCEPT ![c] =
       IF Live(c) /\ @.fails + 1 < MaxChallengeFail THEN Waiting(@.fails + 1) ELSE Gone]
  /\ fails' = fails + 1
  /\ wrong' = wrong + 1
  /\ Goes(r, Idle)
  /\ UNCHANGED <<account, factors, sessions, now, issued, closed>>

\* Mutant of TakeChallenge: looked up, not removed.
TakeKeeps(r) ==
  /\ req[r].pc = "taking"
  /\ Live(req[r].challenge)
  /\ fails' = 0 /\ wrong' = 0
  /\ Goes(r, [req[r] EXCEPT !.pc = "issuing"])
  /\ UNCHANGED <<account, factors, sessions, challenge, now, issued, closed>>

\* Of the requests that verified, the one that removes the challenge goes on.
TakeChallenge(r) ==
  /\ req[r].pc = "taking"
  /\ LET c == req[r].challenge IN
     \/ /\ Live(c)
        /\ challenge' = [challenge EXCEPT ![c] = Gone]
        /\ fails' = 0 /\ wrong' = 0
        /\ Goes(r, [req[r] EXCEPT !.pc = "issuing"])
     \/ /\ ~Live(c)
        /\ Goes(r, Idle)
        /\ UNCHANGED <<challenge, fails, wrong>>
  /\ UNCHANGED <<account, factors, sessions, now, issued, closed>>

\* issueSession: the session's row refers to the account, which must still be there.
IssueSession(r) ==
  /\ req[r].pc = "issuing"
  /\ sessions < MaxSessions
  /\ sessions' = IF AccountExists THEN sessions + 1 ELSE sessions
  /\ issued' = IF AccountExists /\ req[r].challenge # NoSignIn
               THEN issued \cup {[n |-> Cardinality(issued), challenge |-> req[r].challenge,
                                  proof |-> req[r].proof]}
               ELSE issued
  /\ Goes(r, Idle)
  /\ UNCHANGED <<account, factors, memory, now, wrong, closed>>

-----------------------------------------------------------------------------
\* Time, and restarts.

StepPasses ==
  /\ now < MaxStep
  /\ now' = now + 1
  /\ UNCHANGED <<account, factors, sessions, memory, req, history>>

Forgotten(c) == IF Live(c) THEN Gone ELSE challenge[c]

\* A challenge lives for five minutes.
Expire ==
  /\ \E c \in Challenges : Live(c) /\ challenge' = [challenge EXCEPT ![c] = Gone]
  /\ UNCHANGED <<account, factors, sessions, fails, now, req, history>>

\* The limiter's window begins anew with each wrong answer and is longer than a
\* challenge lives: one that has seen a wrong answer is gone by its end.
WindowPasses ==
  /\ challenge' = [c \in Challenges |-> IF challenge[c].fails > 0 THEN Gone ELSE challenge[c]]
  /\ fails' = 0 /\ wrong' = 0
  /\ UNCHANGED <<account, factors, sessions, now, req, issued, closed>>

\* The daemon restarts: what is in memory is gone, and so are expired sessions.
Restart ==
  /\ challenge' = [c \in Challenges |-> Forgotten(c)]
  /\ fails' = 0 /\ wrong' = 0
  /\ req' = [r \in Requests |-> Idle]
  /\ sessions' \in 0 .. sessions
  /\ UNCHANGED <<account, factors, now, issued, closed>>

Others == SetAccount \/ AccountDeleted \/ PasswordSet \/ ResetUserMFA \/ DeleteSession

Enrol(r) ==
  \/ TotpConfirm(r) \/ PutTOTP(r) \/ PasskeyRegister(r) \/ AddWebAuthnCredential(r)
  \/ TotpDisable(r) \/ DeleteTOTP(r) \/ PasskeyDelete(r) \/ DeleteWebAuthnCredential(r)
  \/ RegenerateRecoveryCodes(r) \/ ReplaceRecoveryCodes(r)

SignInStep(r) ==
  \/ Login(r) \/ VerifyTOTP(r) \/ AdvanceTOTPStep(r) \/ UseRecoveryCode(r) \/ VerifyPasskey(r)
  \/ FailMFA(r) \/ TakeChallenge(r) \/ IssueSession(r)
  \/ \E c \in Challenges : BeginMFA(r, c)

Next ==
  \/ Others \/ StepPasses \/ Expire \/ WindowPasses \/ Restart
  \/ \E r \in Requests : Enrol(r) \/ SignInStep(r)

Spec == Init /\ [][Next]_vars

-----------------------------------------------------------------------------
(***************************************************************************)
(* Properties.                                                             *)
(***************************************************************************)

\* A code signs in once, though requests with the same code race: a recovery code once
\* at all, a TOTP code once per enrolment its step is recorded with. That is the one it
\* was checked against unless the account enrols anew between the check and the record
\* (store/sqlite/mfa.go:64-77, 216-231).
ProofOnce ==
  \A s, t \in issued :
    s.proof = t.proof /\ s.proof[1] \in {"totp", "recovery"} => s = t

\* Two requests may verify on one challenge, with two proofs; one of them gets a
\* session (handlers_mfa.go:215-221).
ChallengeOnce ==
  \A s, t \in issued : s.challenge = t.challenge => s = t

\* The wrong answers the account allows within a window do not grow with new
\* challenges, the password being right each time; requests already past the check
\* may still add theirs (handlers_mfa.go:132-135).
GuessBudget == wrong < MaxFail + Cardinality(Requests)

-----------------------------------------------------------------------------
\* What the sources say, and the code does not do.

\* A TOTP code completes one sign-in, as is said of the recorded step. The statement
\* compares the step with that of another enrolment if there is one by then
\* (auth/totp.go:60-63, store/sqlite/mfa.go:64-67).
CodeOnce ==
  \A s, t \in issued :
    /\ s.proof[1] = "totp" /\ t.proof[1] = "totp"
    /\ s.proof[3] = t.proof[3] /\ s.proof[4] = t.proof[4]
    => s = t

\* A sign-in whose account is deleted between its two steps is over, as is said where
\* the account is read. A request past that, and a challenge whose account id is given
\* out again, go on (handlers_mfa.go:163-171).
AttemptEndsWithAccount ==
  [][\A s \in issued' \ issued : s.challenge \notin closed]_vars

\* Recovery codes exist alongside a factor only, as the schema says. New ones are
\* stored without a look at the factors there are by then
\* (0008_mfa.sql:5-6, handlers_mfa.go:710-738).
CodesNeedFactor == codes # {} => HasFactor

=============================================================================
