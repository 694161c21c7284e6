---------------------------- MODULE SecondFactor ----------------------------
(***************************************************************************)
(* Multi-factor sign-in of one account (services/mfa.py and the /mfa       *)
(* routes of api/auth_routes.py): enrolment in two requests, the sign-in   *)
(* challenge, recovery codes.                                              *)
(*                                                                         *)
(* A request works on the row as it loaded it and commits the columns it   *)
(* changed; no request locks the row between.                              *)
(***************************************************************************)
EXTENDS Integers, FiniteSets

CONSTANTS Secrets, Codes,     \* TOTP secrets and recovery codes, each made up once
          BatchSize,          \* recovery codes per enrolment
          MfaHandlers,        \* requests served at the same time
          MaxLogouts          \* bound on revocations

ASSUME MfaAssumption ==
  "none" \notin Secrets \cup Codes /\ BatchSize \in Nat \ {0} /\ MaxLogouts \in Nat

VARIABLES mfa,        \* the mfa_* columns, and token_version
          made,       \* secrets and codes made so far
          proved,     \* secrets a code of which has been verified
          spentCodes, \* recovery codes accepted
          challenge,  \* token_version in the sign-in challenge, 0 when there is none
          step,       \* handler -> the request it executes
          tangled     \* two requests that change the columns overlapped

mfaVars == <<mfa, made, proved, spentCodes, challenge, step, tangled>>

MfaTypeOK ==
  LET Columns == [enabled : BOOLEAN, secret : Secrets \cup {"none"},
                  codes : SUBSET Codes, version : 1 .. MaxLogouts + 1] IN
  /\ mfa \in Columns
  /\ made \subseteq Secrets \cup Codes /\ proved \subseteq Secrets
  /\ spentCodes \subseteq Codes /\ challenge \in 0 .. MaxLogouts + 1
  /\ step \in [MfaHandlers ->
       [kind : {"free", "enroll", "confirm", "disable", "recover"}, row : Columns,
        code : Codes \cup {"none"}]]
  /\ tangled \in BOOLEAN

NoColumns == [enabled |-> FALSE, secret |-> "none", codes |-> {}, version |-> 1]
Resting == [kind |-> "free", row |-> NoColumns, code |-> "none"]

\* Only the loaded columns the request goes on to use are kept.
Begin(h, kind, code, row) ==
  /\ step[h] = Resting
  /\ step' = [step EXCEPT ![h] = [kind |-> kind, row |-> row, code |-> code]]
  /\ UNCHANGED <<mfa, made, proved, spentCodes, challenge, tangled>>

\* The end of a request: what it loaded may be out of date by now.
End(h) ==
  /\ step' = [step EXCEPT ![h] = Resting]
  /\ tangled' = (tangled \/ \E g \in MfaHandlers \ {h} : step[g] # Resting)

-----------------------------------------------------------------------------
(* Enrolment *)

BeginEnrollment(h) == ~mfa.enabled /\ Begin(h, "enroll", "none", NoColumns)

\* begin_enrollment stores a new secret, not yet in effect.
Enrolled(h, secret) ==
  /\ step[h].kind = "enroll" /\ secret \in Secrets \ made
  /\ mfa' = [mfa EXCEPT !.secret = secret] /\ made' = made \cup {secret}
  /\ End(h)
  /\ UNCHANGED <<proved, spentCodes, challenge>>

\* verify_totp: the code comes from an app that holds this very secret.
CodeValid(secret) == secret # "none"

BeginConfirm(h) ==
  /\ ~mfa.enabled /\ mfa.secret # "none"
  /\ Begin(h, "confirm", "none", [NoColumns EXCEPT !.secret = mfa.secret])

\* confirm_enrollment turns the second factor on and makes the recovery codes; the
\* code was verified against the secret the request had loaded.
Confirmed(h, batch) ==
  /\ step[h].kind = "confirm" /\ batch \subseteq Codes \ made
  /\ Cardinality(batch) = BatchSize
  /\ mfa' = [mfa EXCEPT !.enabled = TRUE, !.codes = batch]
  /\ proved' = IF CodeValid(step[h].row.secret) THEN proved \cup {step[h].row.secret}
                                                ELSE proved
  /\ made' = made \cup batch
  /\ End(h)
  /\ UNCHANGED <<spentCodes, challenge>>

BeginDisable(h) == Begin(h, "disable", "none", [mfa EXCEPT !.version = 1])

\* Fault: the secret is taken away, the flag stays.
SecretDropped(row) == [row EXCEPT !.secret = "none", !.codes = {}]

\* disable_mfa; columns that already had the value are not written.
Disabled(row) == [row EXCEPT !.enabled = FALSE, !.secret = "none", !.codes = {}]

DisabledColumns(now, seen) ==
  [enabled |-> IF Disabled(seen).enabled = seen.enabled THEN now.enabled
                                                         ELSE Disabled(seen).enabled,
   secret |-> IF Disabled(seen).secret = seen.secret THEN now.secret
                                                      ELSE Disabled(seen).secret,
   codes |-> IF Disabled(seen).codes = seen.codes THEN now.codes
                                                   ELSE Disabled(seen).codes,
   version |-> now.version]

EndDisable(h) ==
  /\ step[h].kind = "disable"
  /\ mfa' = DisabledColumns(mfa, step[h].row)
  /\ End(h)
  /\ UNCHANGED <<made, proved, spentCodes, challenge>>

-----------------------------------------------------------------------------
(* Sign-in *)

\* issue_mfa_challenge, after the password was right.
Challenge ==
  /\ mfa.enabled /\ challenge' = mfa.version
  /\ UNCHANGED <<mfa, made, proved, spentCodes, step, tangled>>

\* resolve_mfa_challenge
Answerable == mfa.enabled /\ challenge = mfa.version

\* mfa_verify with a code of the authenticator app: nothing of this state changes
\* but the challenge, which the client gives up.
SignInByApp ==
  /\ Answerable /\ mfa.secret # "none" /\ challenge' = 0
  /\ UNCHANGED <<mfa, made, proved, spentCodes, step, tangled>>

BeginRecover(h, code) ==
  /\ Answerable /\ code \in mfa.codes
  /\ Begin(h, "recover", code, [NoColumns EXCEPT !.codes = mfa.codes])

\* Fault: the code is accepted and left in the list.
KeptCodes(seen, code) == seen

\* consume_recovery_code writes the whole list it loaded, less this code.
RemainingCodes(seen, code) == seen \ {code}

Recovered(h) ==
  LET code == step[h].code IN
  /\ step[h].kind = "recover"
  /\ mfa' = [mfa EXCEPT !.codes = RemainingCodes(step[h].row.codes, code)]
  /\ spentCodes' = spentCodes \cup {code}
  /\ End(h)
  /\ UNCHANGED <<made, proved, challenge>>

\* revoke_tokens kills a challenge in flight.
RevokeSessions ==
  /\ mfa.version <= MaxLogouts /\ mfa' = [mfa EXCEPT !.version = @ + 1]
  /\ UNCHANGED <<made, proved, spentCodes, challenge, step, tangled>>

\* A request fails and is rolled back.
Dropped(h) ==
  /\ step[h] # Resting /\ step' = [step EXCEPT ![h] = Resting]
  /\ UNCHANGED <<mfa, made, proved, spentCodes, challenge, tangled>>

-----------------------------------------------------------------------------
MfaInit ==
  /\ mfa = NoColumns /\ made = {} /\ proved = {} /\ spentCodes = {} /\ challenge = 0
  /\ step = [h \in MfaHandlers |-> Resting] /\ tangled = FALSE

MfaNext ==
  \/ \E h \in MfaHandlers :
       \/ BeginEnrollment(h) \/ \E secret \in Secrets : Enrolled(h, secret)
       \/ BeginConfirm(h) \/ \E batch \in SUBSET Codes : Confirmed(h, batch)
       \/ BeginDisable(h) \/ EndDisable(h) \/ Dropped(h)
       \/ \E code \in Codes : BeginRecover(h, code)
       \/ Recovered(h)
  \/ Challenge \/ SignInByApp \/ RevokeSessions

MfaSpec == MfaInit /\ [][MfaNext]_mfaVars

-----------------------------------------------------------------------------
(* What the second factor promises *)

\* While it is on, the stored secret is one whose code the user has shown, so the
\* app can always sign in (mfa.py: "A user therefore cannot lock themselves out by
\* enrolling with a misconfigured app") - as long as no two of the account's
\* requests overlapped: a second enrolment or a disable between the check and the
\* commit of a confirmation breaks it.
NotLockedOut == mfa.enabled /\ ~tangled => mfa.secret \in proved

\* A recovery code that signed somebody in is not on the list again, through any
\* sequence of enrolments and sign-ins that do not overlap; overlapping ones write
\* back the lists they loaded.
CodesUsedOnce == ~tangled => mfa.codes \cap spentCodes = {}
=============================================================================
