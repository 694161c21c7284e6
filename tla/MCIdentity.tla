----------------------------- MODULE MCIdentity -----------------------------
(* Accounts and signing in, checked side by side: a behaviour is a behaviour of the part
   that its initial state chooses; the other parts stay in their initial state. *)
EXTENDS Accounts, OneTimeTokens, SecondFactor, Lockout, RateLimiter, TLC

CONSTANT Parts
VARIABLE part

\* The same requests serve every part.
Symmetry == Permutations(People) \cup Permutations(Handlers)

\* Nothing is said here of what follows once changes of one account have overlapped.
NobodyCrossed == crossed = {}

\* Two revocations, of one account or of two.
FewRevocations ==
  \A p, q \in People : p # q => account[p].version + account[q].version <= MaxVersion + 1

\* Links and refresh tokens share no state: a behaviour issues the one or the other.
OneSortOfToken ==
  \/ \A l \in Links : slip[l] = "unissued"
  \/ \A s \in RefreshTokens : slip[s] = "unissued"

Init ==
  /\ part \in Parts
  /\ AcctInit /\ OttInit /\ MfaInit /\ LockInit /\ RateInit
  /\ part # "limiter" => backend = "memory"

Next ==
  /\ UNCHANGED part
  /\ \/ part = "accounts" /\ AcctNext /\ UNCHANGED <<ottVars, mfaVars, lockVars, rateVars>>
     \/ part = "tokens" /\ OttNext /\ UNCHANGED <<acctVars, mfaVars, lockVars, rateVars>>
     \/ part = "factor" /\ MfaNext /\ UNCHANGED <<acctVars, ottVars, lockVars, rateVars>>
     \/ part = "lockout" /\ LockNext /\ UNCHANGED <<acctVars, ottVars, mfaVars, rateVars>>
     \/ part = "limiter" /\ RateNext /\ UNCHANGED <<acctVars, ottVars, mfaVars, lockVars>>

Spec == Init /\ [][Next]_<<part, acctVars, ottVars, mfaVars, lockVars, rateVars>>
=============================================================================
