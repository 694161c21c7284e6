------------------------------ MODULE Lockout -------------------------------
(***************************************************************************)
(* The lockout of one account after failed sign-ins (auth.py:              *)
(* authenticate_user and its helpers).  A sign-in loads the row, compares  *)
(* the password, and then commits the columns whose values changed; time   *)
(* is in ticks, TicksInSecond to the second.                               *)
(***************************************************************************)
EXTENDS Integers, Sequences, FiniteSets

CONSTANTS SignIns,        \* sign-ins at the same time
          MaxFailed,      \* MAX_FAILED_LOGINS
          LockTime,       \* LOCKOUT_MINUTES, in ticks
          TicksInSecond, LastMoment

ASSUME LockAssumption ==
  MaxFailed \in Nat \ {0} /\ LockTime \in Nat /\ TicksInSecond \in Nat \ {0}
  /\ LastMoment \in Nat

VARIABLES moment,   \* now
          counter,  \* failed_login_count, last_failed_login_at, locked_until
          attempt,  \* sign-in -> the columns it loaded
          compared  \* when wrong passwords were compared since the last success, by
                    \* sign-ins that did not overlap

lockVars == <<moment, counter, attempt, compared>>

NoTime == 0 - 1  \* NULL
Moment == 0 .. LastMoment
Clear == [failures |-> 0, lastFailed |-> NoTime, lockedUntil |-> NoTime]
NoAttempt == [on |-> FALSE, seen |-> Clear, alone |-> TRUE]

Counters == [failures : Nat, lastFailed : Moment \cup {NoTime},
             lockedUntil : Nat \cup {NoTime}]

LockTypeOK ==
  /\ moment \in Moment /\ counter \in Counters
  /\ attempt \in [SignIns -> [on : BOOLEAN, seen : Counters, alone : BOOLEAN]]
  /\ compared \in Seq(Moment)

\* _is_locked: int() truncates, a remainder below one second counts as none.
Locked(c) == c.lockedUntil # NoTime /\ c.lockedUntil - moment >= TicksInSecond

\* Fault: failures further apart than a second are forgotten.
StaleSoon(c) == c.lastFailed # NoTime /\ moment - c.lastFailed > TicksInSecond

\* An idle gap longer than the lockout starts the count again.
Stale(c) == c.lastFailed # NoTime /\ moment - c.lastFailed > LockTime

\* The row is loaded, unlocked; a locked account is refused and nothing changes.
SignIn(h) ==
  LET meets == \E g \in SignIns : attempt[g].on IN
  /\ ~attempt[h].on /\ ~Locked(counter)
  /\ attempt' = [g \in SignIns |->
       IF g = h THEN [on |-> TRUE, seen |-> counter, alone |-> ~meets]
       ELSE IF attempt[g].on THEN [attempt[g] EXCEPT !.alone = FALSE] ELSE attempt[g]]
  /\ UNCHANGED <<moment, counter, compared>>

\* The columns whose values are not those that were loaded.
Overwritten(now, seen, c) ==
  [failures |-> IF c.failures = seen.failures THEN now.failures ELSE c.failures,
   lastFailed |-> IF c.lastFailed = seen.lastFailed THEN now.lastFailed ELSE c.lastFailed,
   lockedUntil |-> IF c.lockedUntil = seen.lockedUntil THEN now.lockedUntil ELSE c.lockedUntil]

\* _record_failed_login
Failed(seen) ==
  LET count == (IF Stale(seen) THEN 0 ELSE seen.failures) + 1 IN
  [failures |-> count, lastFailed |-> moment,
   lockedUntil |-> IF count >= MaxFailed THEN moment + LockTime ELSE seen.lockedUntil]

WrongPassword(h) ==
  /\ attempt[h].on
  /\ counter' = Overwritten(counter, attempt[h].seen, Failed(attempt[h].seen))
  /\ compared' = IF attempt[h].alone THEN Append(compared, moment) ELSE compared
  /\ attempt' = [attempt EXCEPT ![h] = NoAttempt]
  /\ UNCHANGED moment

\* _clear_failed_logins
RightPassword(h) ==
  /\ attempt[h].on
  /\ counter' = Overwritten(counter, attempt[h].seen, Clear)
  /\ compared' = <<>>
  /\ attempt' = [attempt EXCEPT ![h] = NoAttempt]
  /\ UNCHANGED moment

Elapse ==
  /\ moment < LastMoment /\ moment' = moment + 1
  /\ UNCHANGED <<counter, attempt, compared>>

LockInit ==
  /\ moment = 0 /\ counter = Clear /\ attempt = [h \in SignIns |-> NoAttempt]
  /\ compared = <<>>

LockNext == Elapse \/ \E h \in SignIns : SignIn(h) \/ WrongPassword(h) \/ RightPassword(h)

LockSpec == LockInit /\ [][LockNext]_lockVars

-----------------------------------------------------------------------------
(* What the lockout promises *)

\* Between two successes, no stretch of time one second shorter than the lockout sees
\* more than MaxFailed wrong passwords compared: neither the reset of an old count, nor
\* the second that truncation cuts off a lock, nor a sign-in that took long and writes
\* an old count, lets one more through.  Sign-ins that overlap share one count.
AttemptsBounded ==
  \A n \in 1 .. Len(compared) :
    Cardinality({m \in 1 .. Len(compared) :
                   compared[m] \in compared[n] - LockTime + TicksInSecond .. compared[n]})
      <= MaxFailed
=============================================================================
