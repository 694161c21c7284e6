---------------------------- MODULE RateLimiter -----------------------------
(***************************************************************************)
(* The sliding-window rate limiter (rate_limiter.py), for one key.         *)
(*                                                                         *)
(* Every request reads the clock first and takes the lock afterwards, so   *)
(* the threads of a worker may consume in another order than they read.    *)
(* The memory store keeps the hits in order of arrival and forgets from    *)
(* the front; the Redis script keeps and forgets them by time.             *)
(***************************************************************************)
EXTENDS Integers, Sequences, FiniteSets

CONSTANTS Threads,         \* request threads
          Limit, Window,   \* hits allowed per window; the window, in ticks
          TickPerSecond,   \* Retry-After is in whole seconds
          LastInstant      \* bound on time

ASSUME RateAssumption ==
  Limit \in Nat \ {0} /\ Window \in Nat \ {0} /\ TickPerSecond \in Nat \ {0}
  /\ LastInstant \in Nat

VARIABLES instant,  \* time.time()
          backend,  \* the store in use
          reading,  \* thread -> the clock reading of its request, or NotRead
          hits,     \* the store's hits
          allowed,  \* every hit allowed so far: [at, late]
          told      \* when a refused client may come back; NotRead when none was

rateVars == <<instant, backend, reading, hits, allowed, told>>

NotRead == 0 - 1
Instant == 0 .. LastInstant

RateTypeOK ==
  /\ instant \in Instant /\ backend \in {"memory", "redis"}
  /\ reading \in [Threads -> Instant \cup {NotRead}]
  /\ hits \in Seq(Instant)
  /\ allowed \in Seq([at : Instant, late : BOOLEAN])
  /\ told \in Nat \cup {NotRead}

\* _current_time(), before the lock.
ReadClock(i) ==
  /\ reading[i] = NotRead /\ reading' = [reading EXCEPT ![i] = instant]
  /\ UNCHANGED <<instant, backend, hits, allowed, told>>

Passes ==
  /\ instant < LastInstant /\ instant' = instant + 1
  /\ UNCHANGED <<backend, reading, hits, allowed, told>>

\* Fault: a hit is forgotten one tick early.
ForgottenEarly(hit, now) == hit <= now - Window + 1

Forgotten(hit, now) == hit <= now - Window

\* The hits from the first that is young enough: in Redis, where they are sorted, these
\* are all that are.
Kept(now) ==
  LET young == {n \in 1 .. Len(hits) : ~Forgotten(hits[n], now)}
      first == IF young = {} THEN Len(hits) + 1
               ELSE CHOOSE n \in young : \A m \in young : n <= m
  IN  SubSeq(hits, first, Len(hits))

\* Redis keeps the hits sorted, the deque appends.
Added(kept, now) ==
  LET before == IF backend = "redis" THEN Cardinality({n \in 1 .. Len(kept) : kept[n] <= now})
                ELSE Len(kept)
  IN  [n \in 1 .. Len(kept) + 1 |->
         IF n <= before THEN kept[n] ELSE IF n = before + 1 THEN now ELSE kept[n - 1]]

\* math.ceil of seconds, at least one.
RoundedUp(ticks) ==
  LET up == ((ticks + TickPerSecond - 1) \div TickPerSecond) * TickPerSecond
  IN  IF up < TickPerSecond THEN TickPerSecond ELSE up

\* consume: refused with the time to wait ...
Refuse(i) ==
  LET now == reading[i] IN
  /\ now # NotRead /\ Len(Kept(now)) >= Limit
  /\ hits' = Kept(now)
  /\ told' = now + RoundedUp(Window - (now - Kept(now)[1]))
  /\ reading' = [reading EXCEPT ![i] = NotRead]
  /\ UNCHANGED <<instant, backend, allowed>>

\* ... or allowed.  A hit is late when a younger one was consumed before it.
Allow(i) ==
  LET now == reading[i] IN
  /\ now # NotRead /\ Len(Kept(now)) < Limit
  /\ hits' = Added(Kept(now), now)
  /\ allowed' = Append(allowed,
       [at |-> now, late |-> \E n \in 1 .. Len(allowed) : allowed[n].at > now])
  /\ told' = NotRead
  /\ reading' = [reading EXCEPT ![i] = NotRead]
  /\ UNCHANGED <<instant, backend>>

RateInit ==
  /\ instant = 0 /\ backend \in {"memory", "redis"}
  /\ reading = [i \in Threads |-> NotRead] /\ hits = <<>> /\ allowed = <<>> /\ told = NotRead

RateNext == Passes \/ \E i \in Threads : ReadClock(i) \/ Refuse(i) \/ Allow(i)

RateSpec == RateInit /\ [][RateNext]_rateVars

-----------------------------------------------------------------------------
(* What the limiter promises *)

\* In no window does the limiter let through more than Limit requests, not counting
\* those that consumed after a request with a later clock reading: the lock orders
\* the requests, and only that disorder can exceed the limit.
WindowBound ==
  \A n \in 1 .. Len(allowed) :
    LET end == allowed[n].at
        inside == {m \in 1 .. Len(allowed) :
                     ~allowed[m].late /\ allowed[m].at \in end - Window + 1 .. end}
    IN  Cardinality(inside) <= Limit

\* A client that waits as long as Retry-After says is let through, if nobody else was
\* in the meantime: the rounding never sends it back too early.
RetryAfterHonest ==
  \A i \in Threads : told # NotRead /\ reading[i] >= told => Len(Kept(reading[i])) < Limit

\* The limit holds, and a refused client learns truthfully when it no longer does.
LimitKept == WindowBound /\ RetryAfterHonest
=============================================================================
