--------------------------- MODULE LiveDataProofs ---------------------------
(***************************************************************************)
(* Proofs about what a browser is served beside the records: the inbox     *)
(* that it shows, the streams that it listens on and the pages that it is  *)
(* given, for any number of them.                                          *)
(*                                                                         *)
(* ShownAsHeld is not inductive.  What an answer says must still hold when *)
(* it is applied, of all that has not gone by since (AnswersHold), and a   *)
(* push handled before its commit must have left what the commit makes     *)
(* true (PushedAsUnread).  QuotaHonest and StaleExplained need little      *)
(* beside themselves.                                                      *)
(***************************************************************************)
EXTENDS Inbox, LiveHub, ResponseCache, FiniteSetTheorems, TLAPS

-----------------------------------------------------------------------------
(* Inbox *)

\* What a request answered is right of a note; the response to Mark all read leaves
\* nothing unread.
Holds(q, n) ==
  /\ note[n] # "open" /\ Right(q.answer, n)
  /\ q.phase = "marked" => q.answer[n] \in {"read", "absent"}

\* An answer on its way is true of every note that nothing has happened to since.
AnswersHold ==
  \A r \in Requests : request[r].phase \in Answers =>
    \A n \in Notes \ request[r].since : Holds(request[r], n)

\* A note whose transaction is open, and of which the browser has been told, is shown
\* as the commit will leave it, or has fallen out of the copy.
PushedAsUnread ==
  \A n \in Notes : n \notin wire \cup unsure /\ note[n] = "open" =>
    shown[n] \in {"unread", "off"}

BInv == InboxTypeOK /\ AnswersHold /\ PushedAsUnread /\ ShownAsHeld

\* What this browser has had deleted is gone.
ArchivedGone == \A n \in archived : note[n] = "gone"

\* What one note is shown as agrees with what it is, now.
Agrees(n) ==
  n \notin wire \cup unsure =>
    IF note[n] = "open" THEN shown[n] \in {"unread", "off"} ELSE Right(shown, n)

\* PushedAsUnread and ShownAsHeld together are Agrees of every note.
LEMMA Agreement == (\A n \in Notes : Agrees(n)) <=> PushedAsUnread /\ ShownAsHeld
BY DEF Agrees, PushedAsUnread, ShownAsHeld

\* A request that is not under way has the fields of one that is.
LEMMA RequestAtRest == NoRequest \in RequestRec
BY DEF NoRequest, RequestRec, Nothing, Answers

\* Nothing is shown and nothing is held at first.
LEMMA InboxInitInv == InboxInit => BInv
<1> SUFFICES ASSUME InboxInit PROVE BInv
  OBVIOUS
<1>1. InboxTypeOK BY RequestAtRest DEF InboxInit, InboxTypeOK, Nothing
<1>2. AnswersHold BY DEF InboxInit, AnswersHold, NoRequest, Answers
<1>3. PushedAsUnread /\ ShownAsHeld
  BY DEF InboxInit, PushedAsUnread, ShownAsHeld, Right, Held, Nothing, Settled
<1> QED BY <1>1, <1>2, <1>3 DEF BInv

-----------------------------------------------------------------------------
\* What goes by is recorded in every answer on its way, and changes nothing else.
LEMMA PassingBy ==
  ASSUME InboxTypeOK, NEW S \in SUBSET Notes, NEW r \in Requests
  PROVE  /\ Passing(S)[r] \in RequestRec
         /\ Passing(S)[r].phase = request[r].phase
         /\ Passing(S)[r].answer = request[r].answer
         /\ request[r].phase \in Answers => Passing(S)[r].since = request[r].since \cup S
<1>1. request[r] \in RequestRec BY DEF InboxTypeOK
<1>2. CASE request[r].phase \in Answers BY <1>1, <1>2 DEF Passing, RequestRec
<1>3. CASE request[r].phase \notin Answers BY <1>1, <1>3 DEF Passing
<1> QED BY <1>2, <1>3

\* What a step does to some notes leaves an answer that has recorded them true of all
\* others.
LEMMA AnswerKept ==
  ASSUME BInv, NEW S \in SUBSET Notes, \A k \in Notes \ S : note'[k] = note[k],
         NEW r \in Requests, request'[r] = Passing(S)[r], request'[r].phase \in Answers,
         NEW k \in Notes \ request'[r].since
  PROVE  Holds(request[r], k)'
<1>1. /\ request[r].phase \in Answers /\ request'[r].phase = request[r].phase
      /\ request'[r].answer = request[r].answer
      /\ request'[r].since = request[r].since \cup S
  BY PassingBy DEF BInv
<1>2. k \in Notes \ request[r].since /\ k \notin S BY <1>1
<1>3. Holds(request[r], k) BY <1>1, <1>2 DEF BInv, AnswersHold
<1>4. note'[k] = note[k] /\ Held'[k] = Held[k] BY <1>2 DEF Held
<1> QED BY <1>1, <1>3, <1>4 DEF Holds, Right

\* A step that happens to one note leaves the answers true, and the requests in their type.
LEMMA AnswersKept ==
  ASSUME BInv, NEW n \in Notes, WentBy(n), \A k \in Notes \ {n} : note'[k] = note[k]
  PROVE  AnswersHold' /\ request' \in [Requests -> RequestRec]
<1>1. \A r \in Requests : request'[r] = Passing({n})[r] BY DEF WentBy
<1>2. request' \in [Requests -> RequestRec]
  <2>1. request' = Passing({n}) BY DEF WentBy
  <2>2. \A r \in Requests : Passing({n})[r] \in RequestRec BY PassingBy DEF BInv
  <2> QED BY <2>1, <2>2 DEF Passing
<1>3. AnswersHold' BY <1>1, AnswerKept DEF AnswersHold
<1> QED BY <1>2, <1>3

\* The rows: made, committed, rolled back, changed.
LEMMA NoteStep ==
  ASSUME BInv, NEW n \in Notes,
         \/ Trigger(n) \/ CommitNote(n) \/ RollBackNote(n)
         \/ \E to \in {"read", "unread", "gone"}, here \in BOOLEAN : Change(n, to, here)
  PROVE  BInv'
<1>1. WentBy(n) /\ \A k \in Notes \ {n} : note'[k] = note[k]
  BY DEF BInv, InboxTypeOK, Trigger, CommitNote, RollBackNote, Change
<1>2. AnswersHold' /\ request' \in [Requests -> RequestRec] BY <1>1, AnswersKept
<1>3. InboxTypeOK'
  <2>1. /\ note' \in [Notes -> {"none", "open", "unread", "read", "gone"}]
        /\ connected' \in BOOLEAN /\ wire' \subseteq Mentions /\ unsure' \subseteq Notes
        /\ archived' \subseteq Notes /\ shown' = shown
    BY DEF BInv, InboxTypeOK, Trigger, CommitNote, RollBackNote, Change
  <2> QED BY <1>2, <2>1 DEF BInv, InboxTypeOK
<1>4. \A k \in Notes \ {n} : Agrees(k)'
  <2> SUFFICES ASSUME NEW k \in Notes, k # n PROVE Agrees(k)'
    OBVIOUS
  <2>1. /\ k \in wire \cup unsure => k \in wire' \cup unsure'
        /\ shown'[k] = shown[k] /\ note'[k] = note[k]
    BY DEF BInv, InboxTypeOK, Trigger, CommitNote, RollBackNote, Change
  <2>2. Agrees(k) BY Agreement DEF BInv
  <2>3. Held'[k] = Held[k] BY <2>1 DEF Held
  <2> QED BY <2>1, <2>2, <2>3 DEF Agrees, Right
<1>5. Agrees(n)'
  <2>1. CASE Trigger(n) BY <2>1 DEF Agrees, Trigger
  <2>2. CASE CommitNote(n)
    <3>1. note'[n] = "unread" /\ shown' = shown /\ wire' = wire /\ unsure' = unsure
      BY <2>2 DEF BInv, InboxTypeOK, CommitNote
    <3>2. n \notin wire \cup unsure => shown[n] \in {"unread", "off"}
      BY <2>2 DEF BInv, PushedAsUnread, CommitNote
    <3> QED BY <3>1, <3>2 DEF Agrees, Right, Held, Settled
  <2>3. CASE RollBackNote(n) BY <2>3 DEF Agrees, RollBackNote
  <2>4. CASE \E to \in {"read", "unread", "gone"}, here \in BOOLEAN : Change(n, to, here)
    BY <2>4 DEF Agrees, Change
  <2> QED BY <2>1, <2>2, <2>3, <2>4
<1> QED BY <1>2, <1>3, <1>4, <1>5
        DEF BInv, Agrees, PushedAsUnread, ShownAsHeld

\* A push is shown as unread; what it pushes out of the copy is still in the inbox.
LEMMA PushStep ==
  ASSUME BInv, NEW n \in Notes, HandlePush(n)
  PROVE  BInv'
<1>1. note' = note /\ WentBy(n) BY DEF HandlePush
<1>2. AnswersHold' /\ request' \in [Requests -> RequestRec] BY <1>1, AnswersKept
<1> DEFINE look(k) == IF k = n THEN "unread"
                      ELSE IF shown[k] \in Settled /\ k \notin Members(list')
                           THEN "off" ELSE shown[k]
<1>3. /\ connected' = connected /\ archived' = archived /\ wire' \subseteq wire
      /\ unsure' \subseteq Notes
      /\ shown'[n] = "unread" /\ shown' \in [Notes -> {"absent", "unread", "read", "off"}]
      /\ \A k \in Notes \ {n} :
           shown'[k] = shown[k] \/ (shown'[k] = "off" /\ shown[k] \in Settled)
  <2>1. shown' = [k \in Notes |-> look(k)] BY DEF HandlePush
  <2>2. \A k \in Notes : look(k) \in {"absent", "unread", "read", "off"}
    BY DEF BInv, InboxTypeOK
  <2>3. /\ look(n) = "unread"
        /\ \A k \in Notes \ {n} :
             look(k) = shown[k] \/ (look(k) = "off" /\ shown[k] \in Settled)
    OBVIOUS
  <2>4. connected' = connected /\ archived' = archived /\ wire' \subseteq wire
    BY DEF HandlePush
  <2>5. unsure' \subseteq Notes BY DEF HandlePush, BInv, InboxTypeOK
  <2> HIDE DEF look
  <2> QED BY <2>1, <2>2, <2>3, <2>4, <2>5
<1>4. InboxTypeOK' BY <1>1, <1>2, <1>3 DEF BInv, InboxTypeOK
<1>5. Agrees(n)'
  <2>1. n \notin unsure' => note[n] \in {"open", "unread"} BY DEF HandlePush
  <2> QED BY <1>1, <1>3, <2>1 DEF Agrees, Right, Held, Settled
<1>6. \A k \in Notes \ {n} : Agrees(k)'
  <2> SUFFICES ASSUME NEW k \in Notes, k # n, k \notin wire' \cup unsure' PROVE Agrees(k)'
    BY DEF Agrees
  <2>1. k \notin wire \cup unsure BY DEF HandlePush
  <2>2. IF note[k] = "open" THEN shown[k] \in {"unread", "off"} ELSE Right(shown, k)
    BY <2>1, Agreement DEF Agrees, BInv
  <2>3. Held' = Held BY <1>1 DEF Held
  <2> QED BY <1>1, <1>3, <2>2, <2>3 DEF Agrees, Right, Settled
<1> QED BY <1>2, <1>4, <1>5, <1>6
        DEF BInv, Agrees, PushedAsUnread, ShownAsHeld

-----------------------------------------------------------------------------
\* A load: asked for, answered with a page of what is held, and put in place of what is
\* shown.
LEMMA LoadStep ==
  ASSUME BInv, NEW r \in Requests,
         \/ \E what \in {"asked", "marking"} : Ask(r, what)
         \/ \E v \in Views : AnswerLoad(r, v)
         \/ ApplyLoad(r) \/ LoadAfterMark(r)
  PROVE  BInv'
<1>1. note' = note /\ wire' = wire /\ connected' = connected /\ archived' = archived
  BY DEF Ask, AnswerLoad, ApplyLoad, LoadAfterMark
<1>2. Held' = Held BY <1>1 DEF Held
<1>3. /\ request' = [request EXCEPT ![r] = request'[r]]
      /\ \A k \in Requests \ {r} : request'[k] = request[k]
  BY DEF BInv, InboxTypeOK, Ask, AnswerLoad, ApplyLoad, LoadAfterMark
<1>4. request[r] \in RequestRec BY DEF BInv, InboxTypeOK
<1>5. ASSUME request'[r] \in RequestRec, request'[r].phase \notin Answers
      PROVE  AnswersHold' /\ request' \in [Requests -> RequestRec]
  BY <1>1, <1>2, <1>3, <1>5 DEF BInv, InboxTypeOK, AnswersHold, Holds, Right
<1>6. CASE \E what \in {"asked", "marking"} : Ask(r, what)
  <2> PICK what \in {"asked", "marking"} : Ask(r, what)
    BY <1>6
  <2>1. request'[r] = [request[r] EXCEPT !.phase = what] BY DEF Ask, BInv, InboxTypeOK
  <2>2. request'[r] \in RequestRec /\ request'[r].phase = what
    BY <1>4, <2>1 DEF RequestRec
  <2>3. AnswersHold' /\ request' \in [Requests -> RequestRec] BY <1>5, <2>2 DEF Answers
  <2>4. shown' = shown /\ unsure' = unsure BY DEF Ask
  <2> QED BY <1>1, <1>2, <2>3, <2>4 DEF BInv, InboxTypeOK, PushedAsUnread, ShownAsHeld, Right
<1>7. CASE \E v \in Views : AnswerLoad(r, v)
  <2> PICK v \in Views : AnswerLoad(r, v)
    BY <1>7
  <2>1. request'[r] = [phase |-> "answered", answer |-> PageAnswer(v), since |-> Uncommitted]
    BY DEF AnswerLoad, BInv, InboxTypeOK
  <2>2. /\ PageAnswer(v) \in [Notes -> {"absent", "unread", "read", "off"}]
        /\ \A n \in Notes : Right(PageAnswer(v), n)
    BY DEF PageAnswer, Right, Held, Settled
  <2>3. request'[r] \in RequestRec BY <2>1, <2>2 DEF RequestRec, Answers, Uncommitted
  <2>4. request' \in [Requests -> RequestRec] BY <1>3, <2>3 DEF BInv, InboxTypeOK
  <2>5. AnswersHold'
    <3> SUFFICES ASSUME NEW k \in Requests, request'[k].phase \in Answers,
                        NEW n \in Notes \ request'[k].since
                 PROVE  Holds(request'[k], n)
      BY <1>1, <1>2 DEF AnswersHold, Holds, Right
    <3>1. CASE k = r BY <2>1, <2>2, <3>1 DEF Uncommitted, Holds
    <3>2. CASE k # r BY <1>3, <3>2 DEF BInv, AnswersHold
    <3> QED BY <3>1, <3>2
  <2>6. shown' = shown /\ unsure' = unsure BY DEF AnswerLoad
  <2> QED BY <1>1, <1>2, <2>4, <2>5, <2>6
          DEF BInv, InboxTypeOK, PushedAsUnread, ShownAsHeld, Right
<1>8. CASE ApplyLoad(r)
  <2>1. /\ request[r].phase \in Answers
        /\ shown' = request[r].answer /\ unsure' = request[r].since
    BY <1>8 DEF ApplyLoad, Replaced, Answers
  <2>2. request'[r] = NoRequest BY <1>8 DEF ApplyLoad, BInv, InboxTypeOK
  <2>3. AnswersHold' /\ request' \in [Requests -> RequestRec]
    BY <1>5, <2>2, RequestAtRest DEF NoRequest, Answers
  <2>4. InboxTypeOK' BY <1>1, <1>4, <2>1, <2>3 DEF BInv, InboxTypeOK, RequestRec
  <2>5. PushedAsUnread' /\ ShownAsHeld'
    BY <1>1, <1>2, <2>1 DEF BInv, AnswersHold, Holds, PushedAsUnread, ShownAsHeld, Right
  <2> QED BY <2>3, <2>4, <2>5 DEF BInv
<1>9. CASE LoadAfterMark(r)
  <2>1. request'[r] = [NoRequest EXCEPT !.phase = "asked"]
    BY <1>9 DEF LoadAfterMark, BInv, InboxTypeOK
  <2>2. request'[r] \in RequestRec /\ request'[r].phase = "asked"
    BY <2>1, RequestAtRest DEF RequestRec, NoRequest
  <2>3. AnswersHold' /\ request' \in [Requests -> RequestRec] BY <1>5, <2>2 DEF Answers
  <2>4. shown' = shown /\ unsure' = unsure BY <1>9 DEF LoadAfterMark
  <2> QED BY <1>1, <1>2, <2>3, <2>4 DEF BInv, InboxTypeOK, PushedAsUnread, ShownAsHeld, Right
<1> QED BY <1>6, <1>7, <1>8, <1>9

\* Mark all read, at the server: every row that is unread then, and no other.
LEMMA MarkStep ==
  ASSUME BInv, NEW r \in Requests, AnswerMarkAll(r)
  PROVE  BInv'
<1> DEFINE marked == {n \in Notes : note[n] = "unread"}
           all == [n \in Notes |-> IF note[n] \in Settled THEN "read" ELSE "absent"]
           answer == [phase |-> "marked", since |-> Uncommitted, answer |-> all]
<1>1. /\ note' = [n \in Notes |-> IF n \in marked THEN "read" ELSE note[n]]
      /\ request' = [Passing(marked) EXCEPT ![r] = answer]
      /\ unsure' = unsure \cup marked
      /\ UNCHANGED <<connected, wire, archived, shown>>
  BY DEF AnswerMarkAll
<1>2. answer \in RequestRec
  <2>1. all \in [Notes -> {"absent", "unread", "read", "off"}] BY DEF Settled
  <2> QED BY <2>1 DEF RequestRec, Answers, Uncommitted
<1>3. \A k \in Requests : request'[k] = IF k = r THEN answer ELSE Passing(marked)[k]
  BY <1>1 DEF Passing
<1>4. request' \in [Requests -> RequestRec]
  <2>1. \A k \in Requests : Passing(marked)[k] \in RequestRec BY PassingBy DEF BInv
  <2> QED BY <1>1, <1>2, <2>1 DEF Passing
<1>5. InboxTypeOK' BY <1>1, <1>4 DEF BInv, InboxTypeOK
<1>6. \A n \in Notes : /\ (note'[n] = "open") <=> (note[n] = "open")
                       /\ n \notin marked => note'[n] = note[n] /\ Held'[n] = Held[n]
                       /\ Held'[n] = all[n]
  BY <1>1 DEF Held, Settled, BInv, InboxTypeOK
<1>7. AnswersHold'
  <2> SUFFICES ASSUME NEW k \in Requests, request'[k].phase \in Answers,
                      NEW n \in Notes \ request'[k].since
               PROVE  Holds(request[k], n)'
    BY DEF AnswersHold
  <2>1. CASE k = r
    <3>1. request'[k] = answer BY <1>3, <2>1
    <3>2. note[n] # "open" BY <3>1 DEF Uncommitted
    <3>3. request'[k].answer[n] = Held'[n] /\ all[n] \in {"read", "absent"} BY <1>6, <3>1
    <3> QED BY <1>6, <3>1, <3>2, <3>3 DEF Holds, Right
  <2>2. CASE k # r BY <1>3, <1>6, <2>2, AnswerKept
  <2> QED BY <2>1, <2>2
<1>8. \A n \in Notes : Agrees(n)'
  <2> SUFFICES ASSUME NEW n \in Notes, n \notin wire' \cup unsure' PROVE Agrees(n)'
    BY DEF Agrees
  <2>1. n \notin wire \cup unsure /\ n \notin marked BY <1>1
  <2>2. Agrees(n) BY Agreement DEF BInv
  <2> QED BY <1>1, <1>6, <2>1, <2>2 DEF Agrees, Right
<1> QED BY <1>5, <1>7, <1>8
        DEF BInv, Agrees, PushedAsUnread, ShownAsHeld

\* Mark all read, in the copy: right of every note that the response speaks of and that
\* has not gone by since.
LEMMA MarkedHereStep ==
  ASSUME BInv, NEW r \in Requests, MarkAllHere(r)
  PROVE  BInv'
<1> DEFINE q == request[r]
           told == {n \in Notes \ q.since : q.answer[n] = "read"}
<1>1. /\ q.phase = "marked" /\ UNCHANGED <<note, connected, wire, archived>>
      /\ shown' = [n \in Notes |-> IF shown[n] = "unread" THEN "read" ELSE shown[n]]
      /\ unsure' = (unsure \ {n \in told : shown[n] # "absent"})
                     \cup {n \in q.since : shown[n] = "unread"}
      /\ request' = [request EXCEPT ![r] = NoRequest]
  BY DEF MarkAllHere
<1>2. Held' = Held BY <1>1 DEF Held
<1>3. request' \in [Requests -> RequestRec] BY <1>1, RequestAtRest DEF BInv, InboxTypeOK
<1>4. q.since \subseteq Notes BY DEF BInv, InboxTypeOK, RequestRec
<1>5. InboxTypeOK' BY <1>1, <1>3, <1>4 DEF BInv, InboxTypeOK
<1>6. AnswersHold'
  <2>1. request'[r].phase \notin Answers BY <1>1 DEF BInv, InboxTypeOK, NoRequest, Answers
  <2>2. \A k \in Requests \ {r} : request'[k] = request[k] BY <1>1 DEF BInv, InboxTypeOK
  <2> QED BY <1>1, <1>2, <2>1, <2>2 DEF BInv, AnswersHold, Holds, Right
<1>7. \A n \in Notes : Agrees(n)'
  <2> SUFFICES ASSUME NEW n \in Notes, n \notin wire \cup unsure' PROVE Agrees(n)'
    BY <1>1 DEF Agrees
  <2>1. n \in q.since \/ Holds(q, n)
    BY <1>1 DEF BInv, AnswersHold, Answers
  <2>2. CASE n \in told /\ shown[n] # "absent"
    <3>1. note[n] = "read" BY <2>1, <2>2 DEF Holds, Right, Held, Settled
    <3>2. shown'[n] \in {"read", "off"}
      BY <1>1, <2>2 DEF BInv, InboxTypeOK
    <3> QED BY <1>1, <1>2, <3>1, <3>2 DEF Agrees, Right, Held, Settled
  <2>3. CASE ~(n \in told /\ shown[n] # "absent")
    <3>1. n \notin unsure BY <1>1, <2>3
    <3>2. Agrees(n) BY Agreement DEF BInv
    <3>3. shown[n] # "unread"
      <4> SUFFICES ASSUME shown[n] = "unread" PROVE FALSE
        OBVIOUS
      <4>1. n \notin q.since BY <1>1
      <4>2. note[n] # "open" /\ Right(q.answer, n) /\ q.answer[n] = "absent"
        BY <1>1, <2>1, <2>3, <4>1 DEF Holds
      <4>3. note[n] = "unread" BY <3>1, <3>2, <4>2 DEF Agrees, Right, Held, Settled
      <4> QED BY <4>2, <4>3 DEF Right, Held, Settled
    <3>4. shown'[n] = shown[n] BY <1>1, <3>3
    <3> QED BY <1>1, <1>2, <3>1, <3>2, <3>4 DEF Agrees, Right
  <2> QED BY <2>2, <2>3
<1> QED BY <1>5, <1>6, <1>7
        DEF BInv, Agrees, PushedAsUnread, ShownAsHeld

-----------------------------------------------------------------------------
\* The stream ends, with what was pushed and not handled, or is opened again; logging out
\* clears the copy with it.
LEMMA StreamStep ==
  ASSUME BInv, Disconnect \/ Reconnect \/ LogOut
  PROVE  BInv'
<1>1. note' = note /\ request' = request /\ archived' = archived /\ Held' = Held
  BY DEF Disconnect, Reconnect, LogOut, Held
<1>2. wire' \cup unsure' = wire \cup unsure
  BY DEF BInv, InboxTypeOK, Disconnect, Reconnect, LogOut
<1>3. \A n \in Notes : shown'[n] = shown[n] \/ (shown'[n] = "off" /\ shown[n] # "absent")
  <2>1. CASE LogOut BY <2>1 DEF LogOut
  <2>2. CASE Disconnect \/ Reconnect BY <2>2 DEF Disconnect, Reconnect
  <2> QED BY <2>1, <2>2
<1>4. InboxTypeOK'
  <2>1. shown' \in [Notes -> {"absent", "unread", "read", "off"}]
    BY DEF BInv, InboxTypeOK, Disconnect, Reconnect, LogOut
  <2> QED BY <1>1, <2>1, InboxAssumption DEF BInv, InboxTypeOK, Disconnect, Reconnect, LogOut
<1>5. AnswersHold' BY <1>1 DEF BInv, AnswersHold, Holds, Right
<1>6. PushedAsUnread' BY <1>1, <1>2, <1>3 DEF BInv, PushedAsUnread
<1>7. ShownAsHeld' BY <1>1, <1>2, <1>3 DEF BInv, ShownAsHeld, Right
<1> QED BY <1>4, <1>5, <1>6, <1>7 DEF BInv

\* What this browser deleted is gone, and is no longer shown.
LEMMA TakeOffStep ==
  ASSUME BInv, ArchivedGone, NEW n \in Notes, TakeOff(n)
  PROVE  BInv'
<1>1. /\ note' = note /\ request' = request /\ wire' = wire /\ Held' = Held
      /\ shown' = [shown EXCEPT ![n] = "absent"] /\ unsure' = unsure \ {n}
  BY DEF TakeOff, Held
<1>2. InboxTypeOK' BY <1>1 DEF BInv, InboxTypeOK, TakeOff
<1>3. AnswersHold' BY <1>1 DEF BInv, AnswersHold, Holds, Right
<1>4. note[n] = "gone" BY DEF ArchivedGone, TakeOff
<1>5. PushedAsUnread' BY <1>1, <1>4 DEF BInv, InboxTypeOK, PushedAsUnread
<1>6. ShownAsHeld' BY <1>1, <1>4 DEF BInv, InboxTypeOK, ShownAsHeld, Right, Held, Settled
<1> QED BY <1>2, <1>3, <1>5, <1>6 DEF BInv

\* A deletion is final.
LEMMA ArchivedStep ==
  ASSUME InboxTypeOK, ArchivedGone, [InboxNext]_inboxVars
  PROVE  ArchivedGone'
<1>1. CASE \E n \in Notes : \/ Trigger(n) \/ CommitNote(n) \/ RollBackNote(n)
                            \/ HandlePush(n) \/ TakeOff(n)
                            \/ \E to \in {"read", "unread", "gone"}, here \in BOOLEAN :
                                 Change(n, to, here)
  BY <1>1 DEF InboxTypeOK, ArchivedGone, Trigger, CommitNote, RollBackNote, HandlePush,
              TakeOff, Change, Settled
<1>2. CASE \E r \in Requests : AnswerMarkAll(r)
  BY <1>2 DEF InboxTypeOK, ArchivedGone, AnswerMarkAll
<1>3. CASE \/ \E r \in Requests : \/ \E what \in {"asked", "marking"} : Ask(r, what)
                                  \/ \E v \in Views : AnswerLoad(r, v)
                                  \/ ApplyLoad(r) \/ MarkAllHere(r) \/ LoadAfterMark(r)
           \/ Disconnect \/ Reconnect \/ LogOut \/ UNCHANGED inboxVars
  BY <1>3 DEF ArchivedGone, Ask, AnswerLoad, ApplyLoad, MarkAllHere, LoadAfterMark,
              Disconnect, Reconnect, LogOut, inboxVars
<1> QED BY <1>1, <1>2, <1>3 DEF InboxNext

\* Every step keeps the invariant.
LEMMA InboxStep ==
  BInv /\ ArchivedGone /\ [InboxNext]_inboxVars => BInv' /\ ArchivedGone'
<1> SUFFICES ASSUME BInv, ArchivedGone, [InboxNext]_inboxVars PROVE BInv'
  BY ArchivedStep DEF BInv
<1>1. CASE \E n \in Notes : \/ Trigger(n) \/ CommitNote(n) \/ RollBackNote(n)
                            \/ \E to \in {"read", "unread", "gone"}, here \in BOOLEAN :
                                 Change(n, to, here)
  BY <1>1, NoteStep
<1>2. CASE \E n \in Notes : HandlePush(n) \/ TakeOff(n) BY <1>2, PushStep, TakeOffStep
<1>3. CASE \E r \in Requests : \/ \E what \in {"asked", "marking"} : Ask(r, what)
                               \/ \E v \in Views : AnswerLoad(r, v)
                               \/ ApplyLoad(r) \/ LoadAfterMark(r)
  BY <1>3, LoadStep
<1>4. CASE \E r \in Requests : AnswerMarkAll(r) \/ MarkAllHere(r)
  BY <1>4, MarkStep, MarkedHereStep
<1>5. CASE Disconnect \/ Reconnect \/ LogOut BY <1>5, StreamStep
<1>6. CASE UNCHANGED inboxVars
  BY <1>6 DEF inboxVars, BInv, InboxTypeOK, AnswersHold, Holds, PushedAsUnread,
              ShownAsHeld, Right, Held
<1> QED BY <1>1, <1>2, <1>3, <1>4, <1>5, <1>6 DEF InboxNext

\* The browser shows what the inbox holds (setNotifications, upsertNotification), of all
\* notes that nothing happened to behind its back.
THEOREM BrowserShowsInbox == InboxSpec => []ShownAsHeld
<1>1. InboxInit => BInv /\ ArchivedGone BY InboxInitInv DEF InboxInit, ArchivedGone
<1>2. BInv /\ ArchivedGone /\ [InboxNext]_inboxVars => BInv' /\ ArchivedGone' BY InboxStep
<1>3. BInv => ShownAsHeld BY DEF BInv
<1> QED BY <1>1, <1>2, <1>3, PTL DEF InboxSpec

-----------------------------------------------------------------------------
(* LiveHub *)

\* QuotaHonest counts a set, so that the set must be known to be finite.
HInv == HubTypeOK /\ IsFiniteSet(subscribers) /\ QuotaHonest

\* Nobody is served at first.
LEMMA HubInitInv == HubInit => HInv
<1> SUFFICES ASSUME HubInit PROVE HInv
  OBVIOUS
<1>1. HubTypeOK BY DEF HubInit, HubTypeOK
<1>2. IsFiniteSet(subscribers) /\ Cardinality(subscribers) = 0
  BY FS_EmptySet DEF HubInit
<1>3. subscribers = {s \in Streams : stream[s] = "open"} BY DEF HubInit
<1> QED BY <1>1, <1>2, <1>3, HubAssumption DEF HInv, QuotaHonest

\* Every step keeps the types.
LEMMA HubTypeStep == HubTypeOK /\ [HubNext]_hubVars => HubTypeOK'
<1> SUFFICES ASSUME HubTypeOK, [HubNext]_hubVars PROVE HubTypeOK'
  OBVIOUS
<1> USE DEF HubTypeOK, posts
<1>1. ASSUME NEW s \in Streams, Greet(s) PROVE HubTypeOK' BY <1>1 DEF Greet
<1>2. ASSUME NEW s \in Streams, Subscribe(s) PROVE HubTypeOK' BY <1>2 DEF Subscribe
<1>3. ASSUME NEW s \in Streams, Deliver(s) PROVE HubTypeOK'
  <2>1. inbox[s] \in Seq(Events) /\ inbox[s] # <<>> BY <1>3 DEF Deliver
  <2>2. Head(inbox[s]) \in Events /\ Tail(inbox[s]) \in Seq(Events) BY <2>1
  <2> QED BY <1>3, <2>2 DEF Deliver
<1>4. ASSUME NEW s \in Streams, Close(s) PROVE HubTypeOK' BY <1>4 DEF Close
<1>5. ASSUME NEW e \in Events, Publish(e) PROVE HubTypeOK' BY <1>5 DEF Publish, Snapshot
<1>6. ASSUME NEW e \in Events, NEW s \in Streams, Put(e, s) PROVE HubTypeOK'
  BY <1>6 DEF Put
<1>7. CASE UNCHANGED hubVars BY <1>7 DEF hubVars
<1> QED BY <1>1, <1>2, <1>3, <1>4, <1>5, <1>6, <1>7 DEF HubNext

\* Only Subscribe and Close change the set of queues.
LEMMA HubStep == HInv /\ [HubNext]_hubVars => HInv'
<1> SUFFICES ASSUME HInv, [HubNext]_hubVars PROVE HInv'
  OBVIOUS
<1>1. HubTypeOK' BY HubTypeStep DEF HInv
<1> DEFINE Honest == IsFiniteSet(subscribers) /\ QuotaHonest
<1> SUFFICES Honest' BY <1>1 DEF HInv
<1> USE DEF HInv, HubTypeOK, QuotaHonest
<1>2. ASSUME NEW s \in Streams, Greet(s) PROVE Honest' BY <1>2 DEF Greet
<1>3. ASSUME NEW s \in Streams, Subscribe(s) PROVE Honest'
  <2>1. s \notin subscribers BY <1>3 DEF Subscribe
  <2>2. CASE Room
    <3>1. subscribers' = subscribers \cup {s} BY <1>3, <2>2 DEF Subscribe
    <3>2. IsFiniteSet(subscribers') /\ Cardinality(subscribers') = Cardinality(subscribers) + 1
      BY <2>1, <3>1, FS_AddElement
    <3>3. Cardinality(subscribers) \in Nat BY FS_CardinalityType
    <3>4. Cardinality(subscribers') <= MaxStreams BY <2>2, <3>2, <3>3, HubAssumption DEF Room
    <3>5. subscribers' = {t \in Streams : stream'[t] = "open"} BY <1>3, <2>2 DEF Subscribe
    <3> QED BY <3>2, <3>4, <3>5
  <2>3. CASE ~Room BY <1>3, <2>1, <2>3 DEF Subscribe
  <2> QED BY <2>2, <2>3
<1>4. ASSUME NEW s \in Streams, Close(s) PROVE Honest'
  <2>1. subscribers' = {t \in Streams : stream'[t] = "open"} BY <1>4 DEF Close
  <2>2. /\ IsFiniteSet(subscribers') /\ Cardinality(subscribers') <= Cardinality(subscribers)
    BY <1>4, FS_Subset DEF Close
  <2>3. Cardinality(subscribers) \in Nat /\ Cardinality(subscribers') \in Nat
    BY <2>2, FS_CardinalityType
  <2> QED BY <2>1, <2>2, <2>3, HubAssumption
<1>5. CASE UNCHANGED <<stream, subscribers>> BY <1>5
<1>6. ASSUME NEW s \in Streams, Deliver(s) PROVE UNCHANGED <<stream, subscribers>>
  BY <1>6 DEF Deliver
<1>7. ASSUME NEW e \in Events, Publish(e) PROVE UNCHANGED <<stream, subscribers>>
  BY <1>7 DEF Publish
<1>8. ASSUME NEW e \in Events, NEW s \in Streams, Put(e, s)
      PROVE  UNCHANGED <<stream, subscribers>>
  BY <1>8 DEF Put
<1>9. CASE UNCHANGED hubVars BY <1>5, <1>9 DEF hubVars
<1> QED BY <1>2, <1>3, <1>4, <1>5, <1>6, <1>7, <1>8, <1>9 DEF HubNext

\* What the hub counts for a client is what it serves him: no slot leaks, and no stream is
\* refused for one that has ended.
THEOREM HubHoldsWhatItServes == HubSpec => []QuotaHonest
<1>1. HubInit => HInv BY HubInitInv
<1>2. HInv /\ [HubNext]_hubVars => HInv' BY HubStep
<1>3. HInv => QuotaHonest BY DEF HInv
<1> QED BY <1>1, <1>2, <1>3, PTL DEF HubSpec

-----------------------------------------------------------------------------
(* ResponseCache *)

\* What is stored was computed from a version of the data.
EntriesDated == \A p \in Pages : entry[p] # NoEntry => entry[p].version >= 0

\* The inductive invariant.
CInv == CacheTypeOK /\ EntriesDated /\ StaleExplained

\* What can be stored, and what a reader holds.
EntryRec == [version : -1 .. MaxWrites, ttl : BOOLEAN, swept : SUBSET Writes]
ReaderRec == [page : Pages \cup {"none"}, version : 0 .. MaxWrites]

\* No entry is one of the entries, no answer one of the answers.
LEMMA Sentinels == NoEntry \in EntryRec /\ NotReading \in ReaderRec
BY CacheAssumption DEF NoEntry, NotReading, EntryRec, ReaderRec, Writes

\* Nothing is stored at first.
LEMMA CacheInitInv == CacheInit => CInv
<1> SUFFICES ASSUME CacheInit PROVE CInv
  OBVIOUS
<1>1. CacheTypeOK
  BY Sentinels, CacheAssumption DEF CacheInit, CacheTypeOK, EntryRec, ReaderRec
<1>2. \A p \in Pages : entry[p] = NoEntry BY DEF CacheInit
<1> QED BY <1>1, <1>2 DEF CInv, EntriesDated, StaleExplained, Stale, Pages

\* The answer a reader stores names every write whose invalidation will not come to its
\* key any more.
LEMMA StoreStep ==
  ASSUME CInv, NEW r \in Readers, Store(r)
  PROVE  CInv'
<1> DEFINE p == reader[r].page
           e == [version |-> reader[r].version, ttl |-> TRUE,
                 swept |-> {w \in 1 .. written : p \in ListPages /\ p \notin sweep[w]}]
<1>1. reader[r] \in ReaderRec /\ entry \in [Pages -> EntryRec]
      /\ written \in 0 .. MaxWrites /\ reader \in [Readers -> ReaderRec]
      /\ sweep \in [Writes -> SUBSET Pages] /\ gaveUp \subseteq Writes
  BY DEF CInv, CacheTypeOK, ReaderRec, EntryRec
<1>2. /\ entry' = [entry EXCEPT ![p] = e] /\ reader' = [reader EXCEPT ![r] = NotReading]
      /\ written' = written /\ sweep' = sweep /\ gaveUp' = gaveUp
  BY DEF Store, Lasting
<1>3. reader[r].version \in 0 .. MaxWrites BY <1>1 DEF ReaderRec
<1>4. e \in EntryRec
  <2>1. 1 .. written \subseteq Writes BY <1>1, CacheAssumption DEF Writes
  <2>2. 0 .. MaxWrites \subseteq -1 .. MaxWrites BY CacheAssumption
  <2> QED BY <1>3, <2>1, <2>2 DEF EntryRec
<1>5. CacheTypeOK'
  BY <1>1, <1>2, <1>4, Sentinels DEF CacheTypeOK, ReaderRec, EntryRec
<1>6. \A q \in Pages : entry'[q] = IF q = p THEN e ELSE entry[q] BY <1>1, <1>2
<1>7. EntriesDated'
  <2> SUFFICES ASSUME NEW q \in Pages, entry'[q] # NoEntry PROVE entry'[q].version >= 0
    BY DEF EntriesDated
  <2>1. CASE q = p
    <3>1. entry'[q] = e BY <1>6, <2>1
    <3>2. entry'[q].version = reader[r].version BY <3>1
    <3> QED BY <1>3, <3>2, CacheAssumption
  <2>2. CASE q # p BY <1>6, <2>2 DEF CInv, EntriesDated
  <2> QED BY <2>1, <2>2
<1>8. StaleExplained'
  <2> SUFFICES ASSUME NEW q \in ListPages, Stale(q)',
                      NEW w \in entry'[q].version + 1 .. written
               PROVE  q \in sweep[w] \/ w \in gaveUp \/ w \in entry'[q].swept
    BY <1>2 DEF StaleExplained
  <2>1. q \in Pages BY DEF Pages
  <2>2. CASE q = p
    <3>1. entry'[q] = e BY <1>6, <2>1, <2>2
    <3>2. w \in 1 .. written BY <1>1, <1>3, <3>1, CacheAssumption
    <3> QED BY <2>2, <3>1, <3>2
  <2>3. CASE q # p
    <3>1. entry'[q] = entry[q] BY <1>6, <2>1, <2>3
    <3>2. Stale(q) BY <1>2, <3>1 DEF Stale
    <3> QED BY <3>1, <3>2 DEF CInv, StaleExplained
  <2> QED BY <2>2, <2>3
<1> QED BY <1>5, <1>7, <1>8 DEF CInv

\* A write puts every page of the list before its own invalidation.
LEMMA WriteStep ==
  ASSUME CInv, Write
  PROVE  CInv'
<1>1. /\ written \in 0 .. MaxWrites /\ sweep \in [Writes -> SUBSET Pages]
      /\ entry \in [Pages -> EntryRec] /\ MaxWrites \in Nat
  BY CacheAssumption DEF CInv, CacheTypeOK, EntryRec
<1>2. /\ written' = written + 1 /\ sweep' = [sweep EXCEPT ![written + 1] = ListPages]
      /\ entry' = entry /\ reader' = reader /\ gaveUp' = gaveUp /\ written < MaxWrites
  BY DEF Write
<1>3. written + 1 \in Writes /\ written + 1 \in 0 .. MaxWrites BY <1>1, <1>2 DEF Writes
<1>4. CacheTypeOK' BY <1>1, <1>2, <1>3 DEF CInv, CacheTypeOK, Pages
<1>5. EntriesDated' BY <1>2 DEF CInv, EntriesDated
<1>6. StaleExplained'
  <2> SUFFICES ASSUME NEW p \in ListPages, Stale(p)',
                      NEW w \in entry[p].version + 1 .. written + 1
               PROVE  p \in sweep'[w] \/ w \in gaveUp \/ w \in entry[p].swept
    BY <1>2 DEF StaleExplained
  <2>1. p \in Pages /\ entry[p] # NoEntry BY <1>2 DEF Pages, Stale
  <2>2. entry[p].version \in -1 .. MaxWrites BY <1>1, <2>1 DEF EntryRec
  <2>3. CASE w = written + 1 BY <1>1, <1>2, <1>3, <2>3
  <2>4. CASE w # written + 1
    <3>1. w \in entry[p].version + 1 .. written BY <1>1, <2>2, <2>4
    <3>2. Stale(p) BY <1>1, <2>1, <2>2, <3>1 DEF Stale
    <3>3. p \in sweep[w] \/ w \in gaveUp \/ w \in entry[p].swept
      BY <3>1, <3>2 DEF CInv, StaleExplained
    <3>4. entry[p].version >= 0 BY <2>1 DEF CInv, EntriesDated
    <3>5. w \in Writes BY <1>1, <2>2, <3>1, <3>4 DEF Writes
    <3>6. sweep'[w] = sweep[w] BY <1>1, <1>2, <2>4, <3>5
    <3> QED BY <3>3, <3>6
  <2> QED BY <2>3, <2>4
<1> QED BY <1>4, <1>5, <1>6 DEF CInv

\* An entry that goes explains nothing and needs no explanation.
LEMMA EntryGone ==
  ASSUME CInv, NEW p \in Pages, entry' = [entry EXCEPT ![p] = NoEntry], written' = written,
         reader' = reader, gaveUp' = gaveUp, sweep' \in [Writes -> SUBSET Pages],
         \A w \in Writes : sweep[w] \ {p} \subseteq sweep'[w]
  PROVE  CInv'
<1>1. \A q \in Pages : entry'[q] = IF q = p THEN NoEntry ELSE entry[q]
  BY DEF CInv, CacheTypeOK
<1>2. CacheTypeOK'
  <2>1. entry' \in [Pages -> EntryRec] BY Sentinels DEF CInv, CacheTypeOK, EntryRec
  <2> QED BY <2>1 DEF CInv, CacheTypeOK, EntryRec
<1>3. EntriesDated' BY <1>1 DEF CInv, EntriesDated
<1>4. StaleExplained'
  <2> SUFFICES ASSUME NEW q \in ListPages, Stale(q)',
                      NEW w \in entry'[q].version + 1 .. written
               PROVE  q \in sweep'[w] \/ w \in gaveUp \/ w \in entry'[q].swept
    BY DEF StaleExplained
  <2>1. q \in Pages BY DEF Pages
  <2>2. q # p /\ entry'[q] = entry[q] /\ Stale(q) BY <1>1, <2>1 DEF Stale
  <2>3. q \in sweep[w] \/ w \in gaveUp \/ w \in entry[q].swept
    BY <2>2 DEF CInv, StaleExplained
  <2>4. w \in Writes
    <3>1. entry[q].version >= 0 /\ entry[q].version \in -1 .. MaxWrites /\ written \in 0 .. MaxWrites
      BY <2>1, <2>2 DEF CInv, EntriesDated, CacheTypeOK, Stale
    <3> QED BY <2>2, <3>1, CacheAssumption DEF Writes
  <2> QED BY <2>2, <2>3, <2>4
<1> QED BY <1>2, <1>3, <1>4 DEF CInv

\* What an invalidation that fails has not come to is explained by its failure.
LEMMA FailStep ==
  ASSUME CInv, NEW w \in Writes, InvalidateFails(w)
  PROVE  CInv'
<1>1. CacheTypeOK' BY DEF CInv, CacheTypeOK, InvalidateFails
<1>2. EntriesDated' BY DEF CInv, EntriesDated, InvalidateFails
<1>3. StaleExplained'
  <2> SUFFICES ASSUME NEW p \in ListPages, Stale(p),
                      NEW v \in entry[p].version + 1 .. written
               PROVE  p \in sweep'[v] \/ v \in gaveUp' \/ v \in entry[p].swept
    BY DEF StaleExplained, InvalidateFails, Stale
  <2>1. p \in sweep[v] \/ v \in gaveUp \/ v \in entry[p].swept
    BY DEF CInv, StaleExplained
  <2>2. v \in Writes
    <3>1. p \in Pages BY DEF Pages
    <3>2. entry[p].version >= 0 /\ entry[p].version \in -1 .. MaxWrites /\ written \in 0 .. MaxWrites
      BY <3>1 DEF CInv, EntriesDated, CacheTypeOK, Stale
    <3> QED BY <3>2, CacheAssumption DEF Writes
  <2>3. CASE v = w BY <2>3 DEF InvalidateFails
  <2>4. CASE v # w BY <2>1, <2>2, <2>4 DEF InvalidateFails, CInv, CacheTypeOK
  <2> QED BY <2>3, <2>4
<1> QED BY <1>1, <1>2, <1>3 DEF CInv

\* Every step keeps the invariant.
LEMMA CacheStep == CInv /\ [CacheNext]_cacheVars => CInv'
<1> SUFFICES ASSUME CInv, [CacheNext]_cacheVars PROVE CInv'
  OBVIOUS
<1>1. CASE Write BY <1>1, WriteStep
<1>2. ASSUME NEW w \in Writes, InvalidateFails(w) PROVE CInv' BY <1>2, FailStep
<1>3. ASSUME NEW w \in Writes, NEW p \in Pages, Invalidate(w, p) PROVE CInv'
  <2>1. /\ entry' = [entry EXCEPT ![p] = NoEntry] /\ written' = written
        /\ reader' = reader /\ gaveUp' = gaveUp /\ sweep' \in [Writes -> SUBSET Pages]
    BY <1>3 DEF Invalidate, Swept, CInv, CacheTypeOK
  <2>2. \A v \in Writes : sweep[v] \ {p} \subseteq sweep'[v]
    BY <1>3 DEF Invalidate, CInv, CacheTypeOK
  <2> QED BY <2>1, <2>2, EntryGone
<1>4. ASSUME NEW p \in Pages, Lapse(p) PROVE CInv'
  <2>1. sweep \in [Writes -> SUBSET Pages] BY DEF CInv, CacheTypeOK
  <2> QED BY <1>4, <2>1, EntryGone DEF Lapse
<1>5. ASSUME NEW r \in Readers, Store(r) PROVE CInv' BY <1>5, StoreStep
<1>6. ASSUME UNCHANGED <<written, entry, sweep, gaveUp>>, reader' \in [Readers -> ReaderRec]
      PROVE  CInv'
  BY <1>6 DEF CInv, CacheTypeOK, EntriesDated, StaleExplained, Stale, ReaderRec
<1>7. ASSUME NEW r \in Readers, StoreFails(r) PROVE CInv'
  BY <1>6, <1>7, Sentinels DEF StoreFails, CInv, CacheTypeOK, ReaderRec
<1>8. ASSUME NEW r \in Readers, NEW p \in Pages, Compute(r, p) PROVE CInv'
  BY <1>6, <1>8 DEF Compute, CInv, CacheTypeOK, ReaderRec
<1>9. CASE UNCHANGED cacheVars BY <1>6, <1>9 DEF cacheVars, CInv, CacheTypeOK, ReaderRec
<1> QED BY <1>1, <1>2, <1>3, <1>4, <1>5, <1>7, <1>8, <1>9 DEF CacheNext

\* A page older than the data was computed before a write that has swept it, or could not.
THEOREM StalePagesExplained == CacheSpec => []StaleExplained
<1>1. CacheInit => CInv BY CacheInitInv
<1>2. CInv /\ [CacheNext]_cacheVars => CInv' BY CacheStep
<1>3. CInv => StaleExplained BY DEF CInv
<1> QED BY <1>1, <1>2, <1>3, PTL DEF CacheSpec
=============================================================================
