------------------------------- MODULE Inbox --------------------------------
(***************************************************************************)
(* The in-app notifications of one user and the copy of them that the      *)
(* user's browser shows (services/notification_rules.py,                   *)
(* api/notifications.py, frontend/src/main.js, frontend/src/state).        *)
(*                                                                         *)
(* A notification is flushed and pushed to the open stream inside the      *)
(* transaction that makes it.  The browser puts pushes on top of its copy, *)
(* of which it keeps the first MostShown, and replaces the copy by the     *)
(* page that a load answers; requests overtake pushes and each other.  A   *)
(* stream is opened again after it ends, without a load.                   *)
(***************************************************************************)
EXTENDS Integers, Sequences

CONSTANTS Notes,      \* notifications of the user
          Mentions,   \* those for mentions, whose events the browser listens for
          Requests,   \* requests of the browser at the same time
          Views,      \* the pages it asks for: the first of 10 or any of 25, smaller here
          MostShown   \* 50 in upsertNotification, smaller here

ASSUME InboxAssumption == Mentions \subseteq Notes

VARIABLES note,       \* note -> its row: "none", "open" (not committed), "unread", "read", "gone"
          newest,     \* the notes in the order of list_notifications, newest first
          connected,  \* the browser's stream is subscribed to the hub
          wire,       \* pushed, and not yet handled by the browser
          request,    \* request -> where it is, what it answered, what went by since
          archived,   \* deleted by this browser, which has not seen the response
          list,       \* the notes in the browser's copy, in its order
          shown,      \* note -> what the copy says; "off" when another page holds it, or it
                      \* fell out of the copy
          unsure      \* notes that something has happened to that the browser has not
                      \* been told of, or not in order

inboxVars == <<note, newest, connected, wire, request, archived, list, shown, unsure>>

Settled == {"unread", "read"}
Answers == {"answered", "marked"}
Nothing == [n \in Notes |-> "absent"]
NoRequest == [phase |-> "idle", answer |-> Nothing, since |-> {}]

RequestRec == [phase : {"idle", "asked", "marking"} \cup Answers,
               answer : [Notes -> {"absent", "unread", "read", "off"}],
               since : SUBSET Notes]

InboxTypeOK ==
  /\ note \in [Notes -> {"none", "open", "unread", "read", "gone"}]
  /\ connected \in BOOLEAN /\ wire \subseteq Mentions /\ unsure \subseteq Notes
  /\ archived \subseteq Notes
  /\ request \in [Requests -> RequestRec]
  /\ shown \in [Notes -> {"absent", "unread", "read", "off"}]

\* What the inbox holds.
Held == [n \in Notes |-> IF note[n] \in Settled THEN note[n] ELSE "absent"]

\* Something happens to notes while answers are on their way.
Passing(S) ==
  [r \in Requests |->
    IF request[r].phase \in Answers THEN [request[r] EXCEPT !.since = @ \cup S] ELSE request[r]]

WentBy(n) == request' = Passing({n})

\* No transaction makes these now.
Uncommitted == {n \in Notes : note[n] = "open"}

Members(s) == {s[i] : i \in DOMAIN s}
From(s, i, j) == SubSeq(s, i, IF j < Len(s) THEN j ELSE Len(s))

-----------------------------------------------------------------------------
(* The server *)

\* trigger_mention_notifications, notify_watchers_for_event: add, flush, publish.  The
\* browser has no listener for watched_vulnerability_updated.
Trigger(n) ==
  /\ note[n] = "none" /\ note' = [note EXCEPT ![n] = "open"] /\ newest' = <<n>> \o newest
  /\ IF connected /\ n \in Mentions
     THEN wire' = wire \cup {n} /\ UNCHANGED unsure
     ELSE unsure' = unsure \cup {n} /\ UNCHANGED wire
  /\ WentBy(n) /\ UNCHANGED <<connected, archived, list, shown>>

CommitNote(n) ==
  /\ note[n] = "open" /\ note' = [note EXCEPT ![n] = "unread"]
  /\ WentBy(n) /\ UNCHANGED <<newest, connected, wire, archived, list, shown, unsure>>

\* The push is not taken back.
RollBackNote(n) ==
  /\ note[n] = "open" /\ note' = [note EXCEPT ![n] = "gone"]
  /\ WentBy(n) /\ unsure' = unsure \cup {n}
  /\ UNCHANGED <<newest, connected, wire, archived, list, shown>>

\* update_notification, archive_or_delete_notification.  From this browser or from another
\* one; this one asks for a page afterwards, and first takes what it deletes off its copy.
Change(n, to, here) ==
  /\ note[n] \in Settled /\ note' = [note EXCEPT ![n] = to]
  /\ archived' = IF here /\ to = "gone" THEN archived \cup {n} ELSE archived
  /\ WentBy(n) /\ unsure' = unsure \cup {n}
  /\ UNCHANGED <<newest, connected, wire, list, shown>>

\* list_notifications: the rows of one page.  A row that is not committed is not among
\* them, though its push may have been handled.
Page(v) ==
  LET IsHeld(n) == note[n] \in Settled IN
  Members(From(SelectSeq(newest, IsHeld), (v.page - 1) * v.size + 1, v.page * v.size))

PageAnswer(v) ==
  [n \in Notes |-> IF note[n] \in Settled /\ n \notin Page(v) THEN "off" ELSE Held[n]]

AnswerLoad(r, v) ==
  /\ request[r].phase = "asked"
  /\ request' = [request EXCEPT ![r] =
       [phase |-> "answered", answer |-> PageAnswer(v), since |-> Uncommitted]]
  /\ UNCHANGED <<note, newest, connected, wire, archived, list, shown, unsure>>

\* mark_all_notifications_read: one UPDATE, committed.
AnswerMarkAll(r) ==
  LET marked == {n \in Notes : note[n] = "unread"} IN
  /\ request[r].phase = "marking"
  /\ note' = [n \in Notes |-> IF n \in marked THEN "read" ELSE note[n]]
  /\ request' = [Passing(marked) EXCEPT ![r] =
       [phase |-> "marked", since |-> Uncommitted,
        answer |-> [n \in Notes |-> IF note[n] \in Settled THEN "read" ELSE "absent"]]]
  /\ unsure' = unsure \cup marked
  /\ UNCHANGED <<newest, connected, wire, archived, list, shown>>

-----------------------------------------------------------------------------
(* The browser *)

\* The stream ends; what was pushed and not handled is lost.
Disconnect ==
  /\ connected /\ connected' = FALSE
  /\ wire' = {} /\ unsure' = unsure \cup wire
  /\ UNCHANGED <<note, newest, request, archived, list, shown>>

\* scheduleLiveStreamRetry, startLiveNotificationStream
Reconnect ==
  /\ ~connected /\ connected' = TRUE
  /\ UNCHANGED <<note, newest, wire, request, archived, list, shown, unsure>>

\* logoutSession: the stream is closed and the copy cleared.  Signing in opens a stream
\* and loads nothing.
LogOut ==
  /\ connected' = FALSE /\ wire' = {} /\ unsure' = unsure \cup wire
  /\ list' = <<>>
  /\ shown' = [n \in Notes |-> IF shown[n] = "absent" THEN "absent" ELSE "off"]
  /\ UNCHANGED <<note, newest, request, archived>>

\* upsertNotification: an item shown already is overwritten, as unread; another one goes
\* on top, and what no longer fits falls out at the end.
HandlePush(n) ==
  /\ n \in wire /\ wire' = wire \ {n}
  /\ list' = IF shown[n] \in Settled THEN list ELSE From(<<n>> \o list, 1, MostShown)
  /\ shown' = [k \in Notes |-> IF k = n THEN "unread"
                               ELSE IF shown[k] \in Settled /\ k \notin Members(list')
                                    THEN "off" ELSE shown[k]]
  /\ unsure' = IF note[n] \in {"open", "unread"} THEN unsure \ {n} ELSE unsure \cup {n}
  /\ WentBy(n) /\ UNCHANGED <<note, newest, connected, archived>>

\* refreshNotifications, refreshNotificationPreview and the load of NotificationsView; or
\* markAllNotificationsRead.
Ask(r, what) ==
  /\ request[r].phase = "idle" /\ request' = [request EXCEPT ![r].phase = what]
  /\ UNCHANGED <<note, newest, connected, wire, archived, list, shown, unsure>>

\* Fault: what the answer does not have is kept.
KeptItems(answer) ==
  [n \in Notes |-> IF answer[n] = "absent" THEN shown[n] ELSE answer[n]]

\* setNotifications
Replaced(answer) == answer

\* The notes of a copy, in the order of the answer.
InOrder(copy) == LET InCopy(n) == copy[n] \in Settled IN SelectSeq(newest, InCopy)

ApplyLoad(r) ==
  /\ request[r].phase = "answered"
  /\ shown' = Replaced(request[r].answer) /\ list' = InOrder(shown')
  /\ unsure' = request[r].since
  /\ request' = [request EXCEPT ![r] = NoRequest]
  /\ UNCHANGED <<note, newest, connected, wire, archived>>

\* Mark all read, in the header: markAllNotificationsReadLocal, and no load.  A note
\* pushed since the UPDATE is marked with the others.
MarkAllHere(r) ==
  LET told == {n \in Notes \ request[r].since : request[r].answer[n] = "read"} IN
  /\ request[r].phase = "marked"
  /\ shown' = [n \in Notes |-> IF shown[n] = "unread" THEN "read" ELSE shown[n]]
  /\ unsure' = (unsure \ {n \in told : shown[n] # "absent"})
                 \cup {n \in request[r].since : shown[n] = "unread"}
  /\ request' = [request EXCEPT ![r] = NoRequest]
  /\ UNCHANGED <<note, newest, connected, wire, archived, list>>

\* Mark all as read, in NotificationsView: a load instead.
LoadAfterMark(r) ==
  /\ request[r].phase = "marked"
  /\ request' = [request EXCEPT ![r] = [NoRequest EXCEPT !.phase = "asked"]]
  /\ UNCHANGED <<note, newest, connected, wire, archived, list, shown, unsure>>

\* The list without a note.
Without(n) == LET Stays(k) == k # n IN SelectSeq(list, Stays)

\* removeNotification, when the response to a deletion is in.
TakeOff(n) ==
  /\ n \in archived /\ archived' = archived \ {n}
  /\ shown' = [shown EXCEPT ![n] = "absent"] /\ list' = Without(n)
  /\ unsure' = unsure \ {n}
  /\ UNCHANGED <<note, newest, connected, wire, request>>

InboxInit ==
  /\ note = [n \in Notes |-> "none"] /\ newest = <<>> /\ connected = FALSE /\ wire = {}
  /\ request = [r \in Requests |-> NoRequest] /\ archived = {}
  /\ list = <<>> /\ shown = Nothing /\ unsure = {}

InboxNext ==
  \/ \E n \in Notes : \/ Trigger(n) \/ CommitNote(n) \/ RollBackNote(n)
                      \/ HandlePush(n) \/ TakeOff(n)
                      \/ \E to \in {"read", "unread", "gone"}, here \in BOOLEAN :
                           Change(n, to, here)
  \/ \E r \in Requests : \/ \E what \in {"asked", "marking"} : Ask(r, what)
                         \/ \E v \in Views : AnswerLoad(r, v)
                         \/ AnswerMarkAll(r)
                         \/ ApplyLoad(r) \/ MarkAllHere(r) \/ LoadAfterMark(r)
  \/ Disconnect \/ Reconnect \/ LogOut

InboxSpec == InboxInit /\ [][InboxNext]_inboxVars

-----------------------------------------------------------------------------
(* What the browser promises *)

\* A copy says of a note what the inbox holds, or leaves it to another page.
Right(copy, n) == IF copy[n] = "off" THEN Held[n] # "absent" ELSE copy[n] = Held[n]

\* When no push is on its way, a settled notification that the copy has is shown as the
\* inbox holds it, one that it leaves out is in the inbox on another page or lower down, and
\* one that is not in the inbox is not shown - unless it was changed elsewhere, pushed to
\* nobody, rolled back after its push, or passed by on the way of the last answer, be it of
\* a load or of Mark all read: all of which an answer that nothing passes by clears.
ShownAsHeld ==
  \A n \in Notes : n \notin wire \cup unsure /\ note[n] # "open" => Right(shown, n)
=============================================================================
