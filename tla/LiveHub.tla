------------------------------ MODULE LiveHub -------------------------------
(***************************************************************************)
(* Live notifications of one user in one worker process                    *)
(* (live_notifications.py, api/live_notifications.py).                     *)
(*                                                                         *)
(* A stream greets its client first; its queue is registered when the      *)
(* generator behind it runs for the first time.  publish copies the set of *)
(* queues under the lock and fills them one by one after releasing it.     *)
(***************************************************************************)
EXTENDS Integers, Sequences, FiniteSets

CONSTANTS Streams, Events,
          MaxStreams  \* MAX_STREAMS_PER_USER

ASSUME HubAssumption == MaxStreams \in Nat

VARIABLES stream,      \* stream -> "new", "greeted", "open" or "over"
          subscribers, \* streams whose queue the hub holds
          inbox,       \* stream -> its queue
          got,         \* stream -> events its client has received
          putting,     \* event -> queues it has still to be put in
          due,         \* event -> streams open when it was published
          published    \* events whose publication has begun

hubVars == <<stream, subscribers, inbox, got, putting, due, published>>

HubTypeOK ==
  /\ stream \in [Streams -> {"new", "greeted", "open", "over"}]
  /\ subscribers \subseteq Streams
  /\ inbox \in [Streams -> Seq(Events)] /\ got \in [Streams -> SUBSET Events]
  /\ putting \in [Events -> SUBSET Streams] /\ due \in [Events -> SUBSET Streams]
  /\ published \subseteq Events

posts == <<putting, due, published>>

-----------------------------------------------------------------------------
\* notification_stream answers before the hub knows of the stream.
Greet(s) ==
  /\ stream[s] = "new" /\ stream' = [stream EXCEPT ![s] = "greeted"]
  /\ UNCHANGED <<subscribers, inbox, got, posts>>

\* Fault: one stream too many.
RoomForOneMore == Cardinality(subscribers) <= MaxStreams

Room == Cardinality(subscribers) < MaxStreams

\* queue_generator's first step.  Without room TooManyStreamsError ends the response
\* that has already begun.
Subscribe(s) ==
  /\ stream[s] = "greeted"
  /\ stream' = [stream EXCEPT ![s] = IF Room THEN "open" ELSE "over"]
  /\ subscribers' = IF Room THEN subscribers \cup {s} ELSE subscribers
  /\ UNCHANGED <<inbox, got, posts>>

\* Fault: only one of the user's queues is served.
AnyOneQueue == IF subscribers = {} THEN {} ELSE {CHOOSE s \in subscribers : TRUE}

Snapshot == subscribers

\* publish, under the lock ...
Publish(e) ==
  /\ e \notin published /\ published' = published \cup {e}
  /\ putting' = [putting EXCEPT ![e] = Snapshot] /\ due' = [due EXCEPT ![e] = subscribers]
  /\ UNCHANGED <<stream, subscribers, inbox, got>>

\* ... and after it.  A stream closed meanwhile has a queue nobody reads.
Put(e, s) ==
  /\ s \in putting[e]
  /\ inbox' = [inbox EXCEPT ![s] = Append(@, e)]
  /\ putting' = [putting EXCEPT ![e] = @ \ {s}]
  /\ UNCHANGED <<stream, subscribers, got, due, published>>

\* queue.get, and the event is written to the response.
Deliver(s) ==
  /\ stream[s] = "open" /\ inbox[s] # <<>>
  /\ got' = [got EXCEPT ![s] = @ \cup {Head(inbox[s])}]
  /\ inbox' = [inbox EXCEPT ![s] = Tail(@)]
  /\ UNCHANGED <<stream, subscribers, posts>>

\* The client has gone or MAX_STREAM_SECONDS are over: the finally clause
\* unsubscribes, whatever is left in the queue is dropped.
Close(s) ==
  /\ stream[s] \in {"greeted", "open"}
  /\ stream' = [stream EXCEPT ![s] = "over"]
  /\ subscribers' = subscribers \ {s}
  /\ UNCHANGED <<inbox, got, posts>>

HubInit ==
  /\ stream = [s \in Streams |-> "new"] /\ subscribers = {}
  /\ inbox = [s \in Streams |-> <<>>] /\ got = [s \in Streams |-> {}]
  /\ putting = [e \in Events |-> {}] /\ due = [e \in Events |-> {}]
  /\ published = {}

HubNext ==
  \/ \E s \in Streams : Greet(s) \/ Subscribe(s) \/ Deliver(s) \/ Close(s)
  \/ \E e \in Events : Publish(e) \/ \E s \in Streams : Put(e, s)

HubSpec == HubInit /\ [][HubNext]_hubVars

\* A publication that has begun goes on.  An open stream with something in its queue
\* takes it or ends: its client has gone, or its time is over.
HubFairness ==
  /\ \A e \in Events, s \in Streams : WF_hubVars(Put(e, s))
  /\ \A s \in Streams : WF_hubVars(inbox[s] # <<>> /\ (Deliver(s) \/ Close(s)))

-----------------------------------------------------------------------------
(* What the hub promises *)

\* The hub holds a queue for exactly the streams that are being served, at most
\* MaxStreams of them: no disconnect leaves a queue behind that uses up the quota.
QuotaHonest ==
  /\ subscribers = {s \in Streams : stream[s] = "open"}
  /\ Cardinality(subscribers) <= MaxStreams

\* Every stream open when an event is published gets it, or is closed first.
Reaches ==
  \A e \in Events :
    e \in published ~> \A s \in due[e] : e \in got[s] \/ stream[s] = "over"
=============================================================================
