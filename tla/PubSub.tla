------------------------------- MODULE PubSub -------------------------------
(***************************************************************************)
(* Live notifications in one server process: RedisPubSubService, the       *)
(* subscription of NotificationService and the stream of                   *)
(* NotificationController.  Every stream subscribes to its account's       *)
(* channel and then to the broadcast channel; the code between two awaits  *)
(* is one step.                                                            *)
(*                                                                         *)
(* A handler is named by its stream.  A Set object of handlers is named by *)
(* the stream whose subscribe call made it: the call keeps it across its   *)
(* awaits, while the table may come to hold another one or none.           *)
(*                                                                         *)
(* The subscriber client is external: it answers commands in the order     *)
(* they were sent, rejects them all when its connection is lost, and does  *)
(* not reconnect (reconnectStrategy: false).                               *)
(***************************************************************************)
EXTENDS Integers, Sequences

CONSTANTS
    Streams,        \* GET /notifications/stream requests
    Channels,       \* Redis channels
    ChannelsOf,     \* the two channels of each stream, in order
    MaxFaults,      \* bound: failed connection attempts and lost connections
    NoSet           \* the table has no set for a channel

ASSUME PubSubAssumption ==
    /\ ChannelsOf \in [Streams -> Channels \X Channels]
    /\ \A s \in Streams : ChannelsOf[s][1] # ChannelsOf[s][2]
    /\ MaxFaults \in Nat
    /\ NoSet \notin Streams

VARIABLES
    handlers,       \* handlers[ch]: the set the table holds for ch
    members,        \* members[ch][s]: the handlers in the set s made for ch
    connection,     \* the subscriber's connection, and the promise `ready`
    wire,           \* commands sent, or waiting for the connection, in order
    subscribed,     \* channels Redis sends to this process
    pc,             \* control point of each stream
    at,             \* which of its channels a stream is subscribing to
    gone,           \* when its client closed the connection: before the
                    \* stream was open, after, or not yet
    faults          \* connection faults so far

handlerSets == <<handlers, members>>
subscriber  == <<connection, wire, subscribed, faults>>
vars        == <<handlerSets, subscriber, pc, at, gone>>

Channel(s) == ChannelsOf[s][at[s]]

Init ==
    /\ handlers = [ch \in Channels |-> NoSet]
    /\ members = [ch \in Channels |-> [s \in Streams |-> {}]]
    /\ connection = "none"
    /\ wire = <<>>
    /\ subscribed = {}
    /\ pc = [s \in Streams |-> "start"]
    /\ at = [s \in Streams |-> 1]
    /\ gone = [s \in Streams |-> "no"]
    /\ faults = 0

-----------------------------------------------------------------------------
(* Leaving channels *)

\* unsubscribe, for the streams leaving[ch] of each channel ch and the table h:
\* the handler leaves the set the table holds now, whichever that is, and a set
\* that is empty after it leaves the table.
Members(h, leaving) ==
    [ch \in Channels |-> [s \in Streams |->
        IF s = h[ch] THEN members[ch][s] \ leaving[ch] ELSE members[ch][s]]]

Table(h, leaving) ==
    [ch \in Channels |->
        IF h[ch] # NoSet /\ leaving[ch] # {} /\ members[ch][h[ch]] \subseteq leaving[ch]
        THEN NoSet ELSE h[ch]]

\* Mutant: NotificationService keeps the first subscription.
KeepsFirst(S) == [ch \in Channels |-> {}]

\* NotificationService's catch: streams S that fail on their second channel
\* leave the first.
GivesUp(S) ==
    [ch \in Channels |-> {s \in S : at[s] = 2 /\ ChannelsOf[s][1] = ch}]

\* Mutant: subscribe leaves the set it made in the table.
ForgetsNone(S) == {}

\* subscribe's catch: the channels of the failing calls leave the table.
Forgets(S) == {Channel(s) : s \in S}

\* The subscribe calls of the streams S are rejected, and with them the streams.
Reject(S) ==
    LET h == [ch \in Channels |-> IF ch \in Forgets(S) THEN NoSet ELSE handlers[ch]]
    IN /\ members' = Members(h, GivesUp(S))
       /\ handlers' = Table(h, GivesUp(S))
       /\ pc' = [s \in Streams |-> IF s \in S THEN "closed" ELSE pc[s]]

-----------------------------------------------------------------------------
(* subscribe *)

\* s's subscribe call for its channel has returned.
Return(s) ==
    /\ at' = [at EXCEPT ![s] = 2]
    /\ pc' = [pc EXCEPT ![s] = IF at[s] = 1 THEN "subscribe" ELSE "open"]

Request(s) ==
    /\ pc[s] = "start"
    /\ pc' = [pc EXCEPT ![s] = "subscribe"]
    /\ UNCHANGED <<handlerSets, subscriber, at, gone>>

\* The table holds a set, made by another stream: s joins it at once.
Join(s) ==
    LET ch == Channel(s) IN
    /\ pc[s] = "subscribe"
    /\ handlers[ch] # NoSet
    /\ members' = [members EXCEPT ![ch][handlers[ch]] = @ \cup {s}]
    /\ Return(s)
    /\ UNCHANGED <<handlers, subscriber, gone>>

\* s puts an empty set into the table and waits for the connection, which the
\* first one opens, and for the answer to SUBSCRIBE.
Create(s) ==
    /\ pc[s] = "subscribe"
    /\ handlers[Channel(s)] = NoSet
    /\ connection # "lost"
    /\ handlers' = [handlers EXCEPT ![Channel(s)] = s]
    /\ connection' = IF connection = "none" THEN "connecting" ELSE connection
    /\ wire' = Append(wire, [stream |-> s, channel |-> Channel(s), subscribe |-> TRUE])
    /\ pc' = [pc EXCEPT ![s] = "answer"]
    /\ UNCHANGED <<members, subscribed, faults, at, gone>>

\* The memoised promise says connected, and the client is not.
CreateRejected(s) ==
    /\ pc[s] = "subscribe"
    /\ handlers[Channel(s)] = NoSet
    /\ connection = "lost"
    /\ Reject({s})
    /\ UNCHANGED <<subscriber, at, gone>>

-----------------------------------------------------------------------------
(* The subscriber client *)

Connect ==
    /\ connection = "connecting"
    /\ connection' = "ready"
    /\ UNCHANGED <<handlerSets, wire, subscribed, faults, pc, at, gone>>

\* Redis answers the first command; its caller goes on.
AnswerSubscribe ==
    LET s == Head(wire).stream IN
    /\ connection = "ready"
    /\ wire # <<>>
    /\ Head(wire).subscribe
    /\ wire' = Tail(wire)
    /\ subscribed' = subscribed \cup {Channel(s)}
    /\ members' = [members EXCEPT ![Channel(s)][s] = @ \cup {s}]
    /\ Return(s)
    /\ UNCHANGED <<handlers, connection, faults, gone>>

AnswerUnsubscribe ==
    /\ connection = "ready"
    /\ wire # <<>>
    /\ ~Head(wire).subscribe
    /\ wire' = Tail(wire)
    /\ subscribed' = subscribed \ {Head(wire).channel}
    /\ UNCHANGED <<handlerSets, connection, faults, pc, at, gone>>

\* The connection attempt fails (`ready` is reset) or the connection is lost
\* (it is not): everyone who waits is rejected.
LoseConnection ==
    /\ connection \in {"connecting", "ready"}
    /\ faults < MaxFaults
    /\ faults' = faults + 1
    /\ connection' = IF connection = "connecting" THEN "none" ELSE "lost"
    /\ wire' = <<>>
    /\ subscribed' = {}
    /\ Reject({s \in Streams : pc[s] = "answer"})
    /\ UNCHANGED <<at, gone>>

-----------------------------------------------------------------------------
(* The stream ends *)

\* The client closes its connection, whatever the stream is doing.
Disconnect(s) ==
    /\ pc[s] \in {"subscribe", "answer", "open"}
    /\ gone[s] = "no"
    /\ gone' = [gone EXCEPT ![s] = IF pc[s] = "open" THEN "late" ELSE "early"]
    /\ UNCHANGED <<handlerSets, subscriber, pc, at>>

\* Mutant: no look at res.destroyed.
ClosesOnEvent(s) == gone[s] = "late"

\* The "close" event, or res.destroyed when it came before the listener.
Closes(s) == gone[s] \in {"early", "late"}

\* unsubscribe for both channels; UNSUBSCRIBE is only sent on an open connection.
Close(s) ==
    LET leaving == [ch \in Channels |->
                       IF ch \in {ChannelsOf[s][1], ChannelsOf[s][2]} THEN {s} ELSE {}]
        left(ch) == handlers'[ch] # handlers[ch]
        command(ch) == [stream |-> s, channel |-> ch, subscribe |-> FALSE]
        commands(ch) == IF left(ch) THEN <<command(ch)>> ELSE <<>>
    IN
    /\ pc[s] = "open"
    /\ Closes(s)
    /\ members' = Members(handlers, leaving)
    /\ handlers' = Table(handlers, leaving)
    /\ wire' = IF connection = "ready"
               THEN wire \o commands(ChannelsOf[s][1]) \o commands(ChannelsOf[s][2])
               ELSE wire
    /\ pc' = [pc EXCEPT ![s] = "closed"]
    /\ UNCHANGED <<connection, subscribed, faults, at, gone>>

-----------------------------------------------------------------------------
StreamStep(s) ==
    \/ Join(s)
    \/ Create(s)
    \/ CreateRejected(s)
    \/ Close(s)

ClientStep ==
    \/ Connect
    \/ AnswerSubscribe
    \/ AnswerUnsubscribe

Next ==
    \/ \E s \in Streams : Request(s) \/ StreamStep(s) \/ Disconnect(s)
    \/ ClientStep
    \/ LoseConnection

Spec == Init /\ [][Next]_vars

\* The event loop resumes every stream, and a connection attempt or a command
\* ends in an answer or an error (connectTimeout).
FairSpec == Spec /\ (\A s \in Streams : WF_vars(StreamStep(s))) /\ WF_vars(ClientStep)

-----------------------------------------------------------------------------
(* Properties *)

Routed(s, ch) == handlers[ch] # NoSet /\ s \in members[ch][handlers[ch]]

\* No message is ever written to a stream that was closed or refused, however
\* its subscriptions raced and failed.
NoGhostHandler ==
    \A s \in Streams, ch \in Channels :
        Routed(s, ch) => pc[s] \in {"subscribe", "answer", "open"}

\* Once every command is answered, Redis sends what the table routes: a stream
\* that joins a set does hear the channel.
RoutedIsSubscribed ==
    wire = <<>> /\ connection # "lost" =>
        \A ch \in Channels : handlers[ch] # NoSet => ch \in subscribed

\* "one router per channel; fans out to all handlers": a stream that is open
\* has its handlers in the sets the router looks at.
OpenStreamIsRouted ==
    \A s \in Streams : pc[s] = "open" /\ connection # "lost" =>
        Routed(s, ChannelsOf[s][1]) /\ Routed(s, ChannelsOf[s][2])

\* A stream whose client is gone is cleaned up, also when the client went away
\* while the stream was still subscribing.
GoneStreamCloses == \A s \in Streams : gone[s] # "no" ~> pc[s] = "closed"
=============================================================================
