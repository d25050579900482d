------------------------------- MODULE EventBus -------------------------------
(***************************************************************************)
(* The event bus (server/events.go) and the handler of the event stream    *)
(* (handleClusterEvents in server/api.go).                                 *)
(*                                                                         *)
(* Publish holds eb.mu for reading while it offers the event to one        *)
(* channel after the other; several Publishes may do so at the same time.  *)
(* Subscribe and Unsubscribe hold eb.mu for writing.  A publisher is a     *)
(* goroutine of ClusterManager.                                            *)
(***************************************************************************)
EXTENDS Integers, Sequences, FiniteSets

CONSTANTS
    Subscribers,    \* the event streams
    Publishers,     \* the goroutines that call Publish
    ChanCap         \* capacity of a subscriber's channel (64 in the code)

\* make(chan Event, 64): the channels are buffered.
ASSUME ChanCapAssumption == ChanCap \in Nat \ {0}

VARIABLES
    clients,    \* eb.clients
    sent,       \* events put into a subscriber's channel, in order
    received,   \* how many of them the handler has taken out
    publishing, \* publishers that hold eb.mu for reading
    event,      \* the event each of them publishes
    todo        \* the channels it has not yet offered the event to

busVars == <<clients, sent, received, publishing, event, todo>>

NoEvent == [type |-> "none"]

Backlog(s) == Len(sent[s]) - received[s]

\* The handler of a new event stream; an id stands for one stream.
Subscribe(s) ==
    /\ publishing = {}
    /\ s \notin clients /\ received[s] = -1
    /\ clients' = clients \cup {s}
    /\ received' = [received EXCEPT ![s] = 0]
    /\ UNCHANGED <<sent, publishing, event, todo>>

\* The handler writes an event to its stream.
Receive(s) ==
    /\ s \in clients /\ Backlog(s) > 0
    /\ received' = [received EXCEPT ![s] = @ + 1]
    /\ UNCHANGED <<clients, sent, publishing, event, todo>>

\* Mutant: Unsubscribe takes no lock.
UnsubscribeUnlocked(s) ==
    /\ s \in clients
    /\ clients' = clients \ {s}
    /\ UNCHANGED <<sent, received, publishing, event, todo>>

\* The stream ends: the channel leaves the map and is closed.
Unsubscribe(s) ==
    /\ publishing = {}
    /\ s \in clients
    /\ clients' = clients \ {s}
    /\ UNCHANGED <<sent, received, publishing, event, todo>>

\* Publish takes the read lock; clients does not change before it is released.
PublishBegin(p, e) ==
    /\ publishing' = publishing \cup {p}
    /\ event' = [event EXCEPT ![p] = e]
    /\ todo' = [todo EXCEPT ![p] = clients]
    /\ UNCHANGED <<clients, sent, received>>

\* One non-blocking send: an event that finds the channel full is dropped.
PublishSend(p) ==
    \E s \in todo[p] :
        /\ p \in publishing
        /\ todo' = [todo EXCEPT ![p] = @ \ {s}]
        /\ sent' = IF Backlog(s) < ChanCap
                   THEN [sent EXCEPT ![s] = Append(@, event[p])]
                   ELSE sent
        /\ UNCHANGED <<clients, received, publishing, event>>

\* Publish returns.
PublishEnd(p) ==
    /\ p \in publishing /\ todo[p] = {}
    /\ publishing' = publishing \ {p}
    /\ event' = [event EXCEPT ![p] = NoEvent]
    /\ UNCHANGED <<clients, sent, received, todo>>

BusInit ==
    /\ clients = {}
    /\ sent = [s \in Subscribers |-> <<>>]
    /\ received = [s \in Subscribers |-> -1]
    /\ publishing = {}
    /\ event = [p \in Publishers |-> NoEvent]
    /\ todo = [p \in Publishers |-> {}]

\* No Publish sends on a channel that Unsubscribe has closed (a send on a
\* closed channel panics, in the cluster manager's goroutine): the channels a
\* Publish has still to serve are all open, and none holds more than its
\* capacity (events.go:28-56).
PublishToOpenChannels ==
    /\ \A p \in publishing : todo[p] \subseteq clients
    /\ \A s \in Subscribers : Backlog(s) <= ChanCap
==============================================================================
