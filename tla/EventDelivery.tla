---------------------------- MODULE EventDelivery ----------------------------
(***************************************************************************)
(* How an event travels: a pipeline, or the callback of its circuit        *)
(* breaker in a goroutine of its own (circuit_breaker.go:156,              *)
(* orchestrator.go:173), publishes it on the event bus                     *)
(* (internal/events/events.go, publisher.go), which has two subscribers,   *)
(* the event logger that logs it and writes it to the database             *)
(* (internal/events/logger.go) and the bridge that forwards it to the      *)
(* WebSocket clients of its cluster (api/websocket/bridge.go, hub.go),     *)
(* each of which has a goroutine that reads its connection and one that    *)
(* writes it (api/websocket/client.go).                                    *)
(*                                                                         *)
(* Every send is non-blocking: an event that finds a full channel is       *)
(* dropped.  Sending on a closed channel would end the process, and so may *)
(* a read of Client.clusterID, a string of two words that ReadPump writes  *)
(* and BroadcastToCluster reads without synchronisation.  An event stands  *)
(* for one of a kind that both subscribers deal with.                      *)
(***************************************************************************)
EXTENDS Naturals, Sequences

CONSTANTS
    Cluster,        \* each with one pipeline, which publishes its events, ...
    Alarm,          \* ... and the openings of its breaker, which publish an alert each
    Client,         \* WebSocket connections, each opened once
    BufferSize,     \* of a subscription's channel
    ClientBuffer,   \* of a client's send channel
    MaxEvents       \* bound: the events a pipeline publishes

Source == {"pipeline"} \cup Alarm
Publisher == [cluster : Cluster, source : Source]
Event == [by : Publisher, n : 1..MaxEvents]

ASSUME BuffersAssumption ==
    /\ BufferSize \in Nat \ {0} /\ ClientBuffer \in Nat \ {0}
    /\ MaxEvents \in Nat

CONSTANTS NoCluster, NoClient, NoEvent

ASSUME NoneAssumption ==
    /\ NoCluster \notin Cluster /\ NoClient \notin Client /\ "logger" \notin Client
    /\ NoEvent \notin Event /\ "pipeline" \notin Alarm

VARIABLES
    sent,         \* the number of events each publisher has published
    publishing,   \* Publish under way: the subscriber it offers its event next
    queue,        \* the subscribers' channels
    bus,          \* open or closed
    stopped,      \* the subscribers whose context is cancelled
    ended,        \* the subscribers whose goroutine has returned
    hand,         \* the event each subscriber works on
    todo,         \* BroadcastToCluster: the clients it has still to visit, ...
    target,       \* ... and the one whose subscription matched
    conn,         \* new, in Hub.clients, or removed with its channel closed
    reader,       \* where each client's ReadPump is
    writer,       \* whether each client's WritePump runs
    sub,          \* Client.clusterID
    next,         \* the value ReadPump assigns to it
    send,         \* Client.send
    prior,        \* history: what had been published before an event was begun
    got,          \* history: the events the logger took, and each client was written
    stale,        \* history: events a client was sent against its subscription
    alive         \* the process has not crashed

busVars == <<sent, publishing, queue, bus, prior>>
consumerVars == <<stopped, ended, hand>>
broadcastVars == <<todo, target>>
clientVars == <<conn, reader, writer, sub, next>>
vars == <<busVars, consumerVars, broadcastVars, clientVars, send, got, stale, alive>>

Consumer == {"logger", "bridge"}
Confirmation == [by |-> NoCluster, n |-> 0]

Init ==
    /\ sent = [p \in Publisher |-> 0]
    /\ publishing = [p \in Publisher |-> "idle"]
    /\ queue = [s \in Consumer |-> <<>>]
    /\ bus = "open"
    /\ stopped = {} /\ ended = {}
    /\ hand = [s \in Consumer |-> NoEvent]
    /\ todo = {} /\ target = NoClient
    /\ conn = [k \in Client |-> "new"]
    /\ reader = [k \in Client |-> "none"]
    /\ writer = [k \in Client |-> "none"]
    /\ sub = [k \in Client |-> NoCluster]
    /\ next = [k \in Client |-> NoCluster]
    /\ send = [k \in Client |-> <<>>]
    /\ prior = [e \in Event |-> {}]
    /\ got = [x \in Client \cup {"logger"} |-> {}]
    /\ stale = [k \in Client |-> 0]
    /\ alive = TRUE

-----------------------------------------------------------------------------
(* The bus. *)

(* The events whose Publish has returned. *)
Published ==
    {e \in Event : e.n < sent[e.by] \/ (e.n = sent[e.by] /\ publishing[e.by] = "idle")}

(* Publish takes the read lock, which others may hold as well, and sees    *)
(* that the bus is open, ...                                               *)
Publish(p) ==
    /\ publishing[p] = "idle" /\ bus = "open"
    /\ sent[p] < MaxEvents /\ (p.source \in Alarm => sent[p] = 0)
    /\ sent' = [sent EXCEPT ![p] = @ + 1]
    /\ publishing' = [publishing EXCEPT ![p] = "logger"]
    /\ prior' = [prior EXCEPT ![[by |-> p, n |-> sent[p] + 1]] = Published]
    /\ UNCHANGED <<queue, bus, consumerVars, broadcastVars, clientVars, send, got, stale>>

(* Mutant: a subscriber whose channel is listed twice. *)
OfferedTwice(q, e) == IF Len(q) < BufferSize THEN Append(Append(q, e), e) ELSE q

(* select { case ch <- event: default: } *)
Offered(q, e) == IF Len(q) < BufferSize THEN Append(q, e) ELSE q

(* ... and offers the event to one subscriber after the other. *)
Offer(p) ==
    LET s == publishing[p] IN
    /\ s # "idle"
    /\ queue' = [queue EXCEPT ![s] = Offered(@, [by |-> p, n |-> sent[p]])]
    /\ publishing' = [publishing EXCEPT ![p] = IF s = "logger" THEN "bridge" ELSE "idle"]
    /\ UNCHANGED <<sent, bus, prior, consumerVars, broadcastVars, clientVars, send, got, stale>>

(* Close has the lock to itself. *)
Close ==
    /\ bus = "open" /\ "logger" \in stopped
    /\ \A p \in Publisher : publishing[p] = "idle"
    /\ bus' = "closed"
    /\ UNCHANGED <<sent, publishing, queue, prior, consumerVars, broadcastVars, clientVars, send,
                   got, stale>>

(* Orchestrator.Stop stops the logger and closes the bus; Server.Shutdown  *)
(* then stops the bridge.                                                  *)
StopConsumer(s) ==
    /\ s \notin stopped
    /\ s = "bridge" => bus = "closed"
    /\ stopped' = stopped \cup {s}
    /\ UNCHANGED <<busVars, ended, hand, broadcastVars, clientVars, send, got, stale>>

-----------------------------------------------------------------------------
(* Its two subscribers. *)

Waits(s) == s \notin ended /\ hand[s] = NoEvent

(* select: a cancelled context and a pending event are equally welcome. *)
ConsumerEnds(s) ==
    /\ Waits(s)
    /\ s \in stopped \/ (bus = "closed" /\ queue[s] = <<>>)
    /\ ended' = ended \cup {s}
    /\ UNCHANGED <<busVars, stopped, hand, broadcastVars, clientVars, send, got, stale>>

Gets(x, e) == got' = [got EXCEPT ![x] = @ \cup {e}]

LoggerTakes ==
    /\ Waits("logger") /\ queue["logger"] # <<>>
    /\ hand' = [hand EXCEPT !["logger"] = Head(queue["logger"])]
    /\ queue' = [queue EXCEPT !["logger"] = Tail(@)]
    /\ Gets("logger", Head(queue["logger"]))
    /\ UNCHANGED <<sent, publishing, bus, prior, stopped, ended, broadcastVars, clientVars, send,
                   stale>>

(* The event is logged; an insert succeeds, or fails and is forgotten. *)
LoggerPersists ==
    /\ hand["logger"] # NoEvent
    /\ hand' = [hand EXCEPT !["logger"] = NoEvent]
    /\ UNCHANGED <<busVars, stopped, ended, broadcastVars, clientVars, send, got, stale>>

(* BroadcastToCluster keeps the hub's read lock from here ... *)
BroadcastBegin ==
    /\ Waits("bridge") /\ queue["bridge"] # <<>>
    /\ hand' = [hand EXCEPT !["bridge"] = Head(queue["bridge"])]
    /\ queue' = [queue EXCEPT !["bridge"] = Tail(@)]
    /\ todo' = {k \in Client : conn[k] = "registered"}
    /\ UNCHANGED <<sent, publishing, bus, prior, stopped, ended, target, clientVars, send, got,
                   stale>>

(* What a read of clusterID can return while ReadPump may be writing it.   *)
Seen(k) == {sub[k]} \cup (IF reader[k] = "writing" THEN {next[k]} ELSE {})

(* Mutant: every client is sent every event. *)
VisitRegardless(k) ==
    /\ k \in todo /\ target = NoClient
    /\ todo' = todo \ {k}
    /\ target' = k
    /\ UNCHANGED <<busVars, consumerVars, clientVars, send, got, stale>>

(* It visits the clients in the order of a map, compares the subscription, *)
Visit(k) ==
    /\ k \in todo /\ target = NoClient
    /\ todo' = todo \ {k}
    /\ \E c \in Seen(k) : target' = IF c = hand["bridge"].by.cluster THEN k ELSE NoClient
    /\ UNCHANGED <<busVars, consumerVars, clientVars, send, got, stale>>

(* (which reads the length of one string and the pointer of another when   *)
(* one of the two is empty, and ends the process) ...                      *)
VisitTorn(k) ==
    /\ k \in todo /\ target = NoClient
    /\ reader[k] = "writing"
    /\ (sub[k] = NoCluster) # (next[k] = NoCluster)
    /\ alive' = FALSE
    /\ UNCHANGED <<busVars, consumerVars, broadcastVars, clientVars, send, got, stale>>

(* Mutant: a full channel makes the bridge wait. *)
SentBlocking(k, e) ==
    /\ Len(send[k]) < ClientBuffer
    /\ send' = [send EXCEPT ![k] = Append(@, e)]

(* select { case client.send <- message: default: } *)
Sent(k, e) ==
    send' = [send EXCEPT ![k] = IF Len(@) < ClientBuffer THEN Append(@, e) ELSE @]

(* ... and sends the event. *)
SendTo(k) ==
    /\ target = k
    /\ Sent(k, hand["bridge"])
    /\ target' = NoClient
    /\ stale' = [stale EXCEPT ![k] = IF hand["bridge"].by.cluster \in Seen(k) THEN @ ELSE @ + 1]
    /\ UNCHANGED <<busVars, consumerVars, todo, clientVars, got>>

(* ... to here. *)
BroadcastEnd ==
    /\ hand["bridge"] # NoEvent /\ todo = {} /\ target = NoClient
    /\ hand' = [hand EXCEPT !["bridge"] = NoEvent]
    /\ UNCHANGED <<busVars, stopped, ended, broadcastVars, clientVars, send, got, stale>>

-----------------------------------------------------------------------------
(* The hub and the clients. *)

(* Hub.Run changes the set of clients under the lock. *)
HubLocks == hand["bridge"] = NoEvent

(* A connection is upgraded, with or without ?cluster_id=. *)
Connect(k) ==
    /\ conn[k] = "new" /\ HubLocks
    /\ conn' = [conn EXCEPT ![k] = "registered"]
    /\ \E c \in Cluster \cup {NoCluster} : sub' = [sub EXCEPT ![k] = c]
    /\ reader' = [reader EXCEPT ![k] = "reading"]
    /\ writer' = [writer EXCEPT ![k] = "running"]
    /\ UNCHANGED <<busVars, consumerVars, broadcastVars, next, send, got, stale>>

(* handleMessage: subscribe or unsubscribe assigns clusterID ... *)
Receive(k) ==
    /\ reader[k] = "reading"
    /\ reader' = [reader EXCEPT ![k] = "writing"]
    /\ \E c \in Cluster \cup {NoCluster} : next' = [next EXCEPT ![k] = c]
    /\ UNCHANGED <<busVars, consumerVars, broadcastVars, conn, writer, sub, send, got, stale>>

Assign(k) ==
    /\ reader[k] = "writing"
    /\ sub' = [sub EXCEPT ![k] = next[k]]
    /\ next' = [next EXCEPT ![k] = NoCluster]
    /\ stale' = [stale EXCEPT ![k] = 0]
    /\ reader' = [reader EXCEPT ![k] = "confirming"]
    /\ UNCHANGED <<busVars, consumerVars, broadcastVars, conn, writer, send, got>>

(* ... and confirms. *)
Confirm(k) ==
    /\ reader[k] = "confirming"
    /\ Len(send[k]) < ClientBuffer
    /\ send' = [send EXCEPT ![k] = Append(@, Confirmation)]
    /\ reader' = [reader EXCEPT ![k] = "reading"]
    /\ UNCHANGED <<busVars, consumerVars, broadcastVars, conn, writer, sub, next, got, stale>>

ConfirmDropped(k) ==
    /\ reader[k] = "confirming"
    /\ Len(send[k]) = ClientBuffer
    /\ reader' = [reader EXCEPT ![k] = "reading"]
    /\ UNCHANGED <<busVars, consumerVars, broadcastVars, conn, writer, sub, next, send, got, stale>>

(* ReadMessage fails: the peer is gone, or the connection was closed. *)
ReadFails(k) ==
    /\ reader[k] = "reading"
    /\ reader' = [reader EXCEPT ![k] = "leaving"]
    /\ UNCHANGED <<busVars, consumerVars, broadcastVars, conn, writer, sub, next, send, got, stale>>

(* Mutant: the hub does not take its lock. *)
UnregisterUnlocked(k) ==
    /\ reader[k] = "leaving"
    /\ conn' = [conn EXCEPT ![k] = "removed"]
    /\ reader' = [reader EXCEPT ![k] = "ended"]
    /\ UNCHANGED <<busVars, consumerVars, broadcastVars, writer, sub, next, send, got, stale>>

(* Mutant: ReadPump only closes the connection. *)
UnregisterForgotten(k) ==
    /\ reader[k] = "leaving"
    /\ reader' = [reader EXCEPT ![k] = "ended"]
    /\ UNCHANGED <<busVars, consumerVars, broadcastVars, conn, writer, sub, next, send, got, stale>>

(* ReadPump hands its client to the hub, which forgets it and closes its   *)
(* channel, closes the connection and ends.                                *)
Unregister(k) ==
    /\ reader[k] = "leaving" /\ HubLocks
    /\ conn' = [conn EXCEPT ![k] = "removed"]
    /\ reader' = [reader EXCEPT ![k] = "ended"]
    /\ UNCHANGED <<busVars, consumerVars, broadcastVars, writer, sub, next, send, got, stale>>

(* WritePump writes the messages one after the other, until it finds its   *)
(* channel closed ...                                                      *)
Write(k) ==
    /\ writer[k] = "running" /\ reader[k] # "ended"
    /\ send[k] # <<>>
    /\ IF Head(send[k]) = Confirmation THEN UNCHANGED got ELSE Gets(k, Head(send[k]))
    /\ send' = [send EXCEPT ![k] = Tail(@)]
    /\ UNCHANGED <<busVars, consumerVars, broadcastVars, clientVars, stale>>

WriterEnds(k) ==
    /\ writer[k] = "running"
    /\ conn[k] = "removed" /\ send[k] = <<>>
    /\ writer' = [writer EXCEPT ![k] = "ended"]
    /\ UNCHANGED <<busVars, consumerVars, broadcastVars, conn, reader, sub, next, send, got, stale>>

(* ... or a message or a ping fails, which closes the connection; what     *)
(* it had taken from the channel is lost.                                  *)
WriteFails(k) ==
    /\ writer[k] = "running"
    /\ writer' = [writer EXCEPT ![k] = "ended"]
    /\ \/ UNCHANGED send
       \/ send[k] # <<>> /\ send' = [send EXCEPT ![k] = Tail(@)]
    /\ UNCHANGED <<busVars, consumerVars, broadcastVars, conn, reader, sub, next, got, stale>>

-----------------------------------------------------------------------------

Running(action) == alive /\ action /\ UNCHANGED alive

PublisherStep(p) == Running(Publish(p) \/ Offer(p))
ShutdownStep == Running(Close \/ \E s \in Consumer : StopConsumer(s))
LoggerStep == Running(LoggerTakes \/ LoggerPersists \/ ConsumerEnds("logger"))
BridgeStep ==
    Running(\/ BroadcastBegin \/ BroadcastEnd \/ ConsumerEnds("bridge")
            \/ \E k \in Client : Visit(k) \/ SendTo(k))
PeerStep(k) == Running(Connect(k) \/ Receive(k) \/ ReadFails(k))
ReaderStep(k) == Running(Assign(k) \/ Confirm(k) \/ ConfirmDropped(k) \/ Unregister(k))
WriterStep(k) == Running(Write(k) \/ WriterEnds(k) \/ WriteFails(k))

Next ==
    \/ \E p \in Publisher : PublisherStep(p)
    \/ ShutdownStep
    \/ LoggerStep
    \/ BridgeStep
    \/ \E k \in Client : PeerStep(k) \/ ReaderStep(k) \/ WriterStep(k)
    \/ \E k \in Client : alive /\ VisitTorn(k)

Spec == Init /\ [][Next]_vars

(* Goroutines go on; a write ends at its deadline.  A closed connection    *)
(* yields the few messages it has buffered and then an error.  Publishers, *)
(* the database and the peers owe nothing.                                 *)
Fairness ==
    /\ WF_vars(BridgeStep)
    /\ \A k \in Client :
          /\ WF_vars(ReaderStep(k))
          /\ WF_vars(WriterStep(k))
          /\ SF_vars(writer[k] = "ended" /\ Running(ReadFails(k)))

FairSpec == Spec /\ Fairness

-----------------------------------------------------------------------------
(* Properties. *)

TypeOK ==
    /\ sent \in [Publisher -> 0..MaxEvents]
    /\ publishing \in [Publisher -> {"idle", "logger", "bridge"}]
    /\ queue \in [Consumer -> Seq(Event)]
    /\ bus \in {"open", "closed"}
    /\ stopped \subseteq Consumer /\ ended \subseteq Consumer
    /\ hand \in [Consumer -> Event \cup {NoEvent}]
    /\ todo \subseteq Client /\ target \in Client \cup {NoClient}
    /\ conn \in [Client -> {"new", "registered", "removed"}]
    /\ reader \in [Client -> {"none", "reading", "writing", "confirming", "leaving", "ended"}]
    /\ writer \in [Client -> {"none", "running", "ended"}]
    /\ sub \in [Client -> Cluster \cup {NoCluster}]
    /\ next \in [Client -> Cluster \cup {NoCluster}]
    /\ send \in [Client -> Seq(Event \cup {Confirmation})]
    /\ prior \in [Event -> SUBSET Event]
    /\ got \in [Client \cup {"logger"} -> SUBSET Event]
    /\ stale \in [Client -> Nat]
    /\ alive \in BOOLEAN

(* No goroutine can send on a closed channel, which would end the process: *)
(* Publish not on the bus's, the bridge and the client's own ReadPump not  *)
(* on Client.send, whatever closes and leaves meanwhile.                   *)
NoSendOnClosed ==
    /\ \A p \in Publisher : publishing[p] # "idle" => bus = "open"
    /\ target # NoClient => conn[target] = "registered"
    /\ \A k \in Client : reader[k] = "confirming" => conn[k] = "registered"

(* Event e may come after event f: it is another one, and had not been     *)
(* published when f was begun.                                             *)
MayFollow(e, f) == e # f /\ e \notin prior[f]

Follows(received, q) ==
    \A i \in 1..Len(q) : q[i] # Confirmation =>
        /\ \A e \in received : MayFollow(q[i], e)
        /\ \A j \in 1..(i - 1) : q[j] # Confirmation => MayFollow(q[i], q[j])

(* Events may be dropped on the way, and two whose publications overlap    *)
(* may reach the logger and the clients in different orders; but nobody    *)
(* gets an event after one whose publication began when its own had        *)
(* returned, and nobody gets an event twice.                               *)
InOrder ==
    /\ Follows(got["logger"], queue["logger"])
    /\ \A k \in Client : Follows(got[k], send[k])

(* A client that changes its subscription is sent at most one more event   *)
(* of its former cluster, the one that was under way: "Only send to        *)
(* clients that have explicitly subscribed to this cluster" (hub.go:88)    *)
(* holds but for that one.                                                 *)
AtMostOneStale == \A k \in Client : stale[k] <= 1

(* A slow or dead client does not hold up the others: the bridge, which    *)
(* keeps the hub's lock while it sends, takes every event from its         *)
(* channel, or ends.                                                       *)
BridgeKeepsUp ==
    queue["bridge"] # <<>> ~> (queue["bridge"] = <<>> \/ "bridge" \in ended \/ ~alive)

(* A connection leaves nothing behind: when one of its goroutines ends the *)
(* other does, and the hub forgets the client.                             *)
ClientsLeave ==
    \A k \in Client :
        reader[k] = "leaving" \/ writer[k] = "ended"
            ~> (reader[k] = "ended" /\ writer[k] = "ended" /\ conn[k] = "removed") \/ ~alive
=============================================================================
