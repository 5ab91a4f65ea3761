------------------------ MODULE EventDelivery_proofs ------------------------
(***************************************************************************)
(* Proofs about event delivery, for any number of clusters, clients and    *)
(* events and any buffer sizes.                                            *)
(***************************************************************************)
EXTENDS EventDelivery, TLAPS

(* The bus is open while an event is offered. *)
BusHeldOpen ==
    \A p \in Publisher : publishing[p] # "idle" => bus = "open" /\ sent[p] >= 1

(* The bridge is in BroadcastToCluster as long as it has clients to visit, *)
(* all of them in the hub.                                                 *)
HubHeld ==
    /\ \A k \in todo : hand["bridge"] # NoEvent /\ conn[k] = "registered"
    /\ target # NoClient => hand["bridge"] # NoEvent /\ conn[target] = "registered"

(* A client is in the hub until its ReadPump has left. *)
ReadersRegistered ==
    \A k \in Client :
        reader[k] \in {"reading", "writing", "confirming", "leaving"} => conn[k] = "registered"

(* A client about to be sent an event against its subscription has not     *)
(* been sent another one since it changed the subscription.                *)
StaleOnce ==
    \A k \in Client :
        /\ stale[k] <= 1
        /\ target = k /\ hand["bridge"].by.cluster \notin Seen(k) => stale[k] = 0

IInv == TypeOK /\ BusHeldOpen /\ HubHeld /\ ReadersRegistered /\ StaleOnce

-----------------------------------------------------------------------------

LEMMA InitIInv == Init => IInv
  <1> SUFFICES ASSUME Init PROVE IInv
    OBVIOUS
  <1> USE NoneAssumption, BuffersAssumption DEF Init
  <1>1. TypeOK
    BY DEF TypeOK, Consumer, Event
  <1>2. BusHeldOpen /\ HubHeld /\ ReadersRegistered /\ StaleOnce
    BY DEF BusHeldOpen, HubHeld, ReadersRegistered, StaleOnce
  <1> QED BY <1>1, <1>2 DEF IInv

(* The bus and its subscribers' channels. *)
LEMMA PublishKeepsInv ==
  ASSUME IInv, NEW p \in Publisher, Publish(p), UNCHANGED alive
  PROVE  IInv'
  <1> USE BuffersAssumption
          DEF IInv, Publish, consumerVars, broadcastVars, clientVars, Seen
  <1>1. TypeOK'
    <2>1. sent' \in [Publisher -> 0..MaxEvents]
      BY DEF TypeOK
    <2>2. Published \in SUBSET Event
      BY DEF Published
    <2>3. prior' \in [Event -> SUBSET Event]
      BY <2>2 DEF TypeOK
    <2> QED BY <2>1, <2>3 DEF TypeOK
  <1>2. BusHeldOpen'
    BY DEF TypeOK, BusHeldOpen
  <1>3. HubHeld' /\ ReadersRegistered' /\ StaleOnce'
    BY DEF HubHeld, ReadersRegistered, StaleOnce
  <1> QED BY <1>1, <1>2, <1>3

LEMMA OfferKeepsInv ==
  ASSUME IInv, NEW p \in Publisher, Offer(p), UNCHANGED alive
  PROVE  IInv'
  <1> USE BuffersAssumption
          DEF IInv, Offer, consumerVars, broadcastVars, clientVars, Seen
  <1> DEFINE s == publishing[p]
             e == [by |-> p, n |-> sent[p]]
  <1>1. e \in Event
    BY DEF TypeOK, BusHeldOpen, Event
  <1>2. Offered(queue[s], e) \in Seq(Event)
    BY <1>1 DEF TypeOK, Offered, Consumer
  <1>3. TypeOK'
    BY <1>2 DEF TypeOK, Consumer
  <1>4. BusHeldOpen'
    BY DEF TypeOK, BusHeldOpen
  <1>5. HubHeld' /\ ReadersRegistered' /\ StaleOnce'
    BY DEF HubHeld, ReadersRegistered, StaleOnce
  <1> QED BY <1>3, <1>4, <1>5

LEMMA ShutdownKeepsInv ==
  ASSUME IInv, UNCHANGED alive, Close \/ \E s \in Consumer : StopConsumer(s)
  PROVE  IInv'
  <1> USE DEF IInv, Close, StopConsumer, busVars, consumerVars, broadcastVars, clientVars, Seen
  <1>1. TypeOK'
    BY DEF TypeOK
  <1>2. BusHeldOpen'
    BY DEF BusHeldOpen
  <1>3. HubHeld' /\ ReadersRegistered' /\ StaleOnce'
    BY DEF HubHeld, ReadersRegistered, StaleOnce
  <1> QED BY <1>1, <1>2, <1>3

(* The logger, and the end of either subscriber. *)
LEMMA LoggerKeepsInv ==
  ASSUME IInv, UNCHANGED alive,
         LoggerTakes \/ LoggerPersists \/ \E s \in Consumer : ConsumerEnds(s)
  PROVE  IInv'
  <1> USE DEF IInv, busVars, consumerVars, broadcastVars, clientVars, Seen, Waits, Consumer
  <1>1. CASE LoggerTakes
    <2> USE <1>1 DEF LoggerTakes, Gets
    <2>1. Head(queue["logger"]) \in Event /\ Tail(queue["logger"]) \in Seq(Event)
      BY DEF TypeOK
    <2>2. got' \in [Client \cup {"logger"} -> SUBSET Event]
      BY <2>1 DEF TypeOK
    <2>3. TypeOK'
      BY <2>1, <2>2 DEF TypeOK
    <2>4. BusHeldOpen' /\ HubHeld' /\ ReadersRegistered' /\ StaleOnce'
      BY DEF TypeOK, BusHeldOpen, HubHeld, ReadersRegistered, StaleOnce
    <2> QED BY <2>3, <2>4
  <1>2. CASE LoggerPersists
    <2> USE <1>2 DEF LoggerPersists
    <2>1. TypeOK'
      BY DEF TypeOK
    <2>2. BusHeldOpen' /\ HubHeld' /\ ReadersRegistered' /\ StaleOnce'
      BY DEF TypeOK, BusHeldOpen, HubHeld, ReadersRegistered, StaleOnce
    <2> QED BY <2>1, <2>2
  <1>3. ASSUME NEW s \in Consumer, ConsumerEnds(s)
        PROVE  IInv'
    <2> USE <1>3 DEF ConsumerEnds
    <2>1. TypeOK'
      BY DEF TypeOK
    <2>2. BusHeldOpen' /\ HubHeld' /\ ReadersRegistered' /\ StaleOnce'
      BY DEF BusHeldOpen, HubHeld, ReadersRegistered, StaleOnce
    <2> QED BY <2>1, <2>2
  <1> QED BY <1>1, <1>2, <1>3

(* The bridge. *)
LEMMA BroadcastKeepsInv ==
  ASSUME IInv, UNCHANGED alive, BroadcastBegin \/ BroadcastEnd
  PROVE  IInv'
  <1> USE DEF IInv, busVars, consumerVars, broadcastVars, clientVars, Seen, Waits, Consumer
  <1>1. CASE BroadcastBegin
    <2> USE <1>1 DEF BroadcastBegin
    <2>1. Head(queue["bridge"]) \in Event /\ Tail(queue["bridge"]) \in Seq(Event)
      BY DEF TypeOK
    <2>2. TypeOK'
      BY <2>1 DEF TypeOK
    <2>3. target = NoClient /\ hand'["bridge"] # NoEvent
      BY <2>1, NoneAssumption DEF TypeOK, HubHeld, Event
    <2>4. HubHeld'
      BY <2>3 DEF HubHeld
    <2>5. BusHeldOpen' /\ ReadersRegistered' /\ StaleOnce'
      BY <2>3, NoneAssumption DEF BusHeldOpen, ReadersRegistered, StaleOnce
    <2> QED BY <2>2, <2>4, <2>5
  <1>2. CASE BroadcastEnd
    <2> USE <1>2 DEF BroadcastEnd
    <2>1. TypeOK'
      BY DEF TypeOK
    <2>2. BusHeldOpen' /\ HubHeld' /\ ReadersRegistered' /\ StaleOnce'
      BY NoneAssumption DEF BusHeldOpen, HubHeld, ReadersRegistered, StaleOnce
    <2> QED BY <2>1, <2>2
  <1> QED BY <1>1, <1>2

LEMMA VisitKeepsInv ==
  ASSUME IInv, UNCHANGED alive, NEW k \in Client, Visit(k)
  PROVE  IInv'
  <1> USE DEF IInv, Visit, busVars, consumerVars, broadcastVars, clientVars
  <1>1. TypeOK'
    BY DEF TypeOK
  <1>2. BusHeldOpen' /\ ReadersRegistered'
    BY DEF BusHeldOpen, ReadersRegistered
  <1>3. HubHeld'
    BY DEF HubHeld
  <1>4. StaleOnce'
    BY NoneAssumption DEF StaleOnce, Seen
  <1> QED BY <1>1, <1>2, <1>3, <1>4

LEMMA SendToKeepsInv ==
  ASSUME IInv, UNCHANGED alive, NEW k \in Client, SendTo(k)
  PROVE  IInv'
  <1> USE DEF IInv, SendTo, Sent, busVars, consumerVars, clientVars
  <1>1. hand["bridge"] \in Event
    BY NoneAssumption DEF TypeOK, HubHeld, Consumer
  <1>2. TypeOK'
    <2>1. send' \in [Client -> Seq(Event \cup {Confirmation})]
      BY <1>1 DEF TypeOK
    <2>2. stale' \in [Client -> Nat]
      BY DEF TypeOK
    <2> QED BY <2>1, <2>2 DEF TypeOK
  <1>3. BusHeldOpen' /\ ReadersRegistered'
    BY DEF BusHeldOpen, ReadersRegistered
  <1>4. HubHeld'
    BY DEF HubHeld
  <1>5. StaleOnce'
    BY NoneAssumption DEF TypeOK, StaleOnce, Seen
  <1> QED BY <1>2, <1>3, <1>4, <1>5

(* The clients come, change their subscription and go. *)
LEMMA ConnectKeepsInv ==
  ASSUME IInv, UNCHANGED alive, NEW k \in Client, Connect(k)
  PROVE  IInv'
  <1> USE DEF IInv, Connect, HubLocks, busVars, consumerVars, broadcastVars
  <1>1. TypeOK'
    BY DEF TypeOK
  <1>2. BusHeldOpen' /\ ReadersRegistered'
    BY DEF TypeOK, BusHeldOpen, ReadersRegistered
  <1>3. HubHeld'
    BY DEF HubHeld
  <1>4. StaleOnce'
    BY NoneAssumption DEF TypeOK, HubHeld, StaleOnce
  <1> QED BY <1>1, <1>2, <1>3, <1>4

LEMMA ReceiveKeepsInv ==
  ASSUME IInv, UNCHANGED alive, NEW k \in Client,
         Receive(k) \/ Assign(k) \/ ReadFails(k)
  PROVE  IInv'
  <1> USE DEF IInv, Receive, Assign, ReadFails, busVars, consumerVars, broadcastVars
  <1>1. TypeOK'
    <2>1. CASE Receive(k)
      BY <2>1 DEF TypeOK
    <2>2. CASE Assign(k)
      <3>1. sub' \in [Client -> Cluster \cup {NoCluster}]
        BY <2>2 DEF TypeOK
      <3>2. next' \in [Client -> Cluster \cup {NoCluster}]
        BY <2>2 DEF TypeOK
      <3> QED BY <2>2, <3>1, <3>2 DEF TypeOK
    <2>3. CASE ReadFails(k)
      BY <2>3 DEF TypeOK
    <2> QED BY <2>1, <2>2, <2>3
  <1>2. BusHeldOpen' /\ ReadersRegistered'
    BY DEF TypeOK, BusHeldOpen, ReadersRegistered
  <1>3. HubHeld'
    BY DEF HubHeld
  <1>4. StaleOnce'
    BY DEF TypeOK, StaleOnce, Seen
  <1> QED BY <1>1, <1>2, <1>3, <1>4

LEMMA ConfirmKeepsInv ==
  ASSUME IInv, UNCHANGED alive, NEW k \in Client,
         Confirm(k) \/ ConfirmDropped(k)
  PROVE  IInv'
  <1> USE DEF IInv, Confirm, ConfirmDropped, busVars, consumerVars, broadcastVars
  <1>1. TypeOK'
    <2>1. Append(send[k], Confirmation) \in Seq(Event \cup {Confirmation})
      <3> DEFINE M == Event \cup {Confirmation}
      <3>1. send[k] \in Seq(M) /\ Confirmation \in M
        BY DEF TypeOK
      <3> HIDE DEF M
      <3>2. Append(send[k], Confirmation) \in Seq(M)
        BY <3>1
      <3> QED BY <3>2 DEF M
    <2>2. send' \in [Client -> Seq(Event \cup {Confirmation})]
      <3>1. send' = send \/ send' = [send EXCEPT ![k] = Append(send[k], Confirmation)]
        OBVIOUS
      <3>2. send \in [Client -> Seq(Event \cup {Confirmation})]
        BY DEF TypeOK
      <3> HIDE DEF IInv, Confirm, ConfirmDropped
      <3> QED BY <2>1, <3>1, <3>2
    <2> QED BY <2>2 DEF TypeOK
  <1>2. BusHeldOpen' /\ ReadersRegistered'
    BY DEF TypeOK, BusHeldOpen, ReadersRegistered
  <1>3. HubHeld'
    BY DEF HubHeld
  <1>4. StaleOnce'
    BY DEF TypeOK, StaleOnce, Seen
  <1> QED BY <1>1, <1>2, <1>3, <1>4

LEMMA UnregisterKeepsInv ==
  ASSUME IInv, UNCHANGED alive, NEW k \in Client, Unregister(k)
  PROVE  IInv'
  <1> USE DEF IInv, Unregister, HubLocks, busVars, consumerVars, broadcastVars
  <1>1. TypeOK'
    BY DEF TypeOK
  <1>2. BusHeldOpen' /\ ReadersRegistered'
    BY DEF TypeOK, BusHeldOpen, ReadersRegistered
  <1>3. HubHeld'
    BY DEF HubHeld
  <1>4. StaleOnce'
    BY DEF TypeOK, StaleOnce, Seen
  <1> QED BY <1>1, <1>2, <1>3, <1>4

LEMMA WriterKeepsInv ==
  ASSUME IInv, UNCHANGED alive, NEW k \in Client,
         Write(k) \/ WriterEnds(k) \/ WriteFails(k)
  PROVE  IInv'
  <1> USE DEF IInv, Write, WriterEnds, WriteFails, busVars, consumerVars, broadcastVars,
              clientVars
  <1>1. send' \in [Client -> Seq(Event \cup {Confirmation})]
    <2>1. send[k] # <<>> => Tail(send[k]) \in Seq(Event \cup {Confirmation})
      BY DEF TypeOK
    <2> QED BY <2>1 DEF TypeOK
  <1>2. got' \in [Client \cup {"logger"} -> SUBSET Event]
    <2>1. CASE Write(k)
      <3>1. Head(send[k]) \in Event \cup {Confirmation}
        BY <2>1 DEF TypeOK
      <3>2. CASE Head(send[k]) = Confirmation
        BY <2>1, <3>2 DEF TypeOK
      <3>3. CASE Head(send[k]) # Confirmation
        <4>1. Head(send[k]) \in Event /\ got' = [got EXCEPT ![k] = @ \cup {Head(send[k])}]
          BY <2>1, <3>1, <3>3 DEF Gets
        <4>2. got \in [Client \cup {"logger"} -> SUBSET Event]
          BY DEF TypeOK
        <4> HIDE DEF IInv, Write
        <4> QED BY <4>1, <4>2
      <3> QED BY <3>2, <3>3
    <2>2. CASE WriterEnds(k) \/ WriteFails(k)
      BY <2>2 DEF TypeOK
    <2> QED BY <2>1, <2>2
  <1>3. TypeOK'
    BY <1>1, <1>2 DEF TypeOK
  <1>4. BusHeldOpen' /\ HubHeld' /\ ReadersRegistered' /\ StaleOnce'
    BY DEF BusHeldOpen, HubHeld, ReadersRegistered, StaleOnce, Seen
  <1> QED BY <1>3, <1>4

LEMMA NextIInv == IInv /\ [Next]_vars => IInv'
  <1> SUFFICES ASSUME IInv, [Next]_vars PROVE IInv'
    OBVIOUS
  <1>1. ASSUME NEW p \in Publisher, PublisherStep(p)
        PROVE  IInv'
    BY <1>1, PublishKeepsInv, OfferKeepsInv DEF PublisherStep, Running
  <1>2. CASE ShutdownStep
    BY <1>2, ShutdownKeepsInv DEF ShutdownStep, Running
  <1>3. CASE LoggerStep
    BY <1>3, LoggerKeepsInv DEF LoggerStep, Running, Consumer
  <1>4. CASE BridgeStep
    BY <1>4, LoggerKeepsInv, BroadcastKeepsInv, VisitKeepsInv, SendToKeepsInv
       DEF BridgeStep, Running, Consumer
  <1>5. ASSUME NEW k \in Client, PeerStep(k)
        PROVE  IInv'
    BY <1>5, ConnectKeepsInv, ReceiveKeepsInv DEF PeerStep, Running
  <1>6. ASSUME NEW k \in Client, ReaderStep(k)
        PROVE  IInv'
    BY <1>6, ReceiveKeepsInv, ConfirmKeepsInv, UnregisterKeepsInv DEF ReaderStep, Running
  <1>7. ASSUME NEW k \in Client, WriterStep(k)
        PROVE  IInv'
    BY <1>7, WriterKeepsInv DEF WriterStep, Running
  <1>8. ASSUME NEW k \in Client, VisitTorn(k)
        PROVE  IInv'
    BY <1>8 DEF VisitTorn, busVars, consumerVars, broadcastVars, clientVars, IInv, TypeOK,
                BusHeldOpen, HubHeld, ReadersRegistered, StaleOnce, Seen
  <1>9. CASE UNCHANGED vars
    BY <1>9 DEF vars, busVars, consumerVars, broadcastVars, clientVars, IInv, TypeOK,
                BusHeldOpen, HubHeld, ReadersRegistered, StaleOnce, Seen
  <1> QED BY <1>1, <1>2, <1>3, <1>4, <1>5, <1>6, <1>7, <1>8, <1>9 DEF Next

-----------------------------------------------------------------------------

(* The inductive invariant holds. *)
THEOREM DeliveryInvariant == Spec => []IInv
  BY InitIInv, NextIInv, PTL DEF Spec

(* Types: channels carry events and confirmations. *)
THEOREM DeliveryTypeCorrect == Spec => []TypeOK
  <1>1. IInv => TypeOK
    BY DEF IInv
  <1> QED BY <1>1, DeliveryInvariant, PTL

(* Nobody sends on a closed channel. *)
THEOREM NoSendOnClosedHolds == Spec => []NoSendOnClosed
  <1>1. IInv => NoSendOnClosed
    BY DEF IInv, NoSendOnClosed, BusHeldOpen, HubHeld, ReadersRegistered
  <1> QED BY <1>1, DeliveryInvariant, PTL

(* After it has changed its subscription a client is sent at most one more *)
(* event of its former cluster.                                            *)
THEOREM AtMostOneStaleHolds == Spec => []AtMostOneStale
  <1>1. IInv => AtMostOneStale
    BY DEF IInv, AtMostOneStale, StaleOnce
  <1> QED BY <1>1, DeliveryInvariant, PTL

-----------------------------------------------------------------------------
(* Order.  Each place on an event's way is behind the one before: what     *)
(* waits in a channel may follow what the reader of the channel has in     *)
(* hand, and that what the reader has got.  An event still to be offered   *)
(* is nowhere on its way, and published before no other.                   *)

Elements(q) == {q[i] : i \in 1..Len(q)}

AllFollow(newer, older) == \A e \in newer, f \in older : MayFollow(e, f)

InSequence(q) ==
    \A i \in 1..Len(q) : q[i] # Confirmation =>
        \A j \in 1..(i - 1) : q[j] # Confirmation => MayFollow(q[i], q[j])

(* The events that have been offered to subscriber s. *)
OfferedTo(s) ==
    {e \in Event :
        \/ e \in Published
        \/ e.n = sent[e.by] /\ publishing[e.by] = "bridge" /\ s = "logger"}

Waiting(s) == Elements(queue[s])
Sending(k) == Elements(send[k]) \ {Confirmation}

LoggerInOrder ==
    /\ InSequence(queue["logger"])
    /\ AllFollow(Waiting("logger"), got["logger"])
    /\ Waiting("logger") \cup got["logger"] \subseteq OfferedTo("logger")

BridgeInOrder ==
    /\ InSequence(queue["bridge"])
    /\ Waiting("bridge") \subseteq OfferedTo("bridge")
    /\ hand["bridge"] # NoEvent =>
          AllFollow(Waiting("bridge"), {hand["bridge"]}) /\ hand["bridge"] \in OfferedTo("bridge")

(* A client has not been sent the event that the bridge has yet to send it. *)
ClientInOrder(k) ==
    /\ InSequence(send[k])
    /\ AllFollow(Sending(k), got[k])
    /\ AllFollow(Waiting("bridge"), got[k] \cup Sending(k))
    /\ k \in todo \/ k = target => AllFollow({hand["bridge"]}, got[k] \cup Sending(k))
    /\ got[k] \cup Sending(k) \subseteq OfferedTo("bridge")

OrderInv ==
    /\ target \notin todo
    /\ \A e \in Event : prior[e] \subseteq Published
    /\ LoggerInOrder
    /\ BridgeInOrder
    /\ \A k \in Client : ClientInOrder(k)

(* What a channel's operations do to the order. *)
LEMMA AppendElements ==
    ASSUME NEW T, NEW q \in Seq(T), NEW e \in T, NEW x
    PROVE  x \in Elements(Append(q, e)) <=> x \in Elements(q) \/ x = e
  <1> DEFINE r == Append(q, e)
  <1>1. /\ Len(r) = Len(q) + 1 /\ Len(q) \in Nat /\ r[Len(q) + 1] = e
        /\ \A i \in 1..Len(q) : r[i] = q[i]
    OBVIOUS
  <1> HIDE DEF r
  <1>2. /\ \A i \in 1..Len(r) : i \in 1..Len(q) \/ i = Len(q) + 1
        /\ \A i \in 1..Len(q) : i \in 1..Len(r)
        /\ Len(q) + 1 \in 1..Len(r)
    BY <1>1
  <1> QED BY <1>1, <1>2 DEF Elements, r

LEMMA AppendInSequence ==
    ASSUME NEW T, NEW q \in Seq(T), NEW e \in T
    PROVE  /\ InSequence(q) /\ AllFollow({e}, Elements(q) \ {Confirmation})
                 => InSequence(Append(q, e))
           /\ InSequence(q) /\ e = Confirmation => InSequence(Append(q, e))
  <1> DEFINE r == Append(q, e)
  <1>1. /\ Len(r) = Len(q) + 1 /\ Len(q) \in Nat /\ r[Len(q) + 1] = e
        /\ \A i \in 1..Len(q) : r[i] = q[i]
    OBVIOUS
  <1> HIDE DEF r
  <1>2. \A i \in 1..Len(r) : i \in 1..Len(q) \/ i = Len(q) + 1
    BY <1>1
  <1>4. ASSUME InSequence(q),
               AllFollow({e}, Elements(q) \ {Confirmation}) \/ e = Confirmation
        PROVE  InSequence(r)
    <2> SUFFICES ASSUME NEW i \in 1..Len(r), NEW j \in 1..(i - 1),
                        r[i] # Confirmation, r[j] # Confirmation
                 PROVE  MayFollow(r[i], r[j])
      BY DEF InSequence
    <2>1. CASE i = Len(q) + 1
      <3>1. j \in 1..Len(q) /\ r[i] = e /\ r[j] = q[j]
        BY <1>1, <2>1
      <3> QED BY <1>4, <3>1 DEF AllFollow, Elements
    <2>2. CASE i \in 1..Len(q)
      <3>1. j \in 1..Len(q) /\ j \in 1..(i - 1)
        BY <1>1, <2>2
      <3> QED BY <1>1, <1>4, <2>2, <3>1 DEF InSequence
    <2> QED BY <1>2, <2>1, <2>2
  <1> QED BY <1>4 DEF r

LEMMA TailInSequence ==
    ASSUME NEW T, NEW q \in Seq(T), q # <<>>
    PROVE  /\ Elements(Tail(q)) \subseteq Elements(q) /\ Head(q) \in Elements(q)
           /\ InSequence(q) => InSequence(Tail(q))
           /\ InSequence(q) /\ Head(q) # Confirmation =>
                 AllFollow(Elements(Tail(q)) \ {Confirmation}, {Head(q)})
  <1> DEFINE r == Tail(q)
  <1>1. /\ Len(q) \in Nat /\ Len(q) >= 1 /\ Len(r) = Len(q) - 1
        /\ \A i \in 1..Len(r) : r[i] = q[i + 1]
        /\ Head(q) = q[1]
    OBVIOUS
  <1> HIDE DEF r
  <1>2. 1 \in 1..Len(q) /\ \A i \in 1..Len(r) : i + 1 \in 1..Len(q)
    BY <1>1
  <1>3. Elements(r) \subseteq Elements(q) /\ Head(q) \in Elements(q)
    BY <1>1, <1>2 DEF Elements
  <1>4. ASSUME InSequence(q) PROVE InSequence(r)
    <2> SUFFICES ASSUME NEW i \in 1..Len(r), NEW j \in 1..(i - 1),
                        r[i] # Confirmation, r[j] # Confirmation
                 PROVE  MayFollow(r[i], r[j])
      BY DEF InSequence
    <2>1. j \in 1..Len(r) /\ i + 1 \in 1..Len(q) /\ j + 1 \in 1..((i + 1) - 1)
      BY <1>1
    <2> QED BY <1>1, <1>4, <2>1 DEF InSequence
  <1>5. ASSUME InSequence(q), Head(q) # Confirmation,
               NEW i \in 1..Len(r), r[i] # Confirmation
        PROVE  MayFollow(r[i], Head(q))
    <2>1. i + 1 \in 1..Len(q) /\ 1 \in 1..((i + 1) - 1)
      BY <1>1
    <2> QED BY <1>1, <1>5, <2>1 DEF InSequence
  <1>6. InSequence(q) /\ Head(q) # Confirmation =>
           AllFollow(Elements(r) \ {Confirmation}, {Head(q)})
    BY <1>5 DEF AllFollow, Elements
  <1> QED BY <1>3, <1>4, <1>6 DEF r

LEMMA OrderTypes ==
    ASSUME IInv
    PROVE  /\ \A p \in Publisher : sent[p] \in Nat
           /\ \A s \in Consumer : queue[s] \in Seq(Event)
           /\ \A k \in Client : send[k] \in Seq(Event \cup {Confirmation})
           /\ \A x \in Client \cup {"logger"} : got[x] \subseteq Event
           /\ \A e \in Event : e.by \in Publisher /\ e.n \in Nat /\ prior[e] \subseteq Event
           /\ \A s \in Consumer : hand[s] \in Event \cup {NoEvent}
           /\ "logger" \in Consumer /\ "bridge" \in Consumer
           /\ Confirmation \notin Event
  <1> USE DEF IInv, TypeOK
  <1>1. \A p \in Publisher : sent[p] \in Nat
    BY BuffersAssumption
  <1>2. \A e \in Event : e.by \in Publisher /\ e.n \in Nat
    BY BuffersAssumption DEF Event
  <1>3. /\ \A s \in Consumer : queue[s] \in Seq(Event) /\ hand[s] \in Event \cup {NoEvent}
        /\ \A k \in Client : send[k] \in Seq(Event \cup {Confirmation})
        /\ \A x \in Client \cup {"logger"} : got[x] \subseteq Event
        /\ \A e \in Event : prior[e] \subseteq Event
    OBVIOUS
  <1>4. Confirmation \notin Event
    BY BuffersAssumption DEF Event, Confirmation
  <1> QED BY <1>1, <1>2, <1>3, <1>4 DEF Consumer

(* Most steps touch no channel, not what the bridge has in hand and        *)
(* nothing that has been got.                                              *)
LEMMA QuietKeepsOrder ==
    ASSUME OrderInv, hand'["bridge"] = hand["bridge"],
           UNCHANGED <<sent, publishing, queue, send, prior, got, todo, target>>
    PROVE  OrderInv'
  <1>1. Published' = Published /\ \A s : OfferedTo(s)' = OfferedTo(s)
    BY DEF OfferedTo, Published
  <1>2. LoggerInOrder' /\ BridgeInOrder'
    BY <1>1 DEF OrderInv, LoggerInOrder, BridgeInOrder, InSequence, AllFollow, MayFollow, Waiting,
                Elements
  <1>3. ASSUME NEW k \in Client PROVE ClientInOrder(k)'
    <2>1. ClientInOrder(k)
      BY DEF OrderInv
    <2> QED
      BY <1>1, <2>1 DEF ClientInOrder, InSequence, AllFollow, MayFollow, Waiting, Sending, Elements
  <1> QED BY <1>1, <1>2, <1>3 DEF OrderInv

(* An event that is begun is nowhere on its way yet, so that it does not   *)
(* matter what is prior to it.                                             *)
LEMMA PublishKeepsOrder ==
    ASSUME IInv, OrderInv, NEW p \in Publisher, Publish(p)
    PROVE  OrderInv'
  <1> DEFINE e == [by |-> p, n |-> sent[p] + 1]
  <1>1. /\ UNCHANGED <<queue, hand, send, got, todo, target>>
        /\ publishing[p] = "idle" /\ sent[p] \in Nat
        /\ \A q \in Publisher : sent'[q] = IF q = p THEN sent[p] + 1 ELSE sent[q]
        /\ \A q \in Publisher : q # p => publishing'[q] = publishing[q]
        /\ e \in Event /\ e.by = p /\ e.n = sent[p] + 1
        /\ \A f \in Event : prior'[f] = IF f = e THEN Published ELSE prior[f]
    <2>1. UNCHANGED <<queue, hand, send, got, todo, target>> /\ publishing[p] = "idle"
      BY DEF Publish, consumerVars, broadcastVars
    <2>2. sent[p] \in Nat /\ sent[p] + 1 \in 1..MaxEvents
      BY BuffersAssumption DEF Publish, IInv, TypeOK
    <2>3. e \in Event /\ e.by = p /\ e.n = sent[p] + 1
      BY <2>2 DEF Event
    <2>4. /\ \A q \in Publisher : sent'[q] = IF q = p THEN sent[p] + 1 ELSE sent[q]
          /\ \A q \in Publisher : q # p => publishing'[q] = publishing[q]
      BY DEF Publish, IInv, TypeOK
    <2>5. prior' = [prior EXCEPT ![e] = Published] /\ prior \in [Event -> SUBSET Event]
      BY DEF Publish, IInv, TypeOK
    <2> HIDE DEF e
    <2>6. \A f \in Event : prior'[f] = IF f = e THEN Published ELSE prior[f]
      BY <2>3, <2>5
    <2> QED BY <2>1, <2>2, <2>3, <2>4, <2>6 DEF e
  <1> HIDE DEF e
  <1>2. \A f \in Event : f.by \in Publisher /\ f.n \in Nat
    BY OrderTypes
  <1>3. Published \subseteq Published' /\ e \notin Published
    BY <1>1, <1>2 DEF Published
  <1>4. \A s : OfferedTo(s) \subseteq OfferedTo(s)' /\ e \notin OfferedTo(s)
    BY <1>1, <1>2, <1>3 DEF OfferedTo
  <1>5. ASSUME NEW s, NEW f \in OfferedTo(s)
        PROVE  prior'[f] = prior[f]
    BY <1>1, <1>4 DEF OfferedTo
  <1>10. ASSUME NEW q, NEW s, Len(q) \in Nat, InSequence(q),
                Elements(q) \ {Confirmation} \subseteq OfferedTo(s),
                NEW i \in 1..Len(q), NEW j \in 1..(i - 1),
                q[i] # Confirmation, q[j] # Confirmation
         PROVE  q[i] # q[j] /\ q[i] \notin prior'[q[j]]
    <2>1. j \in 1..Len(q)
      BY <1>10
    <2>2. q[j] \in OfferedTo(s)
      BY <1>10, <2>1 DEF Elements
    <2> QED BY <1>5, <1>10, <2>2 DEF InSequence, MayFollow
  <1>6. \A f \in Event : prior'[f] \subseteq Published'
    BY <1>1, <1>3 DEF OrderInv
  <1>7. LoggerInOrder'
    <2>1. LoggerInOrder /\ Waiting("logger")' = Waiting("logger")
      BY <1>1 DEF OrderInv, Waiting, Elements
    <2>2. InSequence(queue["logger"])'
      <3> DEFINE q == queue["logger"]
      <3>1. /\ Len(q) \in Nat /\ InSequence(q) /\ q' = q
            /\ Elements(q) \ {Confirmation} \subseteq OfferedTo("logger")
        BY <1>1, <2>1, OrderTypes DEF LoggerInOrder, Waiting
      <3> HIDE DEF q
      <3>2. \A i \in 1..Len(q) : \A j \in 1..(i - 1) : q[i] # Confirmation /\ q[j] # Confirmation
               => q[i] # q[j] /\ q[i] \notin prior'[q[j]]
        BY <3>1, <1>10
      <3>3. InSequence(q)'
        BY <3>1, <3>2 DEF InSequence, MayFollow
      <3> QED BY <3>3 DEF q
    <2>3. AllFollow(Waiting("logger"), got["logger"])'
      BY <1>1, <1>5, <2>1 DEF LoggerInOrder, AllFollow, MayFollow
    <2> QED BY <1>1, <1>4, <2>1, <2>2, <2>3 DEF LoggerInOrder
  <1>8. BridgeInOrder'
    <2>1. BridgeInOrder /\ Waiting("bridge")' = Waiting("bridge")
      BY <1>1 DEF OrderInv, Waiting, Elements
    <2>2. InSequence(queue["bridge"])'
      <3> DEFINE q == queue["bridge"]
      <3>1. /\ Len(q) \in Nat /\ InSequence(q) /\ q' = q
            /\ Elements(q) \ {Confirmation} \subseteq OfferedTo("bridge")
        BY <1>1, <2>1, OrderTypes DEF BridgeInOrder, Waiting
      <3> HIDE DEF q
      <3>2. \A i \in 1..Len(q) : \A j \in 1..(i - 1) : q[i] # Confirmation /\ q[j] # Confirmation
               => q[i] # q[j] /\ q[i] \notin prior'[q[j]]
        BY <3>1, <1>10
      <3>3. InSequence(q)'
        BY <3>1, <3>2 DEF InSequence, MayFollow
      <3> QED BY <3>3 DEF q
    <2>3. hand["bridge"] # NoEvent => AllFollow(Waiting("bridge"), {hand["bridge"]})'
      BY <1>1, <1>5, <2>1 DEF BridgeInOrder, AllFollow, MayFollow
    <2> QED BY <1>1, <1>4, <2>1, <2>2, <2>3 DEF BridgeInOrder
  <1>9. ASSUME NEW k \in Client
        PROVE  ClientInOrder(k)'
    <2>1. /\ ClientInOrder(k) /\ Waiting("bridge")' = Waiting("bridge")
          /\ Sending(k)' = Sending(k)
      BY <1>1 DEF OrderInv, Waiting, Sending, Elements
    <2>2. InSequence(send[k])'
      <3> DEFINE q == send[k]
      <3>1. /\ Len(q) \in Nat /\ InSequence(q) /\ q' = q
            /\ Elements(q) \ {Confirmation} \subseteq OfferedTo("bridge")
        BY <1>1, <2>1, OrderTypes DEF ClientInOrder, Sending
      <3> HIDE DEF q
      <3>2. \A i \in 1..Len(q) : \A j \in 1..(i - 1) : q[i] # Confirmation /\ q[j] # Confirmation
               => q[i] # q[j] /\ q[i] \notin prior'[q[j]]
        BY <3>1, <1>10
      <3>3. InSequence(q)'
        BY <3>1, <3>2 DEF InSequence, MayFollow
      <3> QED BY <3>3 DEF q
    <2>3. /\ AllFollow(Sending(k), got[k])'
          /\ AllFollow(Waiting("bridge"), got[k] \cup Sending(k))'
          /\ k \in todo \/ k = target => AllFollow({hand["bridge"]}, got[k] \cup Sending(k))'
      BY <1>1, <1>5, <2>1 DEF ClientInOrder, AllFollow, MayFollow
    <2> QED BY <1>1, <1>4, <2>1, <2>2, <2>3 DEF ClientInOrder
  <1> QED BY <1>1, <1>6, <1>7, <1>8, <1>9 DEF OrderInv

(* An event offered may follow everything on its way.                      *)
LEMMA OfferKeepsOrder ==
    ASSUME IInv, OrderInv, NEW p \in Publisher, Offer(p)
    PROVE  OrderInv'
  <1> DEFINE e == [by |-> p, n |-> sent[p]]
  <1>0. PICK s \in Consumer : s = publishing[p]
    BY DEF Offer, IInv, TypeOK, Consumer
  <1>1. /\ UNCHANGED <<sent, hand, send, prior, got, todo, target>>
        /\ e \in Event /\ e.by = p /\ e.n = sent[p]
        /\ \A q \in Publisher : q # p => publishing'[q] = publishing[q]
        /\ publishing'[p] = IF s = "logger" THEN "bridge" ELSE "idle"
        /\ queue' = [queue EXCEPT ![s] = Offered(queue[s], e)]
    BY <1>0 DEF Offer, IInv, TypeOK, BusHeldOpen, Event, Consumer, consumerVars, broadcastVars
  <1>2. \A t \in Consumer : queue'[t] = queue[t] \/ (t = s /\ queue'[t] = Append(queue[t], e))
    BY <1>1 DEF IInv, TypeOK, Offered
  <1> HIDE DEF e
  <1>3. \A f \in Event : f.by \in Publisher /\ f.n \in Nat
    BY OrderTypes
  <1>4. Published \subseteq Published' /\ e \notin Published
    BY <1>0, <1>1, <1>3 DEF Published, Consumer
  <1>5. /\ \A t : OfferedTo(t) \subseteq OfferedTo(t)' /\ OfferedTo(t) \subseteq Event
        /\ e \notin OfferedTo(s) /\ e \in OfferedTo(s)'
    <2>1. \A t : OfferedTo(t) \subseteq OfferedTo(t)'
      <3>1. ASSUME NEW t, NEW f \in OfferedTo(t)
            PROVE  f \in OfferedTo(t)'
        <4>1. CASE f.by # p
          BY <1>1, <1>3, <1>4, <3>1, <4>1 DEF OfferedTo
        <4>2. CASE f.by = p
          BY <1>0, <1>1, <1>3, <1>4, <3>1, <4>2 DEF OfferedTo, Published, Consumer
        <4> QED BY <4>1, <4>2
      <3> QED BY <3>1
    <2>2. e \notin OfferedTo(s)
      BY <1>0, <1>1, <1>4 DEF OfferedTo, Consumer
    <2>3. e \in OfferedTo(s)'
      BY <1>0, <1>1 DEF OfferedTo, Published, Consumer
    <2> QED BY <2>1, <2>2, <2>3 DEF OfferedTo
  <1>6. \A f \in OfferedTo(s) : MayFollow(e, f)
    BY <1>4, <1>5 DEF OrderInv, MayFollow
  <1>7. \A t \in Consumer :
           /\ InSequence(queue[t]) /\ Waiting(t) \subseteq OfferedTo(t) => InSequence(queue'[t])
           /\ Waiting(t)' = Waiting(t) \/ (t = s /\ Waiting(t)' = Waiting(t) \cup {e})
    <2> SUFFICES ASSUME NEW t \in Consumer
                 PROVE  /\ InSequence(queue[t]) /\ Waiting(t) \subseteq OfferedTo(t)
                              => InSequence(queue'[t])
                        /\ Elements(queue'[t]) = Elements(queue[t])
                           \/ (t = s /\ Elements(queue'[t]) = Elements(queue[t]) \cup {e})
      BY DEF Waiting, Elements
    <2>1. queue[t] \in Seq(Event)
      BY OrderTypes
    <2>2. CASE queue'[t] = queue[t]
      BY <2>2
    <2>3. CASE t = s /\ queue'[t] = Append(queue[t], e)
      <3>1. Waiting(t) \subseteq OfferedTo(t) => AllFollow({e}, Elements(queue[t]) \ {Confirmation})
        BY <1>6, <2>3 DEF AllFollow, Waiting
      <3>2. /\ Elements(Append(queue[t], e)) = Elements(queue[t]) \cup {e}
            /\ InSequence(queue[t]) /\ AllFollow({e}, Elements(queue[t]) \ {Confirmation})
                  => InSequence(Append(queue[t], e))
        <4>1. queue[t] \in Seq(Event) /\ e \in Event
          BY <1>1, <2>1
        <4>2. ASSUME NEW q \in Seq(Event), NEW f \in Event
              PROVE  /\ Elements(Append(q, f)) = Elements(q) \cup {f}
                     /\ InSequence(q) /\ AllFollow({f}, Elements(q) \ {Confirmation})
                           => InSequence(Append(q, f))
          BY AppendInSequence, AppendElements
        <4> QED BY <4>1, <4>2
      <3> QED BY <2>3, <3>1, <3>2
    <2> QED BY <1>2, <2>2, <2>3
  <1>9. LoggerInOrder'
    <2>1. LoggerInOrder /\ "logger" \in Consumer
      BY OrderTypes DEF OrderInv
    <2>2. InSequence(queue["logger"])'
      BY <1>1, <1>7, <2>1 DEF LoggerInOrder, InSequence, MayFollow
    <2>3. AllFollow(Waiting("logger"), got["logger"])'
      BY <1>1, <1>6, <1>7, <2>1 DEF LoggerInOrder, AllFollow, MayFollow
    <2> QED BY <1>1, <1>5, <1>7, <2>1, <2>2, <2>3 DEF LoggerInOrder
  <1>10. BridgeInOrder'
    <2>1. BridgeInOrder /\ "bridge" \in Consumer
      BY OrderTypes DEF OrderInv
    <2>2. InSequence(queue["bridge"])'
      BY <1>1, <1>7, <2>1 DEF BridgeInOrder, InSequence, MayFollow
    <2>3. hand["bridge"] # NoEvent => AllFollow(Waiting("bridge"), {hand["bridge"]})'
      BY <1>1, <1>6, <1>7, <2>1 DEF BridgeInOrder, AllFollow, MayFollow
    <2> QED BY <1>1, <1>5, <1>7, <2>1, <2>2, <2>3 DEF BridgeInOrder
  <1>11. ASSUME NEW k \in Client
         PROVE  ClientInOrder(k)'
    <2>1. ClientInOrder(k) /\ Sending(k)' = Sending(k) /\ "bridge" \in Consumer
      BY <1>1, OrderTypes DEF OrderInv, Sending, Elements
    <2>2. InSequence(send[k])'
      BY <1>1, <2>1 DEF ClientInOrder, InSequence, MayFollow
    <2>3. /\ AllFollow(Sending(k), got[k])'
          /\ k \in todo \/ k = target => AllFollow({hand["bridge"]}, got[k] \cup Sending(k))'
      BY <1>1, <2>1 DEF ClientInOrder, AllFollow, MayFollow
    <2>4. AllFollow(Waiting("bridge"), got[k] \cup Sending(k))'
      BY <1>1, <1>6, <1>7, <2>1 DEF ClientInOrder, AllFollow, MayFollow
    <2> QED BY <1>1, <1>5, <2>1, <2>2, <2>3, <2>4 DEF ClientInOrder
  <1>12. \A f \in Event : prior'[f] \subseteq Published'
    BY <1>1, <1>4 DEF OrderInv
  <1> QED BY <1>1, <1>9, <1>10, <1>11, <1>12 DEF OrderInv

(* The logger takes the oldest event of its channel. *)
LEMMA LoggerTakesKeepsOrder ==
    ASSUME IInv, OrderInv, LoggerTakes
    PROVE  OrderInv'
  <1> DEFINE q == queue["logger"]
  <1>1. /\ UNCHANGED <<sent, publishing, send, prior, todo, target>>
        /\ hand'["bridge"] = hand["bridge"] /\ queue'["bridge"] = queue["bridge"]
        /\ q # <<>> /\ queue'["logger"] = Tail(q)
        /\ got'["logger"] = got["logger"] \cup {Head(q)}
        /\ \A k \in Client : got'[k] = got[k]
    BY NoneAssumption
       DEF LoggerTakes, Gets, broadcastVars, IInv, TypeOK, Consumer
  <1>2. Published' = Published /\ \A s : OfferedTo(s)' = OfferedTo(s)
    BY <1>1 DEF OfferedTo, Published
  <1>3. LoggerInOrder'
    <2>1. q \in Seq(Event) /\ Confirmation \notin Event /\ got["logger"] \subseteq Event
      BY OrderTypes
    <2>2. /\ InSequence(q) /\ AllFollow(Elements(q), got["logger"])
          /\ Elements(q) \cup got["logger"] \subseteq OfferedTo("logger")
      BY DEF OrderInv, LoggerInOrder, Waiting
    <2> HIDE DEF q
    <2>3. Elements(Tail(q)) \subseteq Elements(q) /\ Head(q) \in Elements(q) /\ InSequence(Tail(q))
      BY <1>1, <2>1, <2>2, TailInSequence
    <2>4. Elements(q) \subseteq Event
      BY <2>1 DEF Elements
    <2>5. AllFollow(Elements(Tail(q)) \ {Confirmation}, {Head(q)})
      BY <1>1, <2>1, <2>2, <2>3, <2>4, TailInSequence
    <2>6. AllFollow(Elements(Tail(q)), got["logger"] \cup {Head(q)})
      BY <2>1, <2>2, <2>3, <2>4, <2>5 DEF AllFollow
    <2>7. Waiting("logger")' = Elements(Tail(q))
      BY <1>1 DEF Waiting, Elements
    <2>8. AllFollow(Waiting("logger"), got["logger"])'
      BY <1>1, <2>6, <2>7 DEF AllFollow, MayFollow
    <2>9. InSequence(queue["logger"])'
      BY <1>1, <2>3 DEF InSequence, MayFollow
    <2> QED BY <1>1, <1>2, <2>2, <2>3, <2>7, <2>8, <2>9 DEF LoggerInOrder
  <1>4. BridgeInOrder'
    BY <1>1, <1>2 DEF OrderInv, BridgeInOrder, InSequence, AllFollow, MayFollow, Waiting, Elements
  <1>5. ASSUME NEW k \in Client PROVE ClientInOrder(k)'
    <2>1. ClientInOrder(k) /\ got'[k] = got[k]
      BY <1>1 DEF OrderInv
    <2> QED
      BY <1>1, <1>2, <2>1
         DEF ClientInOrder, InSequence, AllFollow, MayFollow, Waiting, Sending, Elements
  <1> QED BY <1>1, <1>2, <1>3, <1>4, <1>5 DEF OrderInv

(* The bridge takes the oldest event of its channel, which may follow all  *)
(* that the clients have been sent, ...                                    *)
LEMMA BroadcastBeginKeepsOrder ==
    ASSUME IInv, OrderInv, BroadcastBegin
    PROVE  OrderInv'
  <1> DEFINE q == queue["bridge"]
  <1>1. /\ UNCHANGED <<sent, publishing, send, prior, got, target>>
        /\ queue'["logger"] = queue["logger"]
        /\ target = NoClient /\ todo' \subseteq Client
        /\ q # <<>> /\ queue'["bridge"] = Tail(q) /\ hand'["bridge"] = Head(q)
    BY NoneAssumption DEF BroadcastBegin, Waits, IInv, TypeOK, HubHeld, Consumer
  <1>2. Published' = Published /\ \A s : OfferedTo(s)' = OfferedTo(s)
    BY <1>1 DEF OfferedTo, Published
  <1>3. LoggerInOrder'
    BY <1>1, <1>2 DEF OrderInv, LoggerInOrder, InSequence, AllFollow, MayFollow, Waiting, Elements
  <1>4. /\ InSequence(Tail(q)) /\ AllFollow(Elements(Tail(q)), {Head(q)})
        /\ Elements(Tail(q)) \subseteq Elements(q) /\ Head(q) \in Elements(q)
        /\ Elements(q) \subseteq OfferedTo("bridge")
    <2>1. q \in Seq(Event) /\ Confirmation \notin Event
      BY OrderTypes
    <2>2. InSequence(q) /\ Elements(q) \subseteq OfferedTo("bridge")
      BY DEF OrderInv, BridgeInOrder, Waiting
    <2> HIDE DEF q
    <2>3. Elements(Tail(q)) \subseteq Elements(q) /\ Head(q) \in Elements(q) /\ InSequence(Tail(q))
      BY <1>1, <2>1, <2>2, TailInSequence
    <2>4. Elements(q) \subseteq Event
      BY <2>1 DEF Elements
    <2>5. AllFollow(Elements(Tail(q)) \ {Confirmation}, {Head(q)})
      BY <1>1, <2>1, <2>2, <2>3, <2>4, TailInSequence
    <2>6. AllFollow(Elements(Tail(q)), {Head(q)})
      BY <2>1, <2>3, <2>4, <2>5 DEF AllFollow
    <2> QED BY <2>2, <2>3, <2>6
  <1>5. Waiting("bridge") = Elements(q)
    BY DEF Waiting
  <1>6. Waiting("bridge")' = Elements(Tail(q))
    BY <1>1 DEF Waiting, Elements
  <1> HIDE DEF q
  <1>7. BridgeInOrder'
    BY <1>1, <1>2, <1>4, <1>6 DEF BridgeInOrder, InSequence, AllFollow, MayFollow
  <1>8. ASSUME NEW k \in Client PROVE ClientInOrder(k)'
    <2>1. ClientInOrder(k) /\ Sending(k)' = Sending(k)
      BY <1>1 DEF OrderInv, Sending, Elements
    <2>2. InSequence(send[k])'
      BY <1>1, <2>1 DEF ClientInOrder, InSequence, MayFollow
    <2>3. /\ AllFollow(Sending(k), got[k])'
          /\ AllFollow(Waiting("bridge"), got[k] \cup Sending(k))'
          /\ AllFollow({hand["bridge"]}, got[k] \cup Sending(k))'
      BY <1>1, <1>4, <1>5, <1>6, <2>1 DEF ClientInOrder, AllFollow, MayFollow
    <2> QED BY <1>1, <1>2, <2>1, <2>2, <2>3 DEF ClientInOrder
  <1>9. target' \notin todo'
    BY <1>1, NoneAssumption
  <1> QED BY <1>1, <1>2, <1>3, <1>7, <1>8, <1>9 DEF OrderInv

(* ... and forgets it when there is no client left to visit.               *)
LEMMA BroadcastEndKeepsOrder ==
    ASSUME IInv, OrderInv, BroadcastEnd
    PROVE  OrderInv'
  <1>1. /\ UNCHANGED <<sent, publishing, send, prior, got, target, queue, todo>>
        /\ target = NoClient /\ todo = {} /\ hand'["bridge"] = NoEvent
    BY DEF BroadcastEnd, busVars, broadcastVars, IInv, TypeOK, Consumer
  <1>2. Published' = Published /\ \A s : OfferedTo(s)' = OfferedTo(s)
    BY <1>1 DEF OfferedTo, Published
  <1>3. LoggerInOrder' /\ BridgeInOrder'
    BY <1>1, <1>2 DEF OrderInv, LoggerInOrder, BridgeInOrder, InSequence, AllFollow, MayFollow,
                      Waiting, Elements
  <1>4. ASSUME NEW k \in Client PROVE ClientInOrder(k)'
    <2>1. ClientInOrder(k) /\ k \notin todo' /\ k # target'
      BY <1>1, NoneAssumption DEF OrderInv
    <2> QED
      BY <1>1, <1>2, <2>1
         DEF ClientInOrder, InSequence, AllFollow, MayFollow, Waiting, Sending, Elements
  <1> QED BY <1>1, <1>2, <1>3, <1>4 DEF OrderInv

LEMMA VisitKeepsOrder ==
    ASSUME IInv, OrderInv, NEW k \in Client, Visit(k)
    PROVE  OrderInv'
  <1>1. /\ UNCHANGED <<sent, publishing, queue, hand, send, prior, got>>
        /\ todo' = todo \ {k} /\ target' \in {k, NoClient} /\ k \in todo
    BY DEF Visit, busVars, consumerVars
  <1>2. Published' = Published /\ \A s : OfferedTo(s)' = OfferedTo(s)
    BY <1>1 DEF OfferedTo, Published
  <1>3. LoggerInOrder' /\ BridgeInOrder'
    BY <1>1, <1>2 DEF OrderInv, LoggerInOrder, BridgeInOrder, InSequence, AllFollow, MayFollow,
                      Waiting, Elements
  <1>4. ASSUME NEW j \in Client PROVE ClientInOrder(j)'
    <2>1. ClientInOrder(j) /\ (j \in todo' \/ j = target' => j \in todo)
      BY <1>1, NoneAssumption DEF OrderInv
    <2> QED
      BY <1>1, <1>2, <2>1
         DEF ClientInOrder, InSequence, AllFollow, MayFollow, Waiting, Sending, Elements
  <1>5. target' \notin todo'
    BY <1>1, NoneAssumption DEF IInv, TypeOK
  <1> QED BY <1>1, <1>2, <1>3, <1>4, <1>5 DEF OrderInv

(* What is sent is the event in hand, which may follow all the client was  *)
(* sent, and the client is visited no more.                                *)
LEMMA SendToKeepsOrder ==
    ASSUME IInv, OrderInv, NEW k \in Client, SendTo(k)
    PROVE  OrderInv'
  <1> DEFINE h == hand["bridge"]
             M == Event \cup {Confirmation}
  <1>1. /\ UNCHANGED <<sent, publishing, queue, hand, prior, got, todo>>
        /\ target = k /\ target' = NoClient /\ k \notin todo
        /\ \A j \in Client : j # k => send'[j] = send[j]
        /\ send'[k] = send[k] \/ send'[k] = Append(send[k], h)
    BY DEF SendTo, Sent, busVars, consumerVars, clientVars, OrderInv, IInv, TypeOK
  <1>2. Published' = Published /\ \A s : OfferedTo(s)' = OfferedTo(s)
    BY <1>1 DEF OfferedTo, Published
  <1>3. h \in Event /\ h # NoEvent /\ h # Confirmation
    BY <1>1, OrderTypes, NoneAssumption DEF IInv, HubHeld
  <1>4. LoggerInOrder' /\ BridgeInOrder'
    BY <1>1, <1>2 DEF OrderInv, LoggerInOrder, BridgeInOrder, InSequence, AllFollow, MayFollow,
                      Waiting, Elements
  <1>5. ASSUME NEW j \in Client, send'[j] = send[j]
        PROVE  ClientInOrder(j)'
    <2>1. ClientInOrder(j) /\ j # target'
      BY <1>1, NoneAssumption DEF OrderInv
    <2> QED
      BY <1>1, <1>2, <1>5, <2>1
         DEF ClientInOrder, InSequence, AllFollow, MayFollow, Waiting, Sending, Elements
  <1>6. ASSUME send'[k] = Append(send[k], h)
        PROVE  ClientInOrder(k)'
    <2>1. /\ ClientInOrder(k) /\ AllFollow({h}, got[k] \cup Sending(k))
          /\ AllFollow(Waiting("bridge"), {h}) /\ h \in OfferedTo("bridge")
      BY <1>1, <1>3 DEF OrderInv, ClientInOrder, BridgeInOrder
    <2>2. send[k] \in Seq(M) /\ h \in M
      BY <1>3, OrderTypes
    <2> HIDE DEF h, M
    <2>3. InSequence(Append(send[k], h))
      <3>1. InSequence(send[k]) /\ AllFollow({h}, Elements(send[k]) \ {Confirmation})
        BY <2>1 DEF ClientInOrder, AllFollow, Sending
      <3>2. ASSUME NEW q \in Seq(M), NEW e \in M, InSequence(q),
                   AllFollow({e}, Elements(q) \ {Confirmation})
            PROVE  InSequence(Append(q, e))
        BY <3>2, AppendInSequence
      <3> QED BY <2>2, <3>1, <3>2
    <2>4. Sending(k)' = Sending(k) \cup {h}
      <3>1. \A x : x \in Elements(Append(send[k], h)) <=> x \in Elements(send[k]) \/ x = h
        BY <2>2, AppendElements
      <3>2. Sending(k)' = Elements(send'[k]) \ {Confirmation}
        BY DEF Sending, Elements
      <3> QED BY <1>3, <1>6, <3>1, <3>2 DEF Sending
    <2>5. Waiting("bridge")' = Waiting("bridge")
      BY <1>1 DEF Waiting, Elements
    <2>6. InSequence(send[k])'
      BY <1>1, <1>6, <2>3 DEF InSequence, MayFollow
    <2>7. /\ AllFollow(Sending(k), got[k])'
          /\ AllFollow(Waiting("bridge"), got[k] \cup Sending(k))'
      BY <1>1, <2>1, <2>4, <2>5 DEF ClientInOrder, AllFollow, MayFollow
    <2>8. k \notin todo' /\ k # target'
      BY <1>1, NoneAssumption
    <2> QED BY <1>1, <1>2, <2>1, <2>4, <2>6, <2>7, <2>8 DEF ClientInOrder
  <1>7. target' \notin todo'
    BY <1>1, NoneAssumption DEF IInv, TypeOK
  <1> QED BY <1>1, <1>2, <1>4, <1>5, <1>6, <1>7 DEF OrderInv

(* What a client's own goroutines do to its channel: a confirmation is no  *)
(* event; the writer takes the oldest message.                             *)
LEMMA ClientKeepsOrder ==
    ASSUME IInv, OrderInv, NEW k \in Client, Confirm(k) \/ Write(k) \/ WriteFails(k)
    PROVE  OrderInv'
  <1> DEFINE M == Event \cup {Confirmation}
             q == send[k]
  <1>1. /\ UNCHANGED <<sent, publishing, queue, hand, prior, todo, target>>
        /\ got'["logger"] = got["logger"]
        /\ \A j \in Client \ {k} : send'[j] = send[j] /\ got'[j] = got[j]
    BY NoneAssumption
       DEF Confirm, Write, WriteFails, Gets, busVars, consumerVars, broadcastVars, IInv, TypeOK
  <1>2. Published' = Published /\ \A s : OfferedTo(s)' = OfferedTo(s)
    BY <1>1 DEF OfferedTo, Published
  <1>3. LoggerInOrder' /\ BridgeInOrder'
    BY <1>1, <1>2 DEF OrderInv, LoggerInOrder, BridgeInOrder, InSequence, AllFollow, MayFollow,
                      Waiting, Elements
  <1>4. Waiting("bridge")' = Waiting("bridge")
    BY <1>1 DEF Waiting, Elements
  <1>5. ASSUME NEW j \in Client, send'[j] = send[j], got'[j] = got[j]
        PROVE  ClientInOrder(j)'
    <2>1. ClientInOrder(j) /\ Sending(j)' = Sending(j)
      BY <1>5 DEF OrderInv, Sending, Elements
    <2> QED
      BY <1>1, <1>2, <1>4, <1>5, <2>1 DEF ClientInOrder, InSequence, AllFollow, MayFollow
  <1>6. ClientInOrder(k) /\ q \in Seq(M) /\ got[k] \subseteq Event /\ Confirmation \notin Event
    BY OrderTypes DEF OrderInv
  <1>7. Sending(k)' = Elements(send'[k]) \ {Confirmation}
    BY DEF Sending, Elements
  <1>8. ASSUME Confirm(k)
        PROVE  ClientInOrder(k)'
    <2>1. send'[k] = Append(q, Confirmation) /\ got' = got
      BY <1>8 DEF Confirm, IInv, TypeOK
    <2>2. Confirmation \in M /\ InSequence(q) /\ Sending(k) = Elements(q) \ {Confirmation}
      BY <1>6 DEF ClientInOrder, Sending
    <2> HIDE DEF M, q
    <2>3. Sending(k)' = Sending(k)
      <3>1. \A x : x \in Elements(Append(q, Confirmation)) <=> x \in Elements(q) \/ x = Confirmation
        BY <1>6, <2>2, AppendElements
      <3> QED BY <1>7, <2>1, <2>2, <3>1
    <2>4. InSequence(send'[k])
      BY <1>6, <2>1, <2>2, AppendInSequence
    <2>5. InSequence(send[k])'
      BY <1>1, <2>4 DEF InSequence, MayFollow
    <2>6. /\ AllFollow(Sending(k), got[k])'
          /\ AllFollow(Waiting("bridge"), got[k] \cup Sending(k))'
          /\ k \in todo \/ k = target => AllFollow({hand["bridge"]}, got[k] \cup Sending(k))'
      BY <1>1, <1>4, <1>6, <2>1, <2>3 DEF ClientInOrder, AllFollow, MayFollow
    <2>7. got'[k] \cup Sending(k)' \subseteq OfferedTo("bridge")'
      BY <1>2, <1>6, <2>1, <2>3 DEF ClientInOrder
    <2>8. k \in todo' \/ k = target' => k \in todo \/ k = target
      BY <1>1
    <2> QED BY <2>5, <2>6, <2>7, <2>8 DEF ClientInOrder
  <1>9. ASSUME send'[k] = Tail(q) /\ q # <<>> /\ got' = got
        PROVE  ClientInOrder(k)'
    <2>1. InSequence(q) /\ Sending(k) = Elements(q) \ {Confirmation}
      BY <1>6 DEF ClientInOrder, Sending
    <2> HIDE DEF M, q
    <2>2. InSequence(send'[k]) /\ Sending(k)' \subseteq Sending(k)
      BY <1>6, <1>7, <1>9, <2>1, TailInSequence
    <2>3. InSequence(send[k])'
      BY <1>1, <2>2 DEF InSequence, MayFollow
    <2>4. /\ AllFollow(Sending(k), got[k])'
          /\ AllFollow(Waiting("bridge"), got[k] \cup Sending(k))'
          /\ k \in todo \/ k = target => AllFollow({hand["bridge"]}, got[k] \cup Sending(k))'
      BY <1>1, <1>4, <1>6, <1>9, <2>2 DEF ClientInOrder, AllFollow, MayFollow
    <2>5. got'[k] \cup Sending(k)' \subseteq OfferedTo("bridge")'
      BY <1>2, <1>6, <1>9, <2>2 DEF ClientInOrder
    <2>6. k \in todo' \/ k = target' => k \in todo \/ k = target
      BY <1>1
    <2> QED BY <2>3, <2>4, <2>5, <2>6 DEF ClientInOrder
  <1>10. ASSUME Write(k) /\ Head(q) # Confirmation
         PROVE  ClientInOrder(k)'
    <2>1. send'[k] = Tail(q) /\ q # <<>> /\ got'[k] = got[k] \cup {Head(q)}
      BY <1>10 DEF Write, Gets, IInv, TypeOK
    <2>2. InSequence(q) /\ Sending(k) = Elements(q) \ {Confirmation}
      BY <1>6 DEF ClientInOrder, Sending
    <2>3. Head(q) # Confirmation
      BY <1>10
    <2> HIDE DEF M, q
    <2>4. InSequence(send'[k]) /\ Sending(k)' \subseteq Sending(k) /\ Head(q) \in Sending(k)
      BY <1>6, <1>7, <2>1, <2>2, <2>3, TailInSequence
    <2>5. AllFollow(Sending(k)', {Head(q)})
      BY <1>6, <1>7, <2>1, <2>2, <2>3, TailInSequence
    <2>6. InSequence(send[k])'
      BY <1>1, <2>4 DEF InSequence, MayFollow
    <2>7. got'[k] \cup Sending(k)' \subseteq got[k] \cup Sending(k)
      BY <2>1, <2>4
    <2>8. AllFollow(Sending(k), got[k])'
      BY <1>1, <1>6, <2>1, <2>4, <2>5 DEF ClientInOrder, AllFollow, MayFollow
    <2>9. /\ AllFollow(Waiting("bridge"), got[k] \cup Sending(k))'
          /\ k \in todo \/ k = target => AllFollow({hand["bridge"]}, got[k] \cup Sending(k))'
      BY <1>1, <1>4, <1>6, <2>7 DEF ClientInOrder, AllFollow, MayFollow
    <2>10. got'[k] \cup Sending(k)' \subseteq OfferedTo("bridge")'
      BY <1>2, <1>6, <2>7 DEF ClientInOrder
    <2>11. k \in todo' \/ k = target' => k \in todo \/ k = target
      BY <1>1
    <2> QED BY <2>6, <2>8, <2>9, <2>10, <2>11 DEF ClientInOrder
  <1>11. \/ Confirm(k)
         \/ send'[k] = Tail(q) /\ q # <<>> /\ got' = got
         \/ Write(k) /\ Head(q) # Confirmation
         \/ send'[k] = q /\ got' = got
    BY DEF Write, WriteFails, IInv, TypeOK
  <1>12. ClientInOrder(k)'
    <2>1. send'[k] = q /\ got' = got => ClientInOrder(k)'
      BY <1>5 DEF q
    <2> QED BY <1>8, <1>9, <1>10, <1>11, <2>1
  <1> QED BY <1>1, <1>2, <1>3, <1>5, <1>12 DEF OrderInv

LEMMA InitOrder == Init => OrderInv
  <1> SUFFICES ASSUME Init PROVE OrderInv
    OBVIOUS
  <1>1. /\ queue["logger"] = <<>> /\ queue["bridge"] = <<>> /\ hand["bridge"] = NoEvent
        /\ got["logger"] = {}
        /\ \A k \in Client : send[k] = <<>> /\ got[k] = {}
        /\ \A e \in Event : prior[e] = {}
        /\ todo = {} /\ target = NoClient
    BY DEF Init, Consumer
  <1>2. InSequence(<<>>) /\ Elements(<<>>) = {}
    BY DEF InSequence, Elements
  <1>3. Waiting("logger") = {} /\ Waiting("bridge") = {} /\ \A k \in Client : Sending(k) = {}
    BY <1>1, <1>2 DEF Waiting, Sending
  <1> QED
    BY <1>1, <1>2, <1>3, NoneAssumption
       DEF OrderInv, LoggerInOrder, BridgeInOrder, ClientInOrder, AllFollow

LEMMA NextOrder == IInv /\ OrderInv /\ [Next]_vars => OrderInv'
  <1> SUFFICES ASSUME IInv, OrderInv, [Next]_vars PROVE OrderInv'
    OBVIOUS
  <1> USE DEF busVars, consumerVars, broadcastVars, clientVars
  <1>1. ASSUME NEW p \in Publisher, PublisherStep(p)
        PROVE  OrderInv'
    BY <1>1, PublishKeepsOrder, OfferKeepsOrder DEF PublisherStep, Running
  <1>2. CASE ShutdownStep
    BY <1>2, QuietKeepsOrder DEF ShutdownStep, Running, Close, StopConsumer
  <1>3. CASE LoggerStep
    <2>1. LoggerPersists => hand'["bridge"] = hand["bridge"]
      BY DEF LoggerPersists, IInv, TypeOK, Consumer
    <2> QED BY <1>3, <2>1, LoggerTakesKeepsOrder, QuietKeepsOrder
            DEF LoggerStep, Running, ConsumerEnds, LoggerPersists
  <1>4. CASE BridgeStep
    BY <1>4, BroadcastBeginKeepsOrder, BroadcastEndKeepsOrder, VisitKeepsOrder, SendToKeepsOrder,
       QuietKeepsOrder DEF BridgeStep, Running, ConsumerEnds
  <1>5. ASSUME NEW k \in Client, PeerStep(k)
        PROVE  OrderInv'
    BY <1>5, QuietKeepsOrder DEF PeerStep, Running, Connect, Receive, ReadFails
  <1>6. ASSUME NEW k \in Client, ReaderStep(k)
        PROVE  OrderInv'
    BY <1>6, ClientKeepsOrder, QuietKeepsOrder
       DEF ReaderStep, Running, Assign, ConfirmDropped, Unregister
  <1>7. ASSUME NEW k \in Client, WriterStep(k)
        PROVE  OrderInv'
    BY <1>7, ClientKeepsOrder, QuietKeepsOrder DEF WriterStep, Running, WriterEnds
  <1>8. ASSUME NEW k \in Client, VisitTorn(k)
        PROVE  OrderInv'
    BY <1>8, QuietKeepsOrder DEF VisitTorn
  <1>9. CASE UNCHANGED vars
    BY <1>9, QuietKeepsOrder DEF vars
  <1> QED BY <1>1, <1>2, <1>3, <1>4, <1>5, <1>6, <1>7, <1>8, <1>9 DEF Next

(* Nobody gets an event after one that was begun when its publication had  *)
(* returned, and nobody gets an event twice, however many goroutines       *)
(* publish and whatever is dropped on the way (events.go:53-67,            *)
(* hub.go:83-96, client.go:123-163).                                       *)
THEOREM InOrderHolds == Spec => []InOrder
  <1>1. IInv /\ OrderInv => InOrder
    <2> SUFFICES ASSUME IInv, OrderInv PROVE InOrder
      OBVIOUS
    <2>1. ASSUME NEW q, NEW received, InSequence(q),
                 AllFollow(Elements(q) \ {Confirmation}, received)
          PROVE  Follows(received, q)
      BY <2>1 DEF Follows, InSequence, AllFollow, Elements
    <2>2. InSequence(queue["logger"])
          /\ AllFollow(Elements(queue["logger"]) \ {Confirmation}, got["logger"])
      BY DEF OrderInv, LoggerInOrder, Waiting, AllFollow
    <2>3. \A k \in Client :
             InSequence(send[k]) /\ AllFollow(Elements(send[k]) \ {Confirmation}, got[k])
      BY DEF OrderInv, ClientInOrder, Sending
    <2> QED BY <2>1, <2>2, <2>3 DEF InOrder
  <1> QED BY <1>1, DeliveryInvariant, InitOrder, NextOrder, PTL DEF Spec
=============================================================================
