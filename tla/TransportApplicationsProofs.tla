--------------------- MODULE TransportApplicationsProofs ---------------------
(***************************************************************************)
(* Proofs about the example applications, for every number of              *)
(* connections, payloads and threads, every queue capacity and every limit *)
(* on what is retained: a retained lease has exactly one holder until it   *)
(* is disposed (IInv), a broadcast reaches every open peer of its snapshot *)
(* once (PushInv), and replies come in the order of the payloads they      *)
(* answer (OrderInv).                                                      *)
(***************************************************************************)
EXTENDS TransportApplications, FiniteSetTheorems, SequenceTheorems, TLAPS

Writes == [n : Nat, lease : SUBSET (Connections \X Nat)]

\* The part of the type invariant that ownership rests on.
Types ==
    /\ arrived \in [Connections -> Nat]
    /\ offer \in [Connections -> ReceivedRequests \cup {NONE}]
    /\ queue \in Seq(ReceivedRequests)
    /\ processor \in [at : {"waiting", "handling", "ending", "finished", "faulted"},
                      request : ReceivedRequests \cup {NONE}]
    /\ writes \in [Connections -> Seq(Writes)]
    /\ \A c \in Connections : \A i \in DOMAIN writes[c] : writes[c][i].lease \subseteq {c} \X Nat
    /\ held \subseteq Connections \X Nat

\* A callback's request is its own connection's; the processor has one exactly
\* while it works.
RequestsPlaced ==
    /\ \A c \in Connections : offer[c] # NONE => offer[c].c = c
    /\ processor.at \in {"handling", "ending"} <=> processor.request # NONE

\* Leases are numbered in the order of arrival, so the next one is new.
HeldArrived == \A l \in held : l[2] <= arrived[l[1]]

\* The four places of a lease.
Offers(l) == offer[l[1]] # NONE /\ l \in LeaseOf(offer[l[1]])
Queued(l, i) == i \in DOMAIN queue /\ l \in LeaseOf(queue[i])
Processed(l) == processor.request # NONE /\ l \in LeaseOf(processor.request)
Lent(l, i) == i \in DOMAIN writes[l[1]] /\ l \in writes[l[1]][i].lease

\* A lease is held while it is in one of its places ...
HeldSomewhere(l) ==
    l \in held <=> \/ Offers(l) \/ Processed(l)
                   \/ \E i \in Nat : Queued(l, i) \/ Lent(l, i)

\* ... and in no two of them.
OnePlace(l) ==
    /\ Offers(l) => ~Processed(l) /\ \A i \in Nat : ~Queued(l, i) /\ ~Lent(l, i)
    /\ Processed(l) => \A i \in Nat : ~Queued(l, i) /\ ~Lent(l, i)
    /\ \A i, j \in Nat : Queued(l, i) => ~Lent(l, j)
    /\ \A i, j \in Nat : Queued(l, i) /\ Queued(l, j) => i = j
    /\ \A i, j \in Nat : Lent(l, i) /\ Lent(l, j) => i = j

Owned == \A l \in Connections \X Nat : HeldSomewhere(l) /\ OnePlace(l)

IInv == Types /\ RequestsPlaced /\ HeldArrived /\ Owned

USE ApplicationAssumption

-----------------------------------------------------------------------------
LEMMA InitOwns == Init => IInv
<1> SUFFICES ASSUME Init PROVE IInv
  OBVIOUS
<1>1. Types
  BY DEF Init, Types, ReceivedRequests
<1>2. RequestsPlaced /\ HeldArrived
  BY DEF Init, RequestsPlaced, HeldArrived
<1>3. Owned
  BY DEF Init, Owned, HeldSomewhere, OnePlace, Offers, Queued, Processed, Lent
<1>. QED  BY <1>1, <1>2, <1>3 DEF IInv

\* The places of a lease are all that its ownership depends on.
LEMMA OwnersUnchanged ==
    ASSUME IInv,
           UNCHANGED <<arrived, held, offer, queue, processor, writes>>
    PROVE  IInv'
  BY DEF IInv, Types, RequestsPlaced, HeldArrived, Owned, HeldSomewhere, OnePlace,
         Offers, Queued, Processed, Lent, LeaseOf

LEMMA DispatchReceivesOwns ==
    ASSUME IInv, NEW c \in Connections, DispatchReceives(c)
    PROVE  IInv'
<1>1. PICK payload, completed \in BOOLEAN, retained \in MayRetain :
          /\ Receives(c, payload, completed)
          /\ offer' = [offer EXCEPT ![c] = Request(c, payload, retained, completed)]
          /\ held' = held \cup LeaseOf(Request(c, payload, retained, completed))
  BY DEF DispatchReceives
<1> DEFINE request == Request(c, payload, retained, completed)
           fresh == <<c, arrived[c] + 1>>
<1>2. UNCHANGED <<queue, processor, writes>>
  BY DEF DispatchReceives
<1>3. Types /\ RequestsPlaced /\ HeldArrived /\ Owned
  BY DEF IInv
<1>4. retained \in BOOLEAN
  BY DEF MayRetain
<1>5. request \in ReceivedRequests /\ request # NONE /\ request.c = c
  BY <1>3, <1>4 DEF Request, ReceivedRequests, Types
<1>6. LeaseOf(request) = IF payload /\ retained THEN {fresh} ELSE {}
  BY DEF Request, LeaseOf
<1>7. fresh \in Connections \X Nat /\ fresh \notin held
  BY <1>3 DEF Types, HeldArrived
<1>8. offer[c] = NONE
  BY <1>1 DEF Receives
<1>9. /\ arrived' \in [Connections -> Nat]
      /\ \A d \in Connections : arrived[d] <= arrived'[d]
      /\ payload => arrived'[c] = arrived[c] + 1
  BY <1>1, <1>3 DEF Receives, Types
<1> HIDE DEF request, fresh
<1>10. Types'
  BY <1>1, <1>2, <1>3, <1>5, <1>6, <1>7, <1>9 DEF Types, request
<1>11. RequestsPlaced'
  BY <1>1, <1>2, <1>3, <1>5 DEF Types, RequestsPlaced, request
<1>12. HeldArrived'
  <2> SUFFICES ASSUME NEW l \in held' PROVE l[2] <= arrived'[l[1]]
    BY DEF HeldArrived
  <2>1. CASE l \in held
    BY <2>1, <1>3, <1>9 DEF HeldArrived, Types
  <2>2. CASE l \notin held
    <3>1. payload /\ l = fresh
      BY <2>2, <1>1, <1>6 DEF request
    <3>. QED  BY <3>1, <1>9, <1>3 DEF fresh, Types
  <2>. QED  BY <2>1, <2>2
<1>13. Owned'
  <2> SUFFICES ASSUME NEW l \in Connections \X Nat PROVE HeldSomewhere(l)' /\ OnePlace(l)'
    BY DEF Owned
  <2>1. HeldSomewhere(l) /\ OnePlace(l)
    BY <1>3 DEF Owned
  <2>2. /\ Processed(l)' <=> Processed(l)
        /\ \A i \in Nat : (Queued(l, i)' <=> Queued(l, i)) /\ (Lent(l, i)' <=> Lent(l, i))
    BY <1>2 DEF Processed, Queued, Lent
  <2>3. Offers(l)' <=> Offers(l) \/ l \in LeaseOf(request)
    <3>1. CASE l[1] = c
      BY <3>1, <1>1, <1>3, <1>5, <1>8 DEF Offers, Types, request
    <3>2. CASE l[1] # c
      <4>1. offer'[l[1]] = offer[l[1]]
        BY <3>2, <1>1, <1>3 DEF Types
      <4>2. l \notin LeaseOf(request)
        BY <3>2, <1>6 DEF fresh
      <4>. QED  BY <4>1, <4>2 DEF Offers
    <3>. QED  BY <3>1, <3>2
  <2>4. l \in held' <=> l \in held \/ l \in LeaseOf(request)
    BY <1>1 DEF request
  <2>5. l \in LeaseOf(request) => l \notin held
    BY <1>6, <1>7
  <2>. QED  BY <2>1, <2>2, <2>3, <2>4, <2>5 DEF HeldSomewhere, OnePlace
<1>. QED  BY <1>10, <1>11, <1>12, <1>13 DEF IInv

\* From the callback to the end of the queue.
LEMMA OfferedOwns ==
    ASSUME IInv, NEW c \in Connections, Offered(c)
    PROVE  IInv'
<1>1. /\ offer[c] # NONE
      /\ queue' = Append(queue, offer[c])
      /\ offer' = [offer EXCEPT ![c] = NONE]
      /\ UNCHANGED <<arrived, held, processor, writes>>
  BY DEF Offered, engine
<1>2. Types /\ RequestsPlaced /\ HeldArrived /\ Owned
  BY DEF IInv
<1>3. offer[c] \in ReceivedRequests /\ offer[c].c = c
  BY <1>1, <1>2 DEF Types, RequestsPlaced
<1>4. Types' /\ RequestsPlaced' /\ HeldArrived'
  BY <1>1, <1>2, <1>3 DEF Types, RequestsPlaced, HeldArrived
<1>5. Owned'
  <2> SUFFICES ASSUME NEW l \in Connections \X Nat PROVE HeldSomewhere(l)' /\ OnePlace(l)'
    BY DEF Owned
  <2> DEFINE moved == l \in LeaseOf(offer[c])
             last == Len(queue) + 1
  <2>1. HeldSomewhere(l) /\ OnePlace(l)
    BY <1>2 DEF Owned
  <2>2. moved => l[1] = c
    BY <1>3 DEF LeaseOf
  <2>3. Offers(l)' <=> Offers(l) /\ ~moved
    <3>1. CASE l[1] = c
      BY <3>1, <1>1, <1>2 DEF Offers, Types
    <3>2. CASE l[1] # c
      BY <3>2, <2>2, <1>1, <1>2 DEF Offers, Types
    <3>. QED  BY <3>1, <3>2
  <2>4. moved => Offers(l)
    BY <1>1, <2>2 DEF Offers
  <2>5. \A i \in Nat : Queued(l, i)' <=> Queued(l, i) \/ (moved /\ i = last)
    <3>1. /\ DOMAIN queue = 1..Len(queue) /\ Len(queue) \in Nat
          /\ DOMAIN queue' = 1..last
          /\ \A i \in 1..Len(queue) : queue'[i] = queue[i]
          /\ queue'[last] = offer[c]
      BY <1>1, <1>2, <1>3 DEF Types
    <3>. QED  BY <3>1 DEF Queued, LeaseOf
  <2>6. last \in Nat
    BY <1>2 DEF Types
  <2>7. /\ Processed(l)' <=> Processed(l)
        /\ l \in held' <=> l \in held
        /\ \A i \in Nat : Lent(l, i)' <=> Lent(l, i)
    BY <1>1 DEF Processed, Lent
  <2> HIDE DEF moved, last
  <2>. QED  BY <2>1, <2>3, <2>4, <2>5, <2>6, <2>7 DEF HeldSomewhere, OnePlace
<1>. QED  BY <1>4, <1>5 DEF IInv

\* A refused request goes with its lease.
LEMMA RefusedOwns ==
    ASSUME IInv, NEW c \in Connections, Refused(c)
    PROVE  IInv'
<1>1. /\ offer[c] # NONE
      /\ held' = held \ LeaseOf(offer[c])
      /\ offer' = [offer EXCEPT ![c] = NONE]
      /\ UNCHANGED <<arrived, queue, processor, writes>>
  BY DEF Refused
<1>2. Types /\ RequestsPlaced /\ HeldArrived /\ Owned
  BY DEF IInv
<1>3. offer[c] \in ReceivedRequests /\ offer[c].c = c
  BY <1>1, <1>2 DEF Types, RequestsPlaced
<1>4. Types' /\ RequestsPlaced' /\ HeldArrived'
  BY <1>1, <1>2 DEF Types, RequestsPlaced, HeldArrived
<1>5. Owned'
  <2> SUFFICES ASSUME NEW l \in Connections \X Nat PROVE HeldSomewhere(l)' /\ OnePlace(l)'
    BY DEF Owned
  <2> DEFINE returned == l \in LeaseOf(offer[c])
  <2>1. HeldSomewhere(l) /\ OnePlace(l)
    BY <1>2 DEF Owned
  <2>2. returned => l[1] = c /\ Offers(l)
    BY <1>1, <1>3 DEF LeaseOf, Offers
  <2>3. Offers(l)' <=> Offers(l) /\ ~returned
    <3>1. CASE l[1] = c
      BY <3>1, <1>1, <1>2 DEF Offers, Types
    <3>2. CASE l[1] # c
      BY <3>2, <2>2, <1>1, <1>2 DEF Offers, Types
    <3>. QED  BY <3>1, <3>2
  <2>4. l \in held' <=> l \in held /\ ~returned
    BY <1>1
  <2>5. /\ Processed(l)' <=> Processed(l)
        /\ \A i \in Nat : (Queued(l, i)' <=> Queued(l, i)) /\ (Lent(l, i)' <=> Lent(l, i))
    BY <1>1 DEF Processed, Queued, Lent
  <2> HIDE DEF returned
  <2>. QED  BY <2>1, <2>2, <2>3, <2>4, <2>5 DEF HeldSomewhere, OnePlace
<1>. QED  BY <1>4, <1>5 DEF IInv

\* From the head of the queue to the processor.
LEMMA TakesRequestOwns ==
    ASSUME IInv, TakesRequest
    PROVE  IInv'
<1>1. /\ processor.at = "waiting" /\ queue # <<>>
      /\ queue' = Tail(queue)
      /\ processor' \in {[at |-> at, request |-> Head(queue)] : at \in {"handling", "ending"}}
      /\ UNCHANGED <<arrived, held, offer, writes>>
  BY DEF TakesRequest, At, engine
<1>2. Types /\ RequestsPlaced /\ HeldArrived /\ Owned
  BY DEF IInv
<1>3. /\ DOMAIN queue = 1..Len(queue) /\ Len(queue) \in Nat \ {0}
      /\ DOMAIN queue' = 1..(Len(queue) - 1)
      /\ \A i \in 1..(Len(queue) - 1) : queue'[i] = queue[i + 1]
      /\ Head(queue) = queue[1] /\ Head(queue) \in ReceivedRequests
      /\ queue' \in Seq(ReceivedRequests)
  BY <1>1, <1>2 DEF Types
<1>4. Head(queue) # NONE
  BY <1>3
<1>5. /\ processor.request = NONE
      /\ processor'.request = Head(queue) /\ processor'.at \in {"handling", "ending"}
  BY <1>1, <1>2 DEF RequestsPlaced, Types
<1>6. Types'
  BY <1>1, <1>2, <1>3 DEF Types
<1>7. RequestsPlaced' /\ HeldArrived'
  BY <1>1, <1>2, <1>4, <1>5 DEF RequestsPlaced, HeldArrived
<1>8. Owned'
  <2> SUFFICES ASSUME NEW l \in Connections \X Nat PROVE HeldSomewhere(l)' /\ OnePlace(l)'
    BY DEF Owned
  <2>1. HeldSomewhere(l) /\ OnePlace(l)
    BY <1>2 DEF Owned
  <2>2. ~Processed(l) /\ (Processed(l)' <=> Queued(l, 1))
    BY <1>3, <1>4, <1>5 DEF Processed, Queued, LeaseOf
  <2>3. \A i \in Nat : Queued(l, i)' <=> i > 0 /\ Queued(l, i + 1)
    BY <1>3 DEF Queued, LeaseOf
  <2>4. ~Queued(l, 0)
    BY <1>3 DEF Queued
  <2>5. /\ Offers(l)' <=> Offers(l)
        /\ l \in held' <=> l \in held
        /\ \A i \in Nat : Lent(l, i)' <=> Lent(l, i)
    BY <1>1 DEF Offers, Lent
  <2>6. HeldSomewhere(l)'
    <3>1. (\E i \in Nat : Queued(l, i)) <=> Queued(l, 1) \/ \E i \in Nat : Queued(l, i)'
      <4>1. ASSUME NEW i \in Nat, Queued(l, i), i # 1 PROVE \E j \in Nat : Queued(l, j)'
        <5>1. i - 1 \in Nat /\ i - 1 > 0 /\ (i - 1) + 1 = i
          BY <4>1, <2>4
        <5>2. Queued(l, i - 1)'
          BY <5>1, <4>1, <2>3
        <5>. QED  BY <5>1, <5>2
      <4>2. ASSUME NEW i \in Nat, Queued(l, i)' PROVE \E j \in Nat : Queued(l, j)
        BY <4>2, <2>3
      <4>. QED  BY <4>1, <4>2
    <3>. QED  BY <3>1, <2>1, <2>2, <2>5 DEF HeldSomewhere
  <2>7. OnePlace(l)'
    <3>1. \A i \in Nat : Queued(l, i)' => Queued(l, i + 1) /\ i + 1 \in Nat /\ i + 1 # 1
      BY <2>3
    <3>2. \A i, j \in Nat : Queued(l, i)' /\ Queued(l, j)' => i = j
      <4> SUFFICES ASSUME NEW i \in Nat, NEW j \in Nat, Queued(l, i)', Queued(l, j)' PROVE i = j
        OBVIOUS
      <4>1. i + 1 = j + 1
        BY <3>1, <2>1 DEF OnePlace
      <4>. QED  BY <4>1
    <3>. QED  BY <3>1, <3>2, <2>1, <2>2, <2>5 DEF OnePlace
  <2>. QED  BY <2>6, <2>7
<1>. QED  BY <1>6, <1>7, <1>8 DEF IInv

\* Disposing the processor's request, whatever it does next.
LEMMA DisposedRequestOwns ==
    ASSUME IInv, processor.request # NONE,
           held' = held \ LeaseOf(processor.request),
           processor' \in {[at |-> at, request |-> NONE] : at \in {"waiting", "faulted"}},
           UNCHANGED <<arrived, offer, queue, writes>>
    PROVE  IInv'
<1>1. Types /\ RequestsPlaced /\ HeldArrived /\ Owned
  BY DEF IInv
<1>2. processor'.request = NONE /\ processor'.at \in {"waiting", "faulted"}
  OBVIOUS
<1>3. Types' /\ RequestsPlaced' /\ HeldArrived'
  BY <1>1, <1>2 DEF Types, RequestsPlaced, HeldArrived
<1>4. Owned'
  <2> SUFFICES ASSUME NEW l \in Connections \X Nat PROVE HeldSomewhere(l)' /\ OnePlace(l)'
    BY DEF Owned
  <2>1. HeldSomewhere(l) /\ OnePlace(l)
    BY <1>1 DEF Owned
  <2>2. ~Processed(l)' /\ (l \in held' <=> l \in held /\ ~Processed(l))
    BY <1>2 DEF Processed
  <2>3. /\ Offers(l)' <=> Offers(l)
        /\ \A i \in Nat : (Queued(l, i)' <=> Queued(l, i)) /\ (Lent(l, i)' <=> Lent(l, i))
    BY DEF Offers, Queued, Lent
  <2>. QED  BY <2>1, <2>2, <2>3 DEF HeldSomewhere, OnePlace
<1>. QED  BY <1>3, <1>4 DEF IInv

\* The processor between the disposals; a response is copied into its write.
LEMMA RespondsOwns ==
    ASSUME IInv, Responds
    PROVE  IInv'
<1> DEFINE c == processor.request.c
           write == Write(processor.request.n, {})
<1>1. /\ processor.at = "handling"
      /\ writes' = [writes EXCEPT ![c] = Append(@, write)]
      /\ processor' = [at |-> "ending", request |-> processor.request]
      /\ UNCHANGED <<arrived, held, offer, queue>>
  BY DEF Responds, At
<1>2. Types /\ RequestsPlaced /\ HeldArrived /\ Owned
  BY DEF IInv
<1>3. processor.request \in ReceivedRequests
  BY <1>1, <1>2 DEF Types, RequestsPlaced
<1>4. c \in Connections /\ write \in Writes /\ write.lease = {}
  BY <1>3 DEF ReceivedRequests, Write, Writes
<1> HIDE DEF c, write
<1>5. processor'.request = processor.request /\ processor'.at = "ending"
  BY <1>1
<1>6. Types'
  BY <1>1, <1>2, <1>3, <1>4 DEF Types
<1>7. RequestsPlaced' /\ HeldArrived'
  BY <1>1, <1>2, <1>5 DEF RequestsPlaced, HeldArrived
<1>8. Owned'
  <2> SUFFICES ASSUME NEW l \in Connections \X Nat PROVE HeldSomewhere(l)' /\ OnePlace(l)'
    BY DEF Owned
  <2>1. HeldSomewhere(l) /\ OnePlace(l)
    BY <1>2 DEF Owned
  <2>2. /\ Offers(l)' <=> Offers(l)
        /\ Processed(l)' <=> Processed(l)
        /\ l \in held' <=> l \in held
        /\ \A i \in Nat : Queued(l, i)' <=> Queued(l, i)
    BY <1>1, <1>5 DEF Offers, Processed, Queued
  <2>3. \A i \in Nat : Lent(l, i)' <=> Lent(l, i)
    <3>1. CASE l[1] # c
      BY <3>1, <1>1, <1>2 DEF Lent, Types
    <3>2. CASE l[1] = c
      <4>1. /\ DOMAIN writes[c] = 1..Len(writes[c]) /\ Len(writes[c]) \in Nat
            /\ DOMAIN writes'[c] = 1..(Len(writes[c]) + 1)
            /\ \A i \in 1..Len(writes[c]) : writes'[c][i] = writes[c][i]
            /\ writes'[c][Len(writes[c]) + 1] = write
        BY <1>1, <1>2, <1>4 DEF Types
      <4>. QED  BY <3>2, <4>1, <1>4 DEF Lent
    <3>. QED  BY <3>1, <3>2
  <2>. QED  BY <2>1, <2>2, <2>3 DEF HeldSomewhere, OnePlace
<1>. QED  BY <1>6, <1>7, <1>8 DEF IInv

LEMMA ProcessorOwns ==
    ASSUME IInv, Processor
    PROVE  IInv'
<1>1. CASE TakesRequest
  BY <1>1, TakesRequestOwns
<1>2. CASE ProcessorEnds
  <2>1. processor.request = NONE
    BY <1>2 DEF IInv, RequestsPlaced, ProcessorEnds
  <2>2. processor' = [at |-> "finished", request |-> NONE]
    BY <1>2 DEF ProcessorEnds, At
  <2>. QED
    BY <1>2, <2>1, <2>2 DEF ProcessorEnds, engine, IInv, Types, RequestsPlaced, HeldArrived, Owned,
       HeldSomewhere, OnePlace, Offers, Queued, Processed, Lent
<1>3. CASE Responds
  BY <1>3, RespondsOwns
<1>4. CASE EndsRequest
  <2>1. processor.request # NONE
    BY <1>4 DEF EndsRequest, IInv, RequestsPlaced
  <2>. QED  BY <1>4, <2>1, DisposedRequestOwns DEF EndsRequest, At
<1>5. CASE ProcessorFaults
  <2>1. processor.request # NONE
    BY <1>5 DEF ProcessorFaults, IInv, RequestsPlaced
  <2>. QED  BY <1>5, <2>1, DisposedRequestOwns DEF ProcessorFaults, At
<1>. QED  BY <1>1, <1>2, <1>3, <1>4, <1>5 DEF Processor

\* An echo lends the lease to its write; one that throws has disposed it.
LEMMA EchoReceivesOwns ==
    ASSUME IInv, NEW c \in Connections, EchoReceives(c)
    PROVE  IInv'
<1>1. PICK payload, completed, sent, shut \in BOOLEAN, retained \in MayRetain :
          LET request == Request(c, payload, retained, completed)
          IN /\ Receives(c, payload, completed)
             /\ sent => payload
             /\ shut => completed /\ sent = payload
             /\ held' = held \cup IF sent THEN LeaseOf(request) ELSE {}
             /\ writes' = [writes EXCEPT ![c] =
                   @ \o IF sent THEN <<Write(request.n, LeaseOf(request))>> ELSE <<>>]
             /\ submitted' = [submitted EXCEPT ![c] =
                   @ \o (IF sent THEN <<request.n>> ELSE <<>>) \o (IF shut THEN <<Shutdown>> ELSE <<>>)]
             /\ FailsIf(c, sent # payload \/ shut # completed)
  BY Zenon DEF EchoReceives
<1> DEFINE request == Request(c, payload, retained, completed)
           fresh == <<c, arrived[c] + 1>>
           write == Write(request.n, LeaseOf(request))
<1>2. UNCHANGED <<offer, queue, processor>>
  BY DEF EchoReceives, dispatch
<1>3. Types /\ RequestsPlaced /\ HeldArrived /\ Owned
  BY DEF IInv
<1>4. retained \in BOOLEAN
  BY DEF MayRetain
<1>5. LeaseOf(request) = IF payload /\ retained THEN {fresh} ELSE {}
  BY DEF Request, LeaseOf
<1>6. fresh \in {c} \X Nat /\ fresh \notin held
  BY <1>3 DEF Types, HeldArrived
<1>7. write \in Writes /\ write.lease = LeaseOf(request)
  BY <1>3, <1>5, <1>6 DEF Write, Writes, Request, Types
<1>8. /\ arrived' \in [Connections -> Nat]
      /\ \A d \in Connections : arrived[d] <= arrived'[d]
      /\ payload => arrived'[c] = arrived[c] + 1
  BY <1>1, <1>3 DEF Receives, Types
<1>9. /\ held' = held \cup IF sent THEN LeaseOf(request) ELSE {}
      /\ writes' = [writes EXCEPT ![c] = @ \o IF sent THEN <<write>> ELSE <<>>]
      /\ sent => payload
  BY <1>1
<1> HIDE DEF request, fresh, write
<1>10. CASE ~sent
  <2>1. writes' = writes
    BY <1>3, <1>9, <1>10 DEF Types
  <2>2. held' = held
    BY <1>9, <1>10
  <2>3. Types' /\ RequestsPlaced' /\ HeldArrived'
    BY <2>1, <2>2, <1>2, <1>3, <1>8 DEF Types, RequestsPlaced, HeldArrived
  <2>4. Owned'
    BY <2>1, <2>2, <1>2, <1>3 DEF Owned, HeldSomewhere, OnePlace, Offers, Queued, Processed, Lent
  <2>. QED  BY <2>3, <2>4 DEF IInv
<1>11. CASE sent
  <2> DEFINE last == Len(writes[c]) + 1
  <2>1. /\ writes' \in [Connections -> Seq(Writes)]
        /\ \A d \in Connections \ {c} : writes'[d] = writes[d]
        /\ DOMAIN writes[c] = 1..Len(writes[c]) /\ Len(writes[c]) \in Nat
        /\ DOMAIN writes'[c] = 1..last
        /\ \A i \in 1..Len(writes[c]) : writes'[c][i] = writes[c][i]
        /\ writes'[c][last] = write
    BY <1>3, <1>7, <1>9, <1>11 DEF Types
  <2>2. held' = held \cup LeaseOf(request)
    BY <1>9, <1>11
  <2>3. Types'
    <3>1. held' \subseteq Connections \X Nat
      BY <2>2, <1>3, <1>5, <1>6 DEF Types
    <3>2. write.lease \subseteq {c} \X Nat
      BY <1>5, <1>6, <1>7
    <3>3. ASSUME NEW d \in Connections, NEW i \in DOMAIN writes'[d]
          PROVE  writes'[d][i].lease \subseteq {d} \X Nat
      <4>1. CASE d # c
        BY <4>1, <2>1, <1>3 DEF Types
      <4>2. CASE d = c /\ i = last
        BY <4>2, <2>1, <3>2
      <4>3. CASE d = c /\ i \in DOMAIN writes[c]
        <5>1. writes[c][i].lease \subseteq {c} \X Nat /\ writes'[c][i] = writes[c][i]
          BY <4>3, <2>1, <1>3 DEF Types
        <5>. QED  BY <5>1, <4>3
      <4>. QED  BY <4>1, <4>2, <4>3, <2>1
    <3>. QED  BY <2>1, <3>1, <3>3, <1>2, <1>3, <1>8 DEF Types
  <2>4. RequestsPlaced'
    BY <1>2, <1>3 DEF RequestsPlaced
  <2>5. HeldArrived'
    <3> SUFFICES ASSUME NEW l \in held' PROVE l[2] <= arrived'[l[1]]
      BY DEF HeldArrived
    <3>1. CASE l \in held
      BY <3>1, <1>3, <1>8 DEF HeldArrived, Types
    <3>2. CASE l \notin held
      <4>1. payload /\ l = fresh
        BY <3>2, <2>2, <1>5
      <4>. QED  BY <4>1, <1>8, <1>3 DEF fresh, Types
    <3>. QED  BY <3>1, <3>2
  <2>6. Owned'
    <3> SUFFICES ASSUME NEW l \in Connections \X Nat PROVE HeldSomewhere(l)' /\ OnePlace(l)'
      BY DEF Owned
    <3> DEFINE lent == l \in LeaseOf(request)
    <3>1. HeldSomewhere(l) /\ OnePlace(l)
      BY <1>3 DEF Owned
    <3>2. /\ Offers(l)' <=> Offers(l)
          /\ Processed(l)' <=> Processed(l)
          /\ \A i \in Nat : Queued(l, i)' <=> Queued(l, i)
      BY <1>2 DEF Offers, Processed, Queued
    <3>3. lent => l[1] = c /\ l \notin held
      BY <1>5, <1>6
    <3>4. \A i \in Nat : Lent(l, i)' <=> Lent(l, i) \/ (lent /\ i = last)
      <4>1. CASE l[1] = c
        BY <4>1, <2>1, <1>7 DEF Lent
      <4>2. CASE l[1] # c
        BY <4>2, <3>3, <2>1 DEF Lent
      <4>. QED  BY <4>1, <4>2
    <3>5. last \in Nat /\ (l \in held' <=> l \in held \/ lent)
      BY <2>1, <2>2
    <3> HIDE DEF last, lent
    <3>. QED  BY <3>1, <3>2, <3>3, <3>4, <3>5 DEF HeldSomewhere, OnePlace
  <2>. QED  BY <2>3, <2>4, <2>5, <2>6 DEF IInv
<1>. QED  BY <1>10, <1>11

\* The completion of the oldest write returns what was lent to it.
LEMMA WriteCompletedOwns ==
    ASSUME IInv, NEW c \in Connections, WriteCompleted(c)
    PROVE  IInv'
<1>1. /\ writes[c] # <<>>
      /\ writes' = [writes EXCEPT ![c] = Tail(@)]
      /\ held' = held \ Head(writes[c]).lease
      /\ UNCHANGED <<arrived, offer, queue, processor>>
  BY DEF WriteCompleted, dispatch
<1>2. Types /\ RequestsPlaced /\ HeldArrived /\ Owned
  BY DEF IInv
<1>3. /\ DOMAIN writes[c] = 1..Len(writes[c]) /\ Len(writes[c]) \in Nat \ {0}
      /\ Head(writes[c]) = writes[c][1]
      /\ writes' \in [Connections -> Seq(Writes)]
      /\ \A d \in Connections \ {c} : writes'[d] = writes[d]
      /\ DOMAIN writes'[c] = 1..(Len(writes[c]) - 1)
      /\ \A i \in 1..(Len(writes[c]) - 1) : writes'[c][i] = writes[c][i + 1]
  BY <1>1, <1>2 DEF Types
<1>4. Types'
  <2>1. ASSUME NEW d \in Connections, NEW i \in DOMAIN writes'[d]
        PROVE  writes'[d][i].lease \subseteq {d} \X Nat
    <3>1. CASE d # c
      BY <3>1, <1>3, <1>2 DEF Types
    <3>2. CASE d = c
      <4>1. i + 1 \in DOMAIN writes[c] /\ writes'[c][i] = writes[c][i + 1]
        BY <3>2, <1>3
      <4>2. writes[c][i + 1].lease \subseteq {c} \X Nat
        BY <4>1, <1>2 DEF Types
      <4>. QED  BY <3>2, <4>1, <4>2
    <3>. QED  BY <3>1, <3>2
  <2>. QED  BY <2>1, <1>1, <1>2, <1>3 DEF Types
<1>5. RequestsPlaced' /\ HeldArrived'
  BY <1>1, <1>2 DEF RequestsPlaced, HeldArrived
<1>6. Owned'
  <2> SUFFICES ASSUME NEW l \in Connections \X Nat PROVE HeldSomewhere(l)' /\ OnePlace(l)'
    BY DEF Owned
  <2>1. HeldSomewhere(l) /\ OnePlace(l)
    BY <1>2 DEF Owned
  <2>2. /\ Offers(l)' <=> Offers(l)
        /\ Processed(l)' <=> Processed(l)
        /\ \A i \in Nat : Queued(l, i)' <=> Queued(l, i)
    BY <1>1 DEF Offers, Processed, Queued
  <2>3. CASE l[1] # c
    <3>1. l \notin Head(writes[c]).lease
      <4>1. 1 \in DOMAIN writes[c]
        BY <1>3
      <4>2. Head(writes[c]).lease \subseteq {c} \X Nat
        BY <4>1, <1>2, <1>3 DEF Types
      <4>. QED  BY <4>2, <2>3
    <3>2. \A i \in Nat : Lent(l, i)' <=> Lent(l, i)
      BY <2>3, <1>3 DEF Lent
    <3>. QED  BY <3>1, <3>2, <2>1, <2>2, <1>1 DEF HeldSomewhere, OnePlace
  <2>4. CASE l[1] = c
    <3>1. \A i \in Nat : Lent(l, i)' <=> i > 0 /\ Lent(l, i + 1)
      BY <2>4, <1>3 DEF Lent
    <3>2. ~Lent(l, 0) /\ (l \in held' <=> l \in held /\ ~Lent(l, 1))
      BY <2>4, <1>1, <1>3 DEF Lent
    <3>3. \A i \in Nat : Lent(l, i)' => Lent(l, i + 1) /\ i + 1 \in Nat /\ i + 1 # 1
      BY <3>1
    <3>4. (\E i \in Nat : Lent(l, i)') <=> ~Lent(l, 1) /\ \E i \in Nat : Lent(l, i)
      <4>1. ASSUME NEW i \in Nat, Lent(l, i), i # 1 PROVE \E j \in Nat : Lent(l, j)'
        <5>1. i - 1 \in Nat /\ i - 1 > 0 /\ (i - 1) + 1 = i
          BY <4>1, <3>2
        <5>. QED  BY <5>1, <4>1, <3>1
      <4>2. ASSUME NEW i \in Nat, Lent(l, i)' PROVE ~Lent(l, 1) /\ \E j \in Nat : Lent(l, j)
        BY <4>2, <3>3, <2>1 DEF OnePlace
      <4>. QED  BY <4>1, <4>2
    <3>5. \A i, j \in Nat : Lent(l, i)' /\ Lent(l, j)' => i = j
      <4> SUFFICES ASSUME NEW i \in Nat, NEW j \in Nat, Lent(l, i)', Lent(l, j)' PROVE i = j
        OBVIOUS
      <4>1. i + 1 = j + 1
        BY <3>3, <2>1 DEF OnePlace
      <4>. QED  BY <4>1
    <3>6. HeldSomewhere(l)'
      <4>1. Lent(l, 1) => ~Offers(l) /\ ~Processed(l) /\ \A i \in Nat : ~Queued(l, i)
        BY <2>1 DEF OnePlace
      <4>. QED  BY <4>1, <3>2, <3>4, <2>1, <2>2 DEF HeldSomewhere
    <3>7. OnePlace(l)'
      BY <3>3, <3>5, <2>1, <2>2 DEF OnePlace
    <3>. QED  BY <3>6, <3>7
  <2>. QED  BY <2>3, <2>4
<1>. QED  BY <1>4, <1>5, <1>6 DEF IInv

-----------------------------------------------------------------------------
LEMMA NextOwns == IInv /\ [Next]_vars => IInv'
<1> SUFFICES ASSUME IInv, [Next]_vars PROVE IInv'
  OBVIOUS
<1>1. CASE UNCHANGED vars
  BY <1>1, OwnersUnchanged DEF vars
<1>2. CASE DisposeAsync
  BY <1>2, OwnersUnchanged DEF DisposeAsync, engine
<1>3. CASE Processor
  BY <1>3, ProcessorOwns
<1>4. ASSUME NEW c \in Connections, Callback(c) PROVE IInv'
  <2>1. CASE DispatchReceives(c)
    BY <2>1, DispatchReceivesOwns
  <2>2. CASE Offered(c)
    BY <2>2, OfferedOwns
  <2>3. CASE Refused(c)
    BY <2>3, RefusedOwns
  <2>4. CASE EchoReceives(c)
    BY <2>4, EchoReceivesOwns
  <2>5. CASE WriteCompleted(c)
    BY <2>5, WriteCompletedOwns
  <2>6. CASE OnReady(c)
    BY <2>6, OwnersUnchanged DEF OnReady, dispatch
  <2>7. CASE Closes(c)
    BY <2>7, OwnersUnchanged DEF Closes, dispatch
  <2>8. CASE RemovesPeer(c)
    BY <2>8, OwnersUnchanged DEF RemovesPeer, engine, dispatch
  <2>9. CASE MarkClosed(c)
    BY <2>9, OwnersUnchanged DEF MarkClosed, dispatch
  <2>. QED  BY <1>4, <2>1, <2>2, <2>3, <2>4, <2>5, <2>6, <2>7, <2>8, <2>9 DEF Callback
<1>5. ASSUME NEW c \in Connections, Terminates(c) PROVE IInv'
  BY <1>5, OwnersUnchanged DEF Terminates, dispatch
<1>6. ASSUME NEW t \in Broadcasters, Broadcasting(t) PROVE IInv'
  <2>1. CASE Broadcasts(t)
    BY <2>1, OwnersUnchanged DEF Broadcasts, engine, dispatch
  <2>2. ASSUME NEW c \in Connections, EntersPeer(t, c) PROVE IInv'
    BY <2>2, OwnersUnchanged DEF EntersPeer, engine, dispatch
  <2>3. CASE LeavesPeer(t)
    BY <2>3, OwnersUnchanged DEF LeavesPeer, dispatch
  <2>4. CASE BroadcastEnds(t)
    BY <2>4, OwnersUnchanged DEF BroadcastEnds, engine, dispatch
  <2>. QED  BY <1>6, <2>1, <2>2, <2>3, <2>4 DEF Broadcasting
<1>. QED  BY <1>1, <1>2, <1>3, <1>4, <1>5, <1>6 DEF Next

\* The places are the holders the property counts.
LEMMA OwnedOnce == IInv => LeasesHeldOnce
<1> SUFFICES ASSUME IInv, NEW l \in Leases
             PROVE  Cardinality(Holders(l)) = IF l \in held THEN 1 ELSE 0
  BY DEF LeasesHeldOnce
<1>1. l \in Connections \X Nat
  BY DEF Leases
<1>2. HeldSomewhere(l) /\ OnePlace(l)
  BY <1>1 DEF IInv, Owned
<1> DEFINE of_offer == {<<"offer", c>> : c \in {c \in Connections : offer[c] # NONE /\ l \in LeaseOf(offer[c])}}
           of_queue == {<<"queue", i>> : i \in {i \in DOMAIN queue : l \in LeaseOf(queue[i])}}
           of_processor == {<<"processor", 0>> : r \in {r \in {processor.request} \ {NONE} : l \in LeaseOf(r)}}
           of_write == {<<"write", i>> : i \in {i \in DOMAIN writes[l[1]] : l \in writes[l[1]][i].lease}}
<1>3. Holders(l) = of_offer \cup of_queue \cup of_processor \cup of_write
  BY DEF Holders
<1>4. of_offer = IF Offers(l) THEN {<<"offer", l[1]>>} ELSE {}
  <2>1. \A c \in Connections : offer[c] # NONE /\ l \in LeaseOf(offer[c]) => c = l[1]
    BY DEF IInv, RequestsPlaced, LeaseOf
  <2>. QED  BY <2>1, <1>1 DEF Offers
<1>5. of_processor = IF Processed(l) THEN {<<"processor", 0>>} ELSE {}
  BY DEF Processed
<1>6. DOMAIN queue \subseteq Nat /\ DOMAIN writes[l[1]] \subseteq Nat
  BY <1>1 DEF IInv, Types
<1>7. of_queue = {<<"queue", i>> : i \in {i \in Nat : Queued(l, i)}}
  BY <1>6 DEF Queued
<1>8. of_write = {<<"write", i>> : i \in {i \in Nat : Lent(l, i)}}
  BY <1>6 DEF Lent
<1> HIDE DEF of_offer, of_queue, of_processor, of_write
<1>9. CASE l \notin held
  <2>1. Holders(l) = {}
    BY <1>9, <1>2, <1>3, <1>4, <1>5, <1>7, <1>8 DEF HeldSomewhere
  <2>. QED  BY <2>1, <1>9, FS_EmptySet
<1>10. CASE l \in held
  <2>1. \E h : Holders(l) = {h}
    <3>1. CASE Offers(l)
      <4>1. Holders(l) = {<<"offer", l[1]>>}
        BY <3>1, <1>2, <1>3, <1>4, <1>5, <1>7, <1>8 DEF OnePlace
      <4>. QED  BY <4>1
    <3>2. CASE Processed(l)
      <4>1. Holders(l) = {<<"processor", 0>>}
        BY <3>2, <1>2, <1>3, <1>4, <1>5, <1>7, <1>8 DEF OnePlace
      <4>. QED  BY <4>1
    <3>3. ASSUME NEW i \in Nat, Queued(l, i) PROVE \E h : Holders(l) = {h}
      <4>1. ~Offers(l) /\ ~Processed(l) /\ (\A j \in Nat : ~Lent(l, j))
            /\ \A j \in Nat : Queued(l, j) => j = i
        BY <3>3, <1>2 DEF OnePlace
      <4>2. of_queue = {<<"queue", i>>}
        BY <3>3, <4>1, <1>7
      <4>3. Holders(l) = {<<"queue", i>>}
        BY <4>1, <4>2, <1>3, <1>4, <1>5, <1>8
      <4>. QED  BY <4>3
    <3>4. ASSUME NEW i \in Nat, Lent(l, i) PROVE \E h : Holders(l) = {h}
      <4>1. ~Offers(l) /\ ~Processed(l) /\ (\A j \in Nat : ~Queued(l, j))
            /\ \A j \in Nat : Lent(l, j) => j = i
        BY <3>4, <1>2 DEF OnePlace
      <4>2. of_write = {<<"write", i>>}
        BY <3>4, <4>1, <1>8
      <4>3. Holders(l) = {<<"write", i>>}
        BY <4>1, <4>2, <1>3, <1>4, <1>5, <1>7
      <4>. QED  BY <4>3
    <3>. QED  BY <3>1, <3>2, <3>3, <3>4, <1>2, <1>10 DEF HeldSomewhere
  <2>. QED  BY <2>1, <1>10, FS_Singleton
<1>. QED  BY <1>9, <1>10

\* A retained payload has exactly one holder until it is disposed and none from
\* then on, in both receive applications: OnReceive, the bounded channel, the
\* processor's using block, the lent write and the catch that disposes.
THEOREM RetainedLeasesHeldOnce == Spec => []LeasesHeldOnce
<1>. QED  BY InitOwns, NextOwns, OwnedOnce, PTL DEF Spec

-----------------------------------------------------------------------------
(* Broadcasts.                                                             *)

\* Only Broadcast submits commands in ServerPush, and only replies are
\* submitted by the other applications.
Commands == IF application = "push" THEN Broadcasters ELSE Nat

Threads == [at : {"idle", "next", "sending", "done"},
            snapshot : SUBSET Connections, left : SUBSET Connections, peer : Connections \cup {NONE}]

PushTypes ==
    /\ phase \in [Connections -> {"new", "ready", "terminal", "closed"}]
    /\ submitted \in [Connections -> Seq(Commands)]
    /\ peers \subseteq Connections /\ peer_closed \in [Connections -> BOOLEAN]
    /\ lock \in [Connections -> Broadcasters \cup {NONE}]
    /\ thread \in [Broadcasters -> Threads]

\* What only DispatchedReceive uses is untouched by the others.
DispatchOnly ==
    application # "dispatch" =>
        /\ queue = <<>> /\ processor.request = NONE /\ processor.at # "faulted"
        /\ \A c \in Connections : offer[c] = NONE

Occurs(t, s) == \E i \in DOMAIN s : s[i] = t
Once(t, s) == \A i, j \in DOMAIN s : s[i] = t /\ s[j] = t => i = j

\* A broadcast holds the lock of the peer it writes to, and has written to the
\* others of its snapshot that it is done with, or found them closed.
ThreadOk(t) ==
    /\ thread[t].at # "idle" => application = "push"
    /\ thread[t].at = "idle" => thread[t].snapshot = {}
    /\ thread[t].left \subseteq thread[t].snapshot
    /\ thread[t].at = "sending" <=> thread[t].peer # NONE
    /\ thread[t].at = "sending" =>
          /\ thread[t].peer \in thread[t].snapshot \ thread[t].left
          /\ lock[thread[t].peer] = t /\ ~peer_closed[thread[t].peer]
    /\ \A c \in Connections :
          /\ Occurs(t, submitted[c]) => c \in thread[t].snapshot \ thread[t].left /\ thread[t].peer # c
          /\ Once(t, submitted[c])
    /\ \A c \in thread[t].snapshot \ thread[t].left :
          Occurs(t, submitted[c]) \/ peer_closed[c] \/ thread[t].peer = c

\* OnClosed returns after it has marked its peer.
ClosedMarked ==
    application = "push" => \A c \in Connections : phase[c] = "closed" => peer_closed[c]

PushInv == PushTypes /\ DispatchOnly /\ ClosedMarked /\ \A t \in Broadcasters : ThreadOk(t)

-----------------------------------------------------------------------------
(* Broadcasts are safe.                                                    *)

LEMMA AppendOccurs ==
    ASSUME NEW S, NEW s \in Seq(S), NEW e \in S, NEW t
    PROVE  /\ Occurs(t, Append(s, e)) <=> t = e \/ Occurs(t, s)
           /\ Once(t, s) /\ (t # e \/ ~Occurs(t, s)) => Once(t, Append(s, e))
<1> DEFINE a == Append(s, e)
<1>1. /\ DOMAIN s = 1..Len(s) /\ Len(s) \in Nat /\ DOMAIN a = 1..(Len(s) + 1)
      /\ \A i \in 1..Len(s) : a[i] = s[i]
      /\ a[Len(s) + 1] = e
  OBVIOUS
<1> HIDE DEF a
<1>2. Occurs(t, a) <=> t = e \/ Occurs(t, s)
  BY <1>1 DEF Occurs
<1>3. ASSUME Once(t, s), t # e \/ ~Occurs(t, s) PROVE Once(t, a)
  BY <1>1, <1>3 DEF Occurs, Once
<1>. QED  BY <1>2, <1>3 DEF a

\* What a thread becomes.
LEMMA ThreadTypes ==
    ASSUME PushTypes, NEW t \in Broadcasters, NEW r \in Threads, thread' = [thread EXCEPT ![t] = r]
    PROVE  /\ thread' \in [Broadcasters -> Threads] /\ thread'[t] = r
           /\ \A u \in Broadcasters \ {t} : thread'[u] = thread[u]
  BY DEF PushTypes

LEMMA PushInvInitially == Init => PushInv
<1> SUFFICES ASSUME Init PROVE PushInv
  OBVIOUS
<1>1. \A c \in Connections : submitted[c] = <<>>
  BY DEF Init
<1>2. PushTypes
  <2>1. thread \in [Broadcasters -> Threads]
    BY DEF Init, Threads
  <2>2. submitted = [c \in Connections |-> <<>>] /\ <<>> \in Seq(Commands)
    BY DEF Init
  <2>3. submitted \in [Connections -> Seq(Commands)]
    BY <2>2
  <2>. QED  BY <2>1, <2>3 DEF Init, PushTypes
<1>3. \A t \in Broadcasters : ThreadOk(t)
  BY <1>1 DEF Init, ThreadOk, Occurs, Once
<1>4. DispatchOnly /\ ClosedMarked
  BY DEF Init, DispatchOnly, ClosedMarked
<1>. QED  BY <1>2, <1>3, <1>4 DEF PushInv

LEMMA DispatchOnlyKept ==
    ASSUME IInv, DispatchOnly, [Next]_vars
    PROVE  DispatchOnly'
<1> SUFFICES ASSUME application' # "dispatch"
             PROVE  /\ queue' = <<>> /\ processor'.request = NONE /\ processor'.at # "faulted"
                    /\ \A c \in Connections : offer'[c] = NONE
  BY DEF DispatchOnly
<1>1. application' = application
  BY DEF Next, vars, engine, dispatch, DisposeAsync, Processor, TakesRequest, ProcessorEnds, Responds,
     EndsRequest, ProcessorFaults, Callback, DispatchReceives, Offered, Refused, EchoReceives,
     WriteCompleted, OnReady, Closes, RemovesPeer, MarkClosed, Terminates, Broadcasting, Broadcasts,
     EntersPeer, LeavesPeer, BroadcastEnds
<1>2. /\ queue = <<>> /\ processor.request = NONE
      /\ \A c \in Connections : offer[c] = NONE
      /\ processor.at \notin {"handling", "ending", "faulted"}
  BY <1>1 DEF DispatchOnly, IInv, RequestsPlaced
<1>3. CASE Processor
  <2>1. ProcessorEnds
    BY <1>2, <1>3 DEF Processor, TakesRequest, Responds, EndsRequest, ProcessorFaults
  <2>. QED  BY <1>2, <2>1 DEF ProcessorEnds, At
<1>4. CASE UNCHANGED dispatch
  BY <1>2, <1>4 DEF dispatch
<1>5. CASE DisposeAsync
  BY <1>1, <1>5 DEF DisposeAsync
<1>6. ASSUME NEW c \in Connections, Callback(c) PROVE UNCHANGED dispatch
  BY <1>1, <1>2, <1>6 DEF Callback, DispatchReceives, Offered, Refused, EchoReceives,
     WriteCompleted, OnReady, Closes, RemovesPeer, MarkClosed
<1>7. ASSUME NEW c \in Connections, Terminates(c) PROVE UNCHANGED dispatch
  BY <1>7 DEF Terminates
<1>8. ASSUME NEW t \in Broadcasters, Broadcasting(t) PROVE UNCHANGED dispatch
  BY <1>8 DEF Broadcasting, Broadcasts, EntersPeer, LeavesPeer, BroadcastEnds
<1>9. UNCHANGED vars => UNCHANGED dispatch
  BY DEF vars, dispatch
<1>. QED  BY <1>3, <1>4, <1>5, <1>6, <1>7, <1>8, <1>9 DEF Next

\* Broadcasts depend on the registry, the connections and their commands only.
LEMMA PushUnchanged ==
    ASSUME PushInv, DispatchOnly', UNCHANGED <<application, phase, submitted, push>>
    PROVE  PushInv'
<1>1. UNCHANGED <<application, phase, submitted, peers, peer_closed, lock, thread>>
  BY DEF push
<1>2. PushTypes'
  BY <1>1 DEF PushInv, PushTypes, Commands
<1>3. \A t \in Broadcasters : ThreadOk(t)'
  BY <1>1 DEF PushInv, ThreadOk, Occurs, Once
<1>4. ClosedMarked'
  BY <1>1 DEF PushInv, ClosedMarked
<1>. QED  BY <1>2, <1>3, <1>4 DEF PushInv

\* The commands of the other applications are not those of a broadcast.
LEMMA RepliesArePushless ==
    ASSUME PushInv, DispatchOnly', application # "push", UNCHANGED <<application, push>>,
           phase' \in [Connections -> {"new", "ready", "terminal", "closed"}],
           submitted' \in [Connections -> Seq(Nat)]
    PROVE  PushInv'
<1>1. UNCHANGED <<application, peers, peer_closed, lock, thread>>
  BY DEF push
<1>2. PushTypes'
  BY <1>1 DEF PushInv, PushTypes, Commands
<1>3. \A t \in Broadcasters : ThreadOk(t)'
  <2> SUFFICES ASSUME NEW t \in Broadcasters PROVE ThreadOk(t)'
    OBVIOUS
  <2>1. \A c \in Connections : ~Occurs(t, submitted'[c]) /\ Once(t, submitted'[c])
    <3> SUFFICES ASSUME NEW c \in Connections, NEW i \in DOMAIN submitted'[c]
                 PROVE  submitted'[c][i] # t
      BY DEF Occurs, Once
    <3>1. submitted'[c] \in Seq(Nat)
      OBVIOUS
    <3>2. submitted'[c][i] \in Nat
      BY <3>1
    <3>. QED  BY <3>2
  <2>2. ThreadOk(t) /\ thread[t].at = "idle" /\ thread[t].snapshot = {}
    BY DEF PushInv, ThreadOk
  <2>. QED  BY <1>1, <2>1, <2>2 DEF ThreadOk
<1>4. ClosedMarked'
  BY <1>1 DEF ClosedMarked
<1>. QED  BY <1>2, <1>3, <1>4 DEF PushInv

\* A reply, or the end of them, is one more command.
LEMMA SubmitsReply ==
    ASSUME PushTypes, application # "push", NEW c \in Connections, NEW n \in Nat, Submits(c, n)
    PROVE  submitted' \in [Connections -> Seq(Nat)]
<1>1. submitted \in [Connections -> Seq(Nat)]
  BY DEF PushTypes, Commands
<1>2. Append(submitted[c], n) \in Seq(Nat)
  BY <1>1
<1>. QED  BY <1>1, <1>2 DEF Submits

LEMMA ProcessorKeepsPush ==
    ASSUME IInv, PushInv, DispatchOnly', Processor
    PROVE  PushInv'
<1>1. CASE TakesRequest \/ ProcessorEnds
  BY <1>1, PushUnchanged DEF TakesRequest, ProcessorEnds, engine
<1>2. CASE Responds \/ EndsRequest \/ ProcessorFaults
  <2>1. processor.request \in ReceivedRequests
    BY <1>2 DEF IInv, Types, RequestsPlaced, Responds, EndsRequest, ProcessorFaults
  <2>2. application # "push"
    BY <1>2, <2>1 DEF PushInv, DispatchOnly, IInv, RequestsPlaced, Responds, EndsRequest, ProcessorFaults
  <2>3. UNCHANGED <<application, phase, push>>
    BY <1>2 DEF Responds, EndsRequest, ProcessorFaults
  <2>4. submitted' \in [Connections -> Seq(Nat)]
    <3>1. processor.request.c \in Connections /\ processor.request.n \in Nat
      BY <2>1 DEF ReceivedRequests
    <3>2. CASE UNCHANGED submitted
      BY <3>2, <2>2 DEF PushInv, PushTypes, Commands
    <3>3. CASE Responds
      BY <3>3, <3>1, <2>2, SubmitsReply DEF Responds, PushInv
    <3>4. CASE EndsRequest
      BY <3>2, <3>4, <3>1, <2>2, SubmitsReply DEF EndsRequest, PushInv, Shutdown
    <3>. QED  BY <1>2, <3>2, <3>3, <3>4 DEF ProcessorFaults
  <2>5. phase' \in [Connections -> {"new", "ready", "terminal", "closed"}]
    BY <2>3 DEF PushInv, PushTypes
  <2>. QED  BY <2>2, <2>3, <2>4, <2>5, RepliesArePushless
<1>. QED  BY <1>1, <1>2 DEF Processor

LEMMA EchoKeepsPush ==
    ASSUME IInv, PushInv, DispatchOnly', NEW c \in Connections, EchoReceives(c)
    PROVE  PushInv'
<1>1. application = "echo" /\ UNCHANGED <<application, push>>
  BY DEF EchoReceives
<1>2. phase' \in [Connections -> {"new", "ready", "terminal", "closed"}]
  BY DEF EchoReceives, FailsIf, PushInv, PushTypes
<1>3. submitted' \in [Connections -> Seq(Nat)]
  <2>1. PICK payload, completed, sent, shut \in BOOLEAN, retained \in MayRetain :
          LET request == Request(c, payload, retained, completed)
          IN /\ Receives(c, payload, completed)
             /\ sent => payload
             /\ shut => completed /\ sent = payload
             /\ held' = held \cup IF sent THEN LeaseOf(request) ELSE {}
             /\ writes' = [writes EXCEPT ![c] =
                   @ \o IF sent THEN <<Write(request.n, LeaseOf(request))>> ELSE <<>>]
             /\ submitted' = [submitted EXCEPT ![c] =
                   @ \o (IF sent THEN <<request.n>> ELSE <<>>) \o (IF shut THEN <<Shutdown>> ELSE <<>>)]
             /\ FailsIf(c, sent # payload \/ shut # completed)
    BY Zenon DEF EchoReceives
  <2> DEFINE n == Request(c, payload, retained, completed).n
             first == IF sent THEN <<n>> ELSE <<>>
             second == IF shut THEN <<Shutdown>> ELSE <<>>
  <2>2. n \in Nat
    BY DEF Request, IInv, Types
  <2>3. submitted' = [submitted EXCEPT ![c] = @ \o first \o second]
    BY <2>1
  <2> HIDE DEF n
  <2>4. first \in Seq(Nat) /\ second \in Seq(Nat)
    BY <2>2 DEF Shutdown
  <2> HIDE DEF first, second
  <2>5. submitted \in [Connections -> Seq(Nat)]
    BY <1>1 DEF PushInv, PushTypes, Commands
  <2>6. submitted[c] \o first \in Seq(Nat)
    BY <2>4, <2>5, ConcatProperties
  <2>7. submitted[c] \o first \o second \in Seq(Nat)
    BY <2>4, <2>6, ConcatProperties
  <2>. QED  BY <2>3, <2>5, <2>7
<1>. QED  BY <1>1, <1>2, <1>3, RepliesArePushless

\* A connection that becomes ready, terminal or closed.
LEMMA PhaseKeepsPush ==
    ASSUME PushInv, DispatchOnly', NEW c \in Connections,
           \/ OnReady(c) \/ Terminates(c) \/ Closes(c) \/ RemovesPeer(c) \/ MarkClosed(c)
    PROVE  PushInv'
<1>1. UNCHANGED <<application, submitted, lock, thread>>
  BY DEF OnReady, Terminates, Closes, RemovesPeer, MarkClosed, engine, push
<1>2. PushTypes
  BY DEF PushInv
<1>3. /\ phase' \in [Connections -> {"new", "ready", "terminal", "closed"}]
      /\ peers' \subseteq Connections /\ peer_closed' \in [Connections -> BOOLEAN]
  BY <1>2 DEF OnReady, Terminates, Closes, RemovesPeer, MarkClosed, engine, push, PushTypes
<1>4. PushTypes'
  BY <1>1, <1>2, <1>3 DEF PushTypes, Commands
<1>5. \A d \in Connections : peer_closed[d] => peer_closed'[d]
  BY <1>2 DEF OnReady, Terminates, Closes, RemovesPeer, MarkClosed, push, PushTypes
<1>6. \A t \in Broadcasters : ThreadOk(t)'
  <2> SUFFICES ASSUME NEW t \in Broadcasters PROVE ThreadOk(t)'
    OBVIOUS
  <2>1. ThreadOk(t)
    BY DEF PushInv
  <2>2. \A d \in Connections : (Occurs(t, submitted'[d]) <=> Occurs(t, submitted[d])) /\ (Once(t, submitted'[d]) <=> Once(t, submitted[d]))
    BY <1>1 DEF Occurs, Once
  <2>3. thread[t].at = "sending" => ~peer_closed'[thread[t].peer]
    <3> SUFFICES ASSUME thread[t].at = "sending" PROVE ~peer_closed'[thread[t].peer]
      OBVIOUS
    <3>1. /\ lock[thread[t].peer] # NONE /\ ~peer_closed[thread[t].peer]
          /\ thread[t].peer \in Connections
      BY <2>1, <1>2 DEF ThreadOk, PushTypes, Threads
    <3>. QED  BY <3>1, <1>2 DEF OnReady, Terminates, Closes, RemovesPeer, MarkClosed, push, PushTypes
  <2>4. thread[t].snapshot \subseteq Connections
    BY <1>2 DEF PushTypes, Threads
  <2>. QED  BY <1>1, <1>5, <2>1, <2>2, <2>3, <2>4 DEF ThreadOk
<1>7. ClosedMarked'
  <2> SUFFICES ASSUME application = "push", NEW d \in Connections, phase'[d] = "closed"
               PROVE  peer_closed'[d]
    BY <1>1 DEF ClosedMarked
  <2>1. phase[d] = "closed" \/ (MarkClosed(c) /\ d = c)
    <3>1. CASE OnReady(c) \/ Terminates(c)
      BY <3>1, <1>2 DEF OnReady, Terminates, PushTypes
    <3>2. CASE Closes(c) \/ RemovesPeer(c)
      BY <3>2, <1>2 DEF Closes, RemovesPeer, engine
    <3>3. CASE MarkClosed(c)
      BY <3>3, <1>2 DEF MarkClosed, PushTypes
    <3>. QED  BY <3>1, <3>2, <3>3
  <2>2. CASE phase[d] = "closed"
    BY <2>2, <1>5 DEF PushInv, ClosedMarked
  <2>3. CASE MarkClosed(c) /\ d = c
    BY <2>3, <1>2 DEF MarkClosed, PushTypes
  <2>. QED  BY <2>1, <2>2, <2>3
<1>. QED  BY <1>4, <1>6, <1>7 DEF PushInv

\* A thread goes on to another state, with the locks and the marks it changes;
\* it touches no other thread's.
LEMMA ThreadMoves ==
    ASSUME PushInv, DispatchOnly', NEW t \in Broadcasters, PushTypes', ThreadOk(t)',
           UNCHANGED <<application, phase>>,
           \A u \in Broadcasters \ {t} : thread'[u] = thread[u],
           \A c \in Connections : lock[c] \notin {t, NONE} =>
               lock'[c] = lock[c] /\ peer_closed'[c] = peer_closed[c],
           \A c \in Connections : peer_closed[c] => peer_closed'[c],
           \A u \in Broadcasters \ {t}, c \in Connections :
               (Occurs(u, submitted'[c]) <=> Occurs(u, submitted[c])) /\ (Once(u, submitted'[c]) <=> Once(u, submitted[c]))
    PROVE  PushInv'
<1>1. ASSUME NEW u \in Broadcasters \ {t} PROVE ThreadOk(u)'
  <2>1. ThreadOk(u) /\ thread[u].snapshot \subseteq Connections /\ thread'[u] = thread[u]
    BY DEF PushInv, PushTypes, Threads
  <2>2. thread[u].at = "sending" =>
            /\ lock'[thread[u].peer] = u /\ ~peer_closed'[thread[u].peer]
    BY <2>1 DEF ThreadOk
  <2>. QED  BY <2>1, <2>2 DEF ThreadOk
<1>2. ClosedMarked'
  BY DEF PushInv, ClosedMarked
<1>. QED  BY <1>1, <1>2 DEF PushInv

LEMMA BroadcastsKeepsPush ==
    ASSUME PushInv, DispatchOnly', NEW t \in Broadcasters, Broadcasts(t) \/ BroadcastEnds(t)
    PROVE  PushInv'
<1>1. /\ UNCHANGED <<application, phase, submitted, peers, peer_closed, lock>>
      /\ \A u \in Broadcasters \ {t} : thread'[u] = thread[u]
  BY DEF Broadcasts, BroadcastEnds, engine, PushInv, PushTypes
<1>2. PushTypes /\ ThreadOk(t)
  BY DEF PushInv
<1>3. \A u \in Broadcasters, c \in Connections :
          (Occurs(u, submitted'[c]) <=> Occurs(u, submitted[c])) /\ (Once(u, submitted'[c]) <=> Once(u, submitted[c]))
  BY <1>1 DEF Occurs, Once
<1>4. CASE Broadcasts(t)
  <2>1. thread' = [thread EXCEPT ![t] = [at |-> "next", snapshot |-> peers, left |-> peers, peer |-> NONE]]
    BY <1>4 DEF Broadcasts
  <2> DEFINE r == [at |-> "next", snapshot |-> peers, left |-> peers, peer |-> NONE]
  <2>2. r \in Threads
    BY <1>2 DEF PushTypes, Threads
  <2>3. thread' \in [Broadcasters -> Threads] /\ thread'[t] = r
    BY <1>2, <2>1, <2>2, ThreadTypes
  <2>6. PushTypes'
    BY <1>1, <1>2, <2>3 DEF PushTypes, Commands
  <2>4. \A c \in Connections : ~Occurs(t, submitted[c])
    BY <1>2, <1>4 DEF ThreadOk, Broadcasts
  <2>5. ThreadOk(t)'
    BY <1>1, <1>2, <1>3, <1>4, <2>3, <2>4 DEF ThreadOk, Broadcasts
  <2>. QED  BY <1>1, <1>3, <2>5, <2>6, ThreadMoves
<1>5. CASE BroadcastEnds(t)
  <2>1. thread' = [thread EXCEPT ![t].at = "done"]
    BY <1>5 DEF BroadcastEnds
  <2> DEFINE r == [thread[t] EXCEPT !.at = "done"]
  <2>2. r \in Threads /\ thread' = [thread EXCEPT ![t] = r]
    BY <1>2, <2>1 DEF PushTypes, Threads
  <2>3. /\ thread' \in [Broadcasters -> Threads]
        /\ thread'[t].at = "done" /\ thread'[t].snapshot = thread[t].snapshot
        /\ thread'[t].left = thread[t].left /\ thread'[t].peer = thread[t].peer
    <3>1. thread' \in [Broadcasters -> Threads] /\ thread'[t] = r
      BY <1>2, <2>2, ThreadTypes
    <3>. QED  BY <3>1, <1>2 DEF PushTypes, Threads
  <2>4. thread[t].snapshot \subseteq Connections /\ thread[t].at = "next"
    BY <1>2, <1>5 DEF PushTypes, Threads, BroadcastEnds
  <2>6. PushTypes'
    BY <1>1, <1>2, <2>3 DEF PushTypes, Commands
  <2>5. ThreadOk(t)'
    BY <1>1, <1>2, <1>3, <2>3, <2>4 DEF ThreadOk
  <2>. QED  BY <1>1, <1>3, <2>5, <2>6, ThreadMoves
<1>. QED  BY <1>4, <1>5

LEMMA EntersPeerKeepsPush ==
    ASSUME PushInv, DispatchOnly', NEW t \in Broadcasters, NEW c \in Connections, EntersPeer(t, c)
    PROVE  PushInv'
<1>1. /\ UNCHANGED <<application, phase, submitted, peers, peer_closed>>
      /\ thread[t].at = "next" /\ c \in thread[t].left /\ lock[c] = NONE
  BY DEF EntersPeer, engine
<1>2. PushTypes /\ ThreadOk(t) /\ thread[t].peer = NONE
  BY <1>1 DEF PushInv, ThreadOk
<1>3. \A u \in Broadcasters, d \in Connections :
          (Occurs(u, submitted'[d]) <=> Occurs(u, submitted[d])) /\ (Once(u, submitted'[d]) <=> Once(u, submitted[d]))
  BY <1>1 DEF Occurs, Once
<1>4. thread[t].snapshot \subseteq Connections
  BY <1>2 DEF PushTypes, Threads
<1>5. CASE peer_closed[c]
  <2>1. thread' = [thread EXCEPT ![t].left = @ \ {c}] /\ lock' = lock
    BY <1>5 DEF EntersPeer
  <2> DEFINE r == [thread[t] EXCEPT !.left = thread[t].left \ {c}]
  <2>7. thread[t] \in Threads
    BY <1>2 DEF PushTypes
  <2>8. r \in Threads
    BY <2>7 DEF Threads
  <2>9. thread' = [thread EXCEPT ![t] = r]
    BY <1>2, <2>1 DEF PushTypes
  <2>5. r \in Threads /\ thread' = [thread EXCEPT ![t] = r]
    BY <2>8, <2>9
  <2>6. /\ thread' \in [Broadcasters -> Threads] /\ thread'[t] = r
        /\ \A u \in Broadcasters \ {t} : thread'[u] = thread[u]
    BY <1>2, <2>5, ThreadTypes
  <2>2. PushTypes'
    BY <1>1, <1>2, <2>1, <2>6 DEF PushTypes, Commands
  <2>3. /\ thread'[t].at = "next" /\ thread'[t].snapshot = thread[t].snapshot
        /\ thread'[t].left = thread[t].left \ {c} /\ thread'[t].peer = NONE
    BY <1>1, <1>2, <2>6 DEF PushTypes, Threads
  <2>4. ThreadOk(t)'
    BY <1>1, <1>2, <1>3, <1>4, <1>5, <2>3 DEF ThreadOk
  <2>. QED  BY <1>1, <1>3, <2>1, <2>2, <2>4, <2>6, ThreadMoves
<1>6. CASE ~peer_closed[c]
  <2>1. /\ thread' = [thread EXCEPT ![t].left = @ \ {c}, ![t].at = "sending", ![t].peer = c]
        /\ lock' = [lock EXCEPT ![c] = t]
    BY <1>6 DEF EntersPeer
  <2> DEFINE r == [thread[t] EXCEPT !.left = thread[t].left \ {c}, !.at = "sending", !.peer = c]
  <2>7. thread[t] \in Threads
    BY <1>2 DEF PushTypes
  <2>8. r \in Threads
    BY <2>7 DEF Threads
  <2>9. thread' = [thread EXCEPT ![t] = r]
    BY <1>2, <2>1, <2>7 DEF PushTypes, Threads
  <2>5. r \in Threads /\ thread' = [thread EXCEPT ![t] = r]
    BY <2>8, <2>9
  <2>6. /\ thread' \in [Broadcasters -> Threads] /\ thread'[t] = r
        /\ \A u \in Broadcasters \ {t} : thread'[u] = thread[u]
    BY <1>2, <2>5, ThreadTypes
  <2>2. PushTypes'
    BY <1>1, <1>2, <2>1, <2>6 DEF PushTypes, Commands
  <2>3. /\ thread'[t].at = "sending" /\ thread'[t].snapshot = thread[t].snapshot
        /\ thread'[t].left = thread[t].left \ {c} /\ thread'[t].peer = c
        /\ lock'[c] = t /\ \A d \in Connections \ {c} : lock'[d] = lock[d]
    BY <1>1, <1>2, <2>1, <2>6 DEF PushTypes, Threads
  <2>4. ThreadOk(t)'
    <3>1. /\ thread[t].left \subseteq thread[t].snapshot /\ c \in thread[t].snapshot
          /\ application = "push" /\ c # NONE
      BY <1>1, <1>2 DEF ThreadOk
    <3>2. \A d \in Connections : Occurs(t, submitted[d]) => d \in thread[t].snapshot \ thread[t].left
      BY <1>2 DEF ThreadOk
    <3>3. \A d \in Connections : Once(t, submitted[d])
      BY <1>2 DEF ThreadOk
    <3>4. \A d \in thread[t].snapshot \ thread[t].left : Occurs(t, submitted[d]) \/ peer_closed[d]
      BY <1>2, <1>4 DEF ThreadOk
    <3>5. thread'[t].peer \in thread'[t].snapshot \ thread'[t].left /\ lock'[thread'[t].peer] = t
      BY <2>3, <3>1
    <3>6. \A d \in Connections : Occurs(t, submitted'[d]) =>
              d \in thread'[t].snapshot \ thread'[t].left /\ thread'[t].peer # d
      BY <1>1, <1>3, <2>3, <3>2
    <3>7. \A d \in thread'[t].snapshot \ thread'[t].left :
              Occurs(t, submitted'[d]) \/ peer_closed'[d] \/ thread'[t].peer = d
      BY <1>1, <1>3, <1>4, <2>3, <3>4
    <3>. QED  BY <1>1, <1>3, <1>6, <2>3, <3>1, <3>3, <3>5, <3>6, <3>7 DEF ThreadOk
  <2>. QED  BY <1>1, <1>3, <2>2, <2>3, <2>4, <2>6, ThreadMoves
<1>. QED  BY <1>5, <1>6

LEMMA LeavesPeerKeepsPush ==
    ASSUME PushInv, DispatchOnly', NEW t \in Broadcasters, LeavesPeer(t)
    PROVE  PushInv'
<1> DEFINE c == thread[t].peer
<1>1. /\ thread[t].at = "sending"
      /\ UNCHANGED <<application, phase, peers>>
      /\ IF Accepts(c) THEN Submits(c, t) /\ UNCHANGED peer_closed
         ELSE peer_closed' = [peer_closed EXCEPT ![c] = TRUE] /\ UNCHANGED submitted
      /\ thread' = [thread EXCEPT ![t].at = "next", ![t].peer = NONE]
      /\ lock' = [lock EXCEPT ![c] = NONE]
  BY DEF LeavesPeer
<1>2. PushTypes /\ ThreadOk(t)
  BY DEF PushInv
<1>3. /\ c \in thread[t].snapshot \ thread[t].left /\ c \in Connections
      /\ lock[c] = t /\ application = "push" /\ ~Occurs(t, submitted[c])
      /\ thread[t].snapshot \subseteq Connections
  BY <1>1, <1>2 DEF ThreadOk, PushTypes, Threads
<1> HIDE DEF c
<1> DEFINE r == [thread[t] EXCEPT !.at = "next", !.peer = NONE]
<1>10. r \in Threads /\ thread' = [thread EXCEPT ![t] = r]
  <2>1. thread[t] \in Threads
    BY <1>2 DEF PushTypes
  <2>2. r \in Threads
    BY <2>1 DEF Threads
  <2>3. thread' = [thread EXCEPT ![t] = r]
    BY <1>1, <1>2, <2>1 DEF PushTypes, Threads
  <2>. QED  BY <2>2, <2>3
<1>11. /\ thread' \in [Broadcasters -> Threads] /\ thread'[t] = r
       /\ \A u \in Broadcasters \ {t} : thread'[u] = thread[u]
  BY <1>2, <1>10, ThreadTypes
<1>4. /\ thread'[t].at = "next" /\ thread'[t].peer = NONE
      /\ thread'[t].snapshot = thread[t].snapshot /\ thread'[t].left = thread[t].left
      /\ \A u \in Broadcasters \ {t} : thread'[u] = thread[u]
      /\ \A d \in Connections \ {c} : lock'[d] = lock[d]
  BY <1>1, <1>2, <1>3, <1>11 DEF PushTypes, Threads
<1>5. /\ peer_closed' \in [Connections -> BOOLEAN]
      /\ \A d \in Connections \ {c} : peer_closed'[d] = peer_closed[d]
      /\ \A d \in Connections : peer_closed[d] => peer_closed'[d]
  BY <1>1, <1>2, <1>3 DEF PushTypes
<1>6. /\ submitted \in [Connections -> Seq(Broadcasters)]
      /\ submitted' \in [Connections -> Seq(Broadcasters)]
      /\ \A d \in Connections \ {c} : submitted'[d] = submitted[d]
  <2>1. submitted \in [Connections -> Seq(Broadcasters)]
    BY <1>2, <1>3 DEF PushTypes, Commands
  <2>2. Append(submitted[c], t) \in Seq(Broadcasters)
    BY <1>3, <2>1
  <2>. QED  BY <1>1, <1>3, <2>1, <2>2 DEF Submits
<1>7. PushTypes'
  <2>1. lock' \in [Connections -> Broadcasters \cup {NONE}]
    BY <1>1, <1>2 DEF PushTypes
  <2>. QED  BY <1>1, <1>2, <1>3, <1>5, <1>6, <1>11, <2>1 DEF PushTypes, Commands
<1>8. \A u \in Broadcasters \ {t}, d \in Connections :
          (Occurs(u, submitted'[d]) <=> Occurs(u, submitted[d])) /\ (Once(u, submitted'[d]) <=> Once(u, submitted[d]))
  <2> SUFFICES ASSUME NEW u \in Broadcasters \ {t}, NEW d \in Connections
               PROVE  (Occurs(u, submitted'[d]) <=> Occurs(u, submitted[d])) /\ (Once(u, submitted'[d]) <=> Once(u, submitted[d]))
    OBVIOUS
  <2>1. CASE submitted'[d] = submitted[d]
    BY <2>1 DEF Occurs, Once
  <2>2. CASE submitted'[d] # submitted[d]
    <3>1. d = c /\ submitted'[d] = Append(submitted[d], t)
      BY <2>2, <1>1, <1>3, <1>6 DEF Submits
    <3>2. submitted[d] \in Seq(Broadcasters) /\ t # u
      BY <1>6
    <3>3. Occurs(u, Append(submitted[d], t)) <=> Occurs(u, submitted[d])
      BY <3>2, AppendOccurs
    <3>4. Once(u, submitted[d]) => Once(u, Append(submitted[d], t))
      BY <3>2, AppendOccurs
    <3>5. Once(u, submitted[d])
      BY DEF PushInv, ThreadOk
    <3>. QED  BY <3>1, <3>3, <3>4, <3>5
  <2>. QED  BY <2>1, <2>2
<1>9. ThreadOk(t)'
  <2>1. \A d \in Connections \ {c} :
            (Occurs(t, submitted'[d]) <=> Occurs(t, submitted[d])) /\ (Once(t, submitted'[d]) <=> Once(t, submitted[d]))
    BY <1>6 DEF Occurs, Once
  <2>2. (Occurs(t, submitted'[c]) \/ peer_closed'[c]) /\ Once(t, submitted'[c])
    <3>1. CASE Accepts(c)
      <4>1. submitted'[c] = Append(submitted[c], t)
        BY <3>1, <1>1, <1>3, <1>6 DEF Submits
      <4>2. ~Occurs(t, submitted[c]) /\ Once(t, submitted[c])
        BY <1>2, <1>3 DEF ThreadOk
      <4>. QED  BY <4>1, <4>2, <1>3, <1>6, AppendOccurs
    <3>2. CASE ~Accepts(c)
      <4>1. peer_closed'[c] /\ submitted' = submitted
        BY <3>2, <1>1, <1>2, <1>3 DEF PushTypes
      <4>. QED  BY <4>1, <1>2, <1>3 DEF ThreadOk
    <3>. QED  BY <3>1, <3>2
  <2>3. \A d \in Connections : Occurs(t, submitted'[d]) =>
            d \in thread'[t].snapshot \ thread'[t].left /\ thread'[t].peer # d
    BY <1>2, <1>3, <1>4, <2>1 DEF ThreadOk
  <2>4. \A d \in Connections : Once(t, submitted'[d])
    BY <1>2, <2>1, <2>2 DEF ThreadOk
  <2>5. \A d \in thread'[t].snapshot \ thread'[t].left :
            Occurs(t, submitted'[d]) \/ peer_closed'[d] \/ thread'[t].peer = d
    <3> SUFFICES ASSUME NEW d \in thread[t].snapshot \ thread[t].left, d # c
                 PROVE  Occurs(t, submitted'[d]) \/ peer_closed'[d]
      BY <1>4, <2>2
    <3>1. d \in Connections /\ (Occurs(t, submitted[d]) \/ peer_closed[d])
      BY <1>2, <1>3 DEF ThreadOk, c
    <3>. QED  BY <3>1, <1>5, <2>1
  <2>6. thread'[t].left \subseteq thread'[t].snapshot
    BY <1>2, <1>4 DEF ThreadOk
  <2>. QED  BY <1>1, <1>3, <1>4, <2>3, <2>4, <2>5, <2>6 DEF ThreadOk
<1>. QED  BY <1>1, <1>3, <1>4, <1>5, <1>7, <1>8, <1>9, ThreadMoves

-----------------------------------------------------------------------------
(* The order of replies.                                                   *)

\* The requests under way, in the order in which they are answered: the
\* processor's, those in the queue, and the one a connection's callback offers.
Line(request, q, o) ==
    [p \in 0..(Len(q) + 1) |-> IF p = 0 THEN request ELSE IF p <= Len(q) THEN q[p] ELSE o]

\* What the order of a connection's replies depends on.
ViewOf(proc, q, o, s, a, e, b) ==
    [line |-> Line(proc.request, q, o), at |-> proc.at,
     submitted |-> s, arrived |-> a, ended |-> e, aborted |-> b]

View(c) == ViewOf(processor, queue, offer[c], submitted[c], arrived[c], ended[c], aborted[c])

Mine(c, v, p) == p \in DOMAIN v.line /\ v.line[p] # NONE /\ v.line[p].c = c

\* The end alone comes behind every payload.
Key(v, r) == IF r.n = 0 THEN v.arrived + 1 ELSE r.n

\* Requests are under way in the order of their payloads, behind what was
\* submitted; one that completes its connection is the last.
InOrder(c, v, p) ==
    LET r == v.line[p]
    IN /\ r.n <= v.arrived
       /\ r.n = 0 => r.completed
       /\ r.completed => v.ended /\ r.n \in {0, v.arrived}
       /\ \A q \in DOMAIN v.line :
             p < q /\ Mine(c, v, q) => Key(v, r) < Key(v, v.line[q]) /\ ~r.completed
       /\ \A i \in DOMAIN v.submitted :
             /\ v.submitted[i] # Shutdown
             /\ v.submitted[i] < Key(v, r) \/ (p = 0 /\ v.at = "ending" /\ v.submitted[i] = r.n)

AllInOrder(c, v) == \A p \in DOMAIN v.line : Mine(c, v, p) => InOrder(c, v, p)

\* What the processor is about to do with its request.
Processing(c, v) ==
    Mine(c, v, 0) =>
        /\ v.at = "handling" => v.line[0].n > 0
        /\ v.at = "ending" /\ v.line[0].n > 0 => Occurs(v.line[0].n, v.submitted)

\* No payload is skipped unless its connection is aborted.
Covered(c, v) ==
    ~v.aborted /\ v.at # "faulted" =>
        \A k \in 1..v.arrived :
            Occurs(k, v.submitted) \/ \E p \in DOMAIN v.line : Mine(c, v, p) /\ v.line[p].n = k

Replied(v) ==
    \A i \in DOMAIN v.submitted :
        IF v.submitted[i] = Shutdown
        THEN v.ended /\ i = Len(v.submitted) /\ (~v.aborted => i = v.arrived + 1)
        ELSE /\ v.submitted[i] \in i..v.arrived
             /\ ~v.aborted => v.submitted[i] = i
             /\ i > 1 => v.submitted[i - 1] < v.submitted[i]

Order(c, v) == AllInOrder(c, v) /\ Processing(c, v) /\ Covered(c, v) /\ Replied(v)

OrderInv ==
    /\ ended \in [Connections -> BOOLEAN] /\ aborted \in [Connections -> BOOLEAN]
    /\ application # "push" => \A c \in Connections : Order(c, View(c))

Requests == ReceivedRequests \cup {NONE}

ViewOk(v) ==
    /\ DOMAIN v.line \subseteq Nat
    /\ \A p \in DOMAIN v.line : v.line[p] \in Requests
    /\ v.submitted \in Seq(Nat) /\ v.arrived \in Nat
    /\ v.ended \in BOOLEAN /\ v.aborted \in BOOLEAN

LEMMA LineFacts ==
    ASSUME NEW request \in Requests, NEW q \in Seq(ReceivedRequests), NEW o \in Requests
    PROVE  /\ DOMAIN Line(request, q, o) = 0..(Len(q) + 1) /\ Len(q) \in Nat
           /\ Line(request, q, o)[0] = request
           /\ \A p \in 1..Len(q) : Line(request, q, o)[p] = q[p] /\ q[p] \in ReceivedRequests
           /\ Line(request, q, o)[Len(q) + 1] = o
           /\ \A p \in 0..(Len(q) + 1) : Line(request, q, o)[p] \in Requests
<1>1. Len(q) \in Nat /\ \A p \in 1..Len(q) : q[p] \in ReceivedRequests
  OBVIOUS
<1>2. \A p \in 0..(Len(q) + 1) : Line(request, q, o)[p] =
          IF p = 0 THEN request ELSE IF p <= Len(q) THEN q[p] ELSE o
  BY DEF Line
<1>3. DOMAIN Line(request, q, o) = 0..(Len(q) + 1)
  BY DEF Line
<1>4. \A p \in 1..Len(q) : p \in 0..(Len(q) + 1) /\ p # 0 /\ p <= Len(q)
  BY <1>1
<1>5. /\ 0 \in 0..(Len(q) + 1) /\ Len(q) + 1 \in 0..(Len(q) + 1)
      /\ Len(q) + 1 # 0 /\ ~(Len(q) + 1 <= Len(q))
  BY <1>1
<1>6. \A p \in 0..(Len(q) + 1) : p = 0 \/ p \in 1..Len(q) \/ p = Len(q) + 1
  BY <1>1
<1> DEFINE l == Line(request, q, o)
<1>7. l[0] = request /\ l[Len(q) + 1] = o /\ \A p \in 1..Len(q) : l[p] = q[p]
  BY <1>2, <1>4, <1>5
<1>8. \A p \in 0..(Len(q) + 1) : l[p] \in Requests
  BY <1>1, <1>6, <1>7 DEF Requests
<1>. QED  BY <1>1, <1>3, <1>7, <1>8

LEMMA ViewFacts ==
    ASSUME NEW proc, proc.request \in Requests, NEW q \in Seq(ReceivedRequests), NEW o \in Requests,
           NEW s \in Seq(Nat), NEW a \in Nat, NEW e \in BOOLEAN, NEW b \in BOOLEAN,
           NEW v, v = ViewOf(proc, q, o, s, a, e, b)
    PROVE  /\ ViewOk(v)
           /\ v.at = proc.at /\ v.submitted = s /\ v.arrived = a /\ v.ended = e /\ v.aborted = b
           /\ DOMAIN v.line = 0..(Len(q) + 1) /\ Len(q) \in Nat
           /\ v.line[0] = proc.request /\ v.line[Len(q) + 1] = o
           /\ \A p \in 1..Len(q) : v.line[p] = q[p]
<1>1. 0..(Len(q) + 1) \subseteq Nat
  OBVIOUS
<1>2. /\ v.line = Line(proc.request, q, o) /\ v.at = proc.at /\ v.submitted = s
      /\ v.arrived = a /\ v.ended = e /\ v.aborted = b
  BY DEF ViewOf
<1>. QED  BY <1>1, <1>2, LineFacts DEF ViewOk

\* The requests of a connection that is not being answered may move up, and
\* some may go, as long as they do not overtake each other.
LEMMA Moves ==
    ASSUME NEW c, NEW v, NEW w, ViewOk(v), ViewOk(w), Order(c, v),
           w.submitted = v.submitted, w.arrived = v.arrived, w.ended = v.ended, v.aborted => w.aborted,
           NEW F \in [Nat -> Nat],
           \A p \in DOMAIN w.line : Mine(c, w, p) =>
               /\ Mine(c, v, F[p]) /\ w.line[p] = v.line[F[p]]
               /\ F[p] = 0 => p = 0 /\ w.at = v.at,
           \A p, q \in DOMAIN w.line : Mine(c, w, p) /\ Mine(c, w, q) /\ p < q => F[p] < F[q]
    PROVE  AllInOrder(c, w) /\ Replied(w)
<1>1. Replied(w)
  <2>1. Replied(v)
    BY DEF Order
  <2>2. v.aborted \in BOOLEAN /\ w.aborted \in BOOLEAN
    BY DEF ViewOk
  <2>. QED  BY <2>1, <2>2 DEF Replied
<1>2. ASSUME NEW p \in DOMAIN w.line, Mine(c, w, p) PROVE InOrder(c, w, p)
  <2>1. /\ F[p] \in DOMAIN v.line /\ Mine(c, v, F[p]) /\ w.line[p] = v.line[F[p]]
        /\ F[p] = 0 => p = 0 /\ w.at = v.at
    BY <1>2 DEF Mine
  <2>2. InOrder(c, v, F[p])
    BY <2>1 DEF Order, AllInOrder
  <2>3. \A r : Key(w, r) = Key(v, r)
    BY DEF Key
  <2> DEFINE r == w.line[p]
  <2>4. \A q \in DOMAIN w.line : p < q /\ Mine(c, w, q) => Key(w, r) < Key(w, w.line[q]) /\ ~r.completed
    <3> SUFFICES ASSUME NEW q \in DOMAIN w.line, p < q, Mine(c, w, q)
                 PROVE  Key(w, r) < Key(w, w.line[q]) /\ ~r.completed
      OBVIOUS
    <3>1. F[q] \in DOMAIN v.line /\ Mine(c, v, F[q]) /\ w.line[q] = v.line[F[q]] /\ F[p] < F[q]
      BY <1>2 DEF Mine
    <3>. QED  BY <2>1, <2>2, <2>3, <3>1 DEF InOrder
  <2>5. \A i \in DOMAIN w.submitted :
            /\ w.submitted[i] # Shutdown
            /\ w.submitted[i] < Key(w, r) \/ (p = 0 /\ w.at = "ending" /\ w.submitted[i] = r.n)
    BY <2>1, <2>2, <2>3 DEF InOrder
  <2>6. r.n <= w.arrived /\ (r.n = 0 => r.completed) /\ (r.completed => w.ended /\ r.n \in {0, w.arrived})
    BY <2>1, <2>2 DEF InOrder
  <2>. QED  BY <2>4, <2>5, <2>6 DEF InOrder
<1>. QED  BY <1>1, <1>2 DEF AllInOrder

\* None goes unless the connection is aborted or the processor faulted.
LEMMA MovesWhole ==
    ASSUME NEW c, NEW v, NEW w, ViewOk(v), ViewOk(w), Order(c, v),
           AllInOrder(c, w), Replied(w),
           w.submitted = v.submitted, w.arrived = v.arrived, v.aborted => w.aborted,
           w.at # "faulted" => v.at # "faulted", Processing(c, w),
           NEW G \in [Nat -> Nat],
           w.aborted \/ w.at = "faulted"
               \/ \A p \in DOMAIN v.line : Mine(c, v, p) => Mine(c, w, G[p]) /\ w.line[G[p]] = v.line[p]
    PROVE  Order(c, w)
<1>2. Covered(c, w)
  <2> SUFFICES ASSUME ~w.aborted, w.at # "faulted", NEW k \in 1..w.arrived
               PROVE  Occurs(k, w.submitted) \/ \E p \in DOMAIN w.line : Mine(c, w, p) /\ w.line[p].n = k
    BY DEF Covered
  <2>1. v.aborted \in BOOLEAN /\ w.aborted \in BOOLEAN
    BY DEF ViewOk
  <2>2. Occurs(k, v.submitted) \/ \E p \in DOMAIN v.line : Mine(c, v, p) /\ v.line[p].n = k
    BY <2>1 DEF Order, Covered
  <2>3. CASE Occurs(k, v.submitted)
    BY <2>3
  <2>4. ASSUME NEW p \in DOMAIN v.line, Mine(c, v, p), v.line[p].n = k
        PROVE  \E q \in DOMAIN w.line : Mine(c, w, q) /\ w.line[q].n = k
    BY <2>4 DEF Mine
  <2>. QED  BY <2>2, <2>3, <2>4
<1>. QED  BY <1>2 DEF Order

\* The requests of a connection that stay do so at their places.
LEMMA Stays ==
    ASSUME NEW c, NEW v, NEW w, ViewOk(v), ViewOk(w), Order(c, v),
           w.submitted = v.submitted, w.arrived = v.arrived, w.ended = v.ended, v.aborted => w.aborted,
           v.at = "faulted" => w.at = "faulted",
           \A p \in DOMAIN w.line : Mine(c, w, p) => Mine(c, v, p) /\ w.line[p] = v.line[p],
           Mine(c, w, 0) => w.at = v.at,
           w.aborted \/ w.at = "faulted"
               \/ \A p \in DOMAIN v.line : Mine(c, v, p) => Mine(c, w, p) /\ w.line[p] = v.line[p]
    PROVE  Order(c, w)
<1> DEFINE F == [p \in Nat |-> p]
<1>1. F \in [Nat -> Nat] /\ \A p \in Nat : F[p] = p
  OBVIOUS
<1>2. DOMAIN w.line \subseteq Nat /\ DOMAIN v.line \subseteq Nat
  BY DEF ViewOk
<1> HIDE DEF F
<1>3. \A p \in DOMAIN w.line : Mine(c, w, p) =>
          /\ Mine(c, v, F[p]) /\ w.line[p] = v.line[F[p]]
          /\ F[p] = 0 => p = 0 /\ w.at = v.at
  BY <1>1, <1>2
<1>4. \A p, q \in DOMAIN w.line : Mine(c, w, p) /\ Mine(c, w, q) /\ p < q => F[p] < F[q]
  BY <1>1, <1>2
<1>5. AllInOrder(c, w) /\ Replied(w)
  BY <1>1, <1>3, <1>4, Moves
<1>6. Processing(c, w)
  <2> SUFFICES ASSUME Mine(c, w, 0)
               PROVE  /\ w.at = "handling" => w.line[0].n > 0
                      /\ w.at = "ending" /\ w.line[0].n > 0 => Occurs(w.line[0].n, w.submitted)
    BY DEF Processing
  <2>1. Mine(c, v, 0) /\ w.line[0] = v.line[0]
    BY DEF Mine
  <2>. QED  BY <2>1 DEF Order, Processing
<1>7. w.aborted \/ w.at = "faulted"
          \/ \A p \in DOMAIN v.line : Mine(c, v, p) => Mine(c, w, F[p]) /\ w.line[F[p]] = v.line[p]
  BY <1>1, <1>2
<1>. QED  BY <1>1, <1>5, <1>6, <1>7, MovesWhole

Typed == ended \in [Connections -> BOOLEAN] /\ aborted \in [Connections -> BOOLEAN]

\* What is known of a connection before a step, ...
LEMMA ViewNow ==
    ASSUME IInv, PushInv, OrderInv, application # "push", NEW c \in Connections, NEW v, v = View(c)
    PROVE  /\ ViewOk(v) /\ Order(c, v)
           /\ v.at = processor.at /\ v.submitted = submitted[c] /\ v.arrived = arrived[c]
           /\ v.ended = ended[c] /\ v.aborted = aborted[c]
           /\ DOMAIN v.line = 0..(Len(queue) + 1) /\ Len(queue) \in Nat
           /\ v.line[0] = processor.request /\ v.line[Len(queue) + 1] = offer[c]
           /\ \A p \in 1..Len(queue) : v.line[p] = queue[p]
<1>1. /\ processor.request \in Requests /\ queue \in Seq(ReceivedRequests)
      /\ offer[c] \in Requests /\ submitted[c] \in Seq(Nat) /\ arrived[c] \in Nat
      /\ ended[c] \in BOOLEAN /\ aborted[c] \in BOOLEAN
  BY DEF IInv, Types, PushInv, PushTypes, Commands, OrderInv, Requests
<1>2. Order(c, v)
  BY DEF OrderInv
<1>3. v = ViewOf(processor, queue, offer[c], submitted[c], arrived[c], ended[c], aborted[c])
  BY DEF View
<1>. QED  BY <1>1, <1>2, <1>3, ViewFacts

\* ... and after it.
LEMMA ViewNext ==
    ASSUME IInv', PushInv', Typed', application' # "push", NEW c \in Connections, NEW w,
           w = ViewOf(processor', queue', offer'[c], submitted'[c], arrived'[c], ended'[c], aborted'[c])
    PROVE  /\ ViewOk(w)
           /\ w.at = processor'.at /\ w.submitted = submitted'[c] /\ w.arrived = arrived'[c]
           /\ w.ended = ended'[c] /\ w.aborted = aborted'[c]
           /\ DOMAIN w.line = 0..(Len(queue') + 1) /\ Len(queue') \in Nat
           /\ w.line[0] = processor'.request /\ w.line[Len(queue') + 1] = offer'[c]
           /\ \A p \in 1..Len(queue') : w.line[p] = queue'[p]
<1>1. /\ processor'.request \in Requests /\ queue' \in Seq(ReceivedRequests)
      /\ offer'[c] \in Requests /\ submitted'[c] \in Seq(Nat) /\ arrived'[c] \in Nat
      /\ ended'[c] \in BOOLEAN /\ aborted'[c] \in BOOLEAN
  BY DEF IInv, Types, PushInv, PushTypes, Commands, Typed, Requests
<1>. QED  BY <1>1, ViewFacts

\* A request is behind all of its connection in the queue, wherever others are.
LEMMA OfferedKeepsOrder ==
    ASSUME IInv, PushInv, OrderInv, IInv', PushInv', Typed', application # "push",
           NEW c \in Connections, Offered(c), NEW d \in Connections
    PROVE  Order(d, View(d)')
<1> DEFINE v == View(d)
           w == ViewOf(processor', queue', offer'[d], submitted'[d], arrived'[d], ended'[d], aborted'[d])
<1>1. /\ UNCHANGED <<processor, application, submitted, arrived, ended, aborted>>
      /\ queue' = Append(queue, offer[c]) /\ offer' = [offer EXCEPT ![c] = NONE]
      /\ offer[c] \in ReceivedRequests /\ offer[c].c = c
  BY DEF Offered, engine, IInv, Types, RequestsPlaced
<1>3. /\ ViewOk(v) /\ Order(d, v)
      /\ v.at = processor.at /\ v.submitted = submitted[d] /\ v.arrived = arrived[d]
      /\ v.ended = ended[d] /\ v.aborted = aborted[d]
      /\ DOMAIN v.line = 0..(Len(queue) + 1) /\ Len(queue) \in Nat
      /\ v.line[0] = processor.request /\ v.line[Len(queue) + 1] = offer[d]
      /\ \A p \in 1..Len(queue) : v.line[p] = queue[p]
  BY ViewNow
<1>4. /\ ViewOk(w)
      /\ w.at = processor'.at /\ w.submitted = submitted'[d] /\ w.arrived = arrived'[d]
      /\ w.ended = ended'[d] /\ w.aborted = aborted'[d]
      /\ DOMAIN w.line = 0..(Len(queue') + 1) /\ Len(queue') \in Nat
      /\ w.line[0] = processor'.request /\ w.line[Len(queue') + 1] = offer'[d]
      /\ \A p \in 1..Len(queue') : w.line[p] = queue'[p]
  BY <1>1, ViewNext
<1> DEFINE L == Len(queue)
<1>5. /\ Len(queue') = L + 1 /\ queue'[L + 1] = offer[c]
      /\ \A p \in 1..L : queue'[p] = queue[p]
  BY <1>1 DEF IInv, Types
<1>6. offer'[d] = IF d = c THEN NONE ELSE offer[d]
  BY <1>1 DEF IInv, Types
<1> HIDE DEF v, w, L
<1>7. L \in Nat /\ DOMAIN v.line = 0..(L + 1) /\ DOMAIN w.line = 0..(L + 2)
  BY <1>3, <1>4, <1>5 DEF L
<1>8. \A p \in 0..L : w.line[p] = v.line[p]
  <2>1. w.line[0] = v.line[0]
    BY <1>1, <1>3, <1>4
  <2>2. \A p \in 1..L : w.line[p] = v.line[p]
    BY <1>3, <1>4, <1>5, <1>7 DEF L
  <2>. QED  BY <1>7, <2>1, <2>2
<1>9. /\ w.line[L + 1] = offer[c] /\ w.line[L + 2] = offer'[d] /\ v.line[L + 1] = offer[d]
  BY <1>3, <1>4, <1>5, <1>7 DEF L
<1>10. /\ w.submitted = v.submitted /\ w.arrived = v.arrived /\ w.ended = v.ended
       /\ w.aborted = v.aborted /\ w.at = v.at
  BY <1>1, <1>3, <1>4
<1>11. \A p \in 0..L : Mine(d, w, p) <=> Mine(d, v, p)
  BY <1>7, <1>8 DEF Mine
<1>12. CASE d = c
  <2>1. Mine(d, w, L + 1) <=> Mine(d, v, L + 1)
    BY <1>7, <1>9, <1>12 DEF Mine
  <2>2. ~Mine(d, w, L + 2)
    BY <1>6, <1>9, <1>12 DEF Mine
  <2>3. \A p \in 0..(L + 1) : (Mine(d, w, p) <=> Mine(d, v, p)) /\ w.line[p] = v.line[p]
    BY <1>7, <1>8, <1>9, <1>11, <1>12, <2>1
  <2>4. \A p \in DOMAIN w.line : Mine(d, w, p) => Mine(d, v, p) /\ w.line[p] = v.line[p]
    BY <1>7, <2>2, <2>3
  <2>5. \A p \in DOMAIN v.line : Mine(d, v, p) => Mine(d, w, p) /\ w.line[p] = v.line[p]
    BY <1>7, <2>3
  <2>6. Order(d, w)
    BY <1>3, <1>4, <1>10, <2>4, <2>5, Stays
  <2>. QED  BY <2>6 DEF w, View
<1>13. CASE d # c
  <2>1. ~Mine(d, w, L + 1)
    BY <1>1, <1>9, <1>13 DEF Mine
  <2>2. (Mine(d, w, L + 2) <=> Mine(d, v, L + 1)) /\ w.line[L + 2] = v.line[L + 1]
    BY <1>6, <1>7, <1>9, <1>13 DEF Mine
  <2> DEFINE F == [p \in Nat |-> IF p = L + 2 THEN L + 1 ELSE p]
             G == [p \in Nat |-> IF p = L + 1 THEN L + 2 ELSE p]
  <2>3. /\ F \in [Nat -> Nat] /\ G \in [Nat -> Nat]
        /\ F[L + 2] = L + 1 /\ G[L + 1] = L + 2 /\ \A p \in 0..L : F[p] = p /\ G[p] = p
    BY <1>7
  <2> HIDE DEF F, G
  <2>4. \A p \in DOMAIN w.line : Mine(d, w, p) => p \in 0..L \/ p = L + 2
    BY <1>7, <2>1
  <2>5. \A p \in DOMAIN w.line : Mine(d, w, p) =>
            /\ Mine(d, v, F[p]) /\ w.line[p] = v.line[F[p]]
            /\ F[p] = 0 => p = 0 /\ w.at = v.at
    <3> SUFFICES ASSUME NEW p \in DOMAIN w.line, Mine(d, w, p)
                 PROVE  /\ Mine(d, v, F[p]) /\ w.line[p] = v.line[F[p]]
                        /\ F[p] = 0 => p = 0 /\ w.at = v.at
      OBVIOUS
    <3>1. CASE p \in 0..L
      BY <3>1, <1>8, <1>10, <1>11, <2>3
    <3>2. CASE p = L + 2
      BY <3>2, <1>7, <2>2, <2>3
    <3>. QED  BY <2>4, <3>1, <3>2
  <2>6. \A p, q \in DOMAIN w.line : Mine(d, w, p) /\ Mine(d, w, q) /\ p < q => F[p] < F[q]
    <3> SUFFICES ASSUME NEW p \in DOMAIN w.line, NEW q \in DOMAIN w.line,
                        Mine(d, w, p), Mine(d, w, q), p < q
                 PROVE  F[p] < F[q]
      OBVIOUS
    <3>1. (p \in 0..L \/ p = L + 2) /\ (q \in 0..L \/ q = L + 2)
      BY <2>4
    <3>2. p \in 0..L
      BY <1>7, <3>1
    <3>3. CASE q \in 0..L
      BY <2>3, <3>2, <3>3
    <3>4. CASE q = L + 2
      BY <1>7, <2>3, <3>2, <3>4
    <3>. QED  BY <3>1, <3>3, <3>4
  <2>11. ViewOk(v) /\ ViewOk(w) /\ Order(d, v) /\ F \in [Nat -> Nat] /\ G \in [Nat -> Nat]
    BY <1>3, <1>4, <2>3
  <2>7. AllInOrder(d, w) /\ Replied(w)
    <3>1. /\ w.submitted = v.submitted /\ w.arrived = v.arrived /\ w.ended = v.ended
          /\ v.aborted => w.aborted
      BY <1>10
    <3>. QED  BY <2>5, <2>6, <2>11, <3>1, Moves, ZenonT(30)
  <2>8. Processing(d, w)
    <3>1. (Mine(d, w, 0) <=> Mine(d, v, 0)) /\ w.line[0] = v.line[0]
      BY <1>7, <1>8, <1>11
    <3>. QED  BY <1>3, <1>10, <3>1 DEF Order, Processing
  <2>9. \A p \in DOMAIN v.line : Mine(d, v, p) => Mine(d, w, G[p]) /\ w.line[G[p]] = v.line[p]
    <3>1. \A p \in DOMAIN v.line : p \in 0..L \/ p = L + 1
      BY <1>7
    <3>. QED  BY <1>8, <1>11, <2>2, <2>3, <3>1
  <2>10. Order(d, w)
    BY <1>10, <2>7, <2>8, <2>9, <2>11, MovesWhole
  <2>. QED  BY <2>10 DEF w, View
<1>. QED  BY <1>12, <1>13

\* The processor takes the oldest request: all move up by one place.
LEMMA TakesKeepsOrder ==
    ASSUME IInv, PushInv, OrderInv, IInv', PushInv', Typed', application # "push",
           TakesRequest, NEW d \in Connections
    PROVE  Order(d, View(d)')
<1> DEFINE v == View(d)
           w == ViewOf(processor', queue', offer'[d], submitted'[d], arrived'[d], ended'[d], aborted'[d])
           L == Len(queue)
<1>1. /\ UNCHANGED <<application, submitted, arrived, ended, aborted, offer>>
      /\ queue # <<>> /\ queue' = Tail(queue)
      /\ processor.at = "waiting" /\ processor.request = NONE
      /\ processor'.request = queue[1]
      /\ processor'.at = IF queue[1].n > 0 THEN "handling" ELSE "ending"
      /\ queue \in Seq(ReceivedRequests)
  BY DEF TakesRequest, At, engine, IInv, Types, RequestsPlaced
<1>3. /\ ViewOk(v) /\ Order(d, v)
      /\ v.at = processor.at /\ v.submitted = submitted[d] /\ v.arrived = arrived[d]
      /\ v.ended = ended[d] /\ v.aborted = aborted[d]
      /\ DOMAIN v.line = 0..(Len(queue) + 1) /\ Len(queue) \in Nat
      /\ v.line[0] = processor.request /\ v.line[Len(queue) + 1] = offer[d]
      /\ \A p \in 1..Len(queue) : v.line[p] = queue[p]
  BY ViewNow
<1>4. /\ ViewOk(w)
      /\ w.at = processor'.at /\ w.submitted = submitted'[d] /\ w.arrived = arrived'[d]
      /\ w.ended = ended'[d] /\ w.aborted = aborted'[d]
      /\ DOMAIN w.line = 0..(Len(queue') + 1) /\ Len(queue') \in Nat
      /\ w.line[0] = processor'.request /\ w.line[Len(queue') + 1] = offer'[d]
      /\ \A p \in 1..Len(queue') : w.line[p] = queue'[p]
  BY <1>1, ViewNext
<1>5. /\ L \in Nat \ {0} /\ Len(queue') = L - 1
      /\ \A p \in 1..(L - 1) : queue'[p] = queue[p + 1]
  BY <1>1
<1> HIDE DEF v, w, L
<1>6. /\ DOMAIN v.line = 0..(L + 1) /\ DOMAIN w.line = 0..L
  BY <1>3, <1>4, <1>5 DEF L
<1>7. w.line[0] = v.line[1] /\ w.line[L] = v.line[L + 1] /\ v.line[0] = NONE
  BY <1>1, <1>3, <1>4, <1>5 DEF L
<1>8. \A p \in 1..(L - 1) : w.line[p] = v.line[p + 1]
  <2>1. \A p \in 1..(L - 1) : w.line[p] = queue'[p]
    BY <1>4, <1>5
  <2>2. \A p \in 2..L : v.line[p] = queue[p]
    BY <1>3 DEF L
  <2>3. \A p \in 1..(L - 1) : p + 1 \in 2..L
    BY <1>5
  <2>. QED  BY <1>5, <2>1, <2>2, <2>3
<1>9. \A p \in 0..L : w.line[p] = v.line[p + 1]
  <2>1. \A p \in 0..L : p = 0 \/ p = L \/ p \in 1..(L - 1)
    BY <1>5
  <2>. QED  BY <1>7, <1>8, <2>1
<1>10. \A p \in 0..L : p + 1 \in 0..(L + 1) /\ (Mine(d, w, p) <=> Mine(d, v, p + 1))
  BY <1>5, <1>6, <1>9 DEF Mine
<1>11. ~Mine(d, v, 0)
  BY <1>7 DEF Mine
<1>12. /\ w.submitted = v.submitted /\ w.arrived = v.arrived /\ w.ended = v.ended
       /\ w.aborted = v.aborted
  BY <1>1, <1>3, <1>4
<1> DEFINE F == [p \in Nat |-> p + 1]
           G == [p \in Nat |-> IF p = 0 THEN 0 ELSE p - 1]
<1>13. /\ F \in [Nat -> Nat] /\ \A p \in 0..L : F[p] = p + 1
       /\ G \in [Nat -> Nat] /\ \A p \in 1..(L + 1) : G[p] = p - 1
  BY <1>5
<1> HIDE DEF F, G
<1>14. \A p \in DOMAIN w.line : Mine(d, w, p) =>
           /\ Mine(d, v, F[p]) /\ w.line[p] = v.line[F[p]]
           /\ F[p] = 0 => p = 0 /\ w.at = v.at
  <2> SUFFICES ASSUME NEW p \in DOMAIN w.line, Mine(d, w, p)
               PROVE  Mine(d, v, F[p]) /\ w.line[p] = v.line[F[p]] /\ F[p] # 0
    OBVIOUS
  <2>1. p \in 0..L
    BY <1>6
  <2>2. F[p] = p + 1
    BY <1>13, <2>1
  <2>3. p + 1 # 0
    BY <1>5, <2>1
  <2>. QED  BY <1>9, <1>10, <2>1, <2>2, <2>3
<1>15. \A p, q \in DOMAIN w.line : Mine(d, w, p) /\ Mine(d, w, q) /\ p < q => F[p] < F[q]
  BY <1>6, <1>13
<1>16. ViewOk(v) /\ ViewOk(w) /\ Order(d, v) /\ F \in [Nat -> Nat] /\ G \in [Nat -> Nat]
  BY <1>3, <1>4, <1>13
<1>17. AllInOrder(d, w) /\ Replied(w)
  <2>1. v.aborted => w.aborted
    BY <1>12
  <2>. QED  BY <1>12, <1>14, <1>15, <1>16, <2>1, Moves, ZenonT(30)
<1>18. Processing(d, w)
  <2>1. w.line[0] = queue[1] /\ w.at = IF queue[1].n > 0 THEN "handling" ELSE "ending"
    BY <1>1, <1>4
  <2>. QED  BY <2>1 DEF Processing
<1>19. \A p \in DOMAIN v.line : Mine(d, v, p) => Mine(d, w, G[p]) /\ w.line[G[p]] = v.line[p]
  <2> SUFFICES ASSUME NEW p \in DOMAIN v.line, Mine(d, v, p)
               PROVE  Mine(d, w, G[p]) /\ w.line[G[p]] = v.line[p]
    OBVIOUS
  <2>1. p \in 1..(L + 1)
    BY <1>5, <1>6, <1>11
  <2>3. G[p] = p - 1
    BY <1>13, <2>1
  <2>4. p - 1 \in 0..L /\ (p - 1) + 1 = p
    BY <1>5, <2>1
  <2>2. G[p] \in 0..L /\ G[p] + 1 = p
    BY <2>3, <2>4
  <2>. QED  BY <1>9, <1>10, <2>2
<1>20. w.at # "faulted" /\ v.at # "faulted"
  BY <1>1, <1>3, <1>4
<1>21. Order(d, w)
  BY <1>12, <1>16, <1>17, <1>18, <1>19, <1>20, MovesWhole
<1>. QED  BY <1>21 DEF w, View

\* Nothing of a connection changes but that it may be aborted, or one of its
\* requests goes: with the connection, which is aborted, or with the processor.
LEMMA LossKeepsOrder ==
    ASSUME IInv, PushInv, OrderInv, IInv', PushInv', Typed', application # "push",
           UNCHANGED <<application, queue>>, NEW d \in Connections,
           submitted'[d] = submitted[d], arrived'[d] = arrived[d], ended'[d] = ended[d],
           aborted[d] => aborted'[d], processor.at = "faulted" => processor'.at = "faulted",
           offer'[d] \in {offer[d], NONE}, processor'.request \in {processor.request, NONE},
           processor'.request # NONE /\ processor'.request.c = d => processor'.at = processor.at,
           \/ processor'.at = "faulted"
           \/ aborted'[d]
           \/ /\ offer'[d] = offer[d]
              /\ processor.request # NONE /\ processor.request.c = d =>
                     processor'.request = processor.request
    PROVE  Order(d, View(d)')
<1> DEFINE v == View(d)
           w == ViewOf(processor', queue', offer'[d], submitted'[d], arrived'[d], ended'[d], aborted'[d])
           L == Len(queue)
<1>3. /\ ViewOk(v) /\ Order(d, v)
      /\ v.at = processor.at /\ v.submitted = submitted[d] /\ v.arrived = arrived[d]
      /\ v.ended = ended[d] /\ v.aborted = aborted[d]
      /\ DOMAIN v.line = 0..(Len(queue) + 1) /\ Len(queue) \in Nat
      /\ v.line[0] = processor.request /\ v.line[Len(queue) + 1] = offer[d]
      /\ \A p \in 1..Len(queue) : v.line[p] = queue[p]
  BY ViewNow
<1>4. /\ ViewOk(w)
      /\ w.at = processor'.at /\ w.submitted = submitted'[d] /\ w.arrived = arrived'[d]
      /\ w.ended = ended'[d] /\ w.aborted = aborted'[d]
      /\ DOMAIN w.line = 0..(Len(queue') + 1) /\ Len(queue') \in Nat
      /\ w.line[0] = processor'.request /\ w.line[Len(queue') + 1] = offer'[d]
      /\ \A p \in 1..Len(queue') : w.line[p] = queue'[p]
  BY ViewNext
<1> HIDE DEF v, w, L
<1>5. L \in Nat /\ DOMAIN v.line = 0..(L + 1) /\ DOMAIN w.line = 0..(L + 1)
  BY <1>3, <1>4 DEF L
<1>6. /\ w.line[0] \in {v.line[0], NONE} /\ w.line[L + 1] \in {v.line[L + 1], NONE}
      /\ \A p \in 1..L : w.line[p] = v.line[p]
  BY <1>3, <1>4 DEF L
<1>7. \A p \in 0..(L + 1) : p = 0 \/ p \in 1..L \/ p = L + 1
  BY <1>5
<1>8. \A p \in DOMAIN w.line : Mine(d, w, p) => Mine(d, v, p) /\ w.line[p] = v.line[p]
  BY <1>5, <1>6, <1>7 DEF Mine
<1>9. Mine(d, w, 0) => w.at = v.at
  BY <1>3, <1>4 DEF Mine
<1>10. \/ w.aborted \/ w.at = "faulted"
       \/ \A p \in DOMAIN v.line : Mine(d, v, p) => Mine(d, w, p) /\ w.line[p] = v.line[p]
  <2> SUFFICES ASSUME ~w.aborted, w.at # "faulted", NEW p \in DOMAIN v.line, Mine(d, v, p)
               PROVE  Mine(d, w, p) /\ w.line[p] = v.line[p]
    OBVIOUS
  <2>1. w.line[L + 1] = v.line[L + 1]
    BY <1>3, <1>4 DEF L
  <2>2. CASE p = 0
    <3>1. w.line[0] = v.line[0]
      BY <1>3, <1>4, <2>2 DEF Mine
    <3>. QED  BY <1>5, <2>2, <3>1 DEF Mine
  <2>3. CASE p = L + 1
    BY <1>5, <2>1, <2>3 DEF Mine
  <2>4. CASE p \in 1..L
    BY <1>5, <1>6, <2>4 DEF Mine
  <2>. QED  BY <1>5, <1>7, <2>2, <2>3, <2>4
<1>11. /\ w.submitted = v.submitted /\ w.arrived = v.arrived /\ w.ended = v.ended
       /\ (v.aborted => w.aborted) /\ (v.at = "faulted" => w.at = "faulted")
  BY <1>3, <1>4
<1>12. ViewOk(v) /\ ViewOk(w) /\ Order(d, v)
  BY <1>3, <1>4
<1>13. Order(d, w)
  BY <1>8, <1>9, <1>10, <1>11, <1>12, Stays
<1>. QED  BY <1>13 DEF w, View

-----------------------------------------------------------------------------
(* Replies are submitted.                                                  *)

\* A reply to the next payload, or to a later one if some were dropped.
LEMMA ReplyAppended ==
    ASSUME NEW v, NEW w, ViewOk(v), ViewOk(w), Replied(v), NEW n \in Nat, n > 0, n <= w.arrived,
           v.arrived <= w.arrived, w.submitted = Append(v.submitted, n), v.aborted => w.aborted,
           \A i \in DOMAIN v.submitted : v.submitted[i] # Shutdown /\ v.submitted[i] < n,
           ~w.aborted => n = Len(v.submitted) + 1
    PROVE  Replied(w) /\ \A i \in DOMAIN w.submitted : w.submitted[i] # Shutdown
<1> DEFINE s == v.submitted
           t == w.submitted
           m == Len(s)
<1>1. /\ DOMAIN s = 1..m /\ m \in Nat /\ DOMAIN t = 1..(m + 1) /\ Len(t) = m + 1
      /\ \A i \in 1..m : t[i] = s[i] /\ s[i] \in Nat
      /\ t[m + 1] = n
  BY DEF ViewOk
<1>2. v.arrived \in Nat /\ w.arrived \in Nat /\ v.aborted \in BOOLEAN /\ w.aborted \in BOOLEAN
  BY DEF ViewOk
<1>3. \A i \in 1..m :
          /\ s[i] # Shutdown /\ s[i] < n /\ s[i] \in i..v.arrived
          /\ ~v.aborted => s[i] = i
          /\ i > 1 => s[i - 1] < s[i]
  BY <1>1 DEF Replied
<1> HIDE DEF s, t, m
<1>4. n \in (m + 1)..w.arrived
  <2>1. CASE m = 0
    BY <1>1, <1>2, <2>1
  <2>2. CASE m > 0
    <3>1. m \in 1..m /\ s[m] \in Nat /\ s[m] >= m /\ s[m] < n
      BY <1>1, <1>2, <1>3, <2>2
    <3>. QED  BY <1>1, <1>2, <3>1
  <2>. QED  BY <1>1, <2>1, <2>2
<1>5. n # Shutdown
  BY DEF Shutdown
<1>6. ASSUME NEW i \in 1..(m + 1)
      PROVE  /\ t[i] # Shutdown /\ t[i] \in i..w.arrived
             /\ ~w.aborted => t[i] = i
             /\ i > 1 => t[i - 1] < t[i]
  <2>1. CASE i = m + 1
    <3>1. m > 0 => t[m] < n
      BY <1>1, <1>3
    <3>2. t[i] = n /\ (i > 1 => m > 0 /\ i - 1 = m)
      BY <1>1, <2>1
    <3>3. ~w.aborted => n = m + 1
      BY DEF m, s
    <3>. QED  BY <1>1, <1>4, <1>5, <2>1, <3>1, <3>2, <3>3
  <2>2. CASE i \in 1..m
    <3>1. t[i] = s[i] /\ s[i] \in i..v.arrived /\ s[i] # Shutdown /\ (~v.aborted => s[i] = i)
      BY <1>1, <1>3, <2>2
    <3>2. i > 1 => i - 1 \in 1..m
      BY <1>1, <2>2
    <3>3. i > 1 => t[i - 1] < t[i]
      BY <1>1, <1>3, <2>2, <3>1, <3>2
    <3>4. s[i] \in i..w.arrived
      BY <1>1, <1>2, <2>2, <3>1
    <3>. QED  BY <1>2, <3>1, <3>3, <3>4
  <2>. QED  BY <1>1, <2>1, <2>2
<1>7. DOMAIN w.submitted = 1..(m + 1)
  BY <1>1 DEF t
<1>. QED  BY <1>6, <1>7 DEF Replied, t

\* The end, when all were answered or the connection is aborted.
LEMMA EndAppended ==
    ASSUME NEW v, NEW w, ViewOk(v), ViewOk(w), Replied(v), w.ended, w.arrived = v.arrived,
           w.submitted = Append(v.submitted, Shutdown), v.aborted => w.aborted,
           \A i \in DOMAIN v.submitted : v.submitted[i] # Shutdown,
           ~w.aborted => Len(v.submitted) = v.arrived
    PROVE  Replied(w)
<1> DEFINE s == v.submitted
           t == w.submitted
           m == Len(s)
<1>1. /\ DOMAIN s = 1..m /\ m \in Nat /\ DOMAIN t = 1..(m + 1) /\ Len(t) = m + 1
      /\ \A i \in 1..m : t[i] = s[i] /\ s[i] \in Nat
      /\ t[m + 1] = Shutdown
  <2>1. Shutdown \in Nat /\ s \in Seq(Nat)
    BY DEF ViewOk, Shutdown
  <2>. QED  BY <2>1
<1>2. v.aborted \in BOOLEAN /\ w.aborted \in BOOLEAN
  BY DEF ViewOk
<1>3. \A i \in 1..m :
          /\ s[i] # Shutdown /\ s[i] \in i..v.arrived
          /\ ~v.aborted => s[i] = i
          /\ i > 1 => s[i - 1] < s[i]
  BY <1>1 DEF Replied
<1>4. ~w.aborted => m = v.arrived
  OBVIOUS
<1> HIDE DEF s, t, m
<1>5. ASSUME NEW i \in 1..m
      PROVE  /\ t[i] # Shutdown /\ t[i] \in i..w.arrived
             /\ ~w.aborted => t[i] = i
             /\ i > 1 => t[i - 1] < t[i]
  <2>1. i > 1 => i - 1 \in 1..m
    BY <1>1
  <2>. QED  BY <1>1, <1>2, <1>3, <2>1
<1>6. ASSUME NEW i \in DOMAIN t
      PROVE  IF t[i] = Shutdown
             THEN w.ended /\ i = Len(t) /\ (~w.aborted => i = w.arrived + 1)
             ELSE /\ t[i] \in i..w.arrived
                  /\ ~w.aborted => t[i] = i
                  /\ i > 1 => t[i - 1] < t[i]
  <2>1. CASE i = m + 1
    BY <1>1, <1>4, <2>1
  <2>2. CASE i \in 1..m
    BY <1>5, <2>2
  <2>. QED  BY <1>1, <2>1, <2>2
<1>. QED  BY <1>6 DEF Replied, t

\* A connection that is not aborted has every payload answered in order, up to
\* the first that is under way.
LEMMA NextIsDue ==
    ASSUME NEW c, NEW v, ViewOk(v), Order(c, v), ~v.aborted, v.at # "faulted",
           \A i \in DOMAIN v.submitted : v.submitted[i] # Shutdown
    PROVE  /\ Len(v.submitted) <= v.arrived
           /\ \A k \in 1..v.arrived : k <= Len(v.submitted)
                  \/ \E p \in DOMAIN v.line : Mine(c, v, p) /\ v.line[p].n = k
<1> DEFINE s == v.submitted
<1>1. s \in Seq(Nat) /\ v.arrived \in Nat
  BY DEF ViewOk
<1>2. DOMAIN s = 1..Len(s) /\ Len(s) \in Nat
  BY <1>1
<1>3. \A i \in 1..Len(s) : s[i] = i /\ s[i] \in i..v.arrived
  BY <1>2 DEF Order, Replied
<1>4. Len(s) <= v.arrived
  <2>1. CASE Len(s) = 0
    BY <1>1, <2>1
  <2>2. CASE Len(s) > 0
    <3>1. Len(s) \in 1..Len(s)
      BY <1>2, <2>2
    <3>2. s[Len(s)] = Len(s) /\ s[Len(s)] \in Len(s)..v.arrived
      BY <1>3, <3>1
    <3>. QED  BY <1>1, <1>2, <3>2
  <2>. QED  BY <1>2, <2>1, <2>2
<1>5. ASSUME NEW k \in 1..v.arrived
      PROVE  k <= Len(s) \/ \E p \in DOMAIN v.line : Mine(c, v, p) /\ v.line[p].n = k
  <2>1. Occurs(k, s) \/ \E p \in DOMAIN v.line : Mine(c, v, p) /\ v.line[p].n = k
    BY DEF Order, Covered
  <2>2. CASE Occurs(k, s)
    <3>1. PICK i \in 1..Len(s) : s[i] = k
      BY <1>2, <2>2 DEF Occurs
    <3>. QED  BY <1>2, <1>3, <3>1
  <2>. QED  BY <2>1, <2>2
<1>. QED  BY <1>4, <1>5

\* The reply to the request in hand is that to the next payload.
LEMMA RespondsKeepsOrder ==
    ASSUME IInv, PushInv, OrderInv, IInv', PushInv', Typed', application # "push", Responds,
           NEW c \in Connections, c = processor.request.c
    PROVE  Order(c, View(c)')
<1> DEFINE v == View(c)
           w == ViewOf(processor', queue', offer'[c], submitted'[c], arrived'[c], ended'[c], aborted'[c])
           n == processor.request.n
<1>1. /\ UNCHANGED <<application, queue, offer, arrived, ended, aborted>>
      /\ processor.at = "handling" /\ processor.request # NONE
      /\ processor'.at = "ending" /\ processor'.request = processor.request
      /\ processor.request \in ReceivedRequests
  BY DEF Responds, At, IInv, RequestsPlaced, Types
<1>2. submitted'[c] = Append(submitted[c], n) /\ n \in Nat
  <2>1. submitted' = [submitted EXCEPT ![c] = Append(@, n)]
    BY DEF Responds, Submits
  <2>. QED  BY <1>1, <2>1 DEF PushInv, PushTypes, ReceivedRequests
<1>3. /\ ViewOk(v) /\ Order(c, v)
      /\ v.at = processor.at /\ v.submitted = submitted[c] /\ v.arrived = arrived[c]
      /\ v.ended = ended[c] /\ v.aborted = aborted[c]
      /\ DOMAIN v.line = 0..(Len(queue) + 1) /\ Len(queue) \in Nat
      /\ v.line[0] = processor.request
  BY ViewNow
<1>4. /\ ViewOk(w) /\ w.at = processor'.at /\ w.submitted = submitted'[c]
      /\ w.arrived = arrived'[c] /\ w.ended = ended'[c] /\ w.aborted = aborted'[c]
  BY <1>1, ViewNext
<1>5. w.line = v.line
  BY <1>1 DEF View, ViewOf
<1> HIDE DEF v, w, n
<1> DEFINE s == v.submitted
           t == w.submitted
           m == Len(s)
<1>6. /\ w.at = "ending" /\ v.at = "handling" /\ w.arrived = v.arrived
      /\ w.ended = v.ended /\ w.aborted = v.aborted /\ t = Append(s, n)
  BY <1>1, <1>2, <1>3, <1>4
<1>7. /\ s \in Seq(Nat) /\ m \in Nat /\ DOMAIN s = 1..m /\ DOMAIN t = 1..(m + 1)
      /\ t[m + 1] = n /\ \A i \in 1..m : t[i] = s[i] /\ s[i] \in Nat
      /\ v.arrived \in Nat
  <2>1. s \in Seq(Nat) /\ v.arrived \in Nat
    BY <1>3 DEF ViewOk
  <2>. QED  BY <1>2, <1>6, <2>1
<1> HIDE DEF s, t, m
<1>8. v.line[0].n = n /\ Mine(c, v, 0) /\ \A p : Mine(c, w, p) <=> Mine(c, v, p)
  BY <1>1, <1>3, <1>5 DEF Mine, n
<1>9. n > 0 /\ InOrder(c, v, 0)
  <2>1. 0 \in DOMAIN v.line
    BY <1>8 DEF Mine
  <2>. QED  BY <1>3, <1>6, <1>8, <2>1 DEF Order, Processing, AllInOrder
<1>10. n <= v.arrived /\ \A i \in 1..m : s[i] # Shutdown /\ s[i] < n
  <2>1. v.line[0].n <= v.arrived
    BY <1>9 DEF InOrder
  <2>2. Key(v, v.line[0]) = n
    BY <1>8, <1>9 DEF Key
  <2>3. \A i \in DOMAIN v.submitted : v.submitted[i] # Shutdown /\ v.submitted[i] < Key(v, v.line[0])
    BY <1>6, <1>9 DEF InOrder
  <2>4. \A i \in 1..m : s[i] # Shutdown /\ s[i] < n
    BY <1>7, <2>2, <2>3 DEF s
  <2>. QED  BY <1>8, <2>1, <2>4
<1>11. \A p \in DOMAIN v.line : p # 0 /\ Mine(c, v, p) => n < Key(v, v.line[p])
  <2> SUFFICES ASSUME NEW p \in DOMAIN v.line, p # 0, Mine(c, v, p) PROVE n < Key(v, v.line[p])
    OBVIOUS
  <2>1. 0 < p
    BY <1>3
  <2>2. Key(v, v.line[0]) < Key(v, v.line[p])
    BY <1>9, <2>1 DEF InOrder
  <2>. QED  BY <1>8, <1>9, <2>2 DEF Key
<1>12. ~v.aborted => n = m + 1
  <2> SUFFICES ASSUME ~v.aborted PROVE n = m + 1
    OBVIOUS
  <2>1. /\ m <= v.arrived
        /\ \A k \in 1..v.arrived :
               k <= m \/ \E p \in DOMAIN v.line : Mine(c, v, p) /\ v.line[p].n = k
    <3>1. ViewOk(v) /\ Order(c, v) /\ v.at # "faulted"
      BY <1>3, <1>6
    <3>2. \A i \in DOMAIN v.submitted : v.submitted[i] # Shutdown
      BY <1>7, <1>10 DEF s
    <3>3. /\ Len(v.submitted) <= v.arrived
          /\ \A k \in 1..v.arrived : k <= Len(v.submitted)
                 \/ \E p \in DOMAIN v.line : Mine(c, v, p) /\ v.line[p].n = k
      BY <3>1, <3>2, NextIsDue
    <3>. QED  BY <3>3 DEF s, m
  <2>2. n > m
    <3>1. CASE m = 0
      BY <1>7, <1>9, <3>1
    <3>2. CASE m > 0
      <4>1. m \in 1..m
        BY <1>7, <3>2
      <4>2. s[m] = m /\ s[m] < n
        BY <1>3, <1>7, <1>10, <4>1 DEF Order, Replied, s
      <4>. QED  BY <4>2
    <3>. QED  BY <1>7, <3>1, <3>2
  <2>3. ~(m + 1 < n)
    <3> SUFFICES ASSUME m + 1 < n PROVE FALSE
      OBVIOUS
    <3>1. m + 1 \in 1..v.arrived /\ ~(m + 1 <= m)
      BY <1>2, <1>7, <1>10
    <3>2. PICK p \in DOMAIN v.line : Mine(c, v, p) /\ v.line[p].n = m + 1
      BY <2>1, <3>1
    <3>3. p # 0
      BY <1>2, <1>7, <1>8, <3>2
    <3>4. n < Key(v, v.line[p]) /\ Key(v, v.line[p]) = m + 1
      BY <1>7, <1>11, <3>2, <3>3 DEF Key
    <3>. QED  BY <1>2, <1>7, <3>4
  <2>. QED  BY <1>2, <1>7, <2>2, <2>3
<1>13. Replied(w) /\ \A i \in DOMAIN t : t[i] # Shutdown
  <2>1. Replied(v)
    BY <1>3 DEF Order
  <2>2. \A i \in DOMAIN s : s[i] # Shutdown /\ s[i] < n
    BY <1>7, <1>10
  <2>3. /\ n <= w.arrived /\ v.arrived <= w.arrived /\ (v.aborted => w.aborted)
        /\ (~w.aborted => n = Len(v.submitted) + 1) /\ w.submitted = Append(v.submitted, n)
    BY <1>6, <1>7, <1>10, <1>12 DEF s, t, m
  <2>4. \A i \in DOMAIN v.submitted : v.submitted[i] # Shutdown /\ v.submitted[i] < n
    BY <2>2 DEF s
  <2>5. ViewOk(v) /\ ViewOk(w) /\ n \in Nat /\ n > 0
    BY <1>2, <1>3, <1>4, <1>9
  <2>. QED  BY <2>1, <2>3, <2>4, <2>5, ReplyAppended DEF t
<1>14. AllInOrder(c, w)
  <2> SUFFICES ASSUME NEW p \in DOMAIN w.line, Mine(c, w, p) PROVE InOrder(c, w, p)
    BY DEF AllInOrder
  <2> DEFINE r == w.line[p]
  <2>1. InOrder(c, v, p) /\ Mine(c, v, p)
    BY <1>3, <1>5, <1>8 DEF Order, AllInOrder
  <2>2. \A x : Key(w, x) = Key(v, x)
    BY <1>6 DEF Key
  <2>3. \A i \in DOMAIN t : t[i] < Key(w, r) \/ (p = 0 /\ t[i] = r.n)
    <3> SUFFICES ASSUME NEW i \in 1..(m + 1) PROVE t[i] < Key(w, r) \/ (p = 0 /\ t[i] = r.n)
      BY <1>7
    <3>1. CASE i = m + 1
      <4>1. t[i] = n
        BY <1>7, <3>1
      <4>. QED  BY <1>5, <1>8, <1>11, <2>1, <2>2, <4>1
    <3>2. CASE i \in 1..m
      <4>1. s[i] < Key(v, v.line[p])
        BY <1>6, <1>7, <2>1, <3>2 DEF InOrder, s
      <4>. QED  BY <1>5, <1>7, <2>2, <3>2, <4>1
    <3>. QED  BY <1>7, <3>1, <3>2
  <2>4. \A q \in DOMAIN w.line : p < q /\ Mine(c, w, q) => Key(w, r) < Key(w, w.line[q]) /\ ~r.completed
    BY <1>5, <1>8, <2>1, <2>2 DEF InOrder
  <2>5. r.n <= w.arrived /\ (r.n = 0 => r.completed) /\ (r.completed => w.ended /\ r.n \in {0, w.arrived})
    BY <1>5, <1>6, <2>1 DEF InOrder
  <2>. QED  BY <1>6, <1>13, <2>3, <2>4, <2>5 DEF InOrder, t
<1>15. \A k : Occurs(k, t) <=> k = n \/ Occurs(k, s)
  BY <1>2, <1>6, <1>7, AppendOccurs
<1>16. Processing(c, w)
  BY <1>5, <1>6, <1>8, <1>15 DEF Processing, t
<1>17. Covered(c, w)
  BY <1>3, <1>5, <1>6, <1>8, <1>15 DEF Order, Covered, s, t
<1>18. Order(c, w)
  BY <1>13, <1>14, <1>16, <1>17 DEF Order
<1>. QED  BY <1>18 DEF w, View

\* The last request of a connection ends its replies.
LEMMA EndsKeepsOrder ==
    ASSUME IInv, PushInv, OrderInv, IInv', PushInv', Typed', application # "push", EndsRequest,
           NEW c \in Connections, c = processor.request.c
    PROVE  Order(c, View(c)')
<1> DEFINE v == View(c)
           w == ViewOf(processor', queue', offer'[c], submitted'[c], arrived'[c], ended'[c], aborted'[c])
           L == Len(queue)
<1>1. /\ UNCHANGED <<application, queue, offer, arrived, ended, aborted>>
      /\ processor.at = "ending" /\ processor.request # NONE
      /\ processor'.at = "waiting" /\ processor'.request = NONE
      /\ processor.request \in ReceivedRequests
  BY DEF EndsRequest, At, IInv, RequestsPlaced, Types
<1>2. IF processor.request.completed
      THEN submitted'[c] = Append(submitted[c], Shutdown) ELSE submitted' = submitted
  BY <1>1 DEF EndsRequest, Submits, PushInv, PushTypes
<1>3. /\ ViewOk(v) /\ Order(c, v)
      /\ v.at = processor.at /\ v.submitted = submitted[c] /\ v.arrived = arrived[c]
      /\ v.ended = ended[c] /\ v.aborted = aborted[c]
      /\ DOMAIN v.line = 0..(Len(queue) + 1) /\ Len(queue) \in Nat
      /\ v.line[0] = processor.request /\ v.line[Len(queue) + 1] = offer[c]
      /\ \A p \in 1..Len(queue) : v.line[p] = queue[p]
  BY ViewNow
<1>4. /\ ViewOk(w) /\ w.at = processor'.at /\ w.submitted = submitted'[c]
      /\ w.arrived = arrived'[c] /\ w.ended = ended'[c] /\ w.aborted = aborted'[c]
      /\ DOMAIN w.line = 0..(Len(queue') + 1) /\ Len(queue') \in Nat
      /\ w.line[0] = processor'.request /\ w.line[Len(queue') + 1] = offer'[c]
      /\ \A p \in 1..Len(queue') : w.line[p] = queue'[p]
  BY <1>1, ViewNext
<1> HIDE DEF v, w, L
<1>5. L \in Nat /\ DOMAIN v.line = 0..(L + 1) /\ DOMAIN w.line = 0..(L + 1)
  BY <1>1, <1>3, <1>4 DEF L
<1>6. w.line[0] = NONE /\ \A p \in 1..(L + 1) : w.line[p] = v.line[p]
  <2>1. w.line[0] = NONE /\ w.line[L + 1] = v.line[L + 1] /\ \A p \in 1..L : w.line[p] = v.line[p]
    BY <1>1, <1>3, <1>4 DEF L
  <2>2. \A p \in 1..(L + 1) : p \in 1..L \/ p = L + 1
    BY <1>5
  <2>. QED  BY <2>1, <2>2
<1>7. /\ Mine(c, v, 0) /\ ~Mine(c, w, 0)
      /\ \A p \in 1..(L + 1) : Mine(c, w, p) <=> Mine(c, v, p)
  BY <1>1, <1>3, <1>5, <1>6 DEF Mine
<1>8. \A p \in DOMAIN w.line : Mine(c, w, p) => p \in 1..(L + 1)
  <2>1. \A p \in 0..(L + 1) : p = 0 \/ p \in 1..(L + 1)
    BY <1>5
  <2>. QED  BY <1>5, <1>7, <2>1
<1>9. /\ w.arrived = v.arrived /\ w.ended = v.ended /\ w.aborted = v.aborted
      /\ v.at = "ending" /\ w.at = "waiting"
  BY <1>1, <1>3, <1>4
<1> DEFINE r == v.line[0]
<1>10. InOrder(c, v, 0) /\ (r.n > 0 => Occurs(r.n, v.submitted)) /\ r.n \in Nat
  <2>1. 0 \in DOMAIN v.line
    BY <1>7 DEF Mine
  <2>2. r \in ReceivedRequests
    BY <1>1, <1>3
  <2>. QED  BY <1>3, <1>7, <1>9, <2>1, <2>2 DEF Order, AllInOrder, Processing, ReceivedRequests
<1>11. Processing(c, w)
  BY <1>7 DEF Processing
<1>12. \A k \in 1..v.arrived : ~v.aborted =>
           Occurs(k, v.submitted) \/ \E p \in 1..(L + 1) : Mine(c, v, p) /\ v.line[p].n = k
  <2> SUFFICES ASSUME NEW k \in 1..v.arrived, ~v.aborted
               PROVE  Occurs(k, v.submitted) \/ \E p \in 1..(L + 1) : Mine(c, v, p) /\ v.line[p].n = k
    OBVIOUS
  <2>1. Occurs(k, v.submitted) \/ \E p \in DOMAIN v.line : Mine(c, v, p) /\ v.line[p].n = k
    BY <1>3, <1>9 DEF Order, Covered
  <2>2. CASE Occurs(k, v.submitted)
    BY <2>2
  <2>3. ASSUME NEW p \in DOMAIN v.line, Mine(c, v, p), v.line[p].n = k
        PROVE  Occurs(k, v.submitted) \/ \E q \in 1..(L + 1) : Mine(c, v, q) /\ v.line[q].n = k
    <3>1. CASE p = 0
      <4>1. r.n = k /\ k > 0
        BY <2>3, <3>1
      <4>. QED  BY <1>10, <4>1
    <3>2. CASE p # 0
      <4>1. p \in 1..(L + 1)
        BY <1>5, <3>2
      <4>. QED  BY <2>3, <4>1
    <3>. QED  BY <3>1, <3>2
  <2>. QED  BY <2>1, <2>2, <2>3
<1>13. CASE ~processor.request.completed
  <2>1. w.submitted = v.submitted
    BY <1>2, <1>3, <1>4, <1>13
  <2> DEFINE F == [p \in Nat |-> p]
  <2>2. F \in [Nat -> Nat] /\ \A p \in Nat : F[p] = p
    OBVIOUS
  <2> HIDE DEF F
  <2>3. \A p \in 1..(L + 1) : F[p] = p /\ p # 0
    BY <1>5, <2>2
  <2>4. \A p \in DOMAIN w.line : Mine(c, w, p) =>
            /\ Mine(c, v, F[p]) /\ w.line[p] = v.line[F[p]]
            /\ F[p] = 0 => p = 0 /\ w.at = v.at
    BY <1>6, <1>7, <1>8, <2>3
  <2>5. \A p, q \in DOMAIN w.line : Mine(c, w, p) /\ Mine(c, w, q) /\ p < q => F[p] < F[q]
    BY <1>8, <2>3
  <2>6. AllInOrder(c, w) /\ Replied(w)
    <3>1. ViewOk(v) /\ ViewOk(w) /\ Order(c, v) /\ F \in [Nat -> Nat]
      BY <1>3, <1>4, <2>2
    <3>. QED  BY <1>9, <2>1, <2>4, <2>5, <3>1, Moves
  <2>7. Covered(c, w)
    BY <1>5, <1>6, <1>7, <1>9, <1>12, <2>1 DEF Covered
  <2>8. Order(c, w)
    BY <1>11, <2>6, <2>7 DEF Order
  <2>. QED  BY <2>8 DEF w, View
<1>14. CASE processor.request.completed
  <2>1. r.completed /\ v.ended /\ r.n \in {0, v.arrived}
    BY <1>3, <1>10, <1>14 DEF InOrder
  <2>2. \A p \in 1..(L + 1) : ~Mine(c, v, p)
    BY <1>5, <1>10, <2>1 DEF InOrder
  <2>3. w.submitted = Append(v.submitted, Shutdown)
    BY <1>2, <1>3, <1>4, <1>14
  <2>4. v.submitted \in Seq(Nat) /\ v.arrived \in Nat
    BY <1>3 DEF ViewOk
  <2>5. \A i \in DOMAIN v.submitted : v.submitted[i] # Shutdown
    BY <1>10 DEF InOrder
  <2>6. ~v.aborted => Len(v.submitted) = v.arrived
    <3> SUFFICES ASSUME ~v.aborted PROVE Len(v.submitted) = v.arrived
      OBVIOUS
    <3>1. Len(v.submitted) <= v.arrived /\ Len(v.submitted) \in Nat
      BY <1>3, <1>9, <2>4, <2>5, NextIsDue
    <3>2. CASE v.arrived = 0
      BY <3>1, <3>2
    <3>3. CASE v.arrived > 0
      <4>1. v.arrived \in 1..v.arrived
        BY <2>4, <3>3
      <4>2. PICK i \in DOMAIN v.submitted : v.submitted[i] = v.arrived
        BY <1>12, <2>2, <4>1 DEF Occurs
      <4>3. v.submitted[i] = i /\ i \in 1..Len(v.submitted)
        BY <1>3, <2>4, <2>5 DEF Order, Replied
      <4>. QED  BY <2>4, <3>1, <4>2, <4>3
    <3>. QED  BY <2>4, <3>2, <3>3
  <2>7. Replied(w)
    BY <1>3, <1>4, <1>9, <2>1, <2>3, <2>5, <2>6, EndAppended DEF Order
  <2>8. AllInOrder(c, w)
    BY <1>7, <1>8, <2>2 DEF AllInOrder
  <2>9. Covered(c, w)
    <3>1. \A k : Occurs(k, v.submitted) => Occurs(k, w.submitted)
      BY <2>3, <2>4, AppendOccurs DEF Shutdown
    <3>. QED  BY <1>9, <1>12, <2>2, <3>1 DEF Covered
  <2>10. Order(c, w)
    BY <1>11, <2>7, <2>8, <2>9 DEF Order
  <2>. QED  BY <2>10 DEF w, View
<1>. QED  BY <1>13, <1>14

\* A request is built for the payload that has arrived, behind all others.
LEMMA ReceivesKeepsOrder ==
    ASSUME IInv, PushInv, OrderInv, IInv', PushInv', Typed', application # "push",
           NEW c \in Connections, DispatchReceives(c)
    PROVE  Order(c, View(c)')
<1> DEFINE v == View(c)
           w == ViewOf(processor', queue', offer'[c], submitted'[c], arrived'[c], ended'[c], aborted'[c])
           L == Len(queue)
<1>1. PICK payload, completed \in BOOLEAN, retained \in MayRetain :
          /\ Receives(c, payload, completed)
          /\ LET request == Request(c, payload, retained, completed)
             IN /\ offer' = [offer EXCEPT ![c] = request]
                /\ held' = held \cup LeaseOf(request)
  BY DEF DispatchReceives
<1> DEFINE r == Request(c, payload, retained, completed)
           a == arrived[c]
<1>2. /\ UNCHANGED <<application, processor, queue, submitted, aborted>>
      /\ offer[c] = NONE /\ ~ended[c] /\ ended'[c] = completed /\ (payload \/ completed)
      /\ a \in Nat /\ arrived'[c] = IF payload THEN a + 1 ELSE a
      /\ offer'[c] = r
  BY <1>1 DEF DispatchReceives, Receives, IInv, Types, OrderInv
<1>3. /\ r.c = c /\ r.n = (IF payload THEN a + 1 ELSE 0) /\ r.completed = completed /\ r # NONE
  <2>1. r.c = c /\ r.n = (IF payload THEN a + 1 ELSE 0) /\ r.completed = completed
    BY DEF Request
  <2>2. r \in ReceivedRequests
    <3>1. retained \in BOOLEAN
      BY DEF MayRetain
    <3>. QED  BY <1>2, <3>1 DEF Request, ReceivedRequests
  <2>. QED  BY <2>1, <2>2
<1>4. /\ ViewOk(v) /\ Order(c, v)
      /\ v.at = processor.at /\ v.submitted = submitted[c] /\ v.arrived = arrived[c]
      /\ v.ended = ended[c] /\ v.aborted = aborted[c]
      /\ DOMAIN v.line = 0..(Len(queue) + 1) /\ Len(queue) \in Nat
      /\ v.line[0] = processor.request /\ v.line[Len(queue) + 1] = offer[c]
      /\ \A p \in 1..Len(queue) : v.line[p] = queue[p]
  BY ViewNow
<1>5. /\ ViewOk(w) /\ w.at = processor'.at /\ w.submitted = submitted'[c]
      /\ w.arrived = arrived'[c] /\ w.ended = ended'[c] /\ w.aborted = aborted'[c]
      /\ DOMAIN w.line = 0..(Len(queue') + 1) /\ Len(queue') \in Nat
      /\ w.line[0] = processor'.request /\ w.line[Len(queue') + 1] = offer'[c]
      /\ \A p \in 1..Len(queue') : w.line[p] = queue'[p]
  BY <1>2, ViewNext
<1> HIDE DEF v, w, L, r
<1>6. /\ L \in Nat /\ DOMAIN v.line = 0..(L + 1) /\ DOMAIN w.line = 0..(L + 1)
      /\ v.line[L + 1] = NONE /\ w.line[L + 1] = r
      /\ \A p \in 0..L : w.line[p] = v.line[p]
  <2>1. /\ L \in Nat /\ DOMAIN v.line = 0..(L + 1) /\ DOMAIN w.line = 0..(L + 1)
        /\ v.line[L + 1] = NONE /\ w.line[L + 1] = r /\ w.line[0] = v.line[0]
        /\ \A p \in 1..L : w.line[p] = v.line[p]
    BY <1>2, <1>4, <1>5 DEF L
  <2>2. \A p \in 0..L : p = 0 \/ p \in 1..L
    BY <2>1
  <2>. QED  BY <2>1, <2>2
<1>7. /\ ~Mine(c, v, L + 1) /\ Mine(c, w, L + 1)
      /\ \A p \in 0..L : Mine(c, w, p) <=> Mine(c, v, p)
  BY <1>3, <1>6 DEF Mine
<1>8. \A p \in DOMAIN w.line : p \in 0..L \/ p = L + 1
  BY <1>6
<1>9. /\ v.arrived = a /\ w.arrived = (IF payload THEN a + 1 ELSE a) /\ w.ended = completed
      /\ ~v.ended /\ w.submitted = v.submitted /\ w.aborted = v.aborted /\ w.at = v.at
  BY <1>2, <1>4, <1>5
<1>10. \A i \in DOMAIN v.submitted : v.submitted[i] # Shutdown /\ v.submitted[i] \in Nat /\ v.submitted[i] <= a
  <2> SUFFICES ASSUME NEW i \in DOMAIN v.submitted
               PROVE  v.submitted[i] # Shutdown /\ v.submitted[i] \in Nat /\ v.submitted[i] <= a
    OBVIOUS
  <2>1. v.submitted[i] # Shutdown
    BY <1>4, <1>9 DEF Order, Replied
  <2>2. v.submitted[i] \in i..v.arrived
    BY <1>4, <2>1 DEF Order, Replied
  <2>3. v.submitted \in Seq(Nat)
    BY <1>4 DEF ViewOk
  <2>4. i \in 1..Len(v.submitted) /\ v.submitted[i] \in Nat
    BY <2>3
  <2>. QED  BY <1>2, <1>9, <2>1, <2>2, <2>4
<1>11. ASSUME NEW p \in 0..L, Mine(c, w, p)
       PROVE  /\ InOrder(c, v, p) /\ Mine(c, v, p) /\ w.line[p] = v.line[p]
              /\ v.line[p].n \in 1..a /\ ~v.line[p].completed
  <2>1. Mine(c, v, p) /\ w.line[p] = v.line[p] /\ p \in DOMAIN v.line
    BY <1>6, <1>7, <1>11 DEF Mine
  <2>2. InOrder(c, v, p)
    BY <1>4, <2>1 DEF Order, AllInOrder
  <2>3. v.line[p] \in ReceivedRequests
    BY <1>4, <2>1 DEF ViewOk, Requests, Mine
  <2>4. v.line[p].n \in Nat /\ v.line[p].completed \in BOOLEAN
    BY <2>3 DEF ReceivedRequests
  <2>5. v.line[p].n <= v.arrived /\ (v.line[p].n = 0 => v.line[p].completed) /\ (v.line[p].completed => v.ended)
    BY <2>2 DEF InOrder
  <2>. QED  BY <1>2, <1>9, <2>1, <2>2, <2>4, <2>5
<1>12. Key(w, r) > a
  BY <1>2, <1>3, <1>9 DEF Key
<1>13. AllInOrder(c, w)
  <2>1. ASSUME NEW p \in 0..L, Mine(c, w, p) PROVE InOrder(c, w, p)
    <3>1. /\ InOrder(c, v, p) /\ w.line[p] = v.line[p]
          /\ v.line[p].n \in 1..a /\ ~v.line[p].completed
      BY <1>11, <2>1
    <3> DEFINE x == w.line[p]
    <3>2. Key(w, x) = x.n /\ Key(v, v.line[p]) = x.n /\ x.n \in 1..a
      BY <1>2, <3>1 DEF Key
    <3>3. ASSUME NEW q \in DOMAIN w.line, p < q, Mine(c, w, q) PROVE Key(w, x) < Key(w, w.line[q])
      <4>1. CASE q = L + 1
        BY <1>2, <1>3, <1>6, <1>9, <3>2, <4>1 DEF Key
      <4>2. CASE q \in 0..L
        <5>1. Mine(c, v, q) /\ w.line[q] = v.line[q] /\ v.line[q].n \in 1..a /\ q \in DOMAIN v.line
          BY <1>6, <1>11, <3>3, <4>2
        <5>2. Key(v, v.line[p]) < Key(v, v.line[q])
          BY <3>1, <3>3, <5>1 DEF InOrder
        <5>. QED  BY <1>2, <3>2, <5>1, <5>2 DEF Key
      <4>. QED  BY <1>8, <4>1, <4>2
    <3>4. \A i \in DOMAIN w.submitted :
              /\ w.submitted[i] # Shutdown
              /\ w.submitted[i] < Key(w, x) \/ (p = 0 /\ w.at = "ending" /\ w.submitted[i] = x.n)
      BY <1>9, <3>1, <3>2 DEF InOrder
    <3>5. x.n <= w.arrived
      BY <1>2, <1>9, <3>2
    <3>. QED  BY <1>2, <3>1, <3>2, <3>3, <3>4, <3>5 DEF InOrder
  <2>2. InOrder(c, w, L + 1)
    <3>1. \A q \in DOMAIN w.line : ~(L + 1 < q)
      BY <1>6
    <3>2. \A i \in DOMAIN w.submitted : w.submitted[i] # Shutdown /\ w.submitted[i] < Key(w, r)
      BY <1>2, <1>3, <1>9, <1>10 DEF Key
    <3>3. r.n <= w.arrived /\ (r.n = 0 => r.completed) /\ (r.completed => w.ended /\ r.n \in {0, w.arrived})
      BY <1>2, <1>3, <1>9
    <3>. QED  BY <1>6, <3>1, <3>2, <3>3 DEF InOrder
  <2>. QED  BY <1>8, <2>1, <2>2 DEF AllInOrder
<1>14. Processing(c, w)
  <2>1. (Mine(c, w, 0) <=> Mine(c, v, 0)) /\ w.line[0] = v.line[0]
    BY <1>6, <1>7
  <2>. QED  BY <1>4, <1>9, <2>1 DEF Order, Processing
<1>15. Covered(c, w)
  <2> SUFFICES ASSUME ~w.aborted, w.at # "faulted", NEW k \in 1..w.arrived
               PROVE  Occurs(k, w.submitted) \/ \E p \in DOMAIN w.line : Mine(c, w, p) /\ w.line[p].n = k
    BY DEF Covered
  <2>1. CASE k \in 1..a
    <3>1. Occurs(k, v.submitted) \/ \E p \in DOMAIN v.line : Mine(c, v, p) /\ v.line[p].n = k
      BY <1>4, <1>9, <2>1 DEF Order, Covered
    <3>2. ASSUME NEW p \in DOMAIN v.line, Mine(c, v, p), v.line[p].n = k
          PROVE  p \in DOMAIN w.line /\ Mine(c, w, p) /\ w.line[p].n = k
      <4>1. p \in 0..L
        BY <1>6, <1>7, <3>2
      <4>. QED  BY <1>6, <1>7, <3>2, <4>1
    <3>. QED  BY <1>9, <3>1, <3>2
  <2>2. CASE payload /\ k = a + 1
    <3>1. L + 1 \in DOMAIN w.line /\ w.line[L + 1].n = k
      BY <1>3, <1>6, <2>2
    <3>. QED  BY <1>7, <3>1
  <2>. QED  BY <1>2, <1>9, <2>1, <2>2
<1>16. Replied(w)
  <2> SUFFICES ASSUME NEW i \in DOMAIN w.submitted
               PROVE  /\ w.submitted[i] # Shutdown /\ w.submitted[i] \in i..w.arrived
                      /\ ~w.aborted => w.submitted[i] = i
                      /\ i > 1 => w.submitted[i - 1] < w.submitted[i]
    BY DEF Replied
  <2>1. /\ v.submitted[i] # Shutdown /\ v.submitted[i] \in i..v.arrived
        /\ ~v.aborted => v.submitted[i] = i
        /\ i > 1 => v.submitted[i - 1] < v.submitted[i]
    BY <1>4, <1>9, <1>10 DEF Order, Replied
  <2>2. v.submitted[i] \in i..w.arrived
    BY <1>2, <1>9, <2>1
  <2>. QED  BY <1>9, <2>1, <2>2
<1>17. Order(c, w)
  BY <1>13, <1>14, <1>15, <1>16 DEF Order
<1>. QED  BY <1>17 DEF w, View

\* A connection between the echo of a payload and the answer to the end.
LEMMA ViewAmid ==
    ASSUME IInv, NEW c \in Connections, offer[c] = NONE, NEW s \in Seq(Nat), arrived'[c] \in Nat,
           ended'[c] \in BOOLEAN, aborted'[c] \in BOOLEAN
    PROVE  LET u == ViewOf(processor, queue, offer[c], s, arrived'[c], ended'[c], aborted'[c])
           IN /\ ViewOk(u) /\ u.submitted = s /\ u.arrived = arrived'[c] /\ u.ended = ended'[c]
              /\ u.aborted = aborted'[c]
<1>1. processor.request \in Requests /\ queue \in Seq(ReceivedRequests) /\ offer[c] \in Requests
  BY DEF IInv, Types, Requests
<1> SUFFICES ASSUME NEW u, u = ViewOf(processor, queue, offer[c], s, arrived'[c], ended'[c], aborted'[c])
             PROVE  /\ ViewOk(u) /\ u.submitted = s /\ u.arrived = arrived'[c] /\ u.ended = ended'[c]
                    /\ u.aborted = aborted'[c]
  OBVIOUS
<1>. QED  BY <1>1, ViewFacts

\* The echo of a payload and the answer to the end, in one callback.
LEMMA EchoKeepsOrder ==
    ASSUME IInv, PushInv, OrderInv, IInv', PushInv', Typed',
           NEW c \in Connections, EchoReceives(c)
    PROVE  Order(c, View(c)')
<1>1. PICK payload, completed, sent, shut \in BOOLEAN, retained \in MayRetain :
          LET request == Request(c, payload, retained, completed)
          IN /\ Receives(c, payload, completed)
             /\ sent => payload
             /\ shut => completed /\ sent = payload
             /\ held' = held \cup IF sent THEN LeaseOf(request) ELSE {}
             /\ writes' = [writes EXCEPT ![c] =
                   @ \o IF sent THEN <<Write(request.n, LeaseOf(request))>> ELSE <<>>]
             /\ submitted' = [submitted EXCEPT ![c] =
                   @ \o (IF sent THEN <<request.n>> ELSE <<>>) \o (IF shut THEN <<Shutdown>> ELSE <<>>)]
             /\ FailsIf(c, sent # payload \/ shut # completed)
  BY Zenon DEF EchoReceives
<1> DEFINE v == View(c)
           a == arrived[c]
           s == submitted[c]
           s1 == IF sent THEN Append(s, a + 1) ELSE s
           u == ViewOf(processor, queue, offer[c], s1, arrived'[c], ended'[c], aborted'[c])
           w == ViewOf(processor', queue', offer'[c], submitted'[c], arrived'[c], ended'[c], aborted'[c])
<1>2. /\ UNCHANGED <<application, processor, queue, offer>> /\ application = "echo"
      /\ queue = <<>> /\ processor.request = NONE /\ offer[c] = NONE /\ processor.at # "faulted"
  BY DEF EchoReceives, dispatch, PushInv, DispatchOnly
<1>3. /\ s \in Seq(Nat) /\ a \in Nat /\ aborted[c] \in BOOLEAN /\ ended'[c] \in BOOLEAN
      /\ aborted'[c] \in BOOLEAN
  BY <1>2 DEF PushInv, PushTypes, Commands, IInv, Types, OrderInv, Typed
<1>4. /\ ~ended[c] /\ ended'[c] = completed /\ (payload \/ completed)
      /\ arrived'[c] = (IF payload THEN a + 1 ELSE a) /\ arrived'[c] \in Nat
      /\ aborted'[c] <=> aborted[c] \/ sent # payload \/ shut # completed
      /\ sent => payload
      /\ shut => completed /\ sent = payload
  BY <1>1, <1>3 DEF Receives, FailsIf, IInv, Types, OrderInv
<1>5. s1 \in Seq(Nat)
  BY <1>3
<1>6. submitted'[c] = IF shut THEN Append(s1, Shutdown) ELSE s1
  <2> DEFINE first == IF sent THEN <<a + 1>> ELSE <<>>
             second == IF shut THEN <<Shutdown>> ELSE <<>>
  <2>1. sent => Request(c, payload, retained, completed).n = a + 1
    BY <1>4 DEF Request
  <2>2. submitted'[c] = s \o first \o second
    BY <1>1, <1>2, <2>1 DEF PushInv, PushTypes
  <2>3. s \o first = s1
    <3>1. CASE sent
      BY <1>3, <3>1
    <3>2. CASE ~sent
      BY <1>3, <3>2
    <3>. QED  BY <3>1, <3>2
  <2>4. s1 \o second = IF shut THEN Append(s1, Shutdown) ELSE s1
    <3> HIDE DEF s1
    <3>1. CASE shut
      BY <1>5, <3>1 DEF Shutdown
    <3>2. CASE ~shut
      BY <1>5, <3>2
    <3>. QED  BY <3>1, <3>2
  <2>. QED  BY <2>2, <2>3, <2>4
<1>7. /\ ViewOk(v) /\ Order(c, v) /\ v.at = processor.at /\ v.submitted = s /\ v.arrived = a
      /\ v.ended = ended[c] /\ v.aborted = aborted[c]
      /\ DOMAIN v.line = 0..(Len(queue) + 1)
      /\ v.line[0] = processor.request /\ v.line[Len(queue) + 1] = offer[c]
  BY <1>2, ViewNow
<1>8. /\ ViewOk(w) /\ w.submitted = submitted'[c] /\ w.arrived = arrived'[c]
      /\ w.ended = ended'[c] /\ w.aborted = aborted'[c]
      /\ DOMAIN w.line = 0..(Len(queue') + 1)
      /\ w.line[0] = processor'.request /\ w.line[Len(queue') + 1] = offer'[c]
  BY <1>2, ViewNext
<1>9. ViewOk(u) /\ u.submitted = s1 /\ u.arrived = arrived'[c] /\ u.ended = ended'[c]
      /\ u.aborted = aborted'[c]
  BY <1>2, <1>3, <1>4, <1>5, ViewAmid
<1> HIDE DEF v, w, u
<1>10. (\A p \in DOMAIN v.line : ~Mine(c, v, p)) /\ (\A p \in DOMAIN w.line : ~Mine(c, w, p))
  <2>1. Len(queue) = 0 /\ \A p \in 0..1 : p = 0 \/ p = 1
    BY <1>2
  <2>. QED  BY <1>2, <1>7, <1>8, <2>1 DEF Mine
<1>11. \A i \in DOMAIN s : s[i] # Shutdown /\ s[i] < a + 1
  <2> SUFFICES ASSUME NEW i \in DOMAIN s PROVE s[i] # Shutdown /\ s[i] < a + 1
    OBVIOUS
  <2>1. s[i] # Shutdown
    BY <1>4, <1>7 DEF Order, Replied
  <2>2. s[i] \in i..a /\ s[i] \in Nat
    BY <1>3, <1>7, <2>1 DEF Order, Replied
  <2>. QED  BY <1>3, <2>1, <2>2
<1>12. ~aborted[c] => Len(s) = a
  <2> SUFFICES ASSUME ~aborted[c] PROVE Len(s) = a
    OBVIOUS
  <2>1. \A i \in DOMAIN v.submitted : v.submitted[i] # Shutdown
    BY <1>7, <1>11
  <2>2. ViewOk(v) /\ Order(c, v) /\ ~v.aborted /\ v.at # "faulted"
    BY <1>2, <1>7
  <2>3. /\ Len(v.submitted) <= v.arrived
        /\ \A k \in 1..v.arrived : k <= Len(v.submitted)
               \/ \E p \in DOMAIN v.line : Mine(c, v, p) /\ v.line[p].n = k
    BY <2>1, <2>2, NextIsDue
  <2>4. Len(s) <= a /\ \A k \in 1..a : k <= Len(s)
    BY <1>7, <1>10, <2>3
  <2>5. Len(s) \in Nat /\ a \in Nat
    BY <1>3
  <2>6. ASSUME NEW x \in Nat, NEW y \in Nat, x <= y, \A k \in 1..y : k <= x
        PROVE  x = y
    BY <2>6
  <2> HIDE DEF a, s
  <2>. QED  BY <2>4, <2>5, <2>6
<1>13. Replied(u) /\ (\A i \in DOMAIN s1 : s1[i] # Shutdown) /\ (~aborted'[c] => Len(s1) = arrived'[c])
  <2>1. CASE sent
    <3>1. s1 = Append(s, a + 1) /\ arrived'[c] = a + 1 /\ Len(s1) = Len(s) + 1
      BY <1>3, <1>4, <2>1
    <3> HIDE DEF s1
    <3>2. /\ a + 1 \in Nat /\ a + 1 > 0 /\ a + 1 <= u.arrived /\ v.arrived <= u.arrived
          /\ u.submitted = Append(v.submitted, a + 1) /\ (v.aborted => u.aborted)
          /\ (~u.aborted => a + 1 = Len(v.submitted) + 1)
      BY <1>3, <1>4, <1>7, <1>9, <1>12, <3>1
    <3>3. ViewOk(v) /\ ViewOk(u) /\ Replied(v)
      BY <1>7, <1>9 DEF Order
    <3>4. \A i \in DOMAIN v.submitted : v.submitted[i] # Shutdown /\ v.submitted[i] < a + 1
      BY <1>7, <1>11
    <3>5. Replied(u) /\ \A i \in DOMAIN u.submitted : u.submitted[i] # Shutdown
      BY <3>2, <3>3, <3>4, ReplyAppended
    <3>. QED  BY <1>4, <1>9, <1>12, <3>1, <3>5
  <2>2. CASE ~sent
    <3>1. s1 = s /\ (aborted[c] => aborted'[c]) /\ a <= arrived'[c]
      BY <1>3, <1>4, <2>2
    <3> HIDE DEF s1
    <3>2. Replied(u)
      <4> SUFFICES ASSUME NEW i \in DOMAIN s
                   PROVE  /\ s[i] # Shutdown /\ s[i] \in i..arrived'[c]
                          /\ ~aborted'[c] => s[i] = i
                          /\ i > 1 => s[i - 1] < s[i]
        BY <1>9, <3>1 DEF Replied
      <4>1. /\ s[i] # Shutdown /\ s[i] \in i..a
            /\ ~aborted[c] => s[i] = i
            /\ i > 1 => s[i - 1] < s[i]
        BY <1>7, <1>11 DEF Order, Replied
      <4>2. s[i] \in i..arrived'[c]
        BY <1>3, <1>4, <3>1, <4>1
      <4>. QED  BY <3>1, <4>1, <4>2
    <3>3. ~aborted'[c] => arrived'[c] = a
      BY <1>4, <2>2
    <3>. QED  BY <1>11, <1>12, <3>1, <3>2, <3>3
  <2>. QED  BY <2>1, <2>2
<1>14. \A k : Occurs(k, s1) <=> (sent /\ k = a + 1) \/ Occurs(k, s)
  BY <1>3, AppendOccurs
<1> HIDE DEF s1
<1>15. Replied(w)
  <2>1. CASE shut
    <3>1. /\ w.ended /\ w.arrived = u.arrived /\ w.submitted = Append(u.submitted, Shutdown)
          /\ (u.aborted => w.aborted) /\ (~w.aborted => Len(u.submitted) = u.arrived)
      BY <1>4, <1>6, <1>8, <1>9, <1>13, <2>1
    <3>2. ViewOk(u) /\ ViewOk(w) /\ Replied(u) /\ \A i \in DOMAIN u.submitted : u.submitted[i] # Shutdown
      BY <1>8, <1>9, <1>13
    <3>. QED  BY <3>1, <3>2, EndAppended
  <2>2. CASE ~shut
    <3>1. /\ w.submitted = u.submitted /\ w.arrived = u.arrived /\ w.ended = u.ended
          /\ w.aborted = u.aborted
      BY <1>6, <1>8, <1>9, <2>2
    <3>. QED  BY <1>13, <3>1 DEF Replied
  <2>. QED  BY <2>1, <2>2
<1>16. \A k : Occurs(k, s1) => Occurs(k, submitted'[c])
  BY <1>5, <1>6, AppendOccurs DEF Shutdown
<1>17. Covered(c, w)
  <2> SUFFICES ASSUME ~aborted'[c], NEW k \in 1..arrived'[c] PROVE Occurs(k, submitted'[c])
    BY <1>8 DEF Covered
  <2>1. CASE k \in 1..a
    <3>1. Occurs(k, v.submitted) \/ \E p \in DOMAIN v.line : Mine(c, v, p) /\ v.line[p].n = k
      BY <1>2, <1>4, <1>7, <2>1 DEF Order, Covered
    <3>. QED  BY <1>7, <1>10, <1>14, <1>16, <3>1
  <2>2. CASE k = a + 1 /\ payload
    BY <1>4, <1>14, <1>16, <2>2
  <2>. QED  BY <1>3, <1>4, <2>1, <2>2
<1>18. AllInOrder(c, w) /\ Processing(c, w)
  BY <1>10 DEF AllInOrder, Processing, Mine
<1>19. Order(c, w)
  BY <1>15, <1>17, <1>18 DEF Order
<1>. QED  BY <1>19 DEF w, View

-----------------------------------------------------------------------------
(* Every step.                                                             *)

LEMMA PushInvNext ==
    ASSUME IInv, PushInv, [Next]_vars
    PROVE  PushInv'
<1>1. DispatchOnly'
  BY DispatchOnlyKept DEF PushInv
<1>2. CASE UNCHANGED vars
  BY <1>1, <1>2, PushUnchanged DEF vars, push
<1>3. CASE DisposeAsync
  BY <1>1, <1>3, PushUnchanged DEF DisposeAsync, engine
<1>4. CASE Processor
  BY <1>1, <1>4, ProcessorKeepsPush
<1>5. ASSUME NEW c \in Connections, Callback(c) \/ Terminates(c) PROVE PushInv'
  <2>1. CASE DispatchReceives(c) \/ Offered(c) \/ Refused(c) \/ WriteCompleted(c)
    <3>1. UNCHANGED <<application, phase, submitted, push>>
      BY <2>1 DEF DispatchReceives, Offered, Refused, WriteCompleted, engine
    <3>. QED  BY <1>1, <3>1, PushUnchanged
  <2>2. CASE EchoReceives(c)
    BY <1>1, <2>2, EchoKeepsPush
  <2>3. CASE OnReady(c) \/ Terminates(c) \/ Closes(c) \/ RemovesPeer(c) \/ MarkClosed(c)
    BY <1>1, <2>3, PhaseKeepsPush
  <2>. QED  BY <1>5, <2>1, <2>2, <2>3 DEF Callback
<1>6. ASSUME NEW t \in Broadcasters, Broadcasting(t) PROVE PushInv'
  <2>1. CASE Broadcasts(t) \/ BroadcastEnds(t)
    BY <1>1, <2>1, BroadcastsKeepsPush
  <2>2. ASSUME NEW c \in Connections, EntersPeer(t, c) PROVE PushInv'
    BY <1>1, <2>2, EntersPeerKeepsPush
  <2>3. CASE LeavesPeer(t)
    BY <1>1, <2>3, LeavesPeerKeepsPush
  <2>. QED  BY <1>6, <2>1, <2>2, <2>3 DEF Broadcasting
<1>. QED  BY <1>2, <1>3, <1>4, <1>5, <1>6 DEF Next

\* Nothing has arrived, nothing is under way and nothing was submitted.
LEMMA OrderInitially == Init => OrderInv
<1> SUFFICES ASSUME Init PROVE Typed /\ (application # "push" => \A c \in Connections : Order(c, View(c)))
  BY DEF OrderInv, Typed
<1>1. IInv /\ PushInv /\ Typed
  BY InitOwns, PushInvInitially DEF Init, Typed
<1>2. ASSUME application # "push", NEW c \in Connections, NEW v, v = View(c) PROVE Order(c, v)
  <2>1. /\ queue \in Seq(ReceivedRequests) /\ submitted[c] \in Seq(Nat)
        /\ processor.request \in Requests /\ offer[c] \in Requests
        /\ arrived[c] \in Nat /\ ended[c] \in BOOLEAN /\ aborted[c] \in BOOLEAN
    BY <1>1, <1>2 DEF IInv, Types, PushInv, PushTypes, Commands, Typed, Requests
  <2>2. v = ViewOf(processor, queue, offer[c], submitted[c], arrived[c], ended[c], aborted[c])
    BY <1>2 DEF View
  <2>3. /\ v.submitted = submitted[c] /\ v.arrived = arrived[c]
        /\ DOMAIN v.line = 0..(Len(queue) + 1) /\ v.line[0] = processor.request
        /\ v.line[Len(queue) + 1] = offer[c]
    BY <2>1, <2>2, ViewFacts
  <2>4. /\ queue = <<>> /\ submitted[c] = <<>> /\ arrived[c] = 0
        /\ processor.request = NONE /\ offer[c] = NONE
    BY DEF Init
  <2>5. /\ v.submitted = <<>> /\ v.arrived = 0
        /\ DOMAIN v.line = 0..1 /\ v.line[0] = NONE /\ v.line[1] = NONE
    BY <2>3, <2>4
  <2>6. \A p : ~Mine(c, v, p)
    BY <2>5 DEF Mine
  <2>. QED  BY <2>5, <2>6 DEF Order, AllInOrder, Processing, Covered, Replied
<1>. QED  BY <1>1, <1>2

LEMMA TypedNext ==
    ASSUME Typed, [Next]_vars
    PROVE  Typed' /\ application' = application
<1>1. CASE UNCHANGED vars
  BY <1>1 DEF vars, Typed
<1>2. CASE DisposeAsync
  BY <1>2 DEF DisposeAsync, engine, Typed
<1>3. CASE Processor
  BY <1>3 DEF Processor, TakesRequest, ProcessorEnds, Responds, EndsRequest, ProcessorFaults, engine, Typed
<1>4. ASSUME NEW c \in Connections, Callback(c) \/ Terminates(c)
      PROVE  Typed' /\ application' = application
  <2>1. CASE DispatchReceives(c)
    BY <2>1 DEF DispatchReceives, Receives, Typed
  <2>2. CASE EchoReceives(c)
    BY <2>2 DEF EchoReceives, Receives, FailsIf, Typed
  <2>3. CASE Refused(c) \/ WriteCompleted(c)
    BY <2>3 DEF Refused, WriteCompleted, Typed
  <2>4. CASE \/ Offered(c) \/ OnReady(c) \/ Closes(c) \/ RemovesPeer(c) \/ MarkClosed(c) \/ Terminates(c)
    BY <2>4 DEF Offered, OnReady, Closes, RemovesPeer, MarkClosed, Terminates, engine, Typed
  <2>. QED  BY <1>4, <2>1, <2>2, <2>3, <2>4 DEF Callback
<1>5. ASSUME NEW t \in Broadcasters, Broadcasting(t) PROVE Typed' /\ application' = application
  BY <1>5 DEF Broadcasting, Broadcasts, EntersPeer, LeavesPeer, BroadcastEnds, engine, Typed
<1>. QED  BY <1>1, <1>2, <1>3, <1>4, <1>5 DEF Next

\* A step that leaves the requests and replies of a connection alone, but for
\* an abort.
LEMMA AloneKeepsOrder ==
    ASSUME IInv, PushInv, OrderInv, IInv', PushInv', Typed', application # "push",
           UNCHANGED <<application, submitted, arrived, ended, offer, queue, processor>>,
           NEW d \in Connections, aborted[d] => aborted'[d]
    PROVE  Order(d, View(d)')
  BY LossKeepsOrder

LEMMA ProcessorKeepsOrder ==
    ASSUME IInv, PushInv, OrderInv, IInv', PushInv', Typed', application # "push", Processor,
           NEW d \in Connections
    PROVE  Order(d, View(d)')
<1>1. CASE TakesRequest
  BY <1>1, TakesKeepsOrder
<1>2. CASE ProcessorEnds
  <2>1. /\ processor.request = NONE /\ processor'.request = NONE
        /\ processor.at = "waiting" /\ processor'.at = "finished"
        /\ UNCHANGED <<application, submitted, arrived, ended, aborted, offer, queue>>
    BY <1>2 DEF ProcessorEnds, At, engine, IInv, RequestsPlaced
  <2>. QED  BY <2>1, LossKeepsOrder
<1>3. CASE Responds
  <2> DEFINE c == processor.request.c
  <2>1. /\ UNCHANGED <<application, arrived, ended, aborted, offer, queue>>
        /\ processor.request # NONE /\ processor.request \in ReceivedRequests
        /\ processor.at = "handling" /\ processor'.request = processor.request
        /\ submitted' = [submitted EXCEPT ![c] = Append(@, processor.request.n)]
    BY <1>3 DEF Responds, Submits, At, IInv, RequestsPlaced, Types
  <2>2. CASE d = c
    BY <1>3, <2>2, RespondsKeepsOrder
  <2>3. CASE d # c
    <3>1. submitted'[d] = submitted[d]
      BY <2>1, <2>3 DEF PushInv, PushTypes
    <3>. QED  BY <2>1, <2>3, <3>1, LossKeepsOrder
  <2>. QED  BY <2>2, <2>3
<1>4. CASE EndsRequest
  <2> DEFINE c == processor.request.c
  <2>1. /\ UNCHANGED <<application, arrived, ended, aborted, offer, queue>>
        /\ processor.request # NONE
        /\ processor.at = "ending" /\ processor'.request = NONE /\ processor'.at = "waiting"
        /\ submitted' = submitted \/ submitted' = [submitted EXCEPT ![c] = Append(@, Shutdown)]
    BY <1>4 DEF EndsRequest, Submits, At, IInv, RequestsPlaced
  <2>2. CASE d = c
    BY <1>4, <2>2, EndsKeepsOrder
  <2>3. CASE d # c
    <3>1. submitted'[d] = submitted[d]
      BY <2>1, <2>3 DEF PushInv, PushTypes
    <3>. QED  BY <2>1, <2>3, <3>1, LossKeepsOrder
  <2>. QED  BY <2>2, <2>3
<1>5. CASE ProcessorFaults
  <2>1. /\ UNCHANGED <<application, submitted, arrived, ended, aborted, offer, queue>>
        /\ processor'.request = NONE /\ processor'.at = "faulted"
    BY <1>5 DEF ProcessorFaults, At
  <2>. QED  BY <2>1, LossKeepsOrder
<1>. QED  BY <1>1, <1>2, <1>3, <1>4, <1>5 DEF Processor

LEMMA CallbackKeepsOrder ==
    ASSUME IInv, PushInv, OrderInv, IInv', PushInv', Typed', application # "push",
           NEW c \in Connections, Callback(c), NEW d \in Connections
    PROVE  Order(d, View(d)')
<1>1. CASE DispatchReceives(c)
  <2>1. CASE d = c
    BY <1>1, <2>1, ReceivesKeepsOrder
  <2>2. CASE d # c
    <3>1. /\ UNCHANGED <<application, submitted, aborted, queue, processor>>
          /\ arrived'[d] = arrived[d] /\ ended'[d] = ended[d] /\ offer'[d] = offer[d]
      BY <1>1, <2>2 DEF DispatchReceives, Receives, IInv, Types, OrderInv
    <3>. QED  BY <3>1, LossKeepsOrder
  <2>. QED  BY <2>1, <2>2
<1>2. CASE Offered(c)
  BY <1>2, OfferedKeepsOrder
<1>3. CASE Refused(c)
  <2>1. /\ UNCHANGED <<application, submitted, arrived, ended, queue, processor>>
        /\ offer'[d] = (IF d = c THEN NONE ELSE offer[d])
        /\ aborted'[d] = (IF d = c THEN TRUE ELSE aborted[d])
    BY <1>3 DEF Refused, IInv, Types, OrderInv
  <2>. QED  BY <2>1, LossKeepsOrder
<1>4. CASE EchoReceives(c)
  <2>1. CASE d = c
    BY <1>4, <2>1, EchoKeepsOrder
  <2>2. CASE d # c
    <3>1. /\ UNCHANGED <<application, queue, processor, offer>>
          /\ arrived'[d] = arrived[d] /\ ended'[d] = ended[d] /\ submitted'[d] = submitted[d]
          /\ aborted'[d] = aborted[d]
      BY <1>4, <2>2 DEF EchoReceives, Receives, FailsIf, dispatch, IInv, Types, PushInv, PushTypes, OrderInv
    <3>. QED  BY <3>1, LossKeepsOrder
  <2>. QED  BY <2>1, <2>2
<1>5. CASE WriteCompleted(c)
  <2>1. /\ UNCHANGED <<application, submitted, arrived, ended, offer, queue, processor>>
        /\ aborted[d] => aborted'[d]
    BY <1>5 DEF WriteCompleted, dispatch, OrderInv
  <2>. QED  BY <2>1, AloneKeepsOrder
<1>6. CASE OnReady(c) \/ Closes(c) \/ RemovesPeer(c) \/ MarkClosed(c)
  <2>1. UNCHANGED <<application, submitted, arrived, ended, aborted, offer, queue, processor>>
    BY <1>6 DEF OnReady, Closes, RemovesPeer, MarkClosed, engine, dispatch
  <2>. QED  BY <2>1, AloneKeepsOrder
<1>. QED  BY <1>1, <1>2, <1>3, <1>4, <1>5, <1>6 DEF Callback

LEMMA OrderInvNext ==
    ASSUME IInv, PushInv, OrderInv, [Next]_vars
    PROVE  OrderInv'
<1>1. IInv' /\ PushInv'
  BY NextOwns, PushInvNext
<1>2. Typed' /\ application' = application
  BY TypedNext DEF OrderInv, Typed
<1> SUFFICES ASSUME application # "push", NEW d \in Connections PROVE Order(d, View(d)')
  BY <1>2 DEF OrderInv, Typed
<1>3. CASE UNCHANGED <<submitted, arrived, ended, aborted, offer, queue, processor>>
  BY <1>1, <1>2, <1>3, AloneKeepsOrder
<1>4. CASE Processor
  BY <1>1, <1>2, <1>4, ProcessorKeepsOrder
<1>5. ASSUME NEW c \in Connections, Callback(c) PROVE Order(d, View(d)')
  BY <1>1, <1>2, <1>5, CallbackKeepsOrder
<1>6. \A t \in Broadcasters : thread[t].at = "idle"
  BY DEF PushInv, ThreadOk
<1>7. ASSUME NEW t \in Broadcasters, Broadcasting(t)
      PROVE  UNCHANGED <<submitted, arrived, ended, aborted, offer, queue, processor>>
  BY <1>6, <1>7 DEF Broadcasting, Broadcasts, EntersPeer, LeavesPeer, BroadcastEnds
<1>8. ASSUME NEW c \in Connections, Terminates(c)
      PROVE  UNCHANGED <<submitted, arrived, ended, aborted, offer, queue, processor>>
  BY <1>8 DEF Terminates, dispatch
<1>9. DisposeAsync => UNCHANGED <<submitted, arrived, ended, aborted, offer, queue, processor>>
  BY DEF DisposeAsync, engine
<1>10. UNCHANGED vars => UNCHANGED <<submitted, arrived, ended, aborted, offer, queue, processor>>
  BY DEF vars
<1>. QED  BY <1>3, <1>4, <1>5, <1>7, <1>8, <1>9, <1>10 DEF Next

-----------------------------------------------------------------------------
(* The properties.                                                         *)

\* What occurs at most once is counted at most once.
LEMMA TimesOccurs ==
    ASSUME NEW t \in Broadcasters, NEW c \in Connections, Once(t, submitted[c])
    PROVE  /\ Times(c, t) = IF Occurs(t, submitted[c]) THEN 1 ELSE 0
<1> DEFINE I == {i \in DOMAIN submitted[c] : submitted[c][i] = t}
<1>1. CASE ~Occurs(t, submitted[c])
  <2>1. I = {}
    BY <1>1 DEF Occurs
  <2>. QED  BY <1>1, <2>1, FS_EmptySet DEF Times
<1>2. CASE Occurs(t, submitted[c])
  <2>1. PICK i \in DOMAIN submitted[c] : submitted[c][i] = t
    BY <1>2 DEF Occurs
  <2>2. I = {i}
    BY <2>1 DEF Once
  <2>. QED  BY <1>2, <2>2, FS_Singleton DEF Times
<1>. QED  BY <1>1, <1>2

LEMMA PushInvReaches == PushInv => BroadcastReachesPeers
<1> SUFFICES ASSUME PushInv, NEW t \in Broadcasters
             PROVE  /\ thread[t].at # "failed"
                    /\ \A c \in thread[t].snapshot \ thread[t].left :
                          Times(c, t) = 1 \/ peer_closed[c] \/ thread[t].peer = c
                    /\ thread[t].at = "sending" =>
                          /\ phase[thread[t].peer] # "closed"
                          /\ \A u \in Broadcasters \ {t} : thread[u].peer # thread[t].peer
                    /\ \A c \in Connections : Times(c, t) <= 1
  BY DEF BroadcastReachesPeers
<1>1. PushTypes /\ ClosedMarked /\ (\A u \in Broadcasters : ThreadOk(u)) /\ thread[t] \in Threads
  BY DEF PushInv, PushTypes
<1>2. thread[t].at # "failed" /\ thread[t].snapshot \subseteq Connections
  BY <1>1 DEF Threads
<1>3. \A c \in Connections : Times(c, t) = IF Occurs(t, submitted[c]) THEN 1 ELSE 0
  BY <1>1, TimesOccurs DEF ThreadOk
<1>4. \A c \in Connections : Times(c, t) <= 1
  BY <1>3
<1>5. ASSUME NEW c \in thread[t].snapshot \ thread[t].left
      PROVE  Times(c, t) = 1 \/ peer_closed[c] \/ thread[t].peer = c
  <2>1. c \in Connections /\ (Occurs(t, submitted[c]) \/ peer_closed[c] \/ thread[t].peer = c)
    BY <1>1, <1>2, <1>5 DEF ThreadOk
  <2>. QED  BY <1>3, <2>1
<1>6. ASSUME thread[t].at = "sending"
      PROVE  /\ phase[thread[t].peer] # "closed"
             /\ \A u \in Broadcasters \ {t} : thread[u].peer # thread[t].peer
  <2>1. /\ application = "push" /\ thread[t].peer \in Connections /\ thread[t].peer # NONE
        /\ lock[thread[t].peer] = t /\ ~peer_closed[thread[t].peer]
    BY <1>1, <1>2, <1>6 DEF ThreadOk
  <2>2. phase[thread[t].peer] # "closed"
    BY <1>1, <2>1 DEF ClosedMarked
  <2>3. ASSUME NEW u \in Broadcasters \ {t}, thread[u].peer = thread[t].peer PROVE FALSE
    <3>1. thread[u].peer # NONE
      BY <2>1, <2>3
    <3>2. ThreadOk(u)
      BY <1>1
    <3>3. lock[thread[u].peer] = u
      BY <3>1, <3>2 DEF ThreadOk
    <3>. QED  BY <2>1, <2>3, <3>3
  <2>. QED  BY <2>2, <2>3
<1>. QED  BY <1>2, <1>4, <1>5, <1>6

LEMMA OrderInvReplies == IInv /\ PushInv /\ OrderInv => RepliesInOrder
<1> SUFFICES ASSUME IInv, PushInv, OrderInv, NEW c \in Connections, application # "push",
                    NEW i \in DOMAIN submitted[c]
             PROVE  IF submitted[c][i] = Shutdown
                    THEN ended[c] /\ i = Len(submitted[c]) /\ (~aborted[c] => i = arrived[c] + 1)
                    ELSE /\ submitted[c][i] >= i
                         /\ ~aborted[c] => submitted[c][i] = i
                         /\ i > 1 => submitted[c][i - 1] < submitted[c][i]
  BY DEF RepliesInOrder
<1> DEFINE v == View(c)
<1>1. /\ Order(c, v) /\ v.submitted = submitted[c] /\ v.arrived = arrived[c]
      /\ v.ended = ended[c] /\ v.aborted = aborted[c]
  BY ViewNow
<1> HIDE DEF v
<1>2. /\ submitted[c] \in Seq(Nat) /\ arrived[c] \in Nat
  BY DEF PushInv, PushTypes, Commands, IInv, Types
<1>3. IF submitted[c][i] = Shutdown
      THEN ended[c] /\ i = Len(submitted[c]) /\ (~aborted[c] => i = arrived[c] + 1)
      ELSE /\ submitted[c][i] \in i..arrived[c]
           /\ ~aborted[c] => submitted[c][i] = i
           /\ i > 1 => submitted[c][i - 1] < submitted[c][i]
  BY <1>1 DEF Order, Replied
<1>. QED  BY <1>2, <1>3

\* A broadcast reaches every peer of its snapshot once unless that peer closed,
\* throws for none, and has the peer it writes to for itself: the snapshot of
\* the registry, ServerPeer.Send and MarkClosed under its lock, and OnClosed.
THEOREM BroadcastsReachPeers == Spec => []BroadcastReachesPeers
<1>1. Init => IInv /\ PushInv
  BY InitOwns, PushInvInitially
<1>2. IInv /\ PushInv /\ [Next]_vars => IInv' /\ PushInv'
  BY NextOwns, PushInvNext
<1>. QED  BY <1>1, <1>2, PushInvReaches, PTL DEF Spec

\* Both receive applications answer the payloads of a connection in the order
\* of their arrival, each once and none out of turn unless it is aborted, and
\* the end last: OnReceive, the bounded channel, ProcessRequestsAsync, and the
\* echo's Send and ShutdownWrite.
THEOREM RepliesStayInOrder == Spec => []RepliesInOrder
<1>1. Init => IInv /\ PushInv /\ OrderInv
  BY InitOwns, PushInvInitially, OrderInitially
<1>2. IInv /\ PushInv /\ OrderInv /\ [Next]_vars => IInv' /\ PushInv' /\ OrderInv'
  BY NextOwns, PushInvNext, OrderInvNext
<1>. QED  BY <1>1, <1>2, OrderInvReplies, PTL DEF Spec
=============================================================================
