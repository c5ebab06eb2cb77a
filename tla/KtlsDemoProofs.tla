--------------------------- MODULE KtlsDemoProofs ---------------------------
(***************************************************************************)
(* The safety properties of KtlsDemo, for every script, buffer size,        *)
(* deadline and size of a record.                                          *)
(*                                                                         *)
(* The cleanup sees only pointers, so the first invariant (IInv) is about  *)
(* owners: until the exit an object is live exactly when one of main's     *)
(* variables or the chain of the SSL names it, and never when both do. The *)
(* second (WaitInv) adds what a wait rests on: the call that is to be      *)
(* repeated, and that the filter reports its own direction when it blocks. *)
(* The third (TalkInv) follows the message: from the peer's records into   *)
(* the buffer, by which layer, and onto the wire.                          *)
(***************************************************************************)
EXTENDS KtlsDemo, SequenceTheorems, WellFoundedInduction, TLAPS

Chained(o) == chain = "installed" /\ o \in {"filter", "socket_bio"}
SslLoops == {"handshake", "read", "write", "shutdown"}
Late == SslLoops \cup {"gate"}

\* Before the BIOs are attached, and between the creation of the method and that.
Early == \/ pc \in {"configure", "method", "listen", "accept", "allocate", "attach"}
         \/ pc = "wait" /\ wait.back = "accept"
HasMethod == \/ pc \in {"listen", "accept", "allocate", "attach"}
             \/ pc = "wait" /\ wait.back = "accept"

TypeInv ==
    /\ pc \in {"configure", "method", "listen", "accept", "allocate", "attach",
               "wait", "cleanup", "exited"} \cup Late
    /\ wait \in [back : {"accept"} \cup SslLoops, events : {"in", "out"}]
    /\ heap \in [Objects -> {"none", "live", "freed"}]
    /\ ptr \in [Objects -> BOOLEAN]
    /\ chain \in {"apart", "installed"}

OwnedOnce ==
    \A o \in Objects : /\ ~(ptr[o] /\ Chained(o))
                       /\ heap[o] = "live" <=> ptr[o] \/ Chained(o)

Placed ==
    /\ Early => chain = "apart"
    /\ HasMethod => ptr["method"]
    /\ ptr["filter"] \/ chain = "installed" => ptr["method"]
    /\ pc = "attach" => ptr["ssl"] /\ ptr["filter"] /\ ptr["socket_bio"]
    /\ chain = "installed" => ptr["ssl"]

IInv ==
    /\ TypeInv
    /\ pc # "exited" => OwnedOnce /\ Placed
    /\ pc = "exited" => \A o \in Objects : heap[o] # "live"

-----------------------------------------------------------------------------
\* Initially nothing exists.
LEMMA InitOwned == Init => IInv
BY DEF Init, IInv, TypeInv, OwnedOnce, Placed, Early, HasMethod, Chained, Objects, SslLoops

\* What the invariant gives of a state reaches all states in which main is
\* where it was and owns what it owned: the clock's, the peer's and idle steps.
LEMMA StaysOwned ==
    ASSUME IInv, UNCHANGED <<pc, wait, heap, ptr, chain>>
    PROVE  IInv'
BY DEF IInv, TypeInv, OwnedOnce, Placed, Early, HasMethod, Chained

\* A step of the loops around the SSL calls moves no object.
LEMMA LoopOwned ==
    ASSUME IInv, pc \notin {"exited"}, ~Early \/ pc' = "cleanup",
           UNCHANGED <<heap, ptr, chain>>,
           pc' \in Late \cup {"cleanup"} \/ (pc' = "wait" /\ wait'.back # "accept"),
           wait' \in [back : {"accept"} \cup SslLoops, events : {"in", "out"}]
    PROVE  IInv'
BY DEF IInv, TypeInv, OwnedOnce, Placed, Early, HasMethod, Chained, Late, SslLoops

-----------------------------------------------------------------------------
(* Setting up.                                                              *)

\* A created object is live and named by main's variable, and by nothing else.
LEMMA CreateOwned ==
    ASSUME IInv, pc # "exited", chain = "apart", UNCHANGED chain,
           NEW got \in SUBSET Objects, Create(got)
    PROVE  /\ OwnedOnce'
           /\ heap' \in [Objects -> {"none", "live", "freed"}]
           /\ ptr' \in [Objects -> BOOLEAN]
           /\ \A o \in Objects : ptr'[o] <=> o \in got \/ ptr[o]
BY DEF IInv, TypeInv, OwnedOnce, Chained, Create

\* The context, the method and the listener.
LEMMA SetUpOwned ==
    ASSUME IInv, Configure \/ CreateMethod \/ Listen
    PROVE  IInv'
<1>1. CASE Configure
  <2>1. PICK got \in SUBSET {"ctx"} : Create(got) /\ ((got # {} /\ pc' = "method") \/ pc' = "cleanup")
    BY <1>1 DEF Configure, SetUp, GiveUp
  <2>2. pc = "configure" /\ UNCHANGED <<wait, chain>> /\ chain = "apart"
    BY <1>1 DEF Configure, SetUp, IInv, Placed, Early
  <2> QED BY <2>1, <2>2, CreateOwned, "ctx" \in Objects
     DEF IInv, TypeInv, Placed, Early, HasMethod, Objects
<1>2. CASE CreateMethod
  <2>1. PICK got \in SUBSET {"method"} : Create(got) /\ ((got # {} /\ pc' = "listen") \/ pc' = "cleanup")
    BY <1>2 DEF CreateMethod, SetUp, GiveUp
  <2>3. "method" \in got \/ pc' = "cleanup"
    BY <2>1
  <2>2. pc = "method" /\ UNCHANGED <<wait, chain>> /\ chain = "apart"
    BY <1>2 DEF CreateMethod, SetUp, IInv, Placed, Early
  <2> QED BY <2>1, <2>2, <2>3, CreateOwned DEF IInv, TypeInv, Placed, Early, HasMethod, Objects
<1>3. CASE Listen
  <2>1. PICK got \in SUBSET {"listener"} : Create(got) /\ ((got # {} /\ pc' = "wait") \/ pc' = "cleanup")
    BY <1>3 DEF Listen, SetUp, GiveUp
  <2>2. /\ pc = "listen" /\ UNCHANGED chain /\ chain = "apart"
        /\ wait' = [back |-> "accept", events |-> "in"]
    BY <1>3 DEF Listen, SetUp, IInv, Placed, Early
  <2> QED BY <2>1, <2>2, CreateOwned DEF IInv, TypeInv, Placed, Early, HasMethod, Objects
<1> QED BY <1>1, <1>2, <1>3

\* The connection takes the place of the listener.
LEMMA AcceptOwned ==
    ASSUME IInv, Accept \/ AcceptFails
    PROVE  IInv'
<1>1. CASE Accept
  <2>1. pc = "accept" /\ pc' \in {"allocate", "cleanup"} /\ UNCHANGED <<wait, chain>> /\ chain = "apart"
    BY <1>1 DEF Accept, GiveUp, IInv, Placed, Early
  <2>2. /\ heap' = [heap EXCEPT !["fd"] = "live", !["listener"] = "freed"]
        /\ ptr' = [ptr EXCEPT !["fd"] = TRUE, !["listener"] = FALSE]
    BY <1>1 DEF Accept
  <2> QED BY <2>1, <2>2 DEF IInv, TypeInv, OwnedOnce, Placed, Early, HasMethod, Chained, Objects
<1>2. CASE AcceptFails
  <2>1. pc = "accept" /\ pc' \in {"wait", "cleanup"} /\ UNCHANGED <<wait, heap, ptr, chain>>
    BY <1>2 DEF AcceptFails, GiveUp, objects
  <2> QED BY <2>1 DEF IInv, TypeInv, OwnedOnce, Placed, Early, HasMethod, Chained
<1> QED BY <1>1, <1>2

\* The three allocations, any of which may fail, and the change of owners.
LEMMA AttachOwned ==
    ASSUME IInv, AllocateTls \/ AttachBios
    PROVE  IInv'
<1>1. CASE AllocateTls
  <2>1. PICK got \in SUBSET {"ssl", "filter", "socket_bio"} :
            /\ Create(got)
            /\ IF got = {"ssl", "filter", "socket_bio"} THEN pc' = "attach" ELSE pc' = "cleanup"
    BY <1>1 DEF AllocateTls, GiveUp
  <2>2. pc = "allocate" /\ UNCHANGED <<wait, chain>> /\ chain = "apart"
    BY <1>1 DEF AllocateTls, IInv, Placed, Early
  <2> QED BY <2>1, <2>2, CreateOwned DEF IInv, TypeInv, Placed, Early, HasMethod, Objects
<1>2. CASE AttachBios
  <2>1. /\ pc = "attach" /\ pc' = "handshake" /\ chain' = "installed" /\ UNCHANGED <<wait, heap>>
        /\ ptr' = [ptr EXCEPT !["socket_bio"] = FALSE, !["filter"] = FALSE]
    BY <1>2 DEF AttachBios
  <2> QED BY <2>1 DEF IInv, TypeInv, OwnedOnce, Placed, Early, HasMethod, Chained, Objects, Late, SslLoops
<1> QED BY <1>1, <1>2

-----------------------------------------------------------------------------
(* The loops.                                                               *)

\* Whatever SSL_get_error says, main waits in its loop or gives up.
LEMMA RetryPlaces ==
    ASSUME IInv, pc \in SslLoops, NEW error, RetrySsl(error)
    PROVE  /\ pc' = "cleanup" \/ (pc' = "wait" /\ wait'.back # "accept")
           /\ wait' \in [back : {"accept"} \cup SslLoops, events : {"in", "out"}]
BY DEF RetrySsl, IInv, TypeInv, SslLoops

\* wait_socket returns to the loop that called it, or fails.
LEMMA WaitOwned ==
    ASSUME IInv, WaitExpires \/ WaitEnds \/ WaitFails
    PROVE  IInv'
<1>1. pc = "wait" /\ pc' \in {"cleanup", wait.back} /\ UNCHANGED <<wait, heap, ptr, chain>>
  BY DEF WaitExpires, WaitEnds, WaitFails, GiveUp, objects
<1> QED BY <1>1 DEF IInv, TypeInv, OwnedOnce, Placed, Early, HasMethod, Chained, Late, SslLoops

\* A call of filter_read, whatever OpenSSL and main make of it.
LEMMA ReadOwned ==
    ASSUME IInv, ReadBlocks \/ ReadsPart \/ ReadsFlight \/ ReadsData \/ ReadRefused \/ ReadReturns
    PROVE  IInv'
<1>1. pc \in SslLoops /\ UNCHANGED <<heap, ptr, chain>>
  BY DEF ReadBlocks, ReadsPart, ReadsFlight, ReadsData, ReadRefused, ReadReturns, Reads,
         ReadThroughFilter, Handshaking, Loop, SslLoops, objects
<1>2. ~Early
  BY <1>1 DEF Early, SslLoops
<1>3. CASE ReadBlocks
  BY <1>1, <1>2, <1>3, RetryPlaces, LoopOwned DEF ReadBlocks, SslLoops
<1>4. CASE ReadsPart \/ ReadsFlight \/ ReadsData \/ ReadRefused \/ ReadReturns
  <2>1. pc' \in Late \cup {"cleanup"} /\ UNCHANGED wait
    BY <1>1, <1>4 DEF ReadsPart, ReadsFlight, ReadsData, ReadRefused, ReadReturns, StepsOn,
                      Late, SslLoops
  <2> QED BY <1>1, <1>2, <2>1, LoopOwned DEF IInv, TypeInv, Late, SslLoops
<1> QED BY <1>3, <1>4

\* A call of filter_write, whatever OpenSSL and main make of it.
LEMMA WriteOwned ==
    ASSUME IInv, WriteBlocks \/ WritesPart \/ WritesFlight \/ WritesEcho \/ WritesCloseNotify
    PROVE  IInv'
<1>1. pc \in SslLoops /\ UNCHANGED <<heap, ptr, chain>>
  BY DEF WriteBlocks, WritesPart, WritesFlight, WritesEcho, WritesCloseNotify, WritesRest, Writes,
         WriteThroughFilter, Handshaking, Loop, SslLoops, objects
<1>2. ~Early
  BY <1>1 DEF Early, SslLoops
<1>3. CASE WriteBlocks
  BY <1>1, <1>2, <1>3, RetryPlaces, LoopOwned DEF WriteBlocks, SslLoops
<1>4. CASE WritesPart \/ WritesFlight \/ WritesEcho \/ WritesCloseNotify
  <2>1. pc' \in Late \cup {"cleanup"} /\ UNCHANGED wait
    BY <1>1, <1>4 DEF WritesPart, WritesFlight, WritesEcho, WritesCloseNotify, WritesRest, StepsOn,
                      Late, SslLoops
  <2> QED BY <1>1, <1>2, <2>1, LoopOwned DEF IInv, TypeInv, Late, SslLoops
<1> QED BY <1>3, <1>4

\* The activation gate.
LEMMA GateOwned ==
    ASSUME IInv, ActivationGate
    PROVE  IInv'
<1>1. pc = "gate" /\ pc' \in {"read", "cleanup"} /\ UNCHANGED <<wait, heap, ptr, chain>>
  BY DEF ActivationGate, objects
<1>2. ~Early /\ pc # "exited"
  BY <1>1 DEF Early
<1> QED BY <1>1, <1>2, LoopOwned DEF IInv, TypeInv, Late, SslLoops

-----------------------------------------------------------------------------
\* The cleanup releases what main's variables name and, with the SSL, the
\* chain: by OwnedOnce each live object once, and nothing else.
LEMMA CleanupOwned ==
    ASSUME IInv, Cleanup
    PROVE  IInv'
<1> DEFINE h1 == IF ptr["filter"] THEN FreeChain(heap) ELSE heap
           h2 == IF ptr["socket_bio"] THEN FreeSocketBio(h1) ELSE h1
           h3 == IF ptr["ssl"] THEN FreeSsl(h2) ELSE h2
<1>1. pc = "cleanup" /\ pc' = "exited" /\ UNCHANGED <<wait, ptr, chain>>
  BY DEF Cleanup
<1>2. heap' = Free(h3, {o \in {"method", "ctx", "fd", "listener"} : ptr[o]})
  BY DEF Cleanup, Released
<1>3. OwnedOnce /\ Placed /\ TypeInv
  BY <1>1 DEF IInv
<1>4. heap' \in [Objects -> {"none", "live", "freed"}] /\ \A o \in Objects : heap'[o] # "live"
  <2>1. CASE chain = "installed"
    <3>1. /\ ~ptr["filter"] /\ ~ptr["socket_bio"] /\ ptr["ssl"] /\ ptr["method"]
          /\ heap["filter"] = "live" /\ heap["socket_bio"] = "live"
      BY <1>3, <2>1 DEF OwnedOnce, Placed, Chained, Objects
    <3>2. h3 = Free(FreeChain(heap), {"ssl"})
      BY <3>1, <2>1 DEF FreeSsl
    <3>3. FreeChain(heap) = Free(Free(heap, {"filter"}), {"socket_bio"})
      BY <3>1, <2>1, <1>3 DEF FreeChain, FreeFilter, FreeSocketBio, SocketBioOwns, OwnedOnce, Objects
    <3> QED BY <1>2, <1>3, <2>1, <3>1, <3>2, <3>3
        DEF Free, OwnedOnce, Chained, TypeInv, Objects
  <2>2. CASE chain = "apart"
    <3>1. h1 = Free(heap, {o \in {"filter"} : ptr[o]})
      BY <1>3, <2>2 DEF FreeChain, FreeFilter, Free, OwnedOnce, Placed, TypeInv, Objects
    <3>2. h2 = Free(h1, {o \in {"socket_bio"} : ptr[o]})
      BY <1>3, <3>1 DEF FreeSocketBio, SocketBioOwns, Free, TypeInv, Objects
    <3>3. h3 = Free(h2, {o \in {"ssl"} : ptr[o]})
      BY <1>3, <2>2, <3>1, <3>2 DEF FreeSsl, Free, TypeInv, Objects
    <3> QED BY <1>2, <1>3, <2>2, <3>1, <3>2, <3>3
        DEF Free, OwnedOnce, Chained, TypeInv, Objects
  <2> QED BY <1>3, <2>1, <2>2 DEF TypeInv
<1> QED BY <1>1, <1>3, <1>4 DEF IInv, TypeInv

-----------------------------------------------------------------------------
\* Every step leaves every object with its one owner.
LEMMA StepOwned == IInv /\ [Next]_vars => IInv'
<1> SUFFICES ASSUME IInv, [Next]_vars PROVE IInv'
  OBVIOUS
<1>1. CASE Program
  BY <1>1, SetUpOwned, AcceptOwned, AttachOwned, WaitOwned, ReadOwned, WriteOwned, GateOwned,
     CleanupOwned DEF Program
<1>2. CASE Tick \/ PeerSends \/ PeerReads \/ PeerEnds \/ Exited \/ UNCHANGED vars
  <2>1. UNCHANGED <<pc, wait, heap, ptr, chain>>
    BY <1>2 DEF Tick, PeerSends, PeerReads, PeerEnds, Exited, vars, program, objects
  <2> QED BY <2>1, StaysOwned
<1> QED BY <1>1, <1>2 DEF Next

\* On every path through main, whichever call fails, each object is released
\* exactly once: for every script, capacity, deadline and size of record.
THEOREM EveryObjectReleasedOnce == Spec => []ReleasedOnce
<1>1. IInv => ReleasedOnce
  BY DEF IInv, TypeInv, ReleasedOnce
<1> QED BY <1>1, InitOwned, StepOwned, PTL DEF Spec
-----------------------------------------------------------------------------
(* Waiting.                                                                 *)

\* The kernel and OpenSSL's pending write.
SessionOk ==
    /\ sock \in [arrived : Nat, taken : Nat, end : {"open", "fin", "reset"}, unread : 0 .. SendBuffer]
    /\ sock.taken <= sock.arrived
    /\ bio \in [filter : Flags, socket : Flags]
    /\ ssl = [step |-> ssl.step, plain |-> ssl.plain, writing |-> ssl.writing, active |-> ssl.active]
    /\ ssl.writing = [what |-> ssl.writing.what, bytes |-> ssl.writing.bytes, left |-> ssl.writing.left]
    /\ ssl.writing = NoWrite \/ ssl.writing.left \in Nat \ {0}

\* A loop that waits for input was reading, and one that waits for output has a
\* write to repeat as it was.
WaitsOk ==
    /\ pc = "accept" => wait.back = "accept"
    /\ pc = "wait" /\ wait.back # "accept" =>
          \/ wait.events = "in" /\ Reads
          \/ wait.events = "out" /\ Writes /\ ~BadRetry

WaitInv == IInv /\ SessionOk /\ WaitsOk

\* What a call of the filter leaves in its flags, for either direction: it
\* reports the direction it was called for when, and only when, that blocks.
LEMMA FilterReports ==
    ASSUME bio \in [filter : Flags, socket : Flags], NEW result \in {"ok", "again", "failed"}
    PROVE  /\ FilterRead(bio, result) \in [filter : Flags, socket : Flags]
           /\ FilterWrite(bio, result) \in [filter : Flags, socket : Flags]
           /\ SslError(FilterRead(bio, result), "read") = IF result = "again" THEN "read" ELSE "failed"
           /\ SslError(FilterWrite(bio, result), "write") = IF result = "again" THEN "write" ELSE "failed"
<1> DEFINE flags(flag) == IF result = "again" THEN {flag} ELSE {}
<1>1. ASSUME NEW flag \in {"read", "write"}
      PROVE  CopyNextRetry(SocketBio(ClearRetryFlags(bio), result, flag))
                 = [filter |-> flags(flag), socket |-> flags(flag)]
  <2>1. ClearRetryFlags(bio) = [filter |-> {}, socket |-> bio.socket]
    BY DEF ClearRetryFlags
  <2>2. SocketBio(ClearRetryFlags(bio), result, flag) = [filter |-> {}, socket |-> flags(flag)]
    BY <2>1 DEF SocketBio
  <2> HIDE DEF flags
  <2>. QED  BY <2>2 DEF CopyNextRetry
<1>2. flags("read") \in Flags /\ flags("write") \in Flags
  BY DEF Flags
<1>. QED  BY <1>1, <1>2 DEF SslError, FilterRead, FilterWrite

\* OpenSSL never takes more than has arrived, and a record always lacks something.
LEMMA TakesQueued ==
    ASSUME SessionOk
    PROVE  /\ Lacking \in 1 .. RecordUnits /\ Queued \in Nat /\ Takes \in 0 .. Queued
           /\ ReadResult \in {"ok", "again", "failed"}
<1>1. RecordUnits \in Nat \ {0} /\ sock.taken \in Nat /\ Queued \in Nat
  BY DemoAssumption DEF SessionOk, Queued
<1>2. sock.taken % RecordUnits \in 0 .. (RecordUnits - 1)
  BY <1>1
<1>3. Lacking \in 1 .. RecordUnits
  BY <1>1, <1>2 DEF Lacking
<1> HIDE DEF Lacking
<1>. QED  BY <1>1, <1>3 DEF Takes, ReadResult

\* It never gives the kernel more than it has room for, and always has some left.
LEMMA GivesRoom ==
    ASSUME SessionOk, Loop \in {"handshake", "write", "shutdown"}
    PROVE  /\ Asked = [what |-> Asked.what, bytes |-> Asked.bytes]
           /\ Writing = [what |-> Writing.what, bytes |-> Writing.bytes, left |-> Writing.left]
           /\ Writing.left \in Nat \ {0} /\ Room \in Nat /\ Gives \in 0 .. Room /\ Gives <= Writing.left
           /\ WriteResult \in {"ok", "again", "failed"}
           /\ ~BadRetry => Asked = [what |-> Writing.what, bytes |-> Writing.bytes]
<1>1. Asked = [what |-> Asked.what, bytes |-> Asked.bytes]
  BY DEF Asked
<1>2. /\ Writing = [what |-> Writing.what, bytes |-> Writing.bytes, left |-> Writing.left]
      /\ Writing.left \in Nat \ {0}
      /\ ~BadRetry => Asked = [what |-> Writing.what, bytes |-> Writing.bytes]
  <2>1. CASE ssl.writing = NoWrite
    <3>1. Writing = [what |-> Asked.what, bytes |-> Asked.bytes, left |-> RecordUnits]
      BY <2>1 DEF Writing
    <3>. QED  BY <1>1, <3>1, DemoAssumption
  <2>2. CASE ssl.writing # NoWrite
    <3>1. Writing = ssl.writing
      BY <2>2 DEF Writing
    <3>2. ssl.writing = [what |-> ssl.writing.what, bytes |-> ssl.writing.bytes, left |-> ssl.writing.left]
      BY DEF SessionOk
    <3>. QED  BY <2>2, <3>1, <3>2 DEF SessionOk, BadRetry
  <2>. QED  BY <2>1, <2>2
<1>3. Room \in Nat
  BY DemoAssumption DEF SessionOk, Room
<1>. QED  BY <1>1, <1>2, <1>3 DEF Gives, WriteResult

LEMMA WaitInitially == Init => WaitInv
<1> SUFFICES ASSUME Init PROVE WaitInv
  OBVIOUS
<1>1. SessionOk
  BY DemoAssumption DEF Init, SessionOk, Flags, NoWrite
<1>2. WaitsOk
  BY DEF Init, WaitsOk
<1>. QED  BY <1>1, <1>2, InitOwned DEF WaitInv

\* The clock and the peer leave a wait as it is.
LEMMA OthersWait ==
    ASSUME WaitInv, Tick \/ PeerSends \/ PeerReads \/ PeerEnds \/ Exited \/ UNCHANGED vars
    PROVE  SessionOk' /\ WaitsOk'
<1>1. UNCHANGED <<pc, wait, bio, ssl, wire, app>>
  BY DEF Tick, PeerSends, PeerReads, PeerEnds, Exited, vars, program
<1>2. SessionOk'
  <2>1. /\ sock' \in [arrived : Nat, taken : Nat, end : {"open", "fin", "reset"}, unread : 0 .. SendBuffer]
        /\ sock'.taken <= sock'.arrived
    <3>1. CASE UNCHANGED sock
      BY <3>1 DEF WaitInv, SessionOk
    <3>2. CASE PeerSends \/ PeerReads \/ PeerEnds
      BY <3>2, DemoAssumption DEF PeerSends, PeerReads, PeerEnds, WaitInv, SessionOk
    <3>. QED  BY <3>1, <3>2 DEF Tick, Exited, vars
  <2>. QED  BY <1>1, <2>1 DEF WaitInv, SessionOk
<1>3. WaitsOk'
  BY <1>1 DEF WaitInv, WaitsOk, Reads, Writes, Handshaking, Flight, Loop, BadRetry, Asked, Message
<1>. QED  BY <1>2, <1>3

\* A step that does not come to wait, and changes neither the connection nor
\* what OpenSSL has pending.
LEMMA PassesWait ==
    ASSUME WaitInv, pc' # "wait" \/ wait'.back = "accept" \/ UNCHANGED <<pc, wait, app>>,
           pc' = "accept" => wait'.back = "accept", UNCHANGED <<bio, sock, ssl>>
    PROVE  SessionOk' /\ WaitsOk'
  BY DEF WaitInv, SessionOk, WaitsOk, Reads, Writes, Handshaking, Flight, Loop, BadRetry, Asked, Message

LEMMA MainWaits ==
    ASSUME WaitInv, \/ Configure \/ CreateMethod \/ Listen \/ Accept \/ AcceptFails \/ AllocateTls
                    \/ AttachBios \/ WaitExpires \/ WaitEnds \/ WaitFails \/ ActivationGate \/ Cleanup
    PROVE  SessionOk' /\ WaitsOk'
<1>1. UNCHANGED <<bio, sock, ssl>>
  BY DEF Configure, CreateMethod, Listen, SetUp, Accept, AcceptFails, AllocateTls, AttachBios,
         WaitExpires, WaitEnds, WaitFails, ActivationGate, Cleanup, session
<1>2. (pc' # "wait" \/ wait'.back = "accept") /\ (pc' = "accept" => wait'.back = "accept")
  <2>1. CASE WaitEnds
    BY <2>1 DEF WaitEnds, WaitInv, IInv, TypeInv, SslLoops
  <2>2. CASE AcceptFails
    BY <2>2 DEF AcceptFails, GiveUp, WaitInv, WaitsOk
  <2>. QED  BY <2>1, <2>2 DEF Configure, CreateMethod, Listen, SetUp, GiveUp, Accept, AllocateTls,
                AttachBios, WaitExpires, WaitFails, ActivationGate, Cleanup
<1>. QED  BY <1>1, <1>2, PassesWait

\* A call of filter_read takes what has arrived, and waits for input if it blocks.
LEMMA ReadsWait ==
    ASSUME WaitInv, ReadBlocks \/ ReadsPart \/ ReadsFlight \/ ReadsData \/ ReadRefused
    PROVE  SessionOk' /\ WaitsOk'
<1>1. ReadThroughFilter /\ pc \in SslLoops /\ Reads
  BY DEF ReadBlocks, ReadsPart, ReadsFlight, ReadsData, ReadRefused, ReadThroughFilter, Reads,
         Handshaking, Loop, SslLoops
<1>2. /\ Takes \in 0 .. Queued /\ ReadResult \in {"ok", "again", "failed"} /\ SessionOk
      /\ Queued = sock.arrived - sock.taken
  BY TakesQueued DEF WaitInv, Queued
<1>3. bio' \in [filter : Flags, socket : Flags]
  BY <1>1, <1>2, FilterReports DEF ReadThroughFilter, SessionOk
<1>4. /\ sock' \in [arrived : Nat, taken : Nat, end : {"open", "fin", "reset"}, unread : 0 .. SendBuffer]
      /\ sock'.taken <= sock'.arrived
  <2> DEFINE n == Takes
  <2>1. sock' = [sock EXCEPT !.taken = sock.taken + n] /\ n \in 0 .. (sock.arrived - sock.taken)
    BY <1>1, <1>2 DEF ReadThroughFilter
  <2> HIDE DEF n
  <2>. QED  BY <1>2, <2>1 DEF SessionOk
<1>5. /\ ssl' = [step |-> ssl'.step, plain |-> ssl'.plain, writing |-> ssl'.writing, active |-> ssl'.active]
      /\ ssl'.writing = ssl.writing
  <2>1. ssl = [step |-> ssl.step, plain |-> ssl.plain, writing |-> ssl.writing, active |-> ssl.active]
    BY <1>2 DEF SessionOk
  <2>2. CASE ReadsFlight
    <3> DEFINE x == IF Flight.what = "keys" THEN ssl.active \cup Offloads("rx") ELSE ssl.active
    <3>1. ssl' = NextStep([ssl EXCEPT !.active = x])
      BY <2>2 DEF ReadsFlight
    <3> HIDE DEF x
    <3>. QED  BY <2>1, <3>1 DEF NextStep
  <2>3. CASE ReadsData
    <3> DEFINE x == Record.bytes
    <3>1. ssl' = [ssl EXCEPT !.plain = x]
      BY <2>3 DEF ReadsData
    <3> HIDE DEF x
    <3>. QED  BY <2>1, <3>1
  <2>4. CASE UNCHANGED ssl
    BY <2>1, <2>4
  <2>. QED  BY <2>2, <2>3, <2>4 DEF ReadBlocks, ReadsPart, ReadRefused
<1>6. SessionOk'
  BY <1>2, <1>3, <1>4, <1>5 DEF SessionOk
<1>7. WaitsOk'
  <2>1. CASE ReadBlocks
    <3>1. SslError(FilterRead(bio, ReadResult), "read") \in {"read", "failed"}
      BY <1>2, FilterReports DEF SessionOk
    <3>2. \/ pc' = "cleanup"
          \/ pc' = "wait" /\ wait' = [back |-> pc, events |-> "in"]
      BY <2>1, <3>1 DEF ReadBlocks, RetrySsl
    <3>3. (Reads' /\ UNCHANGED ssl) \/ pc' = "cleanup"
      BY <1>1, <2>1, <3>2 DEF ReadBlocks, ReadThroughFilter, Reads, Handshaking, Flight, Loop
    <3>. QED  BY <3>2, <3>3 DEF WaitsOk
  <2>2. CASE ReadsPart \/ ReadsFlight \/ ReadsData \/ ReadRefused
    <3>1. pc' \notin {"wait", "accept"}
      BY <1>1, <2>2 DEF ReadsPart, ReadsFlight, ReadsData, ReadRefused, StepsOn, SslLoops
    <3>. QED  BY <3>1 DEF WaitsOk
  <2>. QED  BY <2>1, <2>2
<1>. QED  BY <1>6, <1>7

\* SSL_read_ex returns what was decrypted.
LEMMA ReturnsWait ==
    ASSUME WaitInv, ReadReturns
    PROVE  SessionOk' /\ WaitsOk'
<1>1. pc' \notin {"wait", "accept"} /\ UNCHANGED <<bio, sock>>
  BY DEF ReadReturns
<1>2. PICK x : ssl' = [ssl EXCEPT !.plain = x]
  BY DEF ReadReturns
<1>3. /\ ssl' = [step |-> ssl'.step, plain |-> ssl'.plain, writing |-> ssl'.writing, active |-> ssl'.active]
      /\ ssl'.writing = ssl.writing
  BY <1>2 DEF WaitInv, SessionOk
<1>. QED  BY <1>1, <1>3 DEF WaitInv, SessionOk, WaitsOk

\* A call of filter_write: what blocks is kept to be repeated as it was.
LEMMA WritesWait ==
    ASSUME WaitInv, WriteBlocks \/ WritesPart \/ WritesFlight \/ WritesEcho \/ WritesCloseNotify
    PROVE  SessionOk' /\ WaitsOk'
<1>1. /\ pc \in {"handshake", "write", "shutdown"} /\ pc = Loop /\ Writes
      /\ WriteThroughFilter(WriteResult)
  BY DEF WriteBlocks, WritesPart, WritesFlight, WritesEcho, WritesCloseNotify, WritesRest,
         WriteThroughFilter, Writes, Handshaking, Loop
<1>2. /\ Asked = [what |-> Asked.what, bytes |-> Asked.bytes]
      /\ Writing = [what |-> Writing.what, bytes |-> Writing.bytes, left |-> Writing.left]
      /\ Writing.left \in Nat \ {0} /\ Room \in Nat /\ Gives \in 0 .. Room /\ Gives <= Writing.left
      /\ WriteResult \in {"ok", "again", "failed"}
      /\ ~BadRetry => Asked = [what |-> Writing.what, bytes |-> Writing.bytes]
  BY <1>1, GivesRoom DEF WaitInv
<1>3. bio' \in [filter : Flags, socket : Flags]
  BY <1>1, <1>2, FilterReports DEF WriteThroughFilter, WaitInv, SessionOk
<1>4. /\ sock' \in [arrived : Nat, taken : Nat, end : {"open", "fin", "reset"}, unread : 0 .. SendBuffer]
      /\ sock'.taken <= sock'.arrived
  <2>1. CASE UNCHANGED sock
    BY <2>1 DEF WaitInv, SessionOk
  <2>2. CASE ~UNCHANGED sock
    <3> DEFINE n == Gives
    <3>1. sock' = [sock EXCEPT !.unread = sock.unread + n] /\ n \in 0 .. (SendBuffer - sock.unread)
      BY <1>2, <2>2 DEF WriteBlocks, WritesPart, WritesFlight, WritesEcho, WritesCloseNotify, WritesRest, Room
    <3> HIDE DEF n
    <3>2. /\ sock.taken <= sock.arrived
          /\ sock \in [arrived : Nat, taken : Nat, end : {"open", "fin", "reset"}, unread : 0 .. SendBuffer]
      BY DEF WaitInv, SessionOk
    <3>3. SendBuffer \in Nat
      BY DemoAssumption
    <3>4. sock.unread + n \in 0 .. SendBuffer
      BY <3>1, <3>2, <3>3
    <3> DEFINE m == sock.unread + n
    <3>5. sock' = [sock EXCEPT !.unread = m]
      BY <3>1
    <3> HIDE DEF m
    <3>. QED  BY <3>2, <3>4, <3>5 DEF m
  <2>. QED  BY <2>1, <2>2
<1>5. ssl = [step |-> ssl.step, plain |-> ssl.plain, writing |-> ssl.writing, active |-> ssl.active]
  BY DEF WaitInv, SessionOk
<1> DEFINE Pending(w) ==
               /\ w = [what |-> w.what, bytes |-> w.bytes, left |-> w.left]
               /\ w = NoWrite \/ w.left \in Nat \ {0}
<1>6. CASE WriteBlocks
  <2> DEFINE w == Writing
  <2>1. Pending(w) /\ ssl' = [ssl EXCEPT !.writing = w]
    BY <1>2, <1>6 DEF WriteBlocks
  <2> HIDE DEF w
  <2>2. SessionOk'
    <3>1. /\ ssl' = [step |-> ssl'.step, plain |-> ssl'.plain, writing |-> ssl'.writing, active |-> ssl'.active]
          /\ ssl'.writing = w
      BY <1>5, <2>1
    <3>. QED  BY <1>3, <1>4, <2>1, <3>1 DEF SessionOk
  <2>3. WaitsOk'
    <3>1. SslError(FilterWrite(bio, WriteResult), "write") =
              IF WriteResult = "again" THEN "write" ELSE "failed"
      BY <1>2, FilterReports DEF WaitInv, SessionOk
    <3>2. CASE WriteResult # "again"
      <4>1. pc' = "cleanup"
        BY <1>6, <3>1, <3>2 DEF WriteBlocks, RetrySsl
      <4>. QED  BY <4>1 DEF WaitsOk
    <3>3. CASE WriteResult = "again"
      <4>1. pc' = "wait" /\ wait' = [back |-> pc, events |-> "out"]
        BY <1>6, <3>1, <3>3 DEF WriteBlocks, RetrySsl
      <4>2. UNCHANGED app /\ ssl'.step = ssl.step /\ ssl'.writing = w
        BY <1>5, <1>6, <2>1 DEF WriteBlocks
      <4>3. Loop' = Loop
        BY <1>1, <4>1 DEF Loop
      <4>4. Writes' /\ Asked' = Asked
        BY <1>1, <4>2, <4>3 DEF Writes, Handshaking, Flight, Asked, Message
      <4>5. Asked = [what |-> w.what, bytes |-> w.bytes]
        BY <1>2, <3>3 DEF WriteResult, w
      <4>6. ~BadRetry'
        BY <4>2, <4>4, <4>5 DEF BadRetry
      <4>. QED  BY <4>1, <4>4, <4>6 DEF WaitsOk
    <3>. QED  BY <3>2, <3>3
  <2>. QED  BY <2>2, <2>3
<1>7. CASE WritesPart \/ WritesFlight \/ WritesEcho \/ WritesCloseNotify
  <2>1. pc' \notin {"wait", "accept"}
    BY <1>1, <1>7 DEF WritesPart, WritesFlight, WritesEcho, WritesCloseNotify, StepsOn
  <2>2. /\ ssl' = [step |-> ssl'.step, plain |-> ssl'.plain, writing |-> ssl'.writing, active |-> ssl'.active]
        /\ Pending(ssl'.writing)
    <3>1. CASE WritesPart
      <4> DEFINE w == Writing
                 n == Gives
                 x == [w EXCEPT !.left = w.left - n]
      <4>1. ssl' = [ssl EXCEPT !.writing = x] /\ n \in Nat /\ n < w.left
        BY <1>2, <3>1 DEF WritesPart
      <4>2. w = [what |-> w.what, bytes |-> w.bytes, left |-> w.left] /\ w.left \in Nat
        BY <1>2
      <4> HIDE DEF w, n
      <4>3. x = [what |-> x.what, bytes |-> x.bytes, left |-> x.left] /\ x.left \in Nat \ {0}
        BY <4>1, <4>2
      <4> HIDE DEF x
      <4>. QED  BY <1>5, <4>1, <4>3
    <3>2. CASE WritesFlight
      <4> DEFINE a == IF Flight.what = "finished" THEN ssl.active \cup Offloads("tx") ELSE ssl.active
      <4>1. ssl' = NextStep([Written(ssl) EXCEPT !.active = a])
        BY <1>5, <3>2 DEF WritesFlight, Written
      <4> HIDE DEF a
      <4>. QED  BY <1>5, <4>1 DEF NextStep, Written, NoWrite
    <3>3. CASE WritesEcho \/ WritesCloseNotify
      <4>1. ssl' = Written(ssl)
        BY <3>3 DEF WritesEcho, WritesCloseNotify
      <4>. QED  BY <1>5, <4>1 DEF Written, NoWrite
    <3>. QED  BY <1>7, <3>1, <3>2, <3>3
  <2>. QED  BY <1>3, <1>4, <2>1, <2>2 DEF SessionOk, WaitsOk
<1>. QED  BY <1>6, <1>7

LEMMA StepWaits == WaitInv /\ [Next]_vars => WaitInv'
<1> SUFFICES ASSUME WaitInv, [Next]_vars PROVE WaitInv'
  OBVIOUS
<1>1. IInv'
  BY StepOwned DEF WaitInv
<1>2. SessionOk' /\ WaitsOk'
  BY OthersWait, MainWaits, ReadsWait, ReturnsWait, WritesWait DEF Next, Program
<1>. QED  BY <1>1, <1>2 DEF WaitInv

\* With nothing to report, the call that blocked would block again: nothing
\* has arrived since, or there is no room yet.
LEMMA WaitsForNeed == WaitInv => NoLostWakeup
<1> SUFFICES ASSUME WaitInv, pc = "wait", wait.back # "accept", ~PollReady
             PROVE  \/ Reads /\ ReadResult = "again"
                    \/ Writes /\ WriteResult = "again"
  BY DEF NoLostWakeup
<1>1. SessionOk
  BY DEF WaitInv
<1>2. CASE wait.events = "in"
  <2>1. Reads
    BY <1>2 DEF WaitInv, WaitsOk
  <2>2. ~(sock.arrived > sock.taken) /\ sock.end = "open"
    BY <1>2 DEF PollReady
  <2>3. Takes = 0
    BY <1>1, <2>2, TakesQueued DEF SessionOk, Queued
  <2>. QED  BY <2>1, <2>2, <2>3 DEF ReadResult
<1>3. CASE wait.events # "in"
  <2>1. Writes /\ ~BadRetry
    BY <1>3 DEF WaitInv, WaitsOk
  <2>2. ~(sock.unread < SendBuffer) /\ sock.end # "reset"
    BY <1>3 DEF PollReady
  <2>3. Loop \in {"handshake", "write", "shutdown"}
    BY <2>1 DEF Writes, Handshaking
  <2>4. Gives = 0
    BY <1>1, <2>2, <2>3, GivesRoom, DemoAssumption DEF SessionOk, Room
  <2>. QED  BY <2>1, <2>2, <2>4 DEF WriteResult
<1>. QED  BY <1>2, <1>3

\* While poll has nothing to report, what retry_ssl waits for is what the
\* repeated call lacks: the filter passes on the flags of the socket BIO, and
\* nothing decrypted lies unread in OpenSSL.
THEOREM WaitsForWhatItNeeds == Spec => []NoLostWakeup
<1>. QED  BY WaitInitially, StepWaits, WaitsForNeed, PTL DEF Spec

-----------------------------------------------------------------------------
(* Numbers: induction stated with sets, and division by a record's size.    *)

LEMMA LeastNatural ==
    ASSUME NEW T, T \subseteq Nat, T # {}
    PROVE  \E n \in T : \A m \in T : n <= m
  <1> DEFINE less == {ss \in Nat \X Nat : ss[1] < ss[2]}
  <1>1. IsWellFoundedOn(less, Nat)
    BY NatLessThanWellFounded DEF OpToRel
  <1> HIDE DEF less
  <1>2. PICK n \in T : \A m \in T : ~(<<m, n>> \in less)
    BY <1>1, WFMin
  <1>3. ASSUME NEW m \in T PROVE n <= m
    <2>1. ~(m < n)
      BY <1>2 DEF less
    <2>2. QED
      BY <2>1
  <1>4. QED
    BY <1>2, <1>3

LEMMA NatSetInduction ==
    ASSUME NEW T, 0 \in T, \A n \in Nat : n \in T => n + 1 \in T
    PROVE  Nat \subseteq T
  <1> SUFFICES ASSUME ~(Nat \subseteq T) PROVE FALSE
    OBVIOUS
  <1>1. PICK n \in Nat \ T : \A m \in Nat \ T : n <= m
    BY LeastNatural
  <1>2. n - 1 \in Nat /\ n - 1 \in T
    BY <1>1
  <1>3. QED
    BY <1>1, <1>2

LEMMA AtLeastOnce ==
    ASSUME NEW n \in Nat \ {0}, NEW d \in Int, d >= 1
    PROVE  n * d >= n
  <1>1. n * d = n * (d - 1) + n
    OBVIOUS
  <1>2. n * (d - 1) >= 0
    OBVIOUS
  <1>3. n * d \in Int /\ n * (d - 1) \in Int
    OBVIOUS
  <1>4. QED
    BY <1>1, <1>2, <1>3

LEMMA DivisionIsUnique ==
    ASSUME NEW n \in Nat \ {0}, NEW a \in Nat, NEW r \in 0..(n - 1)
    PROVE  (n * a + r) \div n = a /\ (n * a + r) % n = r
  <1>1. PICK x \in Nat : x = n * a + r
    OBVIOUS
  <1>2. PICK b \in Int : b = x \div n
    BY <1>1
  <1>3. PICK t \in 0..(n - 1) : t = x % n
    BY <1>1
  <1>4. x = n * b + t
    BY <1>1, <1>2, <1>3
  <1>5. n * (a - b) = t - r
    BY <1>1, <1>4
  <1>6. ~(a - b >= 1)
    BY <1>5, AtLeastOnce
  <1>7. ~(b - a >= 1)
    <2>1. n * (b - a) = r - t
      BY <1>5
    <2>2. QED
      BY <2>1, AtLeastOnce
  <1>8. a = b
    BY <1>6, <1>7
  <1>9. QED
    BY <1>1, <1>2, <1>3, <1>4, <1>8

-----------------------------------------------------------------------------
(* The bytes of a sequence of records.                                      *)

Flattens(f, parts, n) == f = [i \in 1..n |-> IF i = 1 THEN parts[i] ELSE f[i - 1] \o parts[i]]

FlattensTo(n, parts) == \E f \in [1..n -> Seq(Nat)] : Flattens(f, parts, n)

LEMMA FlattensExists ==
    ASSUME NEW n \in Nat, NEW parts \in [1..n -> Seq(Nat)]
    PROVE  FlattensTo(n, parts)
<1> DEFINE Solved == {m \in Nat : m <= n => FlattensTo(m, parts)}
<1>1. 0 \in Solved
  <2> DEFINE f == [i \in 1..0 |-> <<>>]
  <2>1. f \in [1..0 -> Seq(Nat)] /\ f = [i \in 1..0 |-> IF i = 1 THEN parts[i] ELSE f[i - 1] \o parts[i]]
    OBVIOUS
  <2>. QED  BY <2>1 DEF FlattensTo, Flattens
<1>2. ASSUME NEW m \in Nat, m \in Solved PROVE m + 1 \in Solved
  <2>1. SUFFICES ASSUME m + 1 <= n PROVE FlattensTo(m + 1, parts)
    OBVIOUS
  <2>2. PICK f \in [1..m -> Seq(Nat)] : Flattens(f, parts, m)
    BY <1>2, <2>1 DEF FlattensTo
  <2>3. PICK last \in Seq(Nat) : last = IF m = 0 THEN parts[m + 1] ELSE f[m] \o parts[m + 1]
    <3>1. parts[m + 1] \in Seq(Nat)
      BY <2>1
    <3>2. CASE m = 0
      BY <3>1, <3>2
    <3>3. CASE m # 0
      <4>1. f[m] \in Seq(Nat)
        BY <3>3
      <4>2. f[m] \o parts[m + 1] \in Seq(Nat)
        BY <3>1, <4>1, ConcatProperties
      <4>. QED  BY <3>3, <4>2
    <3>. QED  BY <3>2, <3>3
  <2> DEFINE g == [i \in 1..(m + 1) |-> IF i = m + 1 THEN last ELSE f[i]]
  <2>4. g \in [1..(m + 1) -> Seq(Nat)]
    OBVIOUS
  <2>5. \A i \in 1..m : g[i] = f[i] /\ i \in 1..(m + 1)
    OBVIOUS
  <2>6. g[m + 1] = last
    OBVIOUS
  <2> HIDE DEF g
  <2>7. ASSUME NEW i \in 1..(m + 1)
        PROVE  g[i] = IF i = 1 THEN parts[i] ELSE g[i - 1] \o parts[i]
    <3>1. CASE i = m + 1
      <4>1. i # 1 => m \in 1..m /\ i - 1 = m
        BY <3>1
      <4>. QED  BY <2>3, <2>5, <2>6, <3>1, <4>1
    <3>2. CASE i # m + 1
      <4>1. i \in 1..m /\ (i # 1 => i - 1 \in 1..m)
        BY <3>2
      <4>2. f[i] = IF i = 1 THEN parts[i] ELSE f[i - 1] \o parts[i]
        BY <2>2, <4>1 DEF Flattens
      <4>. QED  BY <2>5, <4>1, <4>2
    <3>. QED  BY <3>1, <3>2
  <2>8. Flattens(g, parts, m + 1)
    BY <2>4, <2>7 DEF Flattens
  <2>. QED  BY <2>4, <2>8 DEF FlattensTo
<1> HIDE DEF Solved
<1>3. n \in Solved
  BY <1>1, <1>2, NatSetInduction
<1>. QED  BY <1>3 DEF Solved

\* The bytes of the first records, of all lengths: v[m] are those of m records.
ByteSteps(v, records) ==
    /\ v \in [0..Len(records) -> Seq(Nat)]
    /\ v[0] = <<>>
    /\ \A m \in 0..(Len(records) - 1) : v[m + 1] = v[m] \o records[m + 1].bytes

Carry(records) == \A i \in 1..Len(records) : records[i].bytes \in Seq(Nat)

LEMMA BytesAreSteps ==
    ASSUME NEW S, NEW records \in Seq(S), Carry(records)
    PROVE  \E v : ByteSteps(v, records) /\ Bytes(records) = v[Len(records)]
<1>1. PICK n \in Nat : n = Len(records)
  BY LenProperties
<1>2. PICK parts \in [1..n -> Seq(Nat)] : parts = [i \in 1..n |-> records[i].bytes]
  BY <1>1 DEF Carry
<1>3. parts \in Seq(Seq(Nat)) /\ Len(parts) = n
  BY <1>2
<1>4. Bytes(records) = FlattenSeq(parts)
  BY <1>1, <1>2 DEF Bytes
<1>5. CASE n = 0
  <2>1. parts = <<>>
    BY <1>3, <1>5, EmptySeq
  <2>2. Bytes(records) = <<>>
    BY <1>3, <1>4, <1>5, <2>1 DEF FlattenSeq
  <2> DEFINE v == [m \in 0..0 |-> <<>>]
  <2>3. ByteSteps(v, records) /\ v[n] = <<>>
    BY <1>1, <1>5 DEF ByteSteps
  <2>. QED  BY <1>1, <2>2, <2>3
<1>6. CASE n # 0
  <2>1. PICK f : f = CHOOSE h : Flattens(h, parts, n)
    OBVIOUS
  <2>2. Flattens(f, parts, n)
    <3>1. \E h : Flattens(h, parts, n)
      BY FlattensExists DEF FlattensTo
    <3>. QED  BY <2>1, <3>1
  <2>3. Bytes(records) = f[n]
    BY <1>3, <1>4, <1>6, <2>1 DEF FlattenSeq, Flattens
  <2>4. \A i \in 1..n : f[i] = IF i = 1 THEN parts[i] ELSE f[i - 1] \o parts[i]
    BY <2>2 DEF Flattens
  <2> DEFINE Typed == {m \in Nat : m + 1 <= n => f[m + 1] \in Seq(Nat)}
  <2>5. 0 \in Typed
    BY <2>4
  <2>6. ASSUME NEW m \in Nat, m \in Typed PROVE m + 1 \in Typed
    <3>1. ASSUME (m + 1) + 1 <= n PROVE f[(m + 1) + 1] \in Seq(Nat)
      <4>1. f[m + 1] \in Seq(Nat) /\ parts[(m + 1) + 1] \in Seq(Nat)
        BY <2>6, <3>1
      <4>2. (m + 1) + 1 \in 1..n /\ (m + 1) + 1 # 1 /\ ((m + 1) + 1) - 1 = m + 1
        BY <3>1
      <4>3. f[(m + 1) + 1] = f[m + 1] \o parts[(m + 1) + 1]
        BY <2>4, <4>2
      <4>. QED  BY <4>1, <4>3, ConcatProperties
    <3>. QED  BY <3>1
  <2> HIDE DEF Typed
  <2>7. \A i \in 1..n : f[i] \in Seq(Nat)
    <3>1. Nat \subseteq Typed
      BY <2>5, <2>6, NatSetInduction
    <3>2. ASSUME NEW i \in 1..n PROVE f[i] \in Seq(Nat)
      <4>1. i - 1 \in Nat /\ (i - 1) + 1 = i /\ i <= n
        OBVIOUS
      <4>2. i - 1 \in Typed
        BY <3>1, <4>1
      <4>. QED  BY <4>1, <4>2 DEF Typed
    <3>. QED  BY <3>2
  <2> DEFINE v == [m \in 0..n |-> IF m = 0 THEN <<>> ELSE f[m]]
  <2>8. v \in [0..n -> Seq(Nat)] /\ v[0] = <<>> /\ v[n] = f[n]
    BY <1>6, <2>7
  <2>9. ASSUME NEW m \in 0..(n - 1) PROVE v[m + 1] = v[m] \o records[m + 1].bytes
    <3>1. /\ m + 1 \in 1..n /\ m + 1 \in 0..n /\ m \in 0..n /\ m + 1 # 0
          /\ (m + 1) - 1 = m /\ (m + 1 = 1 <=> m = 0)
      OBVIOUS
    <3>2. parts[m + 1] = records[m + 1].bytes /\ parts[m + 1] \in Seq(Nat)
      BY <1>2, <3>1
    <3>3. v[m + 1] = f[m + 1]
      BY <3>1
    <3>4. CASE m = 0
      <4>1. v[m] = <<>> /\ f[m + 1] = parts[m + 1]
        BY <2>4, <3>1, <3>4
      <4>2. <<>> \o parts[m + 1] = parts[m + 1]
        BY <3>2, ConcatEmptySeq
      <4>. QED  BY <3>2, <3>3, <4>1, <4>2
    <3>5. CASE m # 0
      <4>1. v[m] = f[m] /\ f[m + 1] = f[m] \o parts[m + 1]
        BY <2>4, <3>1, <3>5
      <4>. QED  BY <3>2, <3>3, <4>1
    <3>. QED  BY <3>4, <3>5
  <2> HIDE DEF v
  <2>10. ByteSteps(v, records)
    BY <1>1, <2>8, <2>9 DEF ByteSteps
  <2>. QED  BY <1>1, <2>3, <2>8, <2>10
<1>. QED  BY <1>5, <1>6

\* Records of which one at most carries bytes.
LEMMA BytesOfOne ==
    ASSUME NEW S, NEW records \in Seq(S), Carry(records), NEW k \in 1..Len(records),
           \A i \in 1..Len(records) : i # k => records[i].bytes = <<>>
    PROVE  Bytes(records) = records[k].bytes
<1>1. PICK n \in Nat : n = Len(records)
  BY LenProperties
<1>2. PICK v : ByteSteps(v, records) /\ Bytes(records) = v[Len(records)]
  BY BytesAreSteps
<1>3. PICK bytes \in Seq(Nat) : bytes = records[k].bytes
  BY DEF Carry
<1> DEFINE Known == {m \in Nat : m <= n => v[m] = IF m < k THEN <<>> ELSE bytes}
<1>4. 0 \in Known
  BY <1>1, <1>2 DEF ByteSteps
<1>5. ASSUME NEW m \in Nat, m \in Known PROVE m + 1 \in Known
  <2>1. ASSUME m + 1 <= n PROVE v[m + 1] = IF m + 1 < k THEN <<>> ELSE bytes
    <3>1. m \in 0..(n - 1) /\ m + 1 \in 1..n /\ m <= n
      BY <2>1
    <3>2. v[m + 1] = v[m] \o records[m + 1].bytes
      BY <1>1, <1>2, <3>1 DEF ByteSteps
    <3>3. v[m] = IF m < k THEN <<>> ELSE bytes
      BY <1>5, <3>1
    <3>4. records[m + 1].bytes = IF m + 1 = k THEN bytes ELSE <<>>
      BY <1>1, <1>3, <3>1
    <3>5. <<>> \o <<>> = <<>> /\ <<>> \o bytes = bytes /\ bytes \o <<>> = bytes
      <4>1. <<>> \in Seq(Nat)
        OBVIOUS
      <4>. QED  BY <4>1, ConcatEmptySeq
    <3>6. CASE m + 1 < k
      BY <3>2, <3>3, <3>4, <3>5, <3>6
    <3>7. CASE m + 1 = k
      BY <3>2, <3>3, <3>4, <3>5, <3>7
    <3>8. CASE m + 1 > k
      <4>1. ~(m < k) /\ m + 1 # k /\ ~(m + 1 < k)
        BY <3>8
      <4>. QED  BY <3>2, <3>3, <3>4, <3>5, <4>1
    <3>. QED  BY <3>6, <3>7, <3>8
  <2>. QED  BY <2>1
<1> HIDE DEF Known
<1>6. n \in Known
  BY <1>4, <1>5, NatSetInduction
<1>7. v[n] = bytes
  BY <1>1, <1>6 DEF Known
<1>. QED  BY <1>1, <1>2, <1>3, <1>7

\* Records none of which carries bytes.
LEMMA BytesOfNone ==
    ASSUME NEW S, NEW records \in Seq(S), \A i \in 1..Len(records) : records[i].bytes = <<>>
    PROVE  Bytes(records) = <<>>
<1>1. PICK n \in Nat : n = Len(records)
  BY LenProperties
<1>2. Carry(records)
  <2>1. <<>> \in Seq(Nat)
    OBVIOUS
  <2>. QED  BY <2>1 DEF Carry
<1>3. CASE n = 0
  <2>1. PICK v : ByteSteps(v, records) /\ Bytes(records) = v[Len(records)]
    BY <1>2, BytesAreSteps
  <2>. QED  BY <1>1, <1>3, <2>1 DEF ByteSteps
<1>4. CASE n # 0
  <2>1. 1 \in 1..Len(records)
    BY <1>1, <1>4
  <2>. QED  BY <1>2, <2>1, BytesOfOne
<1>. QED  BY <1>3, <1>4

\* The bytes of the first m records.
Sent(records, m) == (CHOOSE v : ByteSteps(v, records) /\ Bytes(records) = v[Len(records)])[m]

\* A prefix of all bytes.
Begins(s, t) == Len(s) <= Len(t) /\ \A i \in 1..Len(s) : s[i] = t[i]

LEMMA SentResult ==
    ASSUME NEW S, NEW records \in Seq(S), Carry(records)
    PROVE  /\ Sent(records, 0) = <<>>
           /\ \A m \in 0..(Len(records) - 1) :
                 Sent(records, m + 1) = Sent(records, m) \o records[m + 1].bytes
           /\ \A m \in 0..Len(records) :
                 Sent(records, m) \in Seq(Nat) /\ Begins(Sent(records, m), Bytes(records))
           /\ Bytes(records) \in Seq(Nat)
<1>1. PICK n \in Nat : n = Len(records)
  BY LenProperties
<1>2. PICK v : v = CHOOSE w : ByteSteps(w, records) /\ Bytes(records) = w[Len(records)]
  OBVIOUS
<1>3. ByteSteps(v, records) /\ Bytes(records) = v[n]
  BY <1>1, <1>2, BytesAreSteps
<1>4. \A m \in 0..n : Sent(records, m) = v[m] /\ v[m] \in Seq(Nat)
  BY <1>1, <1>2, <1>3 DEF Sent, ByteSteps
<1>5. \A m \in 0..(n - 1) : v[m + 1] = v[m] \o records[m + 1].bytes
  BY <1>1, <1>3 DEF ByteSteps
<1>6. Bytes(records) \in Seq(Nat)
  BY <1>3, <1>4
<1> DEFINE Within == {d \in Nat : d <= n => Begins(v[n - d], v[n])}
<1>7. 0 \in Within
  <2>1. Len(v[n]) \in Nat
    BY <1>4, LenProperties
  <2>. QED  BY <2>1 DEF Begins
<1>8. ASSUME NEW d \in Nat, d \in Within PROVE d + 1 \in Within
  <2>1. ASSUME d + 1 <= n PROVE Begins(v[n - (d + 1)], v[n])
    <3>1. PICK m \in 0..(n - 1) : m = n - (d + 1) /\ m + 1 = n - d
      BY <2>1
    <3>2. Begins(v[m + 1], v[n])
      BY <1>8, <2>1, <3>1
    <3>3. PICK s \in Seq(Nat), t \in Seq(Nat), b \in Seq(Nat) :
             s = v[m] /\ t = v[m + 1] /\ b = records[m + 1].bytes
      <4>1. m \in 0..n /\ m + 1 \in 0..n /\ m + 1 \in 1..n
        OBVIOUS
      <4>2. records[m + 1].bytes \in Seq(Nat)
        BY <1>1, <4>1 DEF Carry
      <4>. QED  BY <1>4, <4>1, <4>2
    <3>4. t = s \o b
      BY <1>5, <3>3
    <3>5. /\ Len(s) \in Nat /\ Len(b) \in Nat /\ Len(t) = Len(s) + Len(b)
          /\ \A i \in 1..Len(s) : t[i] = s[i]
      BY <3>4, ConcatProperties, LenProperties
    <3>6. PICK w \in Seq(Nat) : w = v[n]
      BY <1>4
    <3>7. Begins(s, v[n])
      <4>1. Begins(t, w) /\ Len(w) \in Nat
        BY <3>2, <3>3, <3>6, LenProperties
      <4>2. Len(s) <= Len(t) /\ \A i \in 1..Len(s) : i \in 1..Len(t)
        BY <3>5
      <4>3. Begins(s, w)
        BY <3>5, <4>1, <4>2 DEF Begins
      <4>. QED  BY <3>6, <4>3
    <3>. QED  BY <3>1, <3>3, <3>7
  <2>. QED  BY <2>1
<1> HIDE DEF Within
<1>9. ASSUME NEW m \in 0..n PROVE Begins(v[m], v[n])
  <2>1. PICK d \in Nat : d = n - m /\ d <= n /\ n - d = m
    OBVIOUS
  <2>2. d \in Within
    BY <1>7, <1>8, NatSetInduction
  <2>. QED  BY <2>1, <2>2 DEF Within
<1>10. v[0] = <<>>
  BY <1>3 DEF ByteSteps
<1>11. \A m \in 0..(n - 1) : m \in 0..n /\ m + 1 \in 0..n
  OBVIOUS
<1>12. Sent(records, 0) = <<>>
  BY <1>4, <1>10
<1>13. \A m \in 0..(n - 1) : Sent(records, m + 1) = Sent(records, m) \o records[m + 1].bytes
  BY <1>4, <1>5, <1>11
<1>14. \A m \in 0..n : Sent(records, m) \in Seq(Nat) /\ Begins(Sent(records, m), Bytes(records))
  BY <1>3, <1>4, <1>9
<1>. QED  BY <1>1, <1>6, <1>12, <1>13, <1>14

-----------------------------------------------------------------------------
(* What was read and what is echoed.                                        *)

Gone == pc \in {"cleanup", "exited"}
SetsUp == Loop \in {"configure", "method", "listen", "accept", "allocate", "attach"}
Attached == Loop \in Late

Reply == [what : {"hello", "finished", "data", "close_notify"}, bytes : Seq(Nat)]

\* The state, as far as the message passes through it.
TalkTypes ==
    /\ world \in [script : Scripts, userspace : BOOLEAN, offload : SUBSET {"rx", "tx"}]
    /\ clock \in 0 .. Deadline
    /\ status \in {0, 1}
    /\ sock.arrived <= RecordUnits * Len(world.script)
    /\ app \in [plaintext : [1 .. Capacity -> Nat], used : 0 .. Capacity, sent : Nat,
                ktls_read_calls : Nat, before_calls : Nat]
    /\ ssl.step \in 1 .. 6 /\ ssl.plain \in Seq(Nat) /\ ssl.active \subseteq world.offload
    /\ wire \in Seq(Reply)
    /\ seen = [by |-> seen.by, failed |-> seen.failed]

RecordsTaken == sock.taken \div RecordUnits

\* The records of the peer that OpenSSL has taken before a step of the handshake.
FlightsTaken == <<0, 1, 1, 2, 3, 3>>

Layer == IF world.userspace THEN "user" ELSE "kernel"
Trusted == IF world.userspace THEN ssl.active = {} ELSE "rx" \in ssl.active

\* The buffer holds what the peer sent first.
Copied ==
    /\ app.used <= Len(Bytes(world.script))
    /\ \A i \in 1 .. app.used : app.plaintext[i] = Bytes(world.script)[i]

\* The buffer and then what is decrypted are the bytes of the records taken.
Received ==
    LET sent == Sent(world.script, RecordsTaken)
    IN /\ Len(sent) = app.used + Len(ssl.plain)
       /\ \A i \in 1 .. app.used : app.plaintext[i] = sent[i]
       /\ \A i \in 1 .. Len(ssl.plain) : ssl.plain[i] = sent[app.used + i]

Silent == \A i \in 1 .. Len(wire) : wire[i].bytes = <<>>
Echoed == \E k \in 1 .. Len(wire) :
             /\ wire[k].bytes = Message
             /\ \A i \in 1 .. Len(wire) : i # k => wire[i].bytes = <<>>

\* Nothing is read before the gate, and the peer's records come in their places.
HandshakeOk ==
    /\ SetsUp => ssl.step = 1 /\ chain = "apart"
    /\ Loop = "handshake" => ssl.step \in 1 .. 5
    /\ Loop \in {"gate", "read", "write", "shutdown"} => ssl.step = 6
    /\ Attached => chain = "installed"
    /\ SetsUp \/ Loop \in {"handshake", "gate"} =>
          /\ RecordsTaken = FlightsTaken[ssl.step]
          /\ app.used = 0 /\ ssl.plain = <<>> /\ seen.by = {}
          /\ ssl.step >= 4 => ("rx" \in ssl.active <=> "rx" \in world.offload)

\* What is in the buffer is no message yet, and came through the right layer.
ReadingOk ==
    Loop = "read" =>
        /\ Trusted /\ Received /\ RecordsTaken >= 3
        /\ ~Complete(app) /\ app.used < Capacity
        /\ seen.by \subseteq {Layer} /\ app.before_calls <= app.ktls_read_calls
        /\ app.used > 0 \/ ssl.plain # <<>> =>
              seen.by = {Layer} /\ (world.userspace \/ app.before_calls < app.ktls_read_calls)

\* A message is echoed once it is complete, and once.
WritingOk ==
    /\ ~Gone => status = 1
    /\ ~Gone /\ Loop # "shutdown" => Silent /\ app.sent = 0
    /\ Loop = "shutdown" => Echoed
    /\ Loop \in {"write", "shutdown"} => Trusted /\ Complete(app) /\ seen.by = {Layer}

\* A write to be repeated is asked for as it was.
RetryOk == ~Gone /\ ssl.writing # NoWrite => Writes /\ ~BadRetry

Reasons == seen.failed \/ clock = Deadline \/ sock.end # "open" \/ TookRefused \/ WrongLayer \/ TooLong

EndsOk ==
    Gone => /\ Silent \/ Echoed
            /\ status = 0 =>
                  /\ Echoed /\ Complete(app) /\ Trusted /\ seen.by = {Layer}
                  /\ Last(wire).what = "close_notify"
            /\ status # 0 => Reasons

TalkInv ==
    /\ TalkTypes /\ Copied /\ HandshakeOk /\ ReadingOk /\ WritingOk /\ RetryOk /\ EndsOk


-----------------------------------------------------------------------------
\* A script is a sequence of records in their places, or out of place.
LEMMA ScriptResult ==
    ASSUME NEW script \in Scripts
    PROVE  /\ script \in Seq(PeerRecord) /\ Carry(script) /\ Len(script) \in Nat
           /\ \A i \in 1..Len(script) :
                 /\ script[i] \in PeerRecord
                 /\ script[i].kind \in {InPlace(i), "close_notify", "bad"}
                 /\ i <= 3 => script[i].bytes = <<>>
<1>1. script \in Seq(PeerRecord) /\ Len(script) \in Nat
  BY DemoAssumption, LenProperties
<1>2. \A i \in 1..Len(script) : script[i] \in PeerRecord
  BY <1>1, ElementOfSeq
<1>3. Carry(script)
  BY <1>2 DEF Carry, PeerRecord
<1>. QED  BY <1>1, <1>2, <1>3, DemoAssumption

\* The flights of a peer carry none of the message.
LEMMA NothingSent ==
    ASSUME NEW script \in Scripts, 3 <= Len(script)
    PROVE  Sent(script, 3) = <<>>
<1>1. /\ Len(script) \in Nat
      /\ script[1].bytes = <<>> /\ script[2].bytes = <<>> /\ script[3].bytes = <<>>
  <2>1. Len(script) \in Nat
    BY ScriptResult
  <2>2. 1 \in 1..Len(script) /\ 2 \in 1..Len(script) /\ 3 \in 1..Len(script)
    BY <2>1
  <2>. QED  BY <2>1, <2>2, ScriptResult
<1>2. <<>> \o <<>> = <<>>
  OBVIOUS
<1>3. /\ Sent(script, 0) = <<>>
      /\ \A m \in 0..(Len(script) - 1) : Sent(script, m + 1) = Sent(script, m) \o script[m + 1].bytes
  BY ScriptResult, SentResult
<1>4. 0 \in 0..(Len(script) - 1) /\ 1 \in 0..(Len(script) - 1) /\ 2 \in 0..(Len(script) - 1)
  BY <1>1
<1>5. Sent(script, 0 + 1) = <<>>
  BY <1>1, <1>2, <1>3, <1>4
<1>6. Sent(script, 1 + 1) = <<>>
  BY <1>1, <1>2, <1>3, <1>4, <1>5
<1>7. Sent(script, 2 + 1) = <<>>
  BY <1>1, <1>2, <1>3, <1>4, <1>6
<1>. QED  BY <1>7

\* What a call of filter_read takes: the rest of a record, or less.
LEMMA RecordTaken ==
    ASSUME SessionOk, TalkTypes
    PROVE  /\ RecordsTaken \in 0..Len(world.script)
           /\ Takes < Lacking => (sock.taken + Takes) \div RecordUnits = RecordsTaken
           /\ Takes = Lacking =>
                 /\ (sock.taken + Takes) \div RecordUnits = RecordsTaken + 1
                 /\ RecordsTaken \in 0..(Len(world.script) - 1)
                 /\ Record = world.script[RecordsTaken + 1] /\ Record \in PeerRecord
<1>1. PICK n \in Nat \ {0} : n = RecordUnits
  BY DemoAssumption
<1>2. PICK t \in Nat, a \in Nat : t = sock.taken /\ a = sock.arrived /\ t <= a
  BY DEF SessionOk
<1>3. PICK q \in Int, r \in 0..(n - 1) : q = t \div n /\ r = t % n /\ t = n * q + r
  <2>1. PICK x \in Nat : x = t
    BY <1>2
  <2>2. PICK q \in Int : q = x \div n
    BY <2>1
  <2>3. PICK r \in 0..(n - 1) : r = x % n
    BY <2>1
  <2>4. x = n * q + r
    BY <2>2, <2>3
  <2>. QED  BY <2>1, <2>2, <2>3, <2>4
<1>4. PICK script \in Scripts : script = world.script
  BY DEF TalkTypes
<1>5. PICK len \in Nat : len = Len(script)
  BY ScriptResult
<1>6. a <= n * len
  BY <1>1, <1>2, <1>4, <1>5 DEF TalkTypes
<1>7. q \in Nat
  <2>1. ASSUME q < 0 PROVE FALSE
    <3>1. n * (-q) = -(n * q) /\ -q \in Int /\ -q >= 1
      BY <2>1
    <3>2. n * (-q) >= n
      BY <3>1, AtLeastOnce
    <3>. QED  BY <1>3, <3>1, <3>2
  <2>. QED  BY <2>1
<1>8. ASSUME NEW m \in Nat, n * m <= n * len PROVE m <= len
  <2>1. ASSUME m > len PROVE FALSE
    <3>1. n * (m - len) = n * m - n * len /\ m - len \in Int /\ m - len >= 1
      BY <2>1
    <3>2. n * (m - len) >= n
      BY <3>1, AtLeastOnce
    <3>3. n * m \in Int /\ n * len \in Int
      OBVIOUS
    <3>. QED  BY <1>8, <3>1, <3>2, <3>3
  <2>. QED  BY <2>1
<1>9. n * q \in Nat /\ n * len \in Nat
  BY <1>7
<1>10. q <= len
  <2>1. PICK x \in Nat, y \in Nat : x = n * q /\ y = n * len
    BY <1>9
  <2>2. t = x + r /\ t <= a /\ a <= y
    BY <1>2, <1>3, <1>6, <2>1
  <2>3. n * q <= n * len
    BY <2>1, <2>2
  <2>. QED  BY <1>7, <1>8, <2>3
<1>11. PICK k \in Nat : k = Takes /\ k <= a - t
  BY <1>2, TakesQueued DEF Queued
<1>12. Lacking = n - r
  BY <1>1, <1>2, <1>3 DEF Lacking
<1>13. RecordsTaken = q
  BY <1>1, <1>2, <1>3 DEF RecordsTaken
<1>14. ASSUME k < n - r PROVE (t + k) \div n = q
  <2>1. r + k \in 0..(n - 1) /\ t + k = n * q + (r + k)
    BY <1>3, <1>9, <1>14
  <2>. QED  BY <1>7, <2>1, DivisionIsUnique
<1>15. ASSUME k = n - r PROVE (t + k) \div n = q + 1 /\ q + 1 <= len
  <2>1. n * (q + 1) = n * q + n
    OBVIOUS
  <2>2. t + k = n * (q + 1) + 0 /\ 0 \in 0..(n - 1)
    BY <1>3, <1>9, <1>15, <2>1
  <2>3. (t + k) \div n = q + 1
    <3>1. q + 1 \in Nat
      BY <1>7
    <3>. QED  BY <2>2, <3>1, DivisionIsUnique
  <2>4. n * (q + 1) <= n * len
    BY <1>6, <1>9, <1>11, <2>1, <2>2
  <2>. QED  BY <1>7, <1>8, <2>3, <2>4
<1>16. Record = script[q + 1]
  BY <1>4, <1>13 DEF Record, RecordsTaken
<1>17. q + 1 <= len => script[q + 1] \in PeerRecord
  <2>1. q + 1 <= len => q + 1 \in 1..Len(script)
    BY <1>5, <1>7
  <2>. QED  BY <2>1, ScriptResult
<1>18. q \in 0..len /\ (q + 1 <= len => q \in 0..(len - 1))
  BY <1>7, <1>10
<1>. QED  BY <1>1, <1>2, <1>4, <1>5, <1>11, <1>12, <1>13, <1>14, <1>15, <1>16, <1>17, <1>18

-----------------------------------------------------------------------------
\* Before main starts nothing was read and nothing sent.
LEMMA TalkInitially == Init => TalkInv
<1> SUFFICES ASSUME Init PROVE TalkInv
  OBVIOUS
<1>1. /\ world \in [script : Scripts, userspace : BOOLEAN, offload : SUBSET {"rx", "tx"}]
      /\ pc = "configure" /\ Loop = "configure" /\ clock = 0 /\ status = 1 /\ chain = "apart"
      /\ ssl.step = 1 /\ ssl.plain = <<>> /\ ssl.active = {} /\ ssl.writing = NoWrite
      /\ sock.arrived = 0 /\ sock.taken = 0 /\ wire = <<>>
      /\ app.used = 0 /\ app.sent = 0 /\ seen.by = {}
      /\ seen = [by |-> {}, failed |-> FALSE]
  BY DEF Init, Loop
<1>2. PICK len \in Nat : len = Len(world.script)
  BY <1>1, ScriptResult
<1>3. PICK n \in Nat \ {0} : n = RecordUnits
  BY DemoAssumption
<1>4. n * len >= 0 /\ 0 \div n = 0
  <2>1. n * 0 + 0 = 0 /\ 0 \in 0..(n - 1)
    OBVIOUS
  <2>2. (n * 0 + 0) \div n = 0
    BY <2>1, DivisionIsUnique
  <2>. QED  BY <2>1, <2>2
<1>5. TalkTypes
  <2>1. app \in [plaintext : [1 .. Capacity -> Nat], used : 0 .. Capacity, sent : Nat,
                 ktls_read_calls : Nat, before_calls : Nat]
    BY DemoAssumption DEF Init, Newline
  <2>2. wire \in Seq(Reply) /\ ssl.plain \in Seq(Nat)
    BY <1>1
  <2>. QED  BY <1>1, <1>2, <1>3, <1>4, <2>1, <2>2, DemoAssumption DEF TalkTypes
<1>6. Copied
  <2>1. Len(Bytes(world.script)) \in Nat
    BY <1>1, ScriptResult, SentResult, LenProperties
  <2>. QED  BY <1>1, <2>1 DEF Copied
<1>7. RecordsTaken = 0 /\ FlightsTaken[1] = 0
  BY <1>1, <1>3, <1>4 DEF RecordsTaken, FlightsTaken
<1>8. HandshakeOk /\ ReadingOk /\ WritingOk /\ RetryOk /\ EndsOk
  BY <1>1, <1>7 DEF HandshakeOk, ReadingOk, WritingOk, RetryOk, EndsOk, SetsUp, Attached, Late, SslLoops,
         Gone, Silent
<1>. QED  BY <1>5, <1>6, <1>8 DEF TalkInv

\* Nothing that is told of the message changes.
SameTalk ==
    /\ UNCHANGED <<world, status, wire, app, chain, seen>>
    /\ ssl'.step = ssl.step /\ ssl'.plain = ssl.plain /\ ssl'.active = ssl.active
    /\ RecordsTaken' = RecordsTaken /\ sock'.arrived <= RecordUnits * Len(world.script)
    /\ sock.end # "open" => sock'.end # "open"
    /\ clock' \in 0 .. Deadline /\ (clock = Deadline => clock' = Deadline)

LEMMA StaysTalk ==
    ASSUME TalkInv, SameTalk, Loop' = Loop, Gone' <=> Gone, RetryOk'
    PROVE  TalkInv'
<1>1. TalkTypes' /\ Copied'
  BY DEF TalkInv, SameTalk, TalkTypes, Copied
<1>2. HandshakeOk'
  BY DEF TalkInv, SameTalk, HandshakeOk, SetsUp, Attached
<1>3. Trusted' = Trusted /\ Layer' = Layer /\ Complete(app)' = Complete(app) /\ (Received' <=> Received)
  BY DEF SameTalk, Trusted, Layer, Complete, Received
<1>4. ReadingOk'
  BY <1>3 DEF TalkInv, SameTalk, ReadingOk
<1>5. (Silent' <=> Silent) /\ (Echoed' <=> Echoed)
  BY DEF SameTalk, Silent, Echoed, Message
<1>6. WritingOk'
  BY <1>3, <1>5 DEF TalkInv, SameTalk, WritingOk
<1>7. Reasons => Reasons'
  <2>1. (TookRefused' <=> TookRefused) /\ (WrongLayer' <=> WrongLayer) /\ (TooLong' <=> TooLong)
    BY DEF SameTalk, TookRefused, WrongLayer, TooLong, RecordsTaken
  <2>. QED  BY <2>1 DEF SameTalk, Reasons
<1>8. EndsOk'
  BY <1>3, <1>5, <1>7 DEF TalkInv, SameTalk, EndsOk
<1>. QED  BY <1>1, <1>2, <1>4, <1>6, <1>8 DEF TalkInv

\* main gives up, for a reason.
LEMMA FailTalk ==
    ASSUME TalkInv, ~Gone, pc' = "cleanup", UNCHANGED <<world, clock, status, wire>>,
           TalkTypes', Copied', UNCHANGED <<app.used, app.plaintext>>, Reasons'
    PROVE  TalkInv'
<1>1. Gone' /\ Loop' = "cleanup"
  BY DEF Gone, Loop
<1>2. HandshakeOk' /\ ReadingOk' /\ RetryOk' /\ WritingOk'
  BY <1>1 DEF HandshakeOk, ReadingOk, RetryOk, WritingOk, SetsUp, Attached, Late, SslLoops
<1>3. Silent' \/ Echoed'
  BY DEF TalkInv, WritingOk, Silent, Echoed, Message
<1>4. status' # 0
  BY DEF TalkInv, WritingOk
<1>5. EndsOk'
  BY <1>3, <1>4 DEF EndsOk
<1>. QED  BY <1>2, <1>5 DEF TalkInv

\* A step that leaves main and OpenSSL alone leaves what is asked for.
LEMMA LoopStays ==
    ASSUME UNCHANGED <<pc, wait, ssl, app>>
    PROVE  /\ Loop' = Loop /\ (Gone' <=> Gone) /\ (RetryOk <=> RetryOk')
  BY DEF Loop, Gone, RetryOk, Writes, Handshaking, Flight, BadRetry, Asked, Message

\* The clock and the peer.
LEMMA OthersTalk ==
    ASSUME WaitInv, TalkInv, Tick \/ PeerSends \/ PeerReads \/ PeerEnds \/ Exited \/ UNCHANGED vars
    PROVE  TalkInv'
<1>1. UNCHANGED <<pc, wait, ssl, app>> /\ UNCHANGED <<world, status, wire, chain, seen>>
  BY DEF Tick, PeerSends, PeerReads, PeerEnds, Exited, vars, program, objects
<1>2. clock' \in 0 .. Deadline /\ (clock = Deadline => clock' = Deadline)
  BY DemoAssumption DEF Tick, PeerSends, PeerReads, PeerEnds, Exited, vars, TalkInv, TalkTypes
<1>3. PICK m \in Nat : m = RecordUnits * Len(world.script)
  <2>1. Len(world.script) \in Nat
    BY ScriptResult DEF TalkInv, TalkTypes
  <2>. QED  BY <2>1, DemoAssumption
<1>4. sock'.taken = sock.taken /\ sock'.arrived <= m /\ (sock.end # "open" => sock'.end # "open")
  <2>1. /\ sock \in [arrived : Nat, taken : Nat, end : {"open", "fin", "reset"}, unread : 0 .. SendBuffer]
        /\ sock.arrived <= m
    BY <1>3 DEF WaitInv, SessionOk, TalkInv, TalkTypes
  <2>2. CASE PeerSends
    <3>1. sock.arrived < m /\ sock' = [sock EXCEPT !.arrived = sock.arrived + 1]
      BY <1>3, <2>2 DEF PeerSends
    <3>. QED  BY <2>1, <3>1
  <2>3. CASE PeerReads \/ PeerEnds
    BY <2>1, <2>3 DEF PeerReads, PeerEnds
  <2>4. CASE UNCHANGED sock
    BY <2>1, <2>4
  <2>. QED  BY <2>2, <2>3, <2>4 DEF Tick, Exited, vars
<1>5. SameTalk
  BY <1>1, <1>2, <1>3, <1>4 DEF SameTalk, RecordsTaken
<1>. QED  BY <1>1, <1>5, LoopStays, StaysTalk DEF TalkInv

\* main sets up, or a call of it fails.
LEMMA SetUpTalk ==
    ASSUME TalkInv, SetsUp, UNCHANGED <<world, clock, status, session>>,
           \/ pc' = "cleanup" /\ seen' = [seen EXCEPT !.failed = TRUE]
           \/ SetsUp' /\ UNCHANGED <<chain, seen>>
           \/ Loop' = "handshake" /\ chain' = "installed" /\ UNCHANGED seen
    PROVE  TalkInv'
<1>1. /\ UNCHANGED <<bio, ssl, sock, wire, app>> /\ ~Gone
      /\ Loop \notin {"handshake", "read", "write", "shutdown", "gate"}
  BY DEF session, SetsUp, Gone, Loop
<1>2. CASE pc' = "cleanup" /\ seen' = [seen EXCEPT !.failed = TRUE]
  <2>1. seen' = [by |-> seen'.by, failed |-> seen'.failed] /\ seen'.failed
    BY <1>2 DEF TalkInv, TalkTypes
  <2>2. Reasons'
    BY <2>1 DEF Reasons
  <2>3. TalkTypes' /\ Copied'
    BY <1>1, <2>1 DEF TalkInv, TalkTypes, Copied
  <2>. QED  BY <1>1, <1>2, <2>2, <2>3, FailTalk
<1>3. ASSUME SetsUp' \/ Loop' = "handshake", UNCHANGED seen,
             SetsUp' => UNCHANGED chain, Loop' = "handshake" => chain' = "installed"
      PROVE  TalkInv'
  <2>1. ~Gone' /\ Loop' \notin {"read", "write", "shutdown", "gate"} /\ (SetsUp' => Loop' # "handshake")
    BY <1>3 DEF SetsUp, Gone, Loop
  <2>2. TalkTypes' /\ Copied'
    BY <1>1, <1>3 DEF TalkInv, TalkTypes, Copied
  <2>3. HandshakeOk'
    <3>1. /\ ssl.step = 1 /\ chain = "apart" /\ RecordsTaken = FlightsTaken[ssl.step]
          /\ app.used = 0 /\ ssl.plain = <<>> /\ seen.by = {}
      BY DEF TalkInv, HandshakeOk
    <3>2. RecordsTaken' = RecordsTaken
      BY <1>1 DEF RecordsTaken
    <3>3. Attached' => chain' = "installed"
      BY <1>3, <2>1 DEF Attached, Late, SslLoops, SetsUp
    <3>. QED  BY <1>1, <1>3, <2>1, <3>1, <3>2, <3>3 DEF HandshakeOk
  <2>4. ReadingOk' /\ EndsOk'
    BY <2>1 DEF ReadingOk, EndsOk
  <2>5. WritingOk'
    BY <1>1, <2>1 DEF TalkInv, WritingOk, Silent
  <2>6. RetryOk'
    <3>1. ssl.writing = NoWrite
      BY <1>1 DEF TalkInv, RetryOk, Writes, Handshaking
    <3>. QED  BY <1>1, <3>1 DEF RetryOk
  <2>. QED  BY <2>2, <2>3, <2>4, <2>5, <2>6 DEF TalkInv
<1>4. CASE SetsUp' /\ UNCHANGED <<chain, seen>>
  <2>1. Loop' # "handshake"
    BY <1>4 DEF SetsUp
  <2>. QED  BY <1>3, <1>4, <2>1
<1>5. CASE Loop' = "handshake" /\ chain' = "installed" /\ UNCHANGED seen
  <2>1. ~SetsUp'
    BY <1>5 DEF SetsUp
  <2>. QED  BY <1>3, <1>5, <2>1
<1>. QED  BY <1>2, <1>4, <1>5

\* Setting up reads and writes nothing.
LEMMA MainSetsUpTalk ==
    ASSUME WaitInv, TalkInv,
           Configure \/ CreateMethod \/ Listen \/ Accept \/ AcceptFails \/ AllocateTls \/ AttachBios
    PROVE  TalkInv'
<1>1. SetsUp
  BY DEF Configure, CreateMethod, Listen, SetUp, Accept, AcceptFails, AllocateTls, AttachBios, SetsUp, Loop
<1>2. UNCHANGED <<world, clock, status, session>>
  BY DEF Configure, CreateMethod, Listen, SetUp, Accept, AcceptFails, AllocateTls, AttachBios, session
<1>3. \/ pc' = "cleanup" /\ seen' = [seen EXCEPT !.failed = TRUE]
      \/ SetsUp' /\ UNCHANGED <<chain, seen>>
      \/ Loop' = "handshake" /\ chain' = "installed" /\ UNCHANGED seen
  <2>1. CASE Configure \/ CreateMethod \/ Listen
    BY <2>1 DEF Configure, CreateMethod, Listen, SetUp, GiveUp, SetsUp, Loop
  <2>2. CASE Accept \/ AllocateTls
    BY <2>2 DEF Accept, AllocateTls, GiveUp, SetsUp, Loop
  <2>3. CASE AcceptFails
    BY <2>3 DEF AcceptFails, GiveUp, SetsUp, Loop, WaitInv, WaitsOk, objects
  <2>4. CASE AttachBios
    BY <2>4 DEF AttachBios, Loop
  <2>. QED  BY <2>1, <2>2, <2>3, <2>4
<1>. QED  BY <1>1, <1>2, <1>3, SetUpTalk

\* A wait ends, or the time is over, or poll fails.
LEMMA WaitTalk ==
    ASSUME WaitInv, TalkInv, WaitExpires \/ WaitEnds \/ WaitFails
    PROVE  TalkInv'
<1>1. /\ pc = "wait" /\ UNCHANGED <<world, clock, status, chain, bio, ssl, sock, wire, app>>
      /\ wait.back \in {"accept"} \cup SslLoops /\ ~Gone
  BY DEF WaitExpires, WaitEnds, WaitFails, objects, session, WaitInv, IInv, TypeInv, Gone
<1>2. CASE WaitEnds
  <2>1. pc' = wait.back /\ UNCHANGED <<wait, seen>>
    BY <1>2 DEF WaitEnds
  <2>2. Loop' = Loop /\ ~Gone'
    BY <1>1, <2>1 DEF Loop, Gone, SslLoops
  <2>3. RetryOk'
    BY <1>1, <2>2 DEF TalkInv, RetryOk, Writes, Handshaking, Flight, BadRetry, Asked, Message
  <2>4. SameTalk
    BY <1>1, <2>1 DEF SameTalk, RecordsTaken, TalkInv, TalkTypes
  <2>. QED  BY <1>1, <2>2, <2>3, <2>4, StaysTalk
<1>3. CASE WaitExpires \/ WaitFails
  <2>1. /\ pc' = "cleanup" /\ seen' = [by |-> seen'.by, failed |-> seen'.failed]
    BY <1>3 DEF WaitExpires, WaitFails, GiveUp, TalkInv, TalkTypes
  <2>2. Reasons'
    <3>1. CASE WaitExpires
      BY <3>1, DemoAssumption DEF WaitExpires, Remaining, Reasons, TalkInv, TalkTypes
    <3>2. CASE WaitFails
      <4>1. seen'.failed
        BY <3>2 DEF WaitFails, GiveUp, TalkInv, TalkTypes
      <4>. QED  BY <4>1 DEF Reasons
    <3>. QED  BY <1>3, <3>1, <3>2
  <2>3. TalkTypes' /\ Copied'
    BY <1>1, <2>1 DEF TalkInv, TalkTypes, Copied
  <2>. QED  BY <1>1, <2>1, <2>2, <2>3, FailTalk
<1>. QED  BY <1>2, <1>3

\* The cleanup releases objects and keeps the verdict.
LEMMA CleanupTalk ==
    ASSUME TalkInv, Cleanup
    PROVE  TalkInv'
<1>1. /\ pc = "cleanup" /\ pc' = "exited"
      /\ UNCHANGED <<world, clock, status, ssl, sock, wire, app, seen>>
  BY DEF Cleanup, session
<1>2. Gone /\ Gone' /\ Loop' = "exited"
  BY <1>1 DEF Gone, Loop
<1>3. TalkTypes' /\ Copied'
  BY <1>1 DEF TalkInv, TalkTypes, Copied
<1>4. HandshakeOk' /\ ReadingOk' /\ RetryOk' /\ WritingOk'
  BY <1>2 DEF HandshakeOk, ReadingOk, RetryOk, WritingOk, SetsUp, Attached, Late, SslLoops
<1>5. EndsOk'
  BY <1>1, <1>2 DEF TalkInv, EndsOk, Silent, Echoed, Message, Complete, Trusted, Layer, Reasons,
         TookRefused, WrongLayer, TooLong
<1>. QED  BY <1>3, <1>4, <1>5 DEF TalkInv

\* No layer but the one asked for is accepted.
LEMMA GateTalk ==
    ASSUME WaitInv, TalkInv, ActivationGate
    PROVE  TalkInv'
<1>1. /\ pc = "gate" /\ Loop = "gate" /\ ~Gone /\ chain = "installed"
      /\ pc' = (IF Activated THEN "read" ELSE "cleanup")
      /\ app' = [app EXCEPT !.before_calls = app.ktls_read_calls]
      /\ UNCHANGED <<world, clock, status, chain, bio, ssl, sock, wire, seen>>
  BY DEF ActivationGate, Loop, Gone, objects, TalkInv, HandshakeOk, Attached, Late
<1>2. /\ app' \in [plaintext : [1 .. Capacity -> Nat], used : 0 .. Capacity, sent : Nat,
                   ktls_read_calls : Nat, before_calls : Nat]
      /\ app'.used = app.used /\ app'.plaintext = app.plaintext /\ app'.sent = app.sent
      /\ app'.before_calls = app'.ktls_read_calls
  BY <1>1 DEF TalkInv, TalkTypes
<1>3. TalkTypes' /\ Copied'
  BY <1>1, <1>2 DEF TalkInv, TalkTypes, Copied
<1>4. /\ RecordsTaken = FlightsTaken[ssl.step] /\ ssl.step = 6
      /\ app.used = 0 /\ ssl.plain = <<>> /\ seen.by = {}
      /\ ("rx" \in ssl.active <=> "rx" \in world.offload)
  BY <1>1 DEF TalkInv, HandshakeOk
<1>5. RecordsTaken = 3 /\ RecordsTaken' = 3
  BY <1>1, <1>4 DEF FlightsTaken, RecordsTaken
<1>6. Activated <=> Trusted
  BY <1>1 DEF Activated, FilterCtrl, Trusted
<1>7. CASE Activated
  <2>1. Loop' = "read" /\ ~Gone'
    BY <1>1, <1>7 DEF Loop, Gone
  <2>2. Trusted'
    BY <1>1, <1>6, <1>7 DEF Trusted
  <2>3. Received'
    <3>1. PICK script \in Scripts : script = world.script
      BY DEF TalkInv, TalkTypes
    <3>2. RecordsTaken <= Len(script) /\ Len(script) \in Nat
      BY <3>1, RecordTaken, ScriptResult DEF WaitInv, TalkInv
    <3>3. Sent(script, 3) = <<>>
      BY <1>5, <3>2, NothingSent
    <3>4. Sent(world.script, RecordsTaken)' = <<>>
      BY <1>1, <1>5, <3>1, <3>3
    <3>5. app'.used = 0 /\ ssl'.plain = <<>> /\ Len(<<>>) = 0
      BY <1>1, <1>2, <1>4
    <3> DEFINE none == Sent(world.script, RecordsTaken)'
    <3>6. none = <<>>
      BY <3>4
    <3> HIDE DEF none
    <3>7. /\ Len(none) = app'.used + Len(ssl'.plain)
          /\ \A i \in 1 .. app'.used : app'.plaintext[i] = none[i]
          /\ \A i \in 1 .. Len(ssl'.plain) : ssl'.plain[i] = none[app'.used + i]
      BY <3>5, <3>6
    <3>. QED  BY <3>7 DEF Received, none
  <2>4. ReadingOk'
    BY <1>1, <1>2, <1>4, <1>5, <2>2, <2>3, DemoAssumption DEF ReadingOk, Complete
  <2>5. HandshakeOk'
    BY <1>1, <1>4, <2>1 DEF HandshakeOk, SetsUp, Attached
  <2>6. WritingOk' /\ EndsOk'
    BY <1>1, <1>2, <2>1 DEF TalkInv, WritingOk, EndsOk, Silent
  <2>7. RetryOk'
    BY <1>1 DEF TalkInv, RetryOk, Writes, Handshaking
  <2>. QED  BY <1>3, <2>4, <2>5, <2>6, <2>7 DEF TalkInv
<1>8. CASE ~Activated
  <2>1. Reasons'
    <3>1. ssl.active \subseteq world.offload
      BY DEF TalkInv, TalkTypes
    <3>2. WrongLayer
      BY <1>4, <1>6, <1>8, <3>1 DEF Trusted, WrongLayer
    <3>3. WrongLayer'
      BY <1>1, <3>2 DEF WrongLayer
    <3>. QED  BY <3>3 DEF Reasons
  <2>. QED  BY <1>1, <1>2, <1>3, <1>8, <2>1, FailTalk
<1>. QED  BY <1>7, <1>8

\* What a call of filter_read changes, and leaves alone.
LEMMA ReadEffects ==
    ASSUME WaitInv, TalkInv, Reads, ReadThroughFilter
    PROVE  /\ pc \in {"handshake", "read"} /\ Loop = pc /\ ~Gone /\ chain = "installed"
           /\ UNCHANGED <<world, clock, status, chain, wire>>
           /\ sock'.arrived = sock.arrived /\ sock'.end = sock.end
           /\ RecordsTaken' = (sock.taken + Takes) \div RecordUnits
           /\ app' \in [plaintext : [1 .. Capacity -> Nat], used : 0 .. Capacity, sent : Nat,
                        ktls_read_calls : Nat, before_calls : Nat]
           /\ UNCHANGED <<app.plaintext, app.used, app.sent, app.before_calls>>
           /\ app'.ktls_read_calls =
                 IF ReadResult = "ok" /\ KernelReads THEN app.ktls_read_calls + 1 ELSE app.ktls_read_calls
           /\ ssl.writing = NoWrite /\ (KernelReads <=> "rx" \in ssl.active)
           /\ app' = [app EXCEPT !.sent = app'.sent, !.ktls_read_calls = app'.ktls_read_calls,
                                 !.before_calls = app'.before_calls]
           /\ Copied'
<1>1. pc \in {"handshake", "read"} /\ Loop = pc /\ ~Gone
  BY DEF Reads, ReadThroughFilter, Handshaking, Gone, Loop
<1>2. chain = "installed"
  BY <1>1 DEF TalkInv, HandshakeOk, Attached, Late, SslLoops
<1>3. UNCHANGED <<world, clock, status, chain, wire>>
  BY DEF ReadThroughFilter, objects
<1>4. sock'.arrived = sock.arrived /\ sock'.end = sock.end /\ sock'.taken = sock.taken + Takes
  BY DEF ReadThroughFilter, WaitInv, SessionOk
<1>5. PICK c \in Nat : c = IF ReadResult = "ok" /\ KernelReads THEN app.ktls_read_calls + 1 ELSE app.ktls_read_calls
  BY DEF TalkInv, TalkTypes
<1>6. app' = [app EXCEPT !.ktls_read_calls = c]
  BY <1>5 DEF ReadThroughFilter
<1>7. /\ app' \in [plaintext : [1 .. Capacity -> Nat], used : 0 .. Capacity, sent : Nat,
                   ktls_read_calls : Nat, before_calls : Nat]
      /\ UNCHANGED <<app.plaintext, app.used, app.sent, app.before_calls>>
      /\ app'.ktls_read_calls = c
      /\ app' = [app EXCEPT !.sent = app'.sent, !.ktls_read_calls = app'.ktls_read_calls,
                            !.before_calls = app'.before_calls]
  BY <1>6 DEF TalkInv, TalkTypes
<1>8. ssl.writing = NoWrite
  BY <1>1 DEF TalkInv, RetryOk, Writes, Reads, Handshaking
<1>9. KernelReads <=> "rx" \in ssl.active
  BY <1>2 DEF KernelReads, FilterCtrl
<1>10. Copied'
  BY <1>3, <1>7 DEF TalkInv, Copied
<1>11. RecordsTaken' = (sock.taken + Takes) \div RecordUnits
  BY <1>4 DEF RecordsTaken
<1>. QED  BY <1>1, <1>2, <1>3, <1>4, <1>5, <1>7, <1>8, <1>9, <1>10, <1>11

\* What OpenSSL keeps decides the types; the filter only counts.
LEMMA TalkTypesAfterRead ==
    ASSUME WaitInv, TalkInv, Reads, ReadThroughFilter,
           ssl'.step \in 1 .. 6, ssl'.plain \in Seq(Nat), ssl'.active \subseteq world.offload,
           seen' = [by |-> seen'.by, failed |-> seen'.failed]
    PROVE  TalkTypes'
  BY ReadEffects DEF TalkInv, TalkTypes

\* Nothing to take: a connection that ended is the only failure.
LEMMA ReadBlocksTalk ==
    ASSUME WaitInv, TalkInv, ReadBlocks
    PROVE  TalkInv'
<1>1. Reads /\ ReadResult # "ok" /\ ReadThroughFilter /\ UNCHANGED <<ssl, seen>>
  BY DEF ReadBlocks
<1>2. /\ ReadResult \in {"again", "failed"} /\ Takes = 0 /\ Takes < Lacking
      /\ ReadResult = "failed" => sock.end # "open"
  BY <1>1, TakesQueued DEF WaitInv, ReadResult
<1>3. /\ SslError(FilterRead(bio, ReadResult), "read") = (IF ReadResult = "again" THEN "read" ELSE "failed")
  BY <1>2, FilterReports DEF WaitInv, SessionOk
<1>4. seen' = [by |-> seen'.by, failed |-> seen'.failed]
  BY <1>1 DEF TalkInv, TalkTypes
<1>5. CASE ReadResult = "again"
  <2>1. pc' = "wait" /\ wait'.back = pc
    BY <1>3, <1>5 DEF ReadBlocks, RetrySsl
  <2>2. Loop' = Loop /\ ~Gone' /\ ~Gone
    BY <1>1, <2>1, ReadEffects DEF Loop, Gone
  <2>3. RetryOk'
    BY <1>1, ReadEffects DEF RetryOk
  <2>4. app' = app
    <3>1. app'.ktls_read_calls = app.ktls_read_calls
      BY <1>1, ReadEffects
    <3>2. app \in [plaintext : [1 .. Capacity -> Nat], used : 0 .. Capacity, sent : Nat,
                   ktls_read_calls : Nat, before_calls : Nat]
      BY DEF TalkInv, TalkTypes
    <3>. QED  BY <1>1, <3>1, <3>2, ReadEffects
  <2>5. RecordsTaken' = RecordsTaken
    BY <1>1, <1>2, ReadEffects, RecordTaken DEF WaitInv, TalkInv
  <2>6. SameTalk
    BY <1>1, <2>4, <2>5, ReadEffects DEF SameTalk, TalkInv, TalkTypes
  <2>. QED  BY <2>2, <2>3, <2>6, StaysTalk
<1>6. CASE ReadResult = "failed"
  <2>1. pc' = "cleanup"
    BY <1>3, <1>6 DEF ReadBlocks, RetrySsl
  <2>2. Reasons'
    BY <1>1, <1>2, <1>6, ReadEffects DEF Reasons
  <2>3. TalkTypes'
    BY <1>1, <1>4, TalkTypesAfterRead DEF TalkInv, TalkTypes
  <2>. QED  BY <1>1, <2>1, <2>2, <2>3, ReadEffects, FailTalk
<1>. QED  BY <1>2, <1>5, <1>6

\* A record that is not whole yet, of which the kernel delivers nothing.
LEMMA ReadsPartTalk ==
    ASSUME WaitInv, TalkInv, ReadsPart
    PROVE  TalkInv'
<1>1. /\ Reads /\ 0 < Takes /\ Takes < Lacking /\ ReadThroughFilter
      /\ UNCHANGED <<pc, wait, ssl, seen>>
  BY DEF ReadsPart
<1>2. ~KernelReads
  BY <1>1, TakesQueued DEF WaitInv, Takes
<1>3. app' = app
  <2>1. app'.ktls_read_calls = app.ktls_read_calls
    BY <1>1, <1>2, ReadEffects
  <2>2. app \in [plaintext : [1 .. Capacity -> Nat], used : 0 .. Capacity, sent : Nat,
                 ktls_read_calls : Nat, before_calls : Nat]
    BY DEF TalkInv, TalkTypes
  <2>. QED  BY <1>1, <2>1, <2>2, ReadEffects
<1>4. RecordsTaken' = RecordsTaken
  BY <1>1, ReadEffects, RecordTaken DEF WaitInv, TalkInv
<1>5. SameTalk
  BY <1>1, <1>3, <1>4, ReadEffects DEF SameTalk, TalkInv, TalkTypes
<1>. QED  BY <1>1, <1>3, <1>5, LoopStays, StaysTalk DEF TalkInv

\* A whole record: which one, and what it may be.
LEMMA RecordReady ==
    ASSUME WaitInv, TalkInv, Reads, Takes = Lacking, ReadThroughFilter
    PROVE  /\ RecordsTaken \in Nat /\ RecordsTaken' = RecordsTaken + 1
           /\ RecordsTaken + 1 \in 1 .. Len(world.script)
           /\ Record = world.script[RecordsTaken + 1] /\ Record \in PeerRecord
           /\ Record.kind \in {InPlace(RecordsTaken + 1), "close_notify", "bad"}
           /\ ReadResult = "ok"
<1>1. PICK script \in Scripts : script = world.script
  BY DEF TalkInv, TalkTypes
<1>2. PICK len \in Nat : len = Len(script)
  BY ScriptResult
<1>3. /\ RecordsTaken \in 0..(Len(script) - 1) /\ Record = script[RecordsTaken + 1] /\ Record \in PeerRecord
      /\ (sock.taken + Takes) \div RecordUnits = RecordsTaken + 1
  BY <1>1, RecordTaken DEF WaitInv, TalkInv
<1>4. RecordsTaken + 1 \in 1 .. Len(script) /\ RecordsTaken \in Nat
  BY <1>2, <1>3
<1>5. script[RecordsTaken + 1].kind \in {InPlace(RecordsTaken + 1), "close_notify", "bad"}
  BY <1>4, ScriptResult
<1>6. ReadResult = "ok"
  BY TakesQueued DEF WaitInv, ReadResult
<1>. QED  BY <1>1, <1>3, <1>4, <1>5, <1>6, ReadEffects

\* A flight of the peer's handshake.
LEMMA ReadsFlightTalk ==
    ASSUME WaitInv, TalkInv, ReadsFlight
    PROVE  TalkInv'
<1>1. /\ Handshaking /\ Reads /\ Takes = Lacking /\ ReadThroughFilter /\ StepsOn
      /\ UNCHANGED <<wait, seen>>
      /\ pc = "handshake" /\ Loop = "handshake" /\ ~Gone
  BY ReadEffects DEF ReadsFlight, Handshaking
<1>2. ssl.step \in {1, 3, 4} /\ Flight = Flights[ssl.step]
  BY <1>1 DEF TalkInv, HandshakeOk, Reads, Flight, Flights
<1> DEFINE active == IF Flight.what = "keys" THEN ssl.active \cup Offloads("rx") ELSE ssl.active
<1>3. /\ ssl'.step = ssl.step + 1 /\ ssl'.plain = ssl.plain /\ ssl'.active = active
      /\ ssl'.writing = ssl.writing
  <2>1. ssl' = NextStep([ssl EXCEPT !.active = active])
    BY DEF ReadsFlight
  <2> HIDE DEF active
  <2>2. ssl = [step |-> ssl.step, plain |-> ssl.plain, writing |-> ssl.writing, active |-> ssl.active]
    BY DEF WaitInv, SessionOk
  <2>. QED  BY <2>1, <2>2 DEF NextStep
<1>4. /\ active \subseteq world.offload
      /\ ssl.step \in {3, 4} => ("rx" \in active <=> "rx" \in world.offload)
  <2>1. Offloads("rx") = world.offload \cap {"rx"}
    BY <1>1, ReadEffects DEF Offloads, FilterCtrl
  <2>2. ssl.active \subseteq world.offload
    BY DEF TalkInv, TalkTypes
  <2>3. CASE ssl.step = 3
    <3>1. Flight.what = "keys"
      BY <1>2, <2>3 DEF Flights
    <3>. QED  BY <2>1, <2>2, <2>3, <3>1
  <2>4. CASE ssl.step # 3
    <3>1. Flight.what # "keys"
      BY <1>2, <2>4 DEF Flights
    <3>2. ssl.step = 4 => ("rx" \in ssl.active <=> "rx" \in world.offload)
      BY <1>1 DEF TalkInv, HandshakeOk
    <3>. QED  BY <1>2, <2>2, <2>4, <3>1, <3>2
  <2>. QED  BY <2>3, <2>4
<1> HIDE DEF active
<1>5. pc' = "handshake" /\ Loop' = "handshake" /\ ~Gone'
  BY <1>1, <1>2 DEF StepsOn, Flights, Loop, Gone
<1>6. ssl.plain = <<>> /\ app.used = 0 /\ seen.by = {} /\ RecordsTaken = FlightsTaken[ssl.step]
  BY <1>1 DEF TalkInv, HandshakeOk
<1>7. RecordsTaken' = FlightsTaken[ssl'.step]
  <2>1. RecordsTaken' = RecordsTaken + 1
    BY <1>1, RecordReady
  <2>2. FlightsTaken[ssl.step] + 1 = FlightsTaken[ssl.step + 1]
    BY <1>2 DEF FlightsTaken
  <2>. QED  BY <1>3, <1>6, <2>1, <2>2
<1>8. TalkTypes'
  <2>1. ssl'.step \in 1 .. 6 /\ ssl'.plain \in Seq(Nat) /\ ssl'.active \subseteq world.offload
    BY <1>2, <1>3, <1>4 DEF TalkInv, TalkTypes
  <2>2. seen' = [by |-> seen'.by, failed |-> seen'.failed]
    BY <1>1 DEF TalkInv, TalkTypes
  <2>. QED  BY <1>1, <2>1, <2>2, TalkTypesAfterRead
<1>9. HandshakeOk'
  <2>1. world' = world /\ chain' = "installed" /\ app'.used = app.used
    BY <1>1, ReadEffects
  <2>2. ssl'.step \in 1 .. 5 /\ (ssl'.step >= 4 => ssl.step \in {3, 4})
    BY <1>2, <1>3
  <2>. QED  BY <1>1, <1>3, <1>4, <1>5, <1>6, <1>7, <2>1, <2>2 DEF HandshakeOk, SetsUp
<1>10. ReadingOk' /\ EndsOk'
  BY <1>5 DEF ReadingOk, EndsOk
<1>11. WritingOk' /\ RetryOk'
  BY <1>1, <1>3, <1>5, ReadEffects DEF TalkInv, WritingOk, RetryOk, Silent
<1>. QED  BY <1>1, <1>8, <1>9, <1>10, <1>11, ReadEffects DEF TalkInv

\* A record of data: its bytes are the next ones, and the layer is the right one.
LEMMA ReadsDataTalk ==
    ASSUME WaitInv, TalkInv, ReadsData
    PROVE  TalkInv'
<1>1. /\ pc = "read" /\ Reads /\ Takes = Lacking /\ ReadThroughFilter /\ UNCHANGED <<pc, wait>>
      /\ Loop = "read" /\ Loop' = "read" /\ ~Gone'
  BY DEF ReadsData, Loop, Gone
<1>2. ssl.plain = <<>>
  BY <1>1 DEF Reads, Handshaking
<1>3. PICK script \in Scripts : script = world.script
  BY DEF TalkInv, TalkTypes
<1>4. PICK n \in Nat : n = RecordsTaken
  BY <1>1, RecordReady
<1>5. PICK bytes \in Seq(Nat) : bytes = script[n + 1].bytes /\ bytes = Record.bytes
  BY <1>1, <1>3, <1>4, RecordReady DEF PeerRecord
<1>6. /\ ssl'.step = ssl.step /\ ssl'.plain = bytes /\ ssl'.active = ssl.active
      /\ ssl'.writing = ssl.writing
  BY <1>5 DEF ReadsData, WaitInv, SessionOk
<1>7. Trusted /\ Received /\ n >= 3 /\ ~Complete(app) /\ app.used < Capacity
      /\ seen.by \subseteq {Layer} /\ app.before_calls <= app.ktls_read_calls
  BY <1>1, <1>4 DEF TalkInv, ReadingOk
<1>8. Layer = IF KernelReads THEN "kernel" ELSE "user"
  BY <1>1, <1>7, ReadEffects DEF Trusted, Layer
<1>9. /\ seen' = [by |-> seen'.by, failed |-> seen'.failed] /\ seen'.failed = seen.failed
      /\ seen'.by = {Layer}
  <2>1. PICK layer : layer = IF KernelReads THEN "kernel" ELSE "user"
    OBVIOUS
  <2>2. seen' = [seen EXCEPT !.by = seen.by \cup {layer}]
    BY <2>1 DEF ReadsData
  <2>3. seen = [by |-> seen.by, failed |-> seen.failed]
    BY DEF TalkInv, TalkTypes
  <2>. QED  BY <1>7, <1>8, <2>1, <2>2, <2>3
<1>10. world' = world /\ chain' = "installed" /\ Layer' = Layer
  BY <1>1, ReadEffects DEF Layer
<1>11. Trusted'
  BY <1>6, <1>7, <1>10 DEF Trusted
<1>12. Received'
  <2>1. n + 1 \in 1 .. Len(script) /\ RecordsTaken' = n + 1
    BY <1>1, <1>3, <1>4, RecordReady
  <2>2. Len(script) \in Nat /\ Carry(script) /\ script \in Seq(PeerRecord)
    BY ScriptResult
  <2>3. n \in 0 .. (Len(script) - 1) /\ n \in 0 .. Len(script)
    BY <2>1, <2>2
  <2>4. PICK sent \in Seq(Nat) : sent = Sent(script, n)
    BY <2>2, <2>3, SentResult
  <2>5. Sent(script, n + 1) = sent \o bytes
    BY <1>5, <2>2, <2>3, <2>4, SentResult
  <2>6. PICK next : next = Sent(script, n + 1)
    OBVIOUS
  <2>7. /\ Len(next) = Len(sent) + Len(bytes) /\ Len(sent) \in Nat /\ Len(bytes) \in Nat
        /\ \A i \in 1 .. Len(sent) : next[i] = sent[i]
        /\ \A i \in 1 .. Len(bytes) : next[Len(sent) + i] = bytes[i]
    BY <2>5, <2>6, ConcatProperties
  <2>8. Len(sent) = app.used /\ \A i \in 1 .. app.used : app.plaintext[i] = sent[i]
    <3>1. Len(sent) = app.used + Len(ssl.plain) /\ \A i \in 1 .. app.used : app.plaintext[i] = sent[i]
      BY <1>3, <1>4, <1>7, <2>4 DEF Received
    <3>2. Len(ssl.plain) = 0 /\ app.used \in Nat
      BY <1>2, DemoAssumption DEF TalkInv, TalkTypes
    <3>. QED  BY <3>1, <3>2
  <2>9. app'.used = app.used /\ app'.plaintext = app.plaintext
    BY <1>1, ReadEffects
  <2>10. next = Sent(world.script, RecordsTaken)'
    BY <1>3, <1>10, <2>1, <2>6
  <2>. QED  BY <1>6, <2>7, <2>8, <2>9, <2>10 DEF Received
<1>13. TalkTypes'
  <2>1. ssl'.step \in 1 .. 6 /\ ssl'.plain \in Seq(Nat) /\ ssl'.active \subseteq world.offload
    BY <1>6 DEF TalkInv, TalkTypes
  <2>. QED  BY <1>1, <1>9, <2>1, TalkTypesAfterRead
<1>14. ReadingOk'
  <2>1. ~Complete(app)' /\ app'.used < Capacity
    BY <1>1, <1>7, ReadEffects DEF Complete
  <2>2. app'.before_calls <= app'.ktls_read_calls
    BY <1>1, <1>7, ReadEffects DEF TalkInv, TalkTypes
  <2>3. world'.userspace \/ app'.before_calls < app'.ktls_read_calls
    <3>1. CASE world.userspace
      BY <1>10, <3>1
    <3>2. CASE ~world.userspace
      <4>1. KernelReads
        BY <1>8, <3>2 DEF Layer
      <4>. QED  BY <1>1, <1>7, <4>1, ReadEffects, RecordReady DEF TalkInv, TalkTypes
    <3>. QED  BY <3>1, <3>2
  <2>4. RecordsTaken' >= 3
    BY <1>1, <1>4, <1>7, RecordReady
  <2>. QED  BY <1>9, <1>10, <1>11, <1>12, <2>1, <2>2, <2>3, <2>4 DEF ReadingOk
<1>15. HandshakeOk'
  BY <1>1, <1>6, <1>10 DEF TalkInv, HandshakeOk, SetsUp
<1>16. EndsOk'
  BY <1>1 DEF EndsOk
<1>17. WritingOk' /\ RetryOk'
  BY <1>1, <1>6, ReadEffects DEF TalkInv, WritingOk, RetryOk, Silent
<1>. QED  BY <1>1, <1>13, <1>14, <1>15, <1>16, <1>17, ReadEffects DEF TalkInv

\* A record that has no place there.
LEMMA ReadRefusedTalk ==
    ASSUME WaitInv, TalkInv, ReadRefused
    PROVE  TalkInv'
<1>1. /\ Reads /\ Takes = Lacking /\ ReadThroughFilter /\ UNCHANGED <<ssl, seen>> /\ pc' = "cleanup"
      /\ Record.kind # IF Handshaking THEN Flight.what ELSE "data"
  BY DEF ReadRefused
<1>2. PICK n \in Nat : n = RecordsTaken
  BY <1>1, RecordReady
<1>3. (IF Handshaking THEN Flight.what ELSE "data") = InPlace(n + 1)
  <2>1. CASE Handshaking
    <3>1. Loop = "handshake"
      BY <2>1 DEF Handshaking
    <3>2. ssl.step \in {1, 3, 4}
      BY <1>1, <3>1 DEF TalkInv, HandshakeOk, Reads, Flight, Flights
    <3>3. n = FlightsTaken[ssl.step]
      BY <1>2, <3>1 DEF TalkInv, HandshakeOk
    <3>4. CASE ssl.step = 1
      BY <2>1, <3>3, <3>4 DEF FlightsTaken, Flight, Flights, InPlace
    <3>5. CASE ssl.step = 3
      BY <2>1, <3>3, <3>5 DEF FlightsTaken, Flight, Flights, InPlace
    <3>6. CASE ssl.step = 4
      BY <2>1, <3>3, <3>6 DEF FlightsTaken, Flight, Flights, InPlace
    <3>. QED  BY <3>2, <3>4, <3>5, <3>6
  <2>2. CASE ~Handshaking
    <3>1. n >= 3
      BY <1>1, <1>2, <2>2 DEF Reads, TalkInv, ReadingOk
    <3>. QED  BY <2>2, <3>1 DEF InPlace
  <2>. QED  BY <2>1, <2>2
<1>4. Record.kind \in {"close_notify", "bad"}
  BY <1>1, <1>2, <1>3, RecordReady
<1>5. TookRefused'
  <2>1. /\ world' = world /\ RecordsTaken' = n + 1
        /\ world.script[n + 1].kind \in {"close_notify", "bad"}
    BY <1>1, <1>2, <1>4, ReadEffects, RecordReady
  <2>. QED  BY <2>1 DEF TookRefused, RecordsTaken
<1>6. TalkTypes'
  BY <1>1, TalkTypesAfterRead DEF TalkInv, TalkTypes
<1>7. Reasons'
  BY <1>5 DEF Reasons
<1>. QED  BY <1>1, <1>6, <1>7, ReadEffects, FailTalk

\* SSL_read_ex returns: the message is complete, too long, or goes on.
LEMMA ReadReturnsTalk ==
    ASSUME WaitInv, TalkInv, ReadReturns
    PROVE  TalkInv'
<1>1. /\ pc = "read" /\ Loop = "read" /\ ~Gone /\ ssl.plain # <<>>
      /\ UNCHANGED <<world, wait, clock, status, chain, bio, sock, wire, seen>>
  BY DEF ReadReturns, Loop, Gone, objects
<1>2. PICK plain \in Seq(Nat) : plain = ssl.plain
  BY DEF TalkInv, TalkTypes
<1>3. PICK len \in Nat : len = Len(plain)
  BY LenProperties
<1>4. len # 0
  BY <1>1, <1>2, <1>3, EmptySeq
<1>5. PICK used \in Nat, c \in Nat : used = app.used /\ c = Capacity /\ used < c
  BY <1>1, DemoAssumption DEF TalkInv, TalkTypes, ReadingOk
<1>6. PICK n \in Nat : n = (IF len < c - used THEN len ELSE c - used) /\ n <= len /\ used + n <= c
                       /\ (used + n < c => n = len)
  BY <1>5
<1>7. PICK part \in Seq(Nat), rest \in Seq(Nat) :
         /\ part = SubSeq(plain, 1, n) /\ Len(part) = n
         /\ rest = SubSeq(plain, n + 1, Len(plain)) /\ (n = len => rest = <<>>)
         /\ \A i \in 1 .. n : part[i] = plain[i]
  <2>1. /\ SubSeq(plain, 1, n) \in Seq(Nat) /\ Len(SubSeq(plain, 1, n)) = n
        /\ \A i \in 1 .. n : SubSeq(plain, 1, n)[i] = plain[i]
    BY <1>3, <1>6, SubSeqProperties
  <2>2. SubSeq(plain, n + 1, Len(plain)) \in Seq(Nat) /\ (n = len => SubSeq(plain, n + 1, Len(plain)) = <<>>)
    BY <1>3, <1>6, SubSeqProperties
  <2>. QED  BY <2>1, <2>2
<1>8. PICK a : a = ReadInto(app, part)
  OBVIOUS
<1>9. /\ app' = a /\ ssl' = [ssl EXCEPT !.plain = rest]
      /\ pc' = IF Complete(a) THEN IF Observed(a) THEN "write" ELSE "cleanup"
               ELSE IF a.used = c THEN "cleanup" ELSE "read"
  BY <1>2, <1>3, <1>5, <1>6, <1>7, <1>8 DEF ReadReturns
<1>10. /\ a \in [plaintext : [1 .. Capacity -> Nat], used : 0 .. Capacity, sent : Nat,
                 ktls_read_calls : Nat, before_calls : Nat]
       /\ a.used = used + n /\ a.sent = app.sent /\ a.before_calls = app.before_calls
       /\ a.ktls_read_calls = app.ktls_read_calls
       /\ \A i \in 1 .. c : a.plaintext[i] = IF i \in used + 1 .. used + n THEN part[i - used]
                                             ELSE app.plaintext[i]
  <2> DEFINE text == [i \in 1 .. Capacity |-> IF i \in app.used + 1 .. app.used + Len(part)
                                              THEN part[i - app.used] ELSE app.plaintext[i]]
  <2>1. text \in [1 .. c -> Nat]
    <3>1. SUFFICES ASSUME NEW i \in 1 .. c PROVE text[i] \in Nat
      BY <1>5
    <3>2. app.plaintext[i] \in Nat
      BY <1>5 DEF TalkInv, TalkTypes
    <3>3. i \in app.used + 1 .. app.used + Len(part) => part[i - app.used] \in Nat
      <4>1. i \in used + 1 .. used + n => i - used \in 1 .. Len(part)
        BY <1>7
      <4>2. \A j \in 1 .. Len(part) : part[j] \in Nat
        BY <1>7, ElementOfSeq
      <4>. QED  BY <1>5, <1>7, <4>1, <4>2
    <3>. QED  BY <1>5, <3>2, <3>3
  <2>2. a = [app EXCEPT !.plaintext = text, !.used = app.used + Len(part)]
    BY <1>8 DEF ReadInto
  <2>3. \A i \in 1 .. c : text[i] = IF i \in used + 1 .. used + n THEN part[i - used] ELSE app.plaintext[i]
    BY <1>5, <1>7
  <2>4. app.used + Len(part) = used + n /\ used + n \in 0 .. Capacity
    BY <1>5, <1>6, <1>7
  <2> HIDE DEF text
  <2>. QED  BY <1>5, <2>1, <2>2, <2>3, <2>4 DEF TalkInv, TalkTypes
<1>11. PICK script \in Scripts : script = world.script
  BY DEF TalkInv, TalkTypes
<1>12. PICK m \in Nat, sent \in Seq(Nat), all \in Seq(Nat) :
          /\ m = RecordsTaken /\ sent = Sent(script, m) /\ all = Bytes(script)
          /\ Begins(sent, all)
  <2>1. RecordsTaken \in 0 .. Len(script) /\ Len(script) \in Nat
    BY <1>11, RecordTaken, ScriptResult DEF WaitInv, TalkInv
  <2>. QED  BY <2>1, ScriptResult, SentResult
<1>13. /\ Len(sent) = used + len
       /\ \A i \in 1 .. used : app.plaintext[i] = sent[i]
       /\ \A i \in 1 .. len : plain[i] = sent[used + i]
  BY <1>1, <1>2, <1>3, <1>5, <1>11, <1>12 DEF TalkInv, ReadingOk, Received
<1>14. \A i \in 1 .. used + n : a.plaintext[i] = sent[i]
  <2>1. SUFFICES ASSUME NEW i \in 1 .. used + n PROVE a.plaintext[i] = sent[i]
    OBVIOUS
  <2>2. i \in 1 .. c
    BY <1>6
  <2>3. CASE i <= used
    <3>1. i \notin used + 1 .. used + n /\ i \in 1 .. used
      BY <2>3
    <3>. QED  BY <1>10, <1>13, <2>2, <3>1
  <2>4. CASE i > used
    <3>1. PICK j \in 1 .. n : j = i - used /\ used + j = i
      BY <2>4
    <3>2. j \in 1 .. len
      BY <1>6
    <3>3. plain[j] = sent[i]
      BY <1>13, <3>1, <3>2
    <3>4. a.plaintext[i] = part[j]
      BY <1>10, <2>2, <2>4, <3>1
    <3>. QED  BY <1>7, <3>1, <3>3, <3>4
  <2>. QED  BY <2>3, <2>4
<1>15. Len(all) \in Nat /\ used + n <= Len(sent) /\ Len(sent) <= Len(all)
       /\ \A i \in 1 .. used + n : a.plaintext[i] = all[i]
  <2>1. Len(all) \in Nat
    BY LenProperties
  <2>2. used + n <= Len(sent) /\ Len(sent) <= Len(all)
    BY <1>6, <1>12, <1>13 DEF Begins
  <2>3. \A i \in 1 .. used + n : i \in 1 .. Len(sent)
    BY <1>13, <2>2
  <2>. QED  BY <1>12, <1>14, <2>1, <2>2, <2>3 DEF Begins
<1>16. Copied'
  BY <1>1, <1>9, <1>10, <1>11, <1>12, <1>15 DEF Copied
<1>17. /\ ssl'.step = ssl.step /\ ssl'.plain = rest /\ ssl'.active = ssl.active
       /\ ssl'.writing = ssl.writing
  BY <1>9 DEF WaitInv, SessionOk
<1>18. TalkTypes'
  BY <1>1, <1>7, <1>9, <1>10, <1>17 DEF TalkInv, TalkTypes
<1>19. /\ Trusted /\ seen.by = {Layer} /\ (world.userspace \/ app.before_calls < app.ktls_read_calls)
       /\ app.before_calls <= app.ktls_read_calls /\ RecordsTaken >= 3
  BY <1>1 DEF TalkInv, ReadingOk
<1>20. Observed(a)
  BY <1>10, <1>19 DEF Observed, TalkInv, TalkTypes
<1>21. Trusted' /\ Layer' = Layer /\ ssl.writing = NoWrite
  BY <1>1, <1>17, <1>19 DEF Trusted, Layer, TalkInv, RetryOk, Writes, Handshaking
<1>22. chain' = "installed" /\ ssl'.step = 6
  BY <1>1, <1>17 DEF TalkInv, HandshakeOk, Attached, Late, SslLoops
<1>23. CASE pc' = "write" /\ Complete(a)
  <2>1. Loop' = "write" /\ ~Gone'
    BY <1>23 DEF Loop, Gone
  <2>2. HandshakeOk' /\ ReadingOk' /\ EndsOk'
    BY <1>22, <2>1 DEF HandshakeOk, ReadingOk, EndsOk, SetsUp
  <2>3. WritingOk' /\ RetryOk'
    BY <1>1, <1>9, <1>10, <1>17, <1>19, <1>21, <1>23, <2>1 DEF TalkInv, WritingOk, RetryOk, Silent
  <2>. QED  BY <1>16, <1>18, <2>2, <2>3 DEF TalkInv
<1>24. CASE pc' = "cleanup" /\ ~Complete(a) /\ a.used = c
  <2>1. Gone' /\ Loop' = "cleanup"
    BY <1>24 DEF Gone, Loop
  <2>2. HandshakeOk' /\ ReadingOk' /\ RetryOk' /\ WritingOk'
    BY <2>1 DEF HandshakeOk, ReadingOk, RetryOk, WritingOk, SetsUp, Attached, Late, SslLoops
  <2>3. Silent' /\ status' # 0
    BY <1>1 DEF TalkInv, WritingOk, Silent
  <2>4. TooLong'
    <3>1. c <= Len(all)
      BY <1>10, <1>15, <1>24
    <3>2. \A i \in 1 .. c : all[i] # Newline
      BY <1>10, <1>15, <1>24 DEF Complete
    <3>. QED  BY <1>1, <1>5, <1>11, <1>12, <3>1, <3>2 DEF TooLong
  <2>5. EndsOk'
    BY <2>3, <2>4 DEF EndsOk, Reasons
  <2>. QED  BY <1>16, <1>18, <2>2, <2>5 DEF TalkInv
<1>25. CASE pc' = "read" /\ ~Complete(a) /\ a.used # c
  <2>1. Loop' = "read" /\ ~Gone'
    BY <1>25 DEF Loop, Gone
  <2>2. n = len /\ rest = <<>> /\ a.used < c
    BY <1>6, <1>7, <1>10, <1>25
  <2>3. RecordsTaken' = RecordsTaken
    BY <1>1 DEF RecordsTaken
  <2>4. Received'
    <3>1. sent = Sent(world.script, RecordsTaken)'
      BY <1>1, <1>11, <1>12, <2>3
    <3>2. Len(rest) = 0
      BY <2>2
    <3>. QED  BY <1>9, <1>10, <1>13, <1>14, <1>17, <2>2, <3>1, <3>2 DEF Received
  <2>5. ReadingOk'
    BY <1>1, <1>5, <1>9, <1>10, <1>19, <1>21, <1>25, <2>2, <2>3, <2>4 DEF ReadingOk
  <2>6. HandshakeOk' /\ EndsOk'
    BY <1>22, <2>1 DEF HandshakeOk, EndsOk, SetsUp
  <2>7. WritingOk' /\ RetryOk'
    BY <1>1, <1>9, <1>10, <1>17, <1>21, <2>1 DEF TalkInv, WritingOk, RetryOk, Silent
  <2>. QED  BY <1>16, <1>18, <2>5, <2>6, <2>7 DEF TalkInv
<1>. QED  BY <1>9, <1>20, <1>23, <1>24, <1>25

\* What a call of filter_write changes, and leaves alone; a write that is
\* repeated is always the one that blocked.
LEMMA WriteEffects ==
    ASSUME WaitInv, TalkInv, Writes, NEW result, WriteThroughFilter(result)
    PROVE  /\ pc \in {"handshake", "write", "shutdown"} /\ Loop = pc /\ ~Gone /\ chain = "installed"
           /\ UNCHANGED <<world, clock, chain, seen>> /\ status = 1 /\ ~BadRetry
           /\ Asked = [what |-> Asked.what, bytes |-> Asked.bytes] /\ Asked \in Reply
<1>1. pc \in {"handshake", "write", "shutdown"} /\ Loop = pc /\ ~Gone
  BY DEF Writes, WriteThroughFilter, Handshaking, Gone, Loop
<1>2. chain = "installed" /\ status = 1
  BY <1>1 DEF TalkInv, HandshakeOk, WritingOk, Attached, Late, SslLoops
<1>3. UNCHANGED <<world, clock, chain, seen>>
  BY DEF WriteThroughFilter, objects
<1>4. ~BadRetry
  BY <1>1 DEF TalkInv, RetryOk, BadRetry
<1>5. Asked = [what |-> Asked.what, bytes |-> Asked.bytes]
  BY <1>1 DEF Asked
<1>6. Asked \in Reply
  <2>1. CASE pc = "handshake"
    <3>1. ssl.step \in {2, 5}
      BY <1>1, <2>1 DEF Writes, Handshaking, Flight, Flights, TalkInv, HandshakeOk
    <3>2. Flight.what \in {"hello", "finished"}
      BY <3>1 DEF Flight, Flights
    <3>3. Asked = [what |-> Flight.what, bytes |-> <<>>]
      BY <1>1, <2>1 DEF Asked
    <3>. QED  BY <3>2, <3>3 DEF Reply
  <2>2. CASE pc = "write"
    <3>1. Asked = [what |-> "data", bytes |-> SubSeq(Message, app.sent + 1, app.used)]
      BY <1>1, <2>2 DEF Asked
    <3>2. app.sent = 0
      BY <1>1, <2>2 DEF TalkInv, WritingOk
    <3>3. SubSeq(Message, app.sent + 1, app.used) \in Seq(Nat)
      <4>1. PICK used \in Nat, c \in Nat : used = app.used /\ c = Capacity /\ used <= c
        BY DemoAssumption DEF TalkInv, TalkTypes
      <4>2. app.plaintext \in [1 .. c -> Nat]
        BY <4>1 DEF TalkInv, TalkTypes
      <4>3. app.plaintext \in Seq(Nat) /\ Len(app.plaintext) = c
        BY <4>2
      <4>4. Message \in Seq(Nat) /\ Len(Message) = used
        BY <4>1, <4>3, SubSeqProperties DEF Message
      <4>. QED  BY <3>2, <4>1, <4>4, SubSeqProperties
    <3>. QED  BY <3>1, <3>3 DEF Reply
  <2>3. CASE pc = "shutdown"
    BY <1>1, <2>3 DEF Asked, Reply
  <2>. QED  BY <1>1, <2>1, <2>2, <2>3
<1>. QED  BY <1>1, <1>2, <1>3, <1>4, <1>5, <1>6

\* No room: what was asked for is asked for again; it fails only for a reset.
LEMMA WriteBlocksTalk ==
    ASSUME WaitInv, TalkInv, WriteBlocks
    PROVE  TalkInv'
<1>1. /\ Writes /\ WriteResult # "ok" /\ WriteThroughFilter(WriteResult)
      /\ ssl' = [ssl EXCEPT !.writing = Writing]
      /\ UNCHANGED <<status, sock, wire, app>>
  BY DEF WriteBlocks
<1>2. /\ pc \in {"handshake", "write", "shutdown"} /\ Loop = pc /\ ~Gone /\ chain = "installed"
      /\ UNCHANGED <<world, clock, chain, seen>> /\ ~BadRetry
  BY <1>1, WriteEffects
<1>3. /\ WriteResult \in {"again", "failed"} /\ (WriteResult = "failed" => sock.end # "open")
      /\ Asked = [what |-> Writing.what, bytes |-> Writing.bytes]
  BY <1>1, <1>2, GivesRoom DEF WaitInv, WriteResult
<1>4. SslError(FilterWrite(bio, WriteResult), "write") = IF WriteResult = "again" THEN "write" ELSE "failed"
  BY <1>3, FilterReports DEF WaitInv, SessionOk
<1>5. /\ ssl'.step = ssl.step /\ ssl'.plain = ssl.plain /\ ssl'.active = ssl.active
      /\ ssl'.writing = Writing
  BY <1>1 DEF WaitInv, SessionOk
<1>6. CASE WriteResult = "again"
  <2>1. pc' = "wait" /\ wait'.back = pc
    BY <1>4, <1>6 DEF WriteBlocks, RetrySsl
  <2>2. Loop' = Loop /\ ~Gone'
    BY <1>2, <2>1 DEF Loop, Gone
  <2>3. Writes' /\ Asked' = Asked
    BY <1>1, <1>2, <1>5, <2>2 DEF Writes, Handshaking, Flight, Asked, Message
  <2>4. RetryOk'
    BY <1>3, <1>5, <2>3 DEF RetryOk, BadRetry
  <2>5. SameTalk
    BY <1>1, <1>2, <1>5 DEF SameTalk, TalkInv, TalkTypes, RecordsTaken
  <2>. QED  BY <1>2, <2>2, <2>4, <2>5, StaysTalk
<1>7. CASE WriteResult = "failed"
  <2>1. pc' = "cleanup"
    BY <1>4, <1>7 DEF WriteBlocks, RetrySsl
  <2>2. Reasons'
    BY <1>1, <1>3, <1>7 DEF Reasons
  <2>3. TalkTypes' /\ Copied'
    BY <1>1, <1>2, <1>5 DEF TalkInv, TalkTypes, Copied
  <2>. QED  BY <1>1, <1>2, <2>1, <2>2, <2>3, FailTalk
<1>. QED  BY <1>3, <1>6, <1>7

\* The kernel's socket buffer takes no more of what the peer sent.
LEMMA SockWritten ==
    ASSUME WaitInv, sock' = [sock EXCEPT !.unread = @ + Gives]
    PROVE  sock'.arrived = sock.arrived /\ sock'.end = sock.end /\ RecordsTaken' = RecordsTaken
  BY DEF WaitInv, SessionOk, RecordsTaken

\* Part of a record: the rest of the same one is left.
LEMMA WritesPartTalk ==
    ASSUME WaitInv, TalkInv, WritesPart
    PROVE  TalkInv'
<1>1. /\ Writes /\ WriteResult = "ok" /\ WriteThroughFilter("ok")
      /\ UNCHANGED <<pc, wait, status, wire, app>>
      /\ sock' = [sock EXCEPT !.unread = @ + Gives]
  BY DEF WritesPart
<1>2. /\ pc \in {"handshake", "write", "shutdown"} /\ Loop = pc /\ ~Gone /\ ~BadRetry
      /\ UNCHANGED <<world, clock, chain, seen>>
  BY <1>1, WriteEffects
<1>3. PICK writing : writing = Writing
  OBVIOUS
<1>4. /\ writing = [what |-> writing.what, bytes |-> writing.bytes, left |-> writing.left]
      /\ Asked = [what |-> writing.what, bytes |-> writing.bytes]
  BY <1>2, <1>3, GivesRoom DEF WaitInv
<1>5. PICK left : left = writing.left - Gives
  OBVIOUS
<1>6. ssl' = [ssl EXCEPT !.writing = [writing EXCEPT !.left = left]]
  BY <1>3, <1>5 DEF WritesPart
<1>7. /\ ssl'.step = ssl.step /\ ssl'.plain = ssl.plain /\ ssl'.active = ssl.active
      /\ ssl'.writing = [writing EXCEPT !.left = left]
  BY <1>6 DEF WaitInv, SessionOk
<1>8. ssl'.writing.what = writing.what /\ ssl'.writing.bytes = writing.bytes
  BY <1>4, <1>7
<1>9. Loop' = Loop /\ ~Gone'
  BY <1>1, <1>2 DEF Loop, Gone
<1>10. Writes' /\ Asked' = Asked
  BY <1>1, <1>2, <1>7, <1>9 DEF Writes, Handshaking, Flight, Asked, Message
<1>11. RetryOk'
  BY <1>4, <1>8, <1>10 DEF RetryOk, BadRetry
<1>12. SameTalk
  BY <1>1, <1>2, <1>7, SockWritten DEF SameTalk, TalkInv, TalkTypes
<1>. QED  BY <1>2, <1>9, <1>11, <1>12, StaysTalk

\* A record is with the kernel whole.
LEMMA RestEffects ==
    ASSUME WaitInv, TalkInv, WritesRest
    PROVE  /\ pc \in {"handshake", "write", "shutdown"} /\ Loop = pc /\ ~Gone /\ chain = "installed"
           /\ UNCHANGED <<world, clock, chain, seen>> /\ status = 1
           /\ sock'.arrived = sock.arrived /\ sock'.end = sock.end /\ RecordsTaken' = RecordsTaken
           /\ wire \in Seq(Reply) /\ wire' \in Seq(Reply) /\ Len(wire) \in Nat
           /\ Len(wire') = Len(wire) + 1 /\ wire'[Len(wire) + 1] = Asked
           /\ \A i \in 1 .. Len(wire) : wire'[i] = wire[i]
           /\ Last(wire') = Asked
<1>1. /\ Writes /\ WriteThroughFilter("ok") /\ sock' = [sock EXCEPT !.unread = @ + Gives]
      /\ wire' = Append(wire, Asked)
  BY DEF WritesRest
<1>2. PICK records \in Seq(Reply) : records = wire
  BY DEF TalkInv, TalkTypes
<1>3. PICK record \in Reply : record = Asked
  BY <1>1, WriteEffects
<1>4. /\ Append(records, record) \in Seq(Reply) /\ Len(records) \in Nat
      /\ Len(Append(records, record)) = Len(records) + 1
      /\ Append(records, record)[Len(records) + 1] = record
      /\ \A i \in 1 .. Len(records) : Append(records, record)[i] = records[i]
  BY AppendProperties, LenProperties
<1>5. wire' = Append(records, record)
  BY <1>1, <1>2, <1>3
<1>6. Last(wire') = Asked
  BY <1>3, <1>4, <1>5 DEF Last
<1>. QED  BY <1>1, <1>2, <1>3, <1>4, <1>5, <1>6, WriteEffects, SockWritten

\* A flight of the server's handshake.
LEMMA WritesFlightTalk ==
    ASSUME WaitInv, TalkInv, WritesFlight
    PROVE  TalkInv'
<1>1. /\ Handshaking /\ WritesRest /\ StepsOn /\ UNCHANGED <<status, app>> /\ Writes
      /\ pc = "handshake" /\ Loop = "handshake"
  BY RestEffects DEF WritesFlight, WritesRest, Handshaking
<1>2. ssl.step \in {2, 5} /\ Flight = Flights[ssl.step] /\ Asked.bytes = <<>>
  BY <1>1 DEF TalkInv, HandshakeOk, Writes, Handshaking, Flight, Flights, Asked
<1> DEFINE active == IF Flight.what = "finished" THEN ssl.active \cup Offloads("tx") ELSE ssl.active
<1>3. /\ ssl'.step = ssl.step + 1 /\ ssl'.plain = ssl.plain /\ ssl'.active = active
      /\ ssl'.writing = NoWrite
  <2>1. ssl' = NextStep([Written(ssl) EXCEPT !.active = active])
    <3>1. Written(ssl).active = ssl.active
      BY DEF Written, WaitInv, SessionOk
    <3>. QED  BY <3>1 DEF WritesFlight
  <2> HIDE DEF active
  <2>2. ssl = [step |-> ssl.step, plain |-> ssl.plain, writing |-> ssl.writing, active |-> ssl.active]
    BY DEF WaitInv, SessionOk
  <2>. QED  BY <2>1, <2>2 DEF NextStep, Written
<1>4. active \subseteq world.offload /\ ("rx" \in active <=> "rx" \in ssl.active)
  <2>1. Offloads("tx") = world.offload \cap {"tx"}
    BY <1>1, RestEffects DEF Offloads, FilterCtrl
  <2>2. ssl.active \subseteq world.offload
    BY DEF TalkInv, TalkTypes
  <2>. QED  BY <2>1, <2>2
<1> HIDE DEF active
<1>5. /\ ssl.plain = <<>> /\ app.used = 0 /\ seen.by = {} /\ RecordsTaken = FlightsTaken[ssl.step]
      /\ (ssl.step >= 4 => ("rx" \in ssl.active <=> "rx" \in world.offload))
      /\ Silent /\ app.sent = 0
  BY <1>1, RestEffects DEF TalkInv, HandshakeOk, WritingOk
<1>6. /\ pc' = (IF ssl.step = 5 THEN "gate" ELSE "handshake") /\ Loop' = pc' /\ ~Gone'
  BY <1>1, <1>2 DEF StepsOn, Flights, Loop, Gone
<1>7. RecordsTaken' = FlightsTaken[ssl'.step]
  <2>1. FlightsTaken[ssl.step] = FlightsTaken[ssl.step + 1]
    BY <1>2 DEF FlightsTaken
  <2>. QED  BY <1>1, <1>3, <1>5, <2>1, RestEffects
<1>8. TalkTypes' /\ Copied'
  <2>1. ssl'.step \in 1 .. 6 /\ ssl'.plain \in Seq(Nat) /\ ssl'.active \subseteq world.offload
    BY <1>2, <1>3, <1>4 DEF TalkInv, TalkTypes
  <2>. QED  BY <1>1, <2>1, RestEffects DEF TalkInv, TalkTypes, Copied
<1>9. HandshakeOk'
  <2>1. /\ world' = world /\ chain' = "installed" /\ app' = app /\ seen' = seen
    BY <1>1, RestEffects
  <2>2. \/ ssl.step = 2 /\ ssl'.step = 3 /\ pc' = "handshake"
        \/ ssl.step = 5 /\ ssl'.step = 6 /\ pc' = "gate"
    BY <1>2, <1>3, <1>6
  <2>. QED  BY <1>3, <1>4, <1>5, <1>6, <1>7, <2>1, <2>2 DEF HandshakeOk, SetsUp
<1>10. ReadingOk' /\ EndsOk' /\ RetryOk'
  BY <1>3, <1>6 DEF ReadingOk, EndsOk, RetryOk
<1>11. WritingOk'
  <2>1. Silent'
    <3>1. SUFFICES ASSUME NEW i \in 1 .. Len(wire') PROVE wire'[i].bytes = <<>>
      BY DEF Silent
    <3>2. i \in 1 .. Len(wire) \/ i = Len(wire) + 1
      BY <1>1, RestEffects
    <3>. QED  BY <1>1, <1>2, <1>5, <3>2, RestEffects DEF Silent
  <2>. QED  BY <1>1, <1>5, <1>6, <2>1, RestEffects DEF WritingOk
<1>. QED  BY <1>8, <1>9, <1>10, <1>11 DEF TalkInv

\* All of the message, in one record.
LEMMA WritesEchoTalk ==
    ASSUME WaitInv, TalkInv, WritesEcho
    PROVE  TalkInv'
<1>1. /\ pc = "write" /\ WritesRest /\ ssl' = Written(ssl) /\ pc' = "shutdown" /\ UNCHANGED status
      /\ Loop = "write" /\ Loop' = "shutdown" /\ ~Gone'
  BY DEF WritesEcho, Loop, Gone
<1>2. /\ Trusted /\ Complete(app) /\ seen.by = {Layer} /\ Silent /\ app.sent = 0 /\ ssl.step = 6
  BY <1>1, RestEffects DEF TalkInv, WritingOk, HandshakeOk
<1>3. PICK used \in Nat, c \in Nat : used = app.used /\ c = Capacity /\ used <= c
  BY DemoAssumption DEF TalkInv, TalkTypes
<1>4. Message \in Seq(Nat) /\ Len(Message) = used
  <2>1. app.plaintext \in [1 .. c -> Nat]
    BY <1>3 DEF TalkInv, TalkTypes
  <2>2. app.plaintext \in Seq(Nat) /\ Len(app.plaintext) = c
    BY <2>1
  <2>. QED  BY <1>3, <2>2, SubSeqProperties DEF Message
<1>5. PICK bytes \in Seq(Nat) : bytes = Asked.bytes /\ bytes = Message
  <2>1. Asked.bytes = SubSeq(Message, 1, used)
    BY <1>1, <1>2, <1>3 DEF Asked
  <2>2. SubSeq(Message, 1, used) = Message
    BY <1>4, SubSeqFull
  <2>. QED  BY <1>4, <2>1, <2>2
<1>6. /\ app' \in [plaintext : [1 .. Capacity -> Nat], used : 0 .. Capacity, sent : Nat,
                   ktls_read_calls : Nat, before_calls : Nat]
      /\ app'.used = app.used /\ app'.plaintext = app.plaintext
  <2>1. PICK len \in Nat : len = app.sent + Len(bytes)
    BY <1>2, <1>5, LenProperties
  <2>2. app' = [app EXCEPT !.sent = len]
    BY <1>5, <2>1 DEF WritesEcho
  <2>. QED  BY <2>2 DEF TalkInv, TalkTypes
<1>7. /\ ssl'.step = ssl.step /\ ssl'.plain = ssl.plain /\ ssl'.active = ssl.active /\ ssl'.writing = NoWrite
  BY <1>1 DEF WaitInv, SessionOk, Written
<1>8. TalkTypes' /\ Copied'
  BY <1>1, <1>6, <1>7, RestEffects DEF TalkInv, TalkTypes, Copied
<1>9. HandshakeOk' /\ ReadingOk' /\ EndsOk' /\ RetryOk'
  BY <1>1, <1>2, <1>7, RestEffects DEF HandshakeOk, ReadingOk, EndsOk, RetryOk, SetsUp
<1>10. Echoed'
  <2>1. PICK k \in Nat : k = Len(wire') /\ k = Len(wire) + 1
    BY <1>1, RestEffects
  <2>2. k \in 1 .. Len(wire') /\ wire'[k].bytes = bytes
    <3>1. wire'[Len(wire) + 1] = Asked
      BY <1>1, RestEffects
    <3>2. k \in 1 .. k
      BY <1>1, <2>1, RestEffects
    <3>. QED  BY <1>5, <2>1, <3>1, <3>2
  <2>3. Message' = bytes
    BY <1>5, <1>6 DEF Message
  <2>4. ASSUME NEW i \in 1 .. Len(wire'), i # k PROVE wire'[i].bytes = <<>>
    <3>1. i \in 1 .. Len(wire)
      BY <1>1, <2>1, <2>4, RestEffects
    <3>. QED  BY <1>1, <1>2, <3>1, RestEffects DEF Silent
  <2>. QED  BY <2>2, <2>3, <2>4 DEF Echoed
<1>11. WritingOk'
  <2>1. Trusted' /\ Complete(app)' /\ Layer' = Layer
    BY <1>1, <1>2, <1>6, <1>7, RestEffects DEF Trusted, Complete, Layer
  <2>. QED  BY <1>1, <1>2, <1>10, <2>1, RestEffects DEF WritingOk
<1>. QED  BY <1>8, <1>9, <1>11 DEF TalkInv

\* close_notify is the last record, and carries no bytes.
LEMMA WritesCloseNotifyTalk ==
    ASSUME WaitInv, TalkInv, WritesCloseNotify
    PROVE  TalkInv'
<1>1. /\ pc = "shutdown" /\ WritesRest /\ ssl' = Written(ssl) /\ pc' = "cleanup" /\ status' = 0
      /\ UNCHANGED app /\ Loop = "shutdown" /\ Loop' = "cleanup" /\ Gone'
  BY DEF WritesCloseNotify, Loop, Gone
<1>2. /\ Trusted /\ Complete(app) /\ seen.by = {Layer} /\ Echoed
  BY <1>1, RestEffects DEF TalkInv, WritingOk
<1>3. Asked = [what |-> "close_notify", bytes |-> <<>>]
  BY <1>1 DEF Asked
<1>4. /\ ssl'.step = ssl.step /\ ssl'.plain = ssl.plain /\ ssl'.active = ssl.active
  BY <1>1 DEF WaitInv, SessionOk, Written
<1>5. TalkTypes' /\ Copied'
  BY <1>1, <1>4, RestEffects DEF TalkInv, TalkTypes, Copied
<1>6. HandshakeOk' /\ ReadingOk' /\ RetryOk' /\ WritingOk'
  BY <1>1 DEF HandshakeOk, ReadingOk, RetryOk, WritingOk, SetsUp, Attached, Late, SslLoops
<1>7. Echoed'
  <2>1. PICK k \in 1 .. Len(wire) : /\ wire[k].bytes = Message
                                    /\ \A i \in 1 .. Len(wire) : i # k => wire[i].bytes = <<>>
    BY <1>2 DEF Echoed
  <2>2. k \in 1 .. Len(wire') /\ wire'[k].bytes = Message /\ Message' = Message
    BY <1>1, <2>1, RestEffects DEF Message
  <2>3. ASSUME NEW i \in 1 .. Len(wire'), i # k PROVE wire'[i].bytes = <<>>
    <3>1. i \in 1 .. Len(wire) \/ i = Len(wire) + 1
      BY <1>1, RestEffects
    <3>. QED  BY <1>1, <1>3, <2>1, <2>3, <3>1, RestEffects
  <2>. QED  BY <2>2, <2>3 DEF Echoed
<1>8. Trusted' /\ Complete(app)' /\ seen'.by = {Layer'}
  BY <1>1, <1>2, <1>4, RestEffects DEF Trusted, Complete, Layer
<1>9. Last(wire)'.what = "close_notify"
  BY <1>1, <1>3, RestEffects
<1>10. EndsOk'
  BY <1>1, <1>7, <1>8, <1>9 DEF EndsOk
<1>. QED  BY <1>5, <1>6, <1>10 DEF TalkInv

\* Every step keeps the message's way.
LEMMA StepTalk == WaitInv /\ TalkInv /\ [Next]_vars => TalkInv'
<1> SUFFICES ASSUME WaitInv, TalkInv, [Next]_vars PROVE TalkInv'
  OBVIOUS
<1>. QED  BY OthersTalk, MainSetsUpTalk, WaitTalk, CleanupTalk, GateTalk, ReadBlocksTalk, ReadsPartTalk,
              ReadsFlightTalk, ReadsDataTalk, ReadRefusedTalk, ReadReturnsTalk, WriteBlocksTalk,
              WritesPartTalk, WritesFlightTalk, WritesEchoTalk, WritesCloseNotifyTalk DEF Next, Program

\* What is in the buffer is what the peer sent first.
LEMMA MessageIsFirst ==
    ASSUME TalkInv
    PROVE  /\ Message = SubSeq(Bytes(world.script), 1, app.used) /\ Message \in Seq(Nat)
           /\ Len(Message) = app.used
           /\ \A i \in 1 .. app.used : Message[i] = app.plaintext[i]
<1>1. PICK used \in Nat, c \in Nat : used = app.used /\ c = Capacity /\ used <= c
  BY DemoAssumption DEF TalkInv, TalkTypes
<1>2. PICK all \in Seq(Nat) : all = Bytes(world.script)
  BY ScriptResult, SentResult DEF TalkInv, TalkTypes
<1>3. used <= Len(all) /\ Len(all) \in Nat /\ \A i \in 1 .. used : app.plaintext[i] = all[i]
  BY <1>1, <1>2, LenProperties DEF TalkInv, Copied
<1>4. app.plaintext \in Seq(Nat) /\ Len(app.plaintext) = c
  <2>1. app.plaintext \in [1 .. c -> Nat]
    BY <1>1 DEF TalkInv, TalkTypes
  <2>. QED  BY <2>1
<1>5. /\ Message \in Seq(Nat) /\ Len(Message) = used
      /\ \A i \in 1 .. used : Message[i] = app.plaintext[i]
  BY <1>1, <1>4, SubSeqProperties DEF Message
<1>6. PICK first \in Seq(Nat) : /\ first = SubSeq(all, 1, used) /\ Len(first) = used
                                /\ \A i \in 1 .. used : first[i] = all[i]
  <2>1. used \in 0 .. Len(all)
    BY <1>3
  <2>2. /\ SubSeq(all, 1, used) \in Seq(Nat) /\ Len(SubSeq(all, 1, used)) = used
        /\ \A i \in 1 .. used : SubSeq(all, 1, used)[i] = all[i]
    <3>1. used + 1 - 1 = used /\ 1 <= used + 1
      OBVIOUS
    <3>. QED  BY <1>3, <2>1, SubSeqProperties
  <2>. QED  BY <2>2
<1>7. Message = first
  BY <1>3, <1>5, <1>6, SeqEqual
<1>. QED  BY <1>1, <1>2, <1>5, <1>6, <1>7

\* One record at most carries bytes, and these are the message.
LEMMA EarnsPass == TalkInv => PassIsEarned
<1> SUFFICES ASSUME TalkInv PROVE PassIsEarned
  OBVIOUS
<1>1. wire \in Seq(Reply) /\ Carry(wire)
  <2>1. wire \in Seq(Reply)
    BY DEF TalkInv, TalkTypes
  <2>2. \A i \in 1 .. Len(wire) : wire[i] \in Reply
    BY <2>1, ElementOfSeq
  <2>. QED  BY <2>1, <2>2 DEF Carry, Reply
<1>2. Silent => Bytes(wire) = <<>>
  BY <1>1, BytesOfNone DEF Silent
<1>3. Echoed => Bytes(wire) = Message
  <2>1. SUFFICES ASSUME Echoed PROVE Bytes(wire) = Message
    OBVIOUS
  <2>2. PICK k \in 1 .. Len(wire) : /\ wire[k].bytes = Message
                                    /\ \A i \in 1 .. Len(wire) : i # k => wire[i].bytes = <<>>
    BY <2>1 DEF Echoed
  <2>. QED  BY <1>1, <2>2, BytesOfOne
<1>4. Silent \/ Echoed
  BY DEF TalkInv, WritingOk, EndsOk
<1>5. PICK message \in Seq(Nat) : message = SubSeq(Bytes(world.script), 1, app.used) /\ message = Message
  BY MessageIsFirst
<1>6. ASSUME status = 0
      PROVE  /\ Bytes(wire) = message
             /\ Newline \in {message[i] : i \in 1 .. Len(message)}
             /\ Last(wire).what = "close_notify"
             /\ seen.by = {IF world.userspace THEN "user" ELSE "kernel"}
             /\ world.userspace => ssl.active = {}
  <2>1. Gone
    BY <1>6 DEF TalkInv, WritingOk
  <2>2. /\ Echoed /\ Complete(app) /\ Trusted /\ seen.by = {Layer}
        /\ Last(wire).what = "close_notify"
    BY <1>6, <2>1 DEF TalkInv, EndsOk
  <2>3. Newline \in {message[i] : i \in 1 .. Len(message)}
    <3>1. PICK i \in 1 .. app.used : app.plaintext[i] = Newline
      BY <2>2 DEF Complete
    <3>. QED  BY <1>5, <3>1, MessageIsFirst
  <2>. QED  BY <1>3, <1>5, <2>2, <2>3 DEF Trusted, Layer
<1>. QED  BY <1>2, <1>3, <1>4, <1>5, <1>6 DEF PassIsEarned

\* The demonstration passes only for the whole message, decrypted by the layer
\* that the mode asks for, echoed once and followed by close_notify, over any
\* split of it into records, partial reads and writes and retries.
THEOREM PassesForReason == Spec => []PassIsEarned
<1>. QED  BY WaitInitially, StepWaits, TalkInitially, StepTalk, EarnsPass, PTL DEF Spec

\* It fails only for a reason: no call that would block, and no write that is
\* repeated, ends it.
THEOREM FailsOnlyForReason == Spec => []FailsForReason
<1>1. TalkInv => FailsForReason
  BY DEF TalkInv, EndsOk, Gone, Reasons, FailsForReason
<1>. QED  BY <1>1, WaitInitially, StepWaits, TalkInitially, StepTalk, PTL DEF Spec
=============================================================================
