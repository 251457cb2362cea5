-------------------------- MODULE ChatClientProofs --------------------------
(***************************************************************************)
(* Proofs about ChatClient for buffers of any size and any number of       *)
(* lines: the receiver lives strictly inside send_loop, between its start  *)
(* and its join, and that is why it shares the socket with nobody.         *)
(***************************************************************************)
EXTENDS ChatClient, TLAPS

USE ClientAssumption
USE DEF threadVars, inputVars, serverVars, Reading, Typing, Sending, Ending, Line

\* The program starts in the invariant.
LEMMA InitEstablishesInv == Init => ClientInv
<1> SUFFICES ASSUME Init PROVE ClientInv
  OBVIOUS
<1>1. inbox \in Seq(Line) /\ Len(inbox) = 0
  BY DEF Init
<1>2. TypeOK
  <2>1. Len(inbox) <= Capacity /\ outbox \in 0..Capacity
    BY <1>1 DEF Init
  <2>2. typed \in 0..MaxTyped /\ bcast \in 0..MaxBcast /\ owed \in 0..3
    BY DEF Init
  <2>3. QED
    BY <1>1, <2>1, <2>2 DEF Init, TypeOK
<1>3. QED
  BY <1>2 DEF Init, ClientInv, ReceiverWithin, SocketWithin, NothingMissed

-----------------------------------------------------------------------------
(* The steps of the three parties.                                         *)

\* The main thread up to the start of the receiver.
LEMMA EntryPreservesInv ==
    ASSUME ClientInv,
           \/ Connect \/ ConnectFails \/ MainReads \/ MainReadsNothing
           \/ Spawn \/ SpawnFails
    PROVE  ClientInv'
<1> USE DEF ClientInv, ReceiverWithin, SocketWithin, NothingMissed, Main
<1>1. CASE Connect
  BY <1>1 DEF Connect, TypeOK
<1>2. CASE ConnectFails
  BY <1>2 DEF ConnectFails, TypeOK
<1>3. CASE MainReads
  <2>1. main' \in {"choice", "name", "password", "banner", "menu", "spawn"}
    BY <1>3 DEF MainReads, AfterReading
  <2>2. main' = "spawn" => main = "banner"
    BY <1>3 DEF MainReads, AfterReading
  <2>3. inbox' \in Seq(Line) /\ Len(inbox') <= Capacity
    BY <1>3 DEF MainReads, TypeOK
  <2>4. /\ running' = (running \/ main' = "banner") /\ main \in Reading
        /\ UNCHANGED <<receiver, started, socket, inputVars, outbox, serverVars>>
    BY <1>3 DEF MainReads
  <2>5. running' \in BOOLEAN /\ (main' \in {"banner", "spawn"} => running')
    BY <2>2, <2>4 DEF TypeOK
  <2>6. TypeOK'
    BY <2>1, <2>3, <2>4, <2>5 DEF TypeOK
  <2>7. ReceiverWithin' /\ SocketWithin' /\ NothingMissed'
    BY <2>1, <2>4, <2>5 DEF TypeOK
  <2>8. QED
    BY <2>6, <2>7
<1>4. CASE MainReadsNothing
  BY <1>4 DEF MainReadsNothing, AfterReading, TypeOK
<1>5. CASE Spawn
  BY <1>5 DEF Spawn, TypeOK
<1>6. CASE SpawnFails
  BY <1>6 DEF SpawnFails, TypeOK
<1>7. QED
  BY <1>1, <1>2, <1>3, <1>4, <1>5, <1>6

\* The user's lines.
LEMMA TypingPreservesInv ==
    ASSUME ClientInv, Type \/ EndOfInput \/ Send
    PROVE  ClientInv'
<1> USE DEF ClientInv, ReceiverWithin, SocketWithin, NothingMissed
<1>1. CASE Type
  <2>1. /\ main = "choice" => main' \in {"send_choice", "send_wrong"}
        /\ main = "name" => main' = "send_name"
        /\ main = "password" => main' = "send_password"
        /\ main = "chat" => main' \in {"send_line", "send_exit", "chat"}
        /\ main \in Typing
    BY <1>1 DEF Type, AfterTyping
  <2>2. TypeOK'
    BY <1>1, <2>1 DEF Type, TypeOK
  <2>3. ReceiverWithin' /\ SocketWithin' /\ NothingMissed'
    BY <1>1, <2>1 DEF Type, TypeOK
  <2>4. QED
    BY <2>2, <2>3
<1>2. CASE EndOfInput
  <2>1. /\ main = "choice" => main' = "banner"
        /\ main \in {"name", "password"} => main' = "menu"
        /\ main = "chat" => main' = "stop"
        /\ main \in Typing
    BY <1>2 DEF EndOfInput
  <2>2. /\ running' = (running \/ main' = "banner") /\ input' = "ended"
        /\ UNCHANGED <<receiver, started, socket, typed, outbox, inbox, serverVars>>
    BY <1>2 DEF EndOfInput
  <2>3. running' \in BOOLEAN /\ (running \/ main' = "banner" => running')
    BY <2>2 DEF TypeOK
  <2>4. TypeOK'
    BY <2>1, <2>2, <2>3 DEF TypeOK
  <2>5. ReceiverWithin' /\ SocketWithin' /\ NothingMissed'
    BY <2>1, <2>2, <2>3 DEF TypeOK
  <2>6. QED
    BY <2>4, <2>5
<1>3. CASE Send
  BY <1>3 DEF Send, AfterSending, TypeOK
<1>4. QED
  BY <1>1, <1>2, <1>3

\* The end of send_loop and the destructor.
LEMMA EndingPreservesInv ==
    ASSUME ClientInv,
           Stop \/ Shutdown \/ Join("join", "destroy") \/ Destroy
             \/ Join("destroy_thread", "exited")
    PROVE  ClientInv'
<1> USE DEF ClientInv, TypeOK, ReceiverWithin, SocketWithin, NothingMissed, Main
<1>1. CASE Stop
  BY <1>1 DEF Stop
<1>2. CASE Shutdown
  BY <1>2 DEF Shutdown
<1>3. CASE Join("join", "destroy")
  BY <1>3 DEF Join
<1>4. CASE Destroy
  BY <1>4 DEF Destroy
<1>5. CASE Join("destroy_thread", "exited")
  BY <1>5 DEF Join
<1>6. QED
  BY <1>1, <1>2, <1>3, <1>4, <1>5

\* The receiving thread.
LEMMA ReceiverPreservesInv ==
    ASSUME ClientInv, ReceiverStep
    PROVE  ClientInv'
<1> USE DEF ClientInv, TypeOK, ReceiverWithin, SocketWithin, NothingMissed
<1>1. CASE ReceiverTests
  BY <1>1 DEF ReceiverTests
<1>2. CASE ReceiverReads
  BY <1>2 DEF ReceiverReads
<1>3. CASE ReceiverReadsNothing
  BY <1>3 DEF ReceiverReadsNothing, AtEnd
<1>4. QED
  BY <1>1, <1>2, <1>3 DEF ReceiverStep

\* The server: nothing it does makes the client miss a line.
LEMMA ServerPreservesInv ==
    ASSUME ClientInv, ServerServes \/ Broadcast \/ ServerCloses
    PROVE  ClientInv'
<1> USE DEF ClientInv, TypeOK, ReceiverWithin, SocketWithin, NothingMissed
<1>1. CASE ServerReads
  BY <1>1 DEF ServerReads
<1>2. ASSUME NEW line \in Line, Arrives(line)
      PROVE  inbox' \in Seq(Line) /\ Len(inbox') <= Capacity
  BY <1>2 DEF Arrives
<1>3. ASSUME NEW line \in Line, ServerAnswers(line)
      PROVE  ClientInv'
  <2>1. inbox' \in Seq(Line) /\ Len(inbox') <= Capacity
    BY <1>2, <1>3 DEF ServerAnswers
  <2>2. QED
    BY <1>3, <2>1 DEF ServerAnswers, Arrives
<1>4. CASE Broadcast
  <2>1. inbox' \in Seq(Line) /\ Len(inbox') <= Capacity
    BY <1>2, <1>4 DEF Broadcast
  <2>2. QED
    BY <1>4, <2>1 DEF Broadcast, Arrives
<1>5. CASE ServerCloses
  BY <1>5 DEF ServerCloses
<1>6. QED
  BY <1>1, <1>3, <1>4, <1>5 DEF ServerServes

\* The client keeps its invariant against any server and any user (Client).
THEOREM ClientInvariant ==
    Spec => []ClientInv
<1>1. Init => ClientInv
  BY InitEstablishesInv
<1>2. ClientInv /\ [Next]_vars => ClientInv'
  <2> SUFFICES ASSUME ClientInv, [Next]_vars PROVE ClientInv'
    OBVIOUS
  <2>1. CASE UNCHANGED vars
    BY <2>1 DEF vars, ClientInv, TypeOK, ReceiverWithin, SocketWithin, NothingMissed
  <2>2. CASE Exited
    BY <2>1, <2>2 DEF Exited
  <2>3. QED
    BY <2>1, <2>2, EntryPreservesInv, TypingPreservesInv, EndingPreservesInv,
       ReceiverPreservesInv, ServerPreservesInv DEF Next, MainStep
<1>3. QED
  BY <1>1, <1>2, PTL DEF Spec

\* No two threads of the client read one line between them (send_loop).
THEOREM ReadsAlone ==
    Spec => []OneReader
<1>1. ClientInv => OneReader
  BY DEF ClientInv, ReceiverWithin, OneReader
<1>2. QED
  BY <1>1, ClientInvariant, PTL

\* The descriptor is given back after the receiver has ended, on every way out
\* of run() (~Client).
THEOREM DescriptorKept ==
    Spec => []DescriptorOutlivesReceiver
<1>1. ClientInv => DescriptorOutlivesReceiver
  BY DEF ClientInv, TypeOK, ReceiverWithin, SocketWithin, DescriptorOutlivesReceiver
<1>2. QED
  BY <1>1, ClientInvariant, PTL

\* While the chat goes on no line of the server stays unread (recv_loop).
THEOREM NoLineMissed ==
    Spec => []NothingMissed
<1>1. ClientInv => NothingMissed
  BY DEF ClientInv
<1>2. QED
  BY <1>1, ClientInvariant, PTL

-----------------------------------------------------------------------------
(* The end of the program.                                                 *)

\* Whoever joins the receiver has stopped it and woken it before (send_loop).
LEMMA StepKeepsJoinReturning ==
    ClientInv /\ JoinReturns /\ [Next]_vars => JoinReturns'
<1> SUFFICES ASSUME ClientInv, JoinReturns, [Next]_vars PROVE JoinReturns'
  OBVIOUS
<1> USE DEF JoinReturns, AtEnd
<1>1. CASE \/ Connect \/ ConnectFails \/ MainReads \/ MainReadsNothing \/ Spawn
           \/ SpawnFails \/ Type \/ EndOfInput \/ Send
  <2>1. main' \notin {"shutdown", "join"}
    BY <1>1 DEF Connect, ConnectFails, MainReads, MainReadsNothing, Spawn, SpawnFails,
       Type, EndOfInput, Send, Main, AfterReading, AfterTyping, AfterSending
  <2>2. QED
    BY <2>1
<1>2. CASE \/ Stop \/ Shutdown \/ Join("join", "destroy") \/ Destroy
           \/ Join("destroy_thread", "exited")
  <2>1. \/ main' = "shutdown" /\ ~running'
        \/ main = "shutdown" /\ main' = "join" /\ socket' = "shut"
             /\ UNCHANGED <<receiver, running, inbox, peer>>
        \/ main' \notin {"shutdown", "join"}
    BY <1>2 DEF Stop, Shutdown, Join, Destroy, Main
  <2>2. QED
    BY <2>1
<1>3. CASE ReceiverStep \/ ServerServes \/ Broadcast \/ ServerCloses
  <2>1. UNCHANGED <<main, running, socket>>
    BY <1>3 DEF ReceiverStep, ReceiverTests, ReceiverReads, ReceiverReadsNothing,
       ServerServes, ServerReads, ServerAnswers, Broadcast, Arrives, ServerCloses
  <2>2. QED
    BY <2>1
<1>4. CASE Exited \/ UNCHANGED vars
  BY <1>4 DEF Exited, vars
<1>5. QED
  BY <1>1, <1>2, <1>3, <1>4 DEF Next, MainStep

\* The join in send_loop waits for a receiver that can go on to its end
\* (shutdown_rdwr, recv_loop).
THEOREM JoinFindsWokenReceiver ==
    Spec => []JoinReturns
<1>1. Init => JoinReturns
  BY DEF Init, JoinReturns
<1>2. ClientInv /\ JoinReturns /\ [Next]_vars => JoinReturns'
  BY StepKeepsJoinReturning
<1>3. QED
  BY <1>1, <1>2, ClientInvariant, PTL DEF Spec

\* After that the program is a bounded number of steps of its two threads away
\* from its end: what is left of ProgramEnds is that they are scheduled
\* (send_loop, recv_loop, ~Client).
THEOREM ProgramComesToAnEnd ==
    Spec => EndingAdvances
<1>1. ClientInv /\ JoinReturns /\ [Next]_vars =>
        [(main \in Ending \ {"stop"}) =>
            \/ MainLeft[main'] < MainLeft[main] /\ receiver' = receiver
            \/ /\ main' = main
               /\ \/ receiver' = receiver
                  \/ ReceiverLeft[receiver'] < ReceiverLeft[receiver]]_vars
  <2>1. SUFFICES ASSUME ClientInv, JoinReturns, Next, main \in Ending \ {"stop"}
                 PROVE  \/ MainLeft[main'] < MainLeft[main] /\ receiver' = receiver
                        \/ /\ main' = main
                           /\ \/ receiver' = receiver
                              \/ ReceiverLeft[receiver'] < ReceiverLeft[receiver]
    OBVIOUS
  <2>2. CASE Shutdown \/ Join("join", "destroy") \/ Destroy \/ Join("destroy_thread", "exited")
    BY <2>2 DEF Shutdown, Join, Destroy, Main, MainLeft
  <2>3. CASE ReceiverStep
    <3>1. main \in {"shutdown", "join"}
      BY <2>1, <2>3 DEF ClientInv, ReceiverWithin, ReceiverStep, ReceiverTests,
         ReceiverReads, ReceiverReadsNothing
    <3>2. ~running
      BY <2>1, <3>1 DEF JoinReturns
    <3>3. /\ main' = main
          /\ \/ receiver = "test" /\ receiver' = "ended"
             \/ receiver = "recv" /\ receiver' \in {"test", "ended"}
      BY <2>3, <3>2 DEF ReceiverStep, ReceiverTests, ReceiverReads, ReceiverReadsNothing
    <3>4. QED
      BY <3>3 DEF ReceiverLeft
  <2>4. CASE ServerServes \/ Broadcast \/ ServerCloses \/ Exited
    BY <2>4 DEF ServerServes, ServerReads, ServerAnswers, Broadcast, Arrives,
       ServerCloses, Exited, vars
  <2>5. ~(\/ Connect \/ ConnectFails \/ MainReads \/ MainReadsNothing \/ Spawn
          \/ SpawnFails \/ Type \/ EndOfInput \/ Send \/ Stop)
    BY <2>1 DEF Connect, ConnectFails, MainReads, MainReadsNothing, Spawn, SpawnFails,
       Type, EndOfInput, Send, Stop, Main
  <2>6. QED
    BY <2>1, <2>2, <2>3, <2>4, <2>5 DEF Next, MainStep
<1>2. QED
  BY <1>1, ClientInvariant, JoinFindsWokenReceiver, PTL DEF Spec, EndingAdvances
=============================================================================
