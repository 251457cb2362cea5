------------------------- MODULE WireDeliveryProofs -------------------------
(***************************************************************************)
(* Proofs about Wire that concern what the connections have been given:    *)
(* the parts of a frame arrive in order, and only parts for a session that *)
(* has been closed reach another one.  Both rest on WireInv and on what a  *)
(* sender holds between get_fd and ::send (NumberStands) and between two   *)
(* parts of one frame (SendersAgree).                                      *)
(***************************************************************************)
EXTENDS WireProofs, SequenceTheorems

USE WireAssumption
USE DEF NoFd, Closed, File, NoSession

LEMMA InitEstablishesDelivery == Init => DeliveryInv
<1> SUFFICES ASSUME Init PROVE DeliveryInv
  OBVIOUS
<1> USE DEF Init
<1>1. ActiveConnected /\ NumberStands
  BY DEF ActiveConnected, NumberStands, Holds
<1>2. StraysClosed /\ FramesKeepOrder
  BY DEF StraysClosed, FramesKeepOrder
<1>3. SendersAgree
  BY DEF SendersAgree, Agrees, SendLabels
<1>4. QED
  BY <1>1, <1>2, <1>3 DEF DeliveryInv

-----------------------------------------------------------------------------
(* The steps, by what they leave alone.                                    *)

\* A number is closed, or a free one is given to the registry or to a session
\* that has never had one.
TableStep ==
    \/ UNCHANGED table
    \/ \E n \in Number : table' = [table EXCEPT ![n] = Closed]
    \/ \E n \in Number : table[n] = Closed /\ table' = [table EXCEPT ![n] = File]
    \/ \E n \in Number, s \in Session :
            life[s] = "none" /\ table[n] = Closed /\ table' = [table EXCEPT ![n] = s]

\* Connections that are closed are forgotten, and no other gets anything.
Trims ==
    \A c \in Session :
        \/ wire'[c] = wire[c]
        \/ wire'[c] = <<>> /\ \E n \in Number : table[n] = c /\ table'[n] = Closed

\* Handler r goes on with what it was doing.
Stays(r) ==
    pc'[r] = pc[r] /\ to'[r] = to[r] /\ number'[r] = number[r] /\ part'[r] = part[r]

\* What exists goes on existing, and a closed session stays closed.
Ages ==
    \A t \in Session : life[t] # "none" =>
        life'[t] # "none" /\ (~active[t] => ~active'[t])

\* The steps of a handler that neither begin, continue nor end a send.
Apart(s) ==
    \/ OpenFile(s) \/ CloseFile(s) \/ AddClient(s) \/ AuthFails(s)
    \/ Recv(s) \/ RecvFails(s) \/ Leave(s) \/ Accept(s)

\* Closing the number of a UniqueFd is closing a number or nothing.
LEMMA ClosesIsTableStep ==
    ASSUME TypeOK, NEW n \in Number \cup {NoFd}, Closes(n)
    PROVE  TableStep /\ Trims
<1>1. CASE n = NoFd
  BY <1>1 DEF Closes, TableStep, Trims, kernelVars
<1>2. CASE n # NoFd
  <2>1. table' = [table EXCEPT ![n] = Closed] /\ n \in Number
    BY <1>2, ClosesTable
  <2>2. TableStep
    BY <2>1 DEF TableStep
  <2>3. table'[n] = Closed
    BY <2>1 DEF TypeOK
  <2>4. \A c \in Session : wire'[c] = wire[c] \/ (wire'[c] = <<>> /\ table[n] = c)
    BY <1>2 DEF Closes, Forgets, TypeOK
  <2>5. QED
    BY <2>1, <2>2, <2>3, <2>4 DEF Trims
<1>3. QED
  BY <1>1, <1>2

LEMMA MainSteps ==
    ASSUME TypeOK, ShutdownBegins \/ ShutdownStep
    PROVE  TableStep /\ Ages /\ Trims /\ \A r \in Session : Stays(r)
<1> USE DEF TypeOK, kernelVars, sessionVars, handlerVars
<1>1. CASE ShutdownBegins
  BY <1>1 DEF ShutdownBegins, TableStep, Trims, Ages, Stays
<1>2. ASSUME NEW s \in Session, ShutdownLooks(s)
      PROVE  TableStep /\ Ages /\ Trims /\ \A r \in Session : Stays(r)
  <2>1. fd[s] \in Number \cup {NoFd}
    OBVIOUS
  <2>2. TableStep /\ Trims
    BY <1>2, <2>1, ClosesIsTableStep DEF ShutdownLooks, TableStep, Trims
  <2>3. QED
    BY <1>2, <2>2 DEF ShutdownLooks, Ages, Stays
<1>3. CASE ShutdownClears \/ ShutdownEnds
  BY <1>3 DEF ShutdownClears, ShutdownEnds, TableStep, Trims, Ages, Stays
<1>4. QED
  BY <1>1, <1>2, <1>3 DEF ShutdownStep

LEMMA ApartSteps ==
    ASSUME TypeOK, LabelsAgree, NEW s \in Session, Apart(s)
    PROVE  /\ TableStep /\ Ages /\ Trims
           /\ \A r \in Session \ {s} : Stays(r)
           /\ pc[s] \notin SendLabels /\ pc'[s] \notin SendLabels /\ part'[s] = part[s]
<1> USE DEF TypeOK, Enter, SendLabels, kernelVars, sessionVars, handlerVars
<1>1. CASE OpenFile(s)
  <2>1. PICK n \in Number : Opens(n, File) /\ number' = [number EXCEPT ![s] = n]
    BY <1>1 DEF OpenFile
  <2>2. TableStep
    BY <2>1 DEF Opens, Free, TableStep
  <2>3. QED
    BY <1>1, <2>1, <2>2 DEF OpenFile, Trims, Ages, Stays
<1>2. CASE CloseFile(s)
  <2>1. TableStep /\ Trims
    BY <1>2, ClosesIsTableStep DEF CloseFile
  <2>2. QED
    BY <1>2, <2>1 DEF CloseFile, Ages, Stays
<1>3. CASE AddClient(s) \/ AuthFails(s) \/ Recv(s) \/ RecvFails(s) \/ RemoveClient(s)
  BY <1>3 DEF AddClient, AuthFails, Recv, RecvFails, RemoveClient, Waits, TableStep,
              Trims, Ages, Stays
<1>4. CASE CloseSession(s)
  <2>1. fd[s] \in Number \cup {NoFd}
    OBVIOUS
  <2>2. TableStep /\ Trims
    BY <1>4, <2>1, ClosesIsTableStep DEF CloseSession, TableStep, Trims
  <2>3. QED
    BY <1>4, <2>2 DEF CloseSession, Ages, Stays
<1>5. CASE ClearFd(s)
  BY <1>5 DEF ClearFd, TableStep, Trims, Ages, Stays
<1>6. CASE Delete(s)
  <2>1. TableStep /\ Trims
    BY <1>6, ClosesIsTableStep DEF Delete
  <2>2. QED
    BY <1>6, <2>1 DEF Delete, Ages, Stays
<1>7. CASE Accept(s)
  <2>1. PICK n \in Number : Opens(n, s)
    BY <1>7 DEF Accept
  <2>2. TableStep
    BY <1>7, <2>1 DEF Accept, Opens, Free, TableStep
  <2>3. /\ pc' = [pc EXCEPT ![s] = "auth"] /\ life[s] = "none" /\ pc[s] = "none"
        /\ active' = [active EXCEPT ![s] = TRUE] /\ life' = [life EXCEPT ![s] = "live"]
        /\ UNCHANGED <<wire, to, number, part>>
    BY <1>7 DEF Accept, LabelsAgree
  <2>4. Ages /\ Trims /\ \A r \in Session \ {s} : Stays(r)
    BY <2>3 DEF Ages, Trims, Stays
  <2>5. QED
    BY <2>2, <2>3, <2>4
<1>8. QED
  BY <1>1, <1>2, <1>3, <1>4, <1>5, <1>6, <1>7 DEF Apart, Leave

\* The steps within a send that give no connection anything.
LEMMA SendingSteps ==
    ASSUME TypeOK, LabelsAgree, NEW s \in Session,
           \/ Dangles(s) \/ SendRefused(s) \/ SendGet(s) \/ SendFails(s) \/ SendFailed(s)
           \/ \E t \in Session : BeginSend(s, t)
    PROVE  /\ UNCHANGED table /\ Ages /\ UNCHANGED wire
           /\ \A r \in Session \ {s} : Stays(r)
<1> USE DEF TypeOK, Enter, SendOver, Waits, kernelVars, sessionVars, handlerVars
<1>1. CASE \/ Dangles(s) \/ SendRefused(s) \/ SendGet(s) \/ SendFails(s)
           \/ \E t \in Session : BeginSend(s, t)
  BY <1>1 DEF Dangles, SendRefused, SendGet, SendFails, BeginSend, Ages, Stays
<1>2. CASE SendFailed(s)
  BY <1>2 DEF SendFailed, Ages, Stays
<1>3. QED
  BY <1>1, <1>2

-----------------------------------------------------------------------------
(* Connections.                                                            *)

\* A number that stands for a session that exists goes on doing so until the
\* session's connection is gone, which it then is for good.
LEMMA ConnectionsEnd ==
    ASSUME WireInv, TableStep, NEW t \in Session, life[t] # "none"
    PROVE  /\ Gone(t) => Gone(t)'
           /\ \A n \in Number : table[n] = t => table'[n] = t \/ Gone(t)'
<1> USE DEF WireInv, TypeOK
<1>1. \A k \in Number : table'[k] = t => table[k] = t
  BY DEF TableStep
<1>2. \A k, n \in Number : table[n] = t /\ table[k] = t => k = n
  BY DEF DescriptorOwned
<1>3. ASSUME NEW n \in Number, table[n] = t, table'[n] # t
      PROVE  Gone(t)'
  BY <1>1, <1>2, <1>3 DEF Gone
<1>4. QED
  BY <1>1, <1>3 DEF Gone

\* An active session has a connection, and nobody is about to clear it.
LEMMA ActivePreserved ==
    ASSUME WireInv, ActiveConnected, Next
    PROVE  ActiveConnected'
<1> USE DEF WireInv, TypeOK, ActiveConnected, Closing
<1>1. ASSUME NEW s \in Session, Accept(s) PROVE ActiveConnected'
  <2>1. PICK n \in Number : fd' = [fd EXCEPT ![s] = n]
    BY <1>1 DEF Accept
  <2>2. /\ pc' = [pc EXCEPT ![s] = "auth"] /\ active' = [active EXCEPT ![s] = TRUE]
        /\ main' = "accept"
    BY <1>1 DEF Accept, Main
  <2>3. n # NoFd
    OBVIOUS
  <2>4. QED
    BY <2>1, <2>2, <2>3
<1>2. CASE ShutdownBegins \/ ShutdownEnds
  BY <1>2 DEF ShutdownBegins, ShutdownEnds, Main, sessionVars, handlerVars
<1>3. ASSUME NEW s \in Session, ShutdownLooks(s) PROVE ActiveConnected'
  BY <1>3 DEF ShutdownLooks, Main, handlerVars
<1>4. CASE ShutdownClears
  BY <1>4 DEF ShutdownClears, ShutdownAgrees, Main, handlerVars
<1>5. ASSUME NEW s \in Session,
             \/ OpenFile(s) \/ CloseFile(s) \/ AddClient(s) \/ AuthFails(s) \/ Recv(s)
             \/ RecvFails(s) \/ Dangles(s) \/ SendRefused(s) \/ SendGet(s) \/ SendFails(s)
             \/ SendPart(s) \/ RemoveClient(s) \/ \E t \in Session : BeginSend(s, t)
      PROVE  ActiveConnected'
  <2>1. UNCHANGED <<fd, active, main, victim>>
    BY <1>5 DEF OpenFile, CloseFile, AddClient, AuthFails, Recv, RecvFails, Dangles,
       SendRefused, SendGet, SendFails, SendPart, RemoveClient, BeginSend, sessionVars,
       mainVars
  <2>2. /\ \A r \in Session \ {s} : pc'[r] = pc[r]
        /\ pc[s] # "none" /\ pc'[s] \in {"auth", "file", "chat", "leave", "close", pc[s]}
                                       \cup SendLabels
    BY <1>5 DEF OpenFile, CloseFile, AddClient, AuthFails, Recv, RecvFails, Dangles,
       SendRefused, SendGet, SendFails, SendPart, RemoveClient, BeginSend, Enter,
       handlerVars, SendLabels
  <2>3. QED
    BY <2>1, <2>2 DEF SendLabels
<1>6. ASSUME NEW s \in Session, SendFailed(s) PROVE ActiveConnected'
  BY <1>6 DEF SendFailed, Enter, LabelsAgree, SendLabels, mainVars
<1>7. ASSUME NEW s \in Session, CloseSession(s) PROVE ActiveConnected'
  BY <1>7 DEF CloseSession, Enter, mainVars
<1>8. ASSUME NEW s \in Session, ClearFd(s) \/ Delete(s) PROVE ActiveConnected'
  BY <1>8 DEF ClearFd, Delete, Enter, mainVars
<1>9. CASE Ended
  BY <1>9 DEF Ended, vars, sessionVars, handlerVars, mainVars
<1>10. QED
  BY <1>1, <1>2, <1>3, <1>4, <1>5, <1>6, <1>7, <1>8, <1>9
     DEF Next, Serve, Leave, ShutdownStep

-----------------------------------------------------------------------------
(* What a handler holds.                                                   *)

\* A handler that does not move keeps what it holds, whatever the others do to
\* the descriptors.
LEMMA StayingKeeps ==
    ASSUME WireInv, TableStep, Ages, NEW r \in Session, Stays(r), Holds(r), Agrees(r),
           \A t \in Session : Sent(r, wire[t]) => Gone(t)' \/ Sent(r, wire[t])'
    PROVE  Holds(r)' /\ Agrees(r)'
<1> USE DEF WireInv, TypeOK
<1>1. CASE pc[r] \in SendLabels
  <2>1. to[r] \in Session /\ life[to[r]] # "none"
    BY <1>1 DEF Agrees, LabelsAgree
  <2>2. /\ Gone(to[r]) => Gone(to[r])'
        /\ \A n \in Number : table[n] = to[r] => table'[n] = to[r] \/ Gone(to[r])'
    BY <2>1, ConnectionsEnd DEF Stays
  <2>3. Holds(r)'
    BY <2>2 DEF Holds, Stays
  <2>4. life'[to'[r]] # "none"
    BY <2>1 DEF Ages, Stays
  <2>5. part'[r] > 0 => Gone(to[r])' \/ Sent(r, wire[to[r]])'
    BY <2>1, <2>2 DEF Agrees, Stays
  <2>6. Agrees(r)'
    BY <1>1, <2>4, <2>5 DEF Agrees, Stays
  <2>7. QED
    BY <2>3, <2>6
<1>2. CASE pc[r] \notin SendLabels
  BY <1>2 DEF Holds, Agrees, Stays, SendLabels
<1>3. QED
  BY <1>1, <1>2

\* A step of s within a send, but for the one that sends.
LEMMA SendingKeeps ==
    ASSUME WireInv, NEW s \in Session, Holds(s), Agrees(s),
           \/ SendRefused(s) \/ SendGet(s) \/ SendFails(s) \/ SendFailed(s)
           \/ \E t \in Session : BeginSend(s, t)
    PROVE  Holds(s)' /\ Agrees(s)'
<1> USE DEF WireInv, TypeOK, Enter, SendOver, Waits, kernelVars, sessionVars
<1>1. CASE SendRefused(s) \/ SendFailed(s)
  BY <1>1 DEF SendRefused, SendFailed, Holds, Agrees, SendLabels
<1>2. CASE SendGet(s)
  <2>1. /\ pc[s] = "get" /\ pc' = [pc EXCEPT ![s] = "send"]
        /\ number' = [number EXCEPT ![s] = fd[to[s]]]
        /\ UNCHANGED <<table, wire, life, to, part>>
    BY <1>2 DEF SendGet
  <2>2. to[s] \in Session
    BY <2>1 DEF LabelsAgree, SendLabels
  <2>3. fd[to[s]] # NoFd => table[fd[to[s]]] = to[s] \/ Gone(to[s])
    BY <2>2 DEF DescriptorOwned, ClosedForGood, Gone
  <2>4. Holds(s)'
    BY <2>1, <2>3 DEF Holds, Gone
  <2>5. Agrees(s)'
    BY <2>1 DEF Agrees, SendLabels, Gone, Sent
  <2>6. QED
    BY <2>4, <2>5
<1>3. CASE SendFails(s)
  BY <1>3 DEF SendFails, Holds, Agrees, SendLabels, Gone, Sent
<1>4. ASSUME NEW t \in Session, BeginSend(s, t) PROVE Holds(s)' /\ Agrees(s)'
  <2>1. /\ pc[s] = "chat" /\ pc' = [pc EXCEPT ![s] = "get"]
        /\ to' = [to EXCEPT ![s] = t] /\ UNCHANGED <<life, part>>
    BY <1>4 DEF BeginSend
  <2>2. life[t] # "none" /\ part[s] = 0
    BY <1>4, <2>1 DEF BeginSend, LabelsAgree, Chatting, SendLabels, Agrees
  <2>3. QED
    BY <2>1, <2>2 DEF Holds, Agrees, SendLabels
<1>5. QED
  BY <1>1, <1>2, <1>3, <1>4

Frame == [from : Session, to : Session, part : 1..Parts]

LEMMA GivenAreFrames ==
    ASSUME TypeOK
    PROVE  /\ wire \in [Session -> Seq(Frame)]
           /\ \A c \in Session : \A i \in DOMAIN wire[c] : wire[c][i] \in Frame
<1>1. wire \in [Session -> Seq(Frame)]
  BY DEF TypeOK, Frame
<1>2. ASSUME NEW c \in Session, NEW i \in DOMAIN wire[c] PROVE wire[c][i] \in Frame
  BY <1>1, <1>2
<1>3. QED
  BY <1>1, <1>2

\* What the open connections have been given is as it was, and is seen as it was.
LEMMA TrimmingPreserves ==
    ASSUME WireInv, StraysClosed, FramesKeepOrder, TableStep, Ages, Trims
    PROVE  StraysClosed' /\ FramesKeepOrder'
<1>1. \A c \in Session : \A i \in DOMAIN wire[c] : wire[c][i].to \in Session
  BY GivenAreFrames DEF Frame, WireInv
<1>2. \A c \in Session : wire'[c] = wire[c] \/ DOMAIN wire'[c] = {}
  BY DEF Trims
<1>3. StraysClosed'
  <2>1. ASSUME NEW t \in Session, life[t] # "none", Gone(t)
        PROVE  life'[t] # "none" /\ Gone(t)'
    BY <2>1, ConnectionsEnd DEF Ages
  <2>2. QED
    BY <1>1, <1>2, <2>1 DEF StraysClosed
<1>4. FramesKeepOrder'
  <2> DEFINE InOrder(q, c) ==
               \A i \in DOMAIN q : q[i].to = c /\ q[i].part > 1 =>
                   \E j \in 1..(i - 1) :
                       /\ Follows(q, j, i) /\ q[j].part = q[i].part - 1
                       /\ \A k \in (j + 1)..(i - 1) : ~Follows(q, k, i)
  <2>1. \A c \in Session : InOrder(wire[c], c) /\ InOrder(<<>>, c)
    BY DEF FramesKeepOrder
  <2> HIDE DEF InOrder
  <2>2. \A c \in Session : InOrder(wire'[c], c)
    BY <2>1 DEF Trims
  <2>3. QED
    BY <2>2 DEF InOrder, FramesKeepOrder
<1>5. QED
  BY <1>3, <1>4

\* A connection is forgotten only when it is gone.
LEMMA ForgottenAreGone ==
    ASSUME WireInv, TableStep, Trims, NEW c \in Session, wire'[c] # wire[c]
    PROVE  Gone(c)'
<1>1. PICK n \in Number : table[n] = c /\ table'[n] = Closed
  BY DEF Trims
<1>2. life[c] # "none" /\ c # Closed
  BY <1>1 DEF WireInv, DescriptorOwned
<1>3. QED
  BY <1>1, <1>2, ConnectionsEnd

\* Every step but SendPart.
LEMMA OthersPreserveDelivery ==
    ASSUME WireInv, DeliveryInv, ActiveConnected', TableStep, Ages, Trims,
           \A r \in Session : Stays(r) \/ (Holds(r)' /\ Agrees(r)')
    PROVE  DeliveryInv'
<1>1. \A r \in Session : Holds(r) /\ Agrees(r)
  BY DEF DeliveryInv, NumberStands, SendersAgree
<1>2. ASSUME NEW r \in Session, Stays(r) PROVE Holds(r)' /\ Agrees(r)'
  <2>1. ASSUME NEW t \in Session, Sent(r, wire[t]) PROVE Gone(t)' \/ Sent(r, wire[t])'
    <3>1. CASE wire'[t] = wire[t]
      BY <1>2, <2>1, <3>1 DEF Sent, Stays
    <3>2. CASE wire'[t] # wire[t]
      BY <3>2, ForgottenAreGone
    <3>3. QED
      BY <3>1, <3>2
  <2>2. QED
    BY <1>1, <1>2, <2>1, StayingKeeps
<1>3. \A r \in Session : Holds(r)' /\ Agrees(r)'
  BY <1>2
<1>4. NumberStands' /\ SendersAgree'
  BY <1>3 DEF NumberStands, SendersAgree
<1>5. StraysClosed' /\ FramesKeepOrder'
  BY TrimmingPreserves DEF WireInv, DeliveryInv
<1>6. QED
  BY <1>4, <1>5 DEF DeliveryInv

-----------------------------------------------------------------------------
(* A part is sent.                                                         *)

LEMMA AppendFacts ==
    ASSUME NEW F, NEW q \in Seq(F), NEW x \in F
    PROVE  /\ Append(q, x) \in Seq(F) /\ Len(Append(q, x)) = Len(q) + 1
           /\ DOMAIN q = 1..Len(q) /\ DOMAIN Append(q, x) = 1..(Len(q) + 1)
           /\ \A i \in 1..Len(q) : Append(q, x)[i] = q[i]
           /\ Append(q, x)[Len(q) + 1] = x
BY AppendProperties

\* Where the part goes, and what becomes of its sender.
LEMMA PartGiven ==
    ASSUME WireInv, DeliveryInv, NEW s \in Session, SendPart(s)
    PROVE  \E c \in Session, x \in Frame :
             /\ x = [from |-> s, to |-> to[s], part |-> part[s] + 1]
             /\ c = table[number[s]] /\ number[s] \in Number
             /\ wire' = [wire EXCEPT ![c] = Append(@, x)]
             /\ to[s] \in Session /\ life[to[s]] # "none"
             /\ c = to[s] \/ Gone(to[s])
             /\ part[s] > 0 => Gone(to[s]) \/ Sent(s, wire[to[s]])
             /\ UNCHANGED <<table, fd, active, life>>
             /\ \A r \in Session \ {s} : Stays(r)
             /\ \/ pc'[s] = "chat" /\ part'[s] = 0
                \/ pc'[s] = "get" /\ part'[s] = part[s] + 1 /\ to'[s] = to[s]
<1> USE DEF WireInv, TypeOK
<1> DEFINE c == table[number[s]]
           x == [from |-> s, to |-> to[s], part |-> part[s] + 1]
<1>1. c \in Session /\ number[s] \in Number /\ to[s] \in Session
  BY DEF SendPart, Sendable, Reached, LabelsAgree, SendLabels
<1>2. x \in Frame
  BY <1>1 DEF Frame
<1>3. wire' = [wire EXCEPT ![c] = Append(@, x)]
  BY DEF SendPart, Reached
<1>4. pc[s] = "send" /\ number[s] # NoFd
  BY DEF SendPart, Sendable
<1>5. c = to[s] \/ Gone(to[s])
  BY <1>4 DEF DeliveryInv, NumberStands, Holds
<1>6. life[to[s]] # "none" /\ (part[s] > 0 => Gone(to[s]) \/ Sent(s, wire[to[s]]))
  BY <1>4 DEF DeliveryInv, SendersAgree, Agrees, SendLabels
<1>7. UNCHANGED <<table, fd, active, life>>
  BY DEF SendPart, sessionVars
<1>8. CASE part[s] + 1 < Parts
  <2>1. /\ pc' = [pc EXCEPT ![s] = "get"] /\ to' = to
        /\ part' = [part EXCEPT ![s] = part[s] + 1]
        /\ number' = [number EXCEPT ![s] = NoFd]
    BY <1>8 DEF SendPart, Enter
  <2> HIDE DEF c, x
  <2>2. QED
    BY <2>1, <1>1, <1>2, <1>3, <1>5, <1>6, <1>7 DEF Stays, c, x
<1>9. CASE ~(part[s] + 1 < Parts)
  <2>1. /\ pc' = [pc EXCEPT ![s] = "chat"] /\ to' = [to EXCEPT ![s] = NoSession]
        /\ part' = [part EXCEPT ![s] = 0]
        /\ number' = [number EXCEPT ![s] = fd[s]]
    BY <1>9 DEF SendPart, Enter, SendOver, Waits
  <2> HIDE DEF c, x
  <2>2. QED
    BY <2>1, <1>1, <1>2, <1>3, <1>5, <1>6, <1>7 DEF Stays, c, x
<1>10. QED
  BY <1>8, <1>9

LEMMA SendPartPreservesDelivery ==
    ASSUME WireInv, DeliveryInv, ActiveConnected', NEW s \in Session, SendPart(s)
    PROVE  DeliveryInv'
<1>1. PICK c \in Session, x \in Frame :
             /\ x = [from |-> s, to |-> to[s], part |-> part[s] + 1]
             /\ c = table[number[s]] /\ number[s] \in Number
             /\ wire' = [wire EXCEPT ![c] = Append(@, x)]
             /\ to[s] \in Session /\ life[to[s]] # "none"
             /\ c = to[s] \/ Gone(to[s])
             /\ part[s] > 0 => Gone(to[s]) \/ Sent(s, wire[to[s]])
             /\ UNCHANGED <<table, fd, active, life>>
             /\ \A r \in Session \ {s} : Stays(r)
             /\ \/ pc'[s] = "chat" /\ part'[s] = 0
                \/ pc'[s] = "get" /\ part'[s] = part[s] + 1 /\ to'[s] = to[s]
  BY PartGiven
<1> DEFINE L == Len(wire[c])
<1>2. wire \in [Session -> Seq(Frame)] /\ L \in Nat
  BY GivenAreFrames DEF WireInv
<1>3. /\ DOMAIN wire[c] = 1..L /\ Len(wire'[c]) = L + 1 /\ DOMAIN wire'[c] = 1..(L + 1)
      /\ \A i \in 1..L : wire'[c][i] = wire[c][i]
      /\ wire'[c][L + 1] = x
      /\ \A d \in Session \ {c} : wire'[d] = wire[d]
  BY <1>1, <1>2, AppendFacts
<1> HIDE DEF L
<1>4. x.from = s /\ x.to = to[s] /\ x.part = part[s] + 1 /\ part[s] \in Nat
  BY <1>1 DEF WireInv, TypeOK
<1>5. ASSUME NEW r \in Session \ {s} PROVE Holds(r)' /\ Agrees(r)'
  <2>1. Holds(r) /\ Agrees(r)
    BY DEF DeliveryInv, NumberStands, SendersAgree
  <2>2. TableStep /\ Ages /\ Stays(r)
    BY <1>1 DEF TableStep, Ages
  <2>3. ASSUME NEW t \in Session, Sent(r, wire[t]) PROVE Sent(r, wire[t])'
    <3>1. CASE t # c
      BY <1>3, <2>2, <2>3, <3>1 DEF Sent, Stays
    <3>2. CASE t = c
      <4>1. PICK j \in 1..L :
               /\ wire[c][j].from = r /\ wire[c][j].to = to[r] /\ wire[c][j].part = part[r]
               /\ \A k \in (j + 1)..L : ~(wire[c][k].from = r /\ wire[c][k].to = to[r])
        BY <1>3, <2>3, <3>2 DEF Sent, L
      <4>2. ASSUME NEW k \in (j + 1)..(L + 1)
            PROVE  ~(wire'[c][k].from = r /\ wire'[c][k].to = to[r])
        <5>1. k = L + 1 \/ (k \in (j + 1)..L /\ k \in 1..L)
          BY <1>2
        <5>2. QED
          BY <1>3, <1>4, <4>1, <5>1
      <4>3. j \in DOMAIN wire'[c] /\ wire'[c][j] = wire[c][j]
        BY <1>2, <1>3
      <4>4. QED
        BY <1>3, <2>2, <3>2, <4>1, <4>2, <4>3 DEF Sent, Stays
    <3>3. QED
      BY <3>1, <3>2
  <2>4. QED
    BY <2>1, <2>2, <2>3, StayingKeeps
<1>6. Holds(s)' /\ Agrees(s)'
  <2>1. Holds(s)'
    BY <1>1 DEF Holds
  <2>2. CASE pc'[s] = "chat" /\ part'[s] = 0
    BY <2>1, <2>2 DEF Agrees, SendLabels
  <2>3. CASE pc'[s] = "get" /\ part'[s] = part[s] + 1 /\ to'[s] = to[s]
    <3>1. Gone(to[s]) => Gone(to[s])'
      BY <1>1, <2>3 DEF Gone
    <3>2. Sent(s, wire[c])' \/ c # to[s]
      <4>1. SUFFICES ASSUME c = to[s] PROVE Sent(s, wire[c])'
        OBVIOUS
      <4>2. L + 1 \in DOMAIN wire'[c] /\ \A k \in (L + 2)..Len(wire'[c]) : FALSE
        BY <1>2, <1>3
      <4>3. /\ wire'[c][L + 1].from = s /\ wire'[c][L + 1].to = to'[s]
            /\ wire'[c][L + 1].part = part'[s]
        BY <1>3, <1>4, <2>3, <4>1
      <4>4. QED
        BY <1>2, <4>2, <4>3 DEF Sent
    <3>3. life'[to'[s]] # "none"
      BY <1>1, <2>3
    <3>4. Gone(to[s])' \/ Sent(s, wire[to[s]])'
      BY <1>1, <2>3, <3>1, <3>2
    <3>5. QED
      BY <2>1, <2>3, <3>3, <3>4 DEF Agrees, SendLabels
  <2>4. QED
    BY <1>1, <2>1, <2>2, <2>3
<1>7. NumberStands' /\ SendersAgree'
  <2>1. \A r \in Session : Holds(r)' /\ Agrees(r)'
    BY <1>5, <1>6
  <2>2. QED
    BY <2>1 DEF NumberStands, SendersAgree
<1>8. StraysClosed'
  <2>1. x.to # c => life[x.to] # "none" /\ Gone(x.to)
    BY <1>1, <1>4
  <2>2. ASSUME NEW d \in Session, NEW i \in DOMAIN wire'[d], wire'[d][i].to # d
        PROVE  life[wire'[d][i].to] # "none" /\ Gone(wire'[d][i].to)
    <3>1. CASE d = c /\ i = L + 1
      BY <1>3, <2>1, <2>2, <3>1
    <3>2. CASE ~(d = c /\ i = L + 1)
      <4>1. i \in DOMAIN wire[d] /\ wire'[d][i] = wire[d][i]
        <5>1. CASE d # c
          BY <1>3, <5>1
        <5>2. CASE d = c
          BY <1>2, <1>3, <3>2, <5>2
        <5>3. QED
          BY <5>1, <5>2
      <4>2. QED
        BY <2>2, <4>1 DEF DeliveryInv, StraysClosed
    <3>3. QED
      BY <3>1, <3>2
  <2>3. QED
    BY <1>1, <2>2 DEF StraysClosed, Gone
<1>9. FramesKeepOrder'
  <2> DEFINE Behind(q, j, i) ==
               /\ Follows(q, j, i) /\ q[j].part = q[i].part - 1
               /\ \A k \in (j + 1)..(i - 1) : ~Follows(q, k, i)
  <2>1. ASSUME NEW d \in Session, NEW i \in DOMAIN wire'[d],
               wire'[d][i].to = d, wire'[d][i].part > 1
        PROVE  \E j \in 1..(i - 1) : Behind(wire'[d], j, i)
    <3>1. CASE d # c
      BY <1>3, <2>1, <3>1 DEF DeliveryInv, FramesKeepOrder
    <3>2. CASE d = c /\ i # L + 1
      <4>1. i \in 1..L /\ wire'[c][i] = wire[c][i]
        BY <1>2, <1>3, <2>1, <3>2
      <4>2. PICK j \in 1..(i - 1) : Behind(wire[c], j, i)
        BY <1>3, <2>1, <3>2, <4>1 DEF DeliveryInv, FramesKeepOrder
      <4>3. j \in 1..L /\ \A k \in (j + 1)..(i - 1) : k \in 1..L
        BY <1>2, <4>1
      <4>4. Behind(wire'[c], j, i)
        BY <1>3, <4>1, <4>2, <4>3 DEF Follows
      <4>5. QED
        BY <3>2, <4>4
    <3>3. CASE d = c /\ i = L + 1
      <4>1. c = to[s] /\ part[s] > 0
        BY <1>3, <1>4, <2>1, <3>3
      <4>2. ~Gone(to[s])
        BY <1>1, <4>1 DEF Gone
      <4>3. PICK j \in 1..L :
               /\ wire[c][j].from = s /\ wire[c][j].to = to[s] /\ wire[c][j].part = part[s]
               /\ \A k \in (j + 1)..L : ~(wire[c][k].from = s /\ wire[c][k].to = to[s])
        <5>1. Sent(s, wire[c])
          BY <1>1, <4>1, <4>2
        <5>2. QED
          BY <1>3, <4>1, <5>1 DEF Sent, L
      <4>4. /\ wire'[c][j] = wire[c][j] /\ (L + 1) - 1 = L /\ j \in 1..((L + 1) - 1)
            /\ \A k \in (j + 1)..L : wire'[c][k] = wire[c][k]
        BY <1>2, <1>3
      <4>5. wire'[c][j].part = wire'[c][L + 1].part - 1
        BY <1>3, <1>4, <4>3, <4>4
      <4>6. Behind(wire'[c], j, L + 1)
        BY <1>3, <1>4, <4>3, <4>4, <4>5 DEF Follows
      <4>7. QED
        BY <3>3, <4>4, <4>6
    <3>4. QED
      BY <3>1, <3>2, <3>3
  <2>2. QED
    BY <2>1 DEF FramesKeepOrder
<1>10. QED
  BY <1>7, <1>8, <1>9 DEF DeliveryInv

-----------------------------------------------------------------------------
(* The theorems.                                                           *)

LEMMA NextPreservesDelivery ==
    ASSUME WireInv, DeliveryInv, Next
    PROVE  DeliveryInv'
<1>1. TypeOK /\ LabelsAgree /\ ActiveConnected'
  BY ActivePreserved DEF WireInv, DeliveryInv
<1>2. \A r \in Session : Holds(r) /\ Agrees(r)
  BY DEF DeliveryInv, NumberStands, SendersAgree
<1>3. CASE ShutdownBegins \/ ShutdownStep
  BY <1>1, <1>3, MainSteps, OthersPreserveDelivery
<1>4. ASSUME NEW s \in Session, Apart(s) PROVE DeliveryInv'
  <2>1. /\ TableStep /\ Ages /\ Trims
        /\ \A r \in Session \ {s} : Stays(r)
        /\ pc[s] \notin SendLabels /\ pc'[s] \notin SendLabels /\ part'[s] = part[s]
    BY <1>1, <1>4, ApartSteps
  <2>2. Holds(s)'
    BY <2>1 DEF Holds, SendLabels
  <2>3. part'[s] = 0
    BY <1>2, <2>1 DEF Agrees
  <2>4. Agrees(s)'
    BY <2>1, <2>3 DEF Agrees
  <2>5. QED
    BY <1>1, <2>1, <2>2, <2>4, OthersPreserveDelivery
<1>5. ASSUME NEW s \in Session,
             \/ Dangles(s) \/ SendRefused(s) \/ SendGet(s) \/ SendFails(s) \/ SendFailed(s)
             \/ \E t \in Session : BeginSend(s, t)
      PROVE  DeliveryInv'
  <2>1. /\ TableStep /\ Ages /\ Trims
        /\ \A r \in Session \ {s} : Stays(r)
    BY <1>1, <1>5, SendingSteps DEF TableStep, Trims
  <2>2. Stays(s) \/ (Holds(s)' /\ Agrees(s)')
    BY <1>2, <1>5, SendingKeeps DEF Dangles, Stays, handlerVars
  <2>3. QED
    BY <1>1, <2>1, <2>2, OthersPreserveDelivery
<1>6. ASSUME NEW s \in Session, SendPart(s) PROVE DeliveryInv'
  BY <1>1, <1>6, SendPartPreservesDelivery
<1>7. CASE Ended
  <2>1. UNCHANGED vars
    BY <1>7 DEF Ended
  <2>2. TableStep /\ Ages /\ Trims /\ \A r \in Session : Stays(r)
    BY <2>1 DEF vars, kernelVars, sessionVars, handlerVars, TableStep, Trims, Ages, Stays
  <2>3. QED
    BY <1>1, <2>2, OthersPreserveDelivery
<1>8. QED
  BY <1>3, <1>4, <1>5, <1>6, <1>7 DEF Next, Serve, Apart

LEMMA StutterPreservesDelivery ==
    ASSUME WireInv, DeliveryInv, UNCHANGED vars
    PROVE  DeliveryInv'
<1>1. TableStep /\ Ages /\ Trims /\ \A r \in Session : Stays(r)
  BY DEF vars, kernelVars, sessionVars, handlerVars, TableStep, Trims, Ages, Stays
<1>2. ActiveConnected'
  BY DEF DeliveryInv, ActiveConnected, Closing, vars, sessionVars, handlerVars, mainVars
<1>3. QED
  BY <1>1, <1>2, OthersPreserveDelivery

\* DeliveryInv holds of every server: what a sender holds between get_fd and
\* ::send, and between two parts of a frame (send_msg).
THEOREM DeliveryInvariant == Spec => []DeliveryInv
<1>1. WireInv /\ DeliveryInv /\ [Next]_vars => DeliveryInv'
  BY NextPreservesDelivery, StutterPreservesDelivery
<1>2. QED
  BY <1>1, InitEstablishesDelivery, WireInvariant, PTL DEF Spec

\* A receiver gets the parts of each frame in order and without a gap, although
\* send_msg looks the number up again for every part.
THEOREM FramesInOrder == Spec => []FramesKeepOrder
<1>1. DeliveryInv => FramesKeepOrder
  BY DEF DeliveryInv
<1>2. QED
  BY <1>1, DeliveryInvariant, PTL

\* Nothing that is meant for a connected client goes to anybody else, even when a
\* failed send has deactivated its session: the misdelivery that send_msg allows
\* begins with the close of the target's own descriptor.
THEOREM StraysOnlyAfterClose == Spec => []OnlyClosedGoAstray
<1>1. DeliveryInv => OnlyClosedGoAstray
  BY DEF DeliveryInv, StraysClosed, OnlyClosedGoAstray
<1>2. QED
  BY <1>1, DeliveryInvariant, PTL

-----------------------------------------------------------------------------
(* The Session class.                                                      *)

\* What closing a session's own number does to the connections.
LEMMA CloseEndsOwn ==
    ASSUME WireInv, NEW s \in Session, Closes(fd[s]), fd[s] # NoFd => table[fd[s]] = s
    PROVE  OpenView' = [OpenView EXCEPT ![s] = FALSE]
<1> USE DEF WireInv, TypeOK
<1>1. table' = IF fd[s] = NoFd THEN table ELSE [table EXCEPT ![fd[s]] = Closed]
  BY ClosesTable
<1>2. \A n \in Number : table[n] = s => fd[s] = n
  BY DEF DescriptorOwned
<1>3. \A n \in Number : table'[n] # s
  BY <1>1, <1>2
<1>4. \A r \in Session \ {s} : \A n \in Number : table'[n] = r <=> table[n] = r
  BY <1>1
<1>5. OpenView'[s] = FALSE
  BY <1>3 DEF OpenView
<1>6. \A r \in Session \ {s} : OpenView'[r] = OpenView[r]
  BY <1>4 DEF OpenView
<1>7. QED
  BY <1>5, <1>6 DEF OpenView

\* Steps after which every session exists, is active and has its connection as
\* before.
LEMMA SessionsUntouched ==
    ASSUME UNCHANGED <<life, active>>,
           \A r \in Session : \A n \in Number : table'[n] = r <=> table[n] = r
    PROVE  UNCHANGED Object!sessionVars
<1>1. LifeView' = LifeView /\ OpenView' = OpenView
  BY DEF LifeView, OpenView
<1>2. QED
  BY <1>1 DEF Object!sessionVars

\* Closing and deactivating an active session is close_session, by whomever.
LEMMA ClosingIsClose ==
    ASSUME WireInv, NEW s \in Session, life[s] = "live", active[s],
           Closes(fd[s]), fd[s] # NoFd => table[fd[s]] = s,
           active' = [active EXCEPT ![s] = FALSE], UNCHANGED life
    PROVE  Object!SessionStep(s)
<1>1. LifeView[s] = "live" /\ LifeView' = LifeView
  BY DEF LifeView
<1>2. OpenView' = [OpenView EXCEPT ![s] = OpenView[s] /\ ~active[s]]
  BY CloseEndsOwn
<1>3. Object!close_session(s)
  BY <1>2 DEF Object!close_session
<1>4. QED
  BY <1>1, <1>3 DEF Object!SessionStep

LEMMA MainImplementsSessions ==
    ASSUME WireInv, DeliveryInv,
           \/ \E s \in Session : Accept(s)
           \/ ShutdownBegins \/ ShutdownStep
    PROVE  \/ \E s \in Session : Object!SessionStep(s)
           \/ UNCHANGED Object!sessionVars
<1> USE DEF WireInv, TypeOK, Main
<1>1. ASSUME NEW s \in Session, Accept(s) PROVE Object!SessionStep(s)
  <2>1. PICK n \in Number : table[n] = Closed /\ table' = [table EXCEPT ![n] = s]
    BY <1>1 DEF Accept, Opens, Free
  <2>2. /\ life[s] = "none" /\ life' = [life EXCEPT ![s] = "live"]
        /\ active' = [active EXCEPT ![s] = TRUE]
    BY <1>1 DEF Accept
  <2>3. LifeView[s] = "unallocated" /\ LifeView' = [LifeView EXCEPT ![s] = "live"]
    BY <2>2 DEF LifeView
  <2>4. OpenView' = [OpenView EXCEPT ![s] = TRUE]
    <3>1. table'[n] = s
      BY <2>1
    <3>2. \A r \in Session \ {s} : \A k \in Number : table'[k] = r <=> table[k] = r
      BY <2>1
    <3>3. QED
      BY <3>1, <3>2 DEF OpenView
  <2>5. Object!construct(s)
    BY <2>2, <2>3, <2>4 DEF Object!construct
  <2>6. QED
    BY <2>5 DEF Object!SessionStep
<1>2. CASE ShutdownBegins \/ ShutdownClears \/ ShutdownEnds
  <2>1. UNCHANGED <<table, life, active>>
    BY <1>2 DEF ShutdownBegins, ShutdownClears, ShutdownEnds, kernelVars, sessionVars
  <2>2. QED
    BY <2>1, SessionsUntouched
<1>3. ASSUME NEW s \in Session, ShutdownLooks(s)
      PROVE  Object!SessionStep(s) \/ UNCHANGED Object!sessionVars
  <2>1. CASE active[s]
    <3>1. /\ Closes(fd[s]) /\ active' = [active EXCEPT ![s] = FALSE] /\ UNCHANGED life
          /\ main = "closing" /\ s \in clients
      BY <1>3, <2>1 DEF ShutdownLooks, ShutdownAgrees
    <3>2. life[s] = "live" /\ ~Closing(s)
      BY <3>1 DEF LabelsAgree, Chatting, SendLabels, Closing
    <3>3. QED
      BY <2>1, <3>1, <3>2, ClosingIsClose DEF DescriptorOwned
  <2>2. CASE ~active[s]
    <3>1. UNCHANGED <<table, life, active>>
      BY <1>3, <2>2 DEF ShutdownLooks, kernelVars
    <3>2. QED
      BY <3>1, SessionsUntouched
  <2>3. QED
    BY <2>1, <2>2
<1>4. QED
  BY <1>1, <1>2, <1>3 DEF ShutdownStep

LEMMA HandlerImplementsSessions ==
    ASSUME WireInv, DeliveryInv, NEW s \in Session,
           \/ Serve(s) \/ Leave(s) \/ SendPart(s)
           \/ \E t \in Session : BeginSend(s, t)
    PROVE  \/ \E t \in Session : Object!SessionStep(t)
           \/ UNCHANGED Object!sessionVars
<1> USE DEF WireInv, TypeOK, Enter, kernelVars, sessionVars
<1>1. CASE OpenFile(s)
  <2>1. PICK n \in Number : table[n] = Closed /\ table' = [table EXCEPT ![n] = File]
    BY <1>1 DEF OpenFile, Opens, Free
  <2>2. \A r \in Session : \A n_1 \in Number : table'[n_1] = r <=> table[n_1] = r
    BY <2>1
  <2>3. QED
    BY <1>1, <2>2, SessionsUntouched DEF OpenFile
<1>2. CASE CloseFile(s)
  <2>1. table[number[s]] = File /\ number[s] \in Number /\ Closes(number[s])
    BY <1>2 DEF CloseFile, FilesAgree
  <2>2. table' = [table EXCEPT ![number[s]] = Closed]
    BY <2>1, ClosesTable
  <2>3. \A r \in Session : \A n \in Number : table'[n] = r <=> table[n] = r
    BY <2>1, <2>2
  <2>4. QED
    BY <1>2, <2>3, SessionsUntouched DEF CloseFile
<1>3. CASE \/ AddClient(s) \/ AuthFails(s) \/ Recv(s) \/ RecvFails(s) \/ Dangles(s)
           \/ SendRefused(s) \/ SendGet(s) \/ SendFails(s) \/ SendPart(s)
           \/ RemoveClient(s) \/ ClearFd(s) \/ \E t \in Session : BeginSend(s, t)
  <2>1. UNCHANGED <<table, life, active>>
    BY <1>3 DEF AddClient, AuthFails, Recv, RecvFails, Dangles, SendRefused, SendGet,
       SendFails, SendPart, RemoveClient, ClearFd, BeginSend
  <2>2. QED
    BY <2>1, SessionsUntouched
<1>4. CASE SendFailed(s)
  <2> DEFINE t == to[s]
  <2>1. /\ t \in Session /\ life[t] = "live" /\ UNCHANGED <<table, life>>
        /\ active' = [active EXCEPT ![t] = FALSE]
    BY <1>4 DEF SendFailed, LabelsAgree, SendLabels
  <2> HIDE DEF t
  <2>2. CASE active[t]
    <3>1. LifeView[t] = "live" /\ LifeView' = LifeView /\ OpenView' = OpenView
      BY <2>1 DEF LifeView, OpenView
    <3>2. Object!send_failed(t)
      BY <2>1, <2>2 DEF Object!send_failed
    <3>3. QED
      BY <2>1, <3>1, <3>2 DEF Object!SessionStep
  <2>3. CASE ~active[t]
    <3>1. UNCHANGED <<life, active, table>>
      BY <2>1, <2>3
    <3>2. QED
      BY <3>1, SessionsUntouched
  <2>4. QED
    BY <2>2, <2>3
<1>5. CASE CloseSession(s)
  <2>1. CASE active[s]
    <3>1. /\ Closes(fd[s]) /\ active' = [active EXCEPT ![s] = FALSE] /\ UNCHANGED life
          /\ pc[s] = "close"
      BY <1>5, <2>1 DEF CloseSession
    <3>2. life[s] = "live" /\ ~Closing(s)
      BY <2>1, <3>1 DEF LabelsAgree, DeliveryInv, ActiveConnected
    <3>3. QED
      BY <2>1, <3>1, <3>2, ClosingIsClose DEF DescriptorOwned
  <2>2. CASE ~active[s]
    <3>1. UNCHANGED <<table, life, active>>
      BY <1>5, <2>2 DEF CloseSession
    <3>2. QED
      BY <3>1, SessionsUntouched
  <2>3. QED
    BY <2>1, <2>2
<1>6. CASE Delete(s)
  <2>1. /\ pc[s] = "delete" /\ Closes(fd[s]) /\ life' = [life EXCEPT ![s] = "freed"]
        /\ UNCHANGED active
    BY <1>6 DEF Delete
  <2>2. life[s] = "live" /\ ~active[s] /\ s \notin clients
    BY <2>1 DEF LabelsAgree, DeliveryInv, ActiveConnected, Chatting, SendLabels
  <2>3. ~Closing(s)
    BY <2>1, <2>2 DEF Closing, ShutdownAgrees
  <2>4. OpenView' = [OpenView EXCEPT ![s] = FALSE]
    BY <2>1, <2>3, CloseEndsOwn DEF DescriptorOwned
  <2>5. LifeView[s] = "live" /\ LifeView' = [LifeView EXCEPT ![s] = "freed"]
    BY <2>1, <2>2 DEF LifeView
  <2>6. active' = [active EXCEPT ![s] = FALSE]
    BY <2>1, <2>2
  <2>7. Object!destroy(s)
    BY <2>4, <2>5, <2>6 DEF Object!destroy
  <2>8. QED
    BY <2>5, <2>7 DEF Object!SessionStep
<1>7. QED
  BY <1>1, <1>2, <1>3, <1>4, <1>5, <1>6 DEF Serve, Leave

\* Numbers that are closed before they are cleared and given out again, and two
\* threads that close: each session still does what its class promises, one
\* close of its own connection and no step after its deletion (close_session,
\* shutdown_all, send_msg, ~Session).
THEOREM WireImplementsSessions == Spec => ImplementsSessions
<1>1. Init => Object!SessionInit
  BY DEF Init, Object!SessionInit, LifeView, OpenView
<1>2. ASSUME WireInv, DeliveryInv, [Next]_vars
      PROVE  [\E s \in Session : Object!SessionStep(s)]_Object!sessionVars
  <2>1. CASE Next
    <3>1. CASE Ended
      BY <3>1, SessionsUntouched DEF Ended, vars, kernelVars, sessionVars
    <3>2. CASE ~Ended
      BY <1>2, <2>1, <3>2, MainImplementsSessions, HandlerImplementsSessions DEF Next
    <3>3. QED
      BY <3>1, <3>2
  <2>2. CASE UNCHANGED vars
    BY <2>2, SessionsUntouched DEF vars, kernelVars, sessionVars
  <2>3. QED
    BY <1>2, <2>1, <2>2
<1>3. QED
  BY <1>1, <1>2, WireInvariant, DeliveryInvariant, PTL
     DEF Spec, ImplementsSessions, Object!SessionSpec
=============================================================================
