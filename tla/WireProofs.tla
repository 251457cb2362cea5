----------------------------- MODULE WireProofs -----------------------------
(***************************************************************************)
(* Proofs about Wire for any number of sessions, descriptor numbers, parts *)
(* and frames.  A descriptor has one closer at a time: shutdown_all closes *)
(* the sessions of the list while it holds the mutex, and a handler comes  *)
(* to its own close only after it has left the list.                       *)
(***************************************************************************)
EXTENDS Wire, TLAPS

USE WireAssumption
USE DEF NoFd, Closed, File, NoSession

\* The server starts in the invariant.
LEMMA InitEstablishesInv == Init => WireInv
<1> SUFFICES ASSUME Init PROVE WireInv
  OBVIOUS
<1> USE DEF Init
<1>1. TypeOK
  <2>1. wire \in [Session -> Seq([from : Session, to : Session, part : 1..Parts])]
    OBVIOUS
  <2>2. /\ table \in [Number -> Session \cup {Closed, File}]
        /\ fd \in [Session -> Number \cup {NoFd}]
        /\ active \in [Session -> BOOLEAN]
        /\ life \in [Session -> {"none", "live", "freed"}]
        /\ pc \in [Session -> Labels]
    BY DEF Labels
  <2>3. /\ to \in [Session -> Session \cup {NoSession}]
        /\ number \in [Session -> Number \cup {NoFd}]
        /\ fault \in BOOLEAN
    OBVIOUS
  <2>4. 0 \in 0..(Parts - 1) /\ 0 \in 0..MaxSends
    OBVIOUS
  <2>5. part \in [Session -> 0..(Parts - 1)] /\ sends \in 0..MaxSends
    BY <2>4
  <2>6. QED
    BY <2>1, <2>2, <2>3, <2>5 DEF TypeOK
<1>2. DescriptorOwned /\ ReadsOwnConnection
  BY DEF DescriptorOwned, ReadsOwnConnection
<1>3. /\ LabelsAgree /\ ShutdownAgrees /\ FilesAgree /\ WaitsOnOwn
      /\ ClosedForGood /\ VictimClosed
  BY DEF LabelsAgree, ShutdownAgrees, FilesAgree, WaitsOnOwn, ClosedForGood,
         VictimClosed, Closing, SendLabels
<1>4. QED
  BY <1>1, <1>2, <1>3 DEF WireInv

-----------------------------------------------------------------------------
(* Types.                                                                  *)

\* What closing a number does to the table, whatever it stands for.
LEMMA ClosesTable ==
    ASSUME NEW n, Closes(n)
    PROVE  table' = IF n = NoFd THEN table ELSE [table EXCEPT ![n] = Closed]
BY DEF Closes, kernelVars

LEMMA ClosesTyped ==
    ASSUME TypeOK, NEW n, Closes(n)
    PROVE  /\ table' \in [Number -> Session \cup {Closed, File}]
           /\ wire' \in [Session -> Seq([from : Session, to : Session, part : 1..Parts])]
<1>1. table' \in [Number -> Session \cup {Closed, File}]
  BY ClosesTable DEF TypeOK
<1>2. wire' \in [Session -> Seq([from : Session, to : Session, part : 1..Parts])]
  <2> DEFINE Frame == [from : Session, to : Session, part : 1..Parts]
  <2>1. wire \in [Session -> Seq(Frame)]
    BY DEF TypeOK
  <2> HIDE DEF Frame
  <2>2. \/ wire' = wire
        \/ \E c \in Session : wire' = [wire EXCEPT ![c] = <<>>]
    BY DEF Closes, Forgets, kernelVars
  <2>3. <<>> \in Seq(Frame)
    OBVIOUS
  <2>4. wire' \in [Session -> Seq(Frame)]
    BY <2>1, <2>2, <2>3
  <2>5. QED
    BY <2>4 DEF Frame
<1>3. QED
  BY <1>1, <1>2

LEMMA MainPreservesType ==
    ASSUME TypeOK, \/ \E s \in Session : Accept(s)
                   \/ ShutdownBegins \/ ShutdownStep
    PROVE  TypeOK'
<1> USE DEF TypeOK, Main, Opens, Labels,
            kernelVars, sessionVars, listVars, handlerVars
<1>1. ASSUME NEW s \in Session, Accept(s) PROVE TypeOK'
  <2>1. PICK n \in Number : Opens(n, s) /\ fd' = [fd EXCEPT ![s] = n]
    BY <1>1 DEF Accept
  <2>2. table' \in [Number -> Session \cup {Closed, File}]
        /\ fd' \in [Session -> Number \cup {NoFd}]
    BY <2>1
  <2>3. QED
    BY <1>1, <2>2 DEF Accept
<1>2. CASE ShutdownBegins
  BY <1>2 DEF ShutdownBegins
<1>3. ASSUME NEW s \in Session, ShutdownLooks(s) PROVE TypeOK'
  BY <1>3, ClosesTyped DEF ShutdownLooks
<1>4. CASE ShutdownClears
  BY <1>4 DEF ShutdownClears
<1>5. CASE ShutdownEnds
  BY <1>5 DEF ShutdownEnds
<1>6. QED
  BY <1>1, <1>2, <1>3, <1>4, <1>5 DEF ShutdownStep

LEMMA ServePreservesType ==
    ASSUME TypeOK, LabelsAgree, FilesAgree, NEW s \in Session, Serve(s)
    PROVE  TypeOK'
<1> USE DEF TypeOK, Enter, Opens, Labels, SendLabels, LeaveLabels, Waits,
            SendOver, kernelVars, sessionVars, listVars, handlerVars, mainVars
<1>1. CASE OpenFile(s)
  <2>1. PICK n \in Number : Opens(n, File) /\ number' = [number EXCEPT ![s] = n]
    BY <1>1 DEF OpenFile
  <2>2. table' \in [Number -> Session \cup {Closed, File}]
        /\ number' \in [Session -> Number \cup {NoFd}]
    BY <2>1
  <2>3. QED
    BY <1>1, <2>2 DEF OpenFile
<1>2. CASE CloseFile(s)
  BY <1>2, ClosesTyped DEF CloseFile, FilesAgree
<1>3. CASE AddClient(s)
  BY <1>3 DEF AddClient
<1>4. CASE AuthFails(s)
  BY <1>4 DEF AuthFails
<1>5. CASE Recv(s)
  BY <1>5 DEF Recv
<1>6. CASE RecvFails(s)
  BY <1>6 DEF RecvFails
<1>7. CASE Dangles(s)
  BY <1>7 DEF Dangles
<1>8. CASE SendRefused(s)
  BY <1>8 DEF SendRefused
<1>9. CASE SendGet(s)
  BY <1>9 DEF SendGet, LabelsAgree
<1>10. CASE SendFails(s)
  BY <1>10 DEF SendFails
<1>11. CASE SendFailed(s)
  <2>1. active' \in [Session -> BOOLEAN]
    BY <1>11 DEF SendFailed
  <2>2. /\ pc' \in [Session -> Labels] /\ number' \in [Session -> Number \cup {NoFd}]
        /\ to' \in [Session -> Session \cup {NoSession}]
        /\ part' \in [Session -> 0..(Parts - 1)]
    BY <1>11 DEF SendFailed
  <2>3. UNCHANGED <<kernelVars, fd, life, listVars, mainVars, sends, fault>>
    BY <1>11 DEF SendFailed
  <2>4. QED
    BY <2>1, <2>2, <2>3
<1>12. QED
  BY <1>1, <1>2, <1>3, <1>4, <1>5, <1>6, <1>7, <1>8, <1>9, <1>10, <1>11 DEF Serve

\* One more part for one connection.
LEMMA AppendTyped ==
    ASSUME NEW F, NEW w \in [Session -> Seq(F)], NEW c \in Session, NEW x \in F
    PROVE  [w EXCEPT ![c] = Append(@, x)] \in [Session -> Seq(F)]
<1>1. Append(w[c], x) \in Seq(F)
  OBVIOUS
<1>2. QED
  BY <1>1

LEMMA SendAndLeavePreserveType ==
    ASSUME TypeOK, LabelsAgree, NEW s \in Session,
           \/ \E t \in Session : BeginSend(s, t)
           \/ SendPart(s) \/ Leave(s)
    PROVE  TypeOK'
<1> USE DEF TypeOK, Enter, Labels, SendLabels, LeaveLabels, Waits, SendOver,
            kernelVars, sessionVars, listVars, handlerVars, mainVars
<1>1. ASSUME NEW t \in Session, BeginSend(s, t) PROVE TypeOK'
  <2>1. pc' \in [Session -> Labels] /\ number' \in [Session -> Number \cup {NoFd}]
    BY <1>1 DEF BeginSend
  <2>2. to' \in [Session -> Session \cup {NoSession}] /\ sends' \in 0..MaxSends
    BY <1>1 DEF BeginSend
  <2>3. UNCHANGED <<kernelVars, sessionVars, listVars, part, mainVars, fault>>
    BY <1>1 DEF BeginSend
  <2>4. QED
    BY <2>1, <2>2, <2>3
<1>2. CASE SendPart(s)
  <2> DEFINE c == Reached(s)
             Frame == [from : Session, to : Session, part : 1..Parts]
             sent == [from |-> s, to |-> to[s], part |-> part[s] + 1]
  <2>1. c \in Session /\ to[s] \in Session /\ part[s] \in 0..(Parts - 1)
    BY <1>2 DEF SendPart, Sendable, LabelsAgree
  <2>2. sent \in Frame
    BY <2>1
  <2>3. wire' = [wire EXCEPT ![c] = Append(@, sent)]
    BY <1>2 DEF SendPart
  <2>4. wire' \in [Session -> Seq(Frame)]
    <3> HIDE DEF Frame, sent, c
    <3>1. wire \in [Session -> Seq(Frame)]
      BY DEF Frame
    <3>2. [wire EXCEPT ![c] = Append(@, sent)] \in [Session -> Seq(Frame)]
      BY <2>1, <2>2, <3>1, AppendTyped
    <3>3. QED
      BY <2>3, <3>2
  <2>5. UNCHANGED <<table, sessionVars, listVars, mainVars, sends, fault>>
    BY <1>2 DEF SendPart
  <2>6. CASE part[s] + 1 < Parts
    <3>1. /\ pc' = [pc EXCEPT ![s] = "get"] /\ number' = [number EXCEPT ![s] = NoFd]
          /\ part' = [part EXCEPT ![s] = part[s] + 1] /\ to' = to
      BY <1>2, <2>6 DEF SendPart
    <3>2. part[s] + 1 \in 0..(Parts - 1)
      BY <2>1, <2>6
    <3>3. pc' \in [Session -> Labels] /\ number' \in [Session -> Number \cup {NoFd}]
          /\ part' \in [Session -> 0..(Parts - 1)]
      BY <3>1, <3>2
    <3>4. QED
      BY <2>4, <2>5, <3>1, <3>3
  <2>7. CASE ~(part[s] + 1 < Parts)
    <3>1. pc' = [pc EXCEPT ![s] = "chat"] /\ SendOver(s)
      BY <1>2, <2>7 DEF SendPart
    <3>2. /\ pc' \in [Session -> Labels] /\ number' \in [Session -> Number \cup {NoFd}]
          /\ to' \in [Session -> Session \cup {NoSession}]
          /\ part' \in [Session -> 0..(Parts - 1)]
      BY <3>1, SMTT(20)
    <3>3. QED
      BY <2>4, <2>5, <3>2
  <2>8. QED
    BY <2>6, <2>7
<1>3. CASE Leave(s)
  BY <1>3, ClosesTyped DEF Leave, RemoveClient, CloseSession, ClearFd, Delete
<1>4. QED
  BY <1>1, <1>2, <1>3

-----------------------------------------------------------------------------
(* Labels, list and mutex.                                                 *)

LEMMA MainPreservesControl ==
    ASSUME TypeOK, LabelsAgree, ShutdownAgrees,
           \/ \E s \in Session : Accept(s)
           \/ ShutdownBegins \/ ShutdownStep
    PROVE  LabelsAgree' /\ ShutdownAgrees'
<1> USE DEF TypeOK, LabelsAgree, ShutdownAgrees, Main, Chatting, SendLabels,
            sessionVars, listVars, handlerVars
<1>1. ASSUME NEW s \in Session, Accept(s) PROVE LabelsAgree' /\ ShutdownAgrees'
  <2>1. fd' \in [Session -> Number \cup {NoFd}] /\ \A r \in Session \ {s} : fd'[r] = fd[r]
    BY <1>1 DEF Accept
  <2>2. QED
    BY <1>1, <2>1 DEF Accept
<1>2. CASE ShutdownBegins
  BY <1>2 DEF ShutdownBegins
<1>3. ASSUME NEW s \in Session, ShutdownLooks(s) PROVE LabelsAgree' /\ ShutdownAgrees'
  BY <1>3 DEF ShutdownLooks
<1>4. CASE ShutdownClears
  BY <1>4 DEF ShutdownClears
<1>5. CASE ShutdownEnds
  BY <1>5 DEF ShutdownEnds
<1>6. QED
  BY <1>1, <1>2, <1>3, <1>4, <1>5 DEF ShutdownStep

LEMMA HandlerPreservesControl ==
    ASSUME TypeOK, LabelsAgree, ShutdownAgrees, NEW s \in Session,
           \/ Serve(s) \/ Leave(s) \/ SendPart(s)
           \/ \E t \in Session : BeginSend(s, t)
    PROVE  LabelsAgree' /\ ShutdownAgrees'
<1> USE DEF TypeOK, LabelsAgree, ShutdownAgrees, Enter, Chatting, SendLabels, Labels,
            LeaveLabels, SendOver, sessionVars, listVars, handlerVars, mainVars
<1>1. CASE OpenFile(s)
  BY <1>1 DEF OpenFile
<1>2. CASE CloseFile(s)
  BY <1>2 DEF CloseFile
<1>3. CASE AddClient(s)
  BY <1>3 DEF AddClient
<1>4. CASE AuthFails(s)
  BY <1>4 DEF AuthFails
<1>5. CASE Recv(s)
  BY <1>5 DEF Recv
<1>6. CASE RecvFails(s)
  BY <1>6 DEF RecvFails
<1>7. CASE Dangles(s)
  BY <1>7 DEF Dangles
<1>8. CASE SendRefused(s)
  BY <1>8 DEF SendRefused
<1>9. CASE SendGet(s)
  BY <1>9 DEF SendGet
<1>10. CASE SendFails(s)
  BY <1>10 DEF SendFails
<1>11. CASE SendFailed(s)
  BY <1>11 DEF SendFailed
<1>12. CASE SendPart(s)
  BY <1>12 DEF SendPart
<1>13. ASSUME NEW t \in Session, BeginSend(s, t)
       PROVE  LabelsAgree' /\ ShutdownAgrees'
  BY <1>13 DEF BeginSend
<1>14. CASE RemoveClient(s)
  BY <1>14 DEF RemoveClient
<1>15. CASE CloseSession(s)
  <2>1. LabelsAgree'
    <3>1. PICK l \in {"clear", "delete"} : pc[s] = "close" /\ pc' = [pc EXCEPT ![s] = l]
      BY <1>15 DEF CloseSession
    <3>2. UNCHANGED <<fd, life, clients, to>>
      BY <1>15 DEF CloseSession
    <3>3. s \notin clients /\ life[s] = "live"
      BY <3>1
    <3>4. QED
      BY <3>1, <3>2, <3>3
  <2>2. ShutdownAgrees'
    BY <1>15 DEF CloseSession
  <2>3. QED
    BY <2>1, <2>2
<1>16. CASE ClearFd(s)
  <2>1. LabelsAgree'
    BY <1>16 DEF ClearFd
  <2>2. ShutdownAgrees'
    BY <1>16 DEF ClearFd
  <2>3. QED
    BY <2>1, <2>2
<1>17. CASE Delete(s)
  <2>1. LabelsAgree'
    BY <1>17 DEF Delete
  <2>2. ShutdownAgrees'
    BY <1>17 DEF Delete
  <2>3. QED
    BY <2>1, <2>2
<1>18. QED
  BY <1>1, <1>2, <1>3, <1>4, <1>5, <1>6, <1>7, <1>8, <1>9, <1>10, <1>11, <1>12,
     <1>13, <1>14, <1>15, <1>16, <1>17 DEF Serve, Leave

-----------------------------------------------------------------------------
(* Descriptors.                                                            *)

\* Steps that neither open nor close nor clear a descriptor.
Elsewhere ==
    /\ UNCHANGED <<table, fd, life>>
    /\ \A s \in Session : Closing(s)' <=> Closing(s)

LEMMA ElsewherePreservesOwnership ==
    ASSUME DescriptorOwned, ClosedForGood, Elsewhere
    PROVE  DescriptorOwned' /\ ClosedForGood'
BY DEF DescriptorOwned, ClosedForGood, Elsewhere

LEMMA MainPreservesOwnership ==
    ASSUME WireInv,
           \/ \E s \in Session : Accept(s)
           \/ ShutdownBegins \/ ShutdownStep
    PROVE  DescriptorOwned' /\ ClosedForGood'
<1> USE DEF WireInv, TypeOK, Main, Closing, kernelVars, sessionVars, listVars, handlerVars
<1>1. ASSUME NEW s \in Session, Accept(s) PROVE DescriptorOwned' /\ ClosedForGood'
  <2>1. PICK n \in Number : Opens(n, s) /\ fd' = [fd EXCEPT ![s] = n]
    BY <1>1 DEF Accept
  <2>2. /\ life' = [life EXCEPT ![s] = "live"] /\ pc' = [pc EXCEPT ![s] = "auth"]
        /\ life[s] = "none" /\ pc[s] = "none" /\ main = "accept" /\ main' = "accept"
    BY <1>1 DEF Accept, LabelsAgree
  <2>3. table[n] \notin Session /\ table' = [table EXCEPT ![n] = s]
    BY <2>1 DEF Opens, Free
  <2>4. \A k \in Number : table[k] # s
    BY <2>2 DEF DescriptorOwned
  <2>5. DescriptorOwned'
    BY <2>1, <2>2, <2>3, <2>4 DEF DescriptorOwned
  <2>6. ClosedForGood'
    BY <2>1, <2>2, <2>3, <2>4 DEF ClosedForGood
  <2>7. QED
    BY <2>5, <2>6
<1>2. CASE ShutdownBegins \/ ShutdownEnds
  BY <1>2, ElsewherePreservesOwnership DEF ShutdownBegins, ShutdownEnds, Elsewhere
<1>3. ASSUME NEW s \in Session, ShutdownLooks(s)
      PROVE  DescriptorOwned' /\ ClosedForGood'
  <2>1. CASE ~active[s]
    BY <1>3, <2>1, ElsewherePreservesOwnership DEF ShutdownLooks, Elsewhere
  <2>2. CASE active[s]
    <3>1. /\ Closes(fd[s]) /\ main = "closing" /\ main' = "clear" /\ victim' = s
          /\ UNCHANGED <<fd, life, pc>>
      BY <1>3, <2>2 DEF ShutdownLooks
    <3>2. pc[s] # "clear"
      BY <1>3 DEF ShutdownLooks, ShutdownAgrees, LabelsAgree, Chatting, SendLabels
    <3>3. fd[s] # NoFd => table[fd[s]] = s
      BY <3>1, <3>2 DEF DescriptorOwned
    <3>4. table' = IF fd[s] = NoFd THEN table ELSE [table EXCEPT ![fd[s]] = Closed]
      BY <3>1, ClosesTable
    <3>5. DescriptorOwned'
      BY <3>1, <3>2, <3>3, <3>4 DEF DescriptorOwned
    <3>6. ClosedForGood'
      BY <3>1, <3>2, <3>3, <3>4 DEF DescriptorOwned, ClosedForGood
    <3>7. QED
      BY <3>5, <3>6
  <2>3. QED
    BY <2>1, <2>2
<1>4. CASE ShutdownClears
  <2>1. /\ main = "clear" /\ main' = "closing" /\ fd' = [fd EXCEPT ![victim] = NoFd]
        /\ UNCHANGED <<table, life, pc>> /\ victim \in Session
    BY <1>4 DEF ShutdownClears, ShutdownAgrees
  <2>2. \A n \in Number : table[n] # victim
    BY <2>1 DEF ClosedForGood
  <2>3. DescriptorOwned'
    BY <2>1, <2>2 DEF DescriptorOwned
  <2>4. ClosedForGood'
    BY <2>1, <2>2 DEF ClosedForGood
  <2>5. QED
    BY <2>3, <2>4
<1>5. QED
  BY <1>1, <1>2, <1>3, <1>4 DEF ShutdownStep

LEMMA HandlerPreservesOwnership ==
    ASSUME WireInv, NEW s \in Session,
           \/ Serve(s) \/ Leave(s) \/ SendPart(s)
           \/ \E t \in Session : BeginSend(s, t)
    PROVE  DescriptorOwned' /\ ClosedForGood'
<1> USE DEF WireInv, TypeOK, Enter, Closing, kernelVars, sessionVars, listVars, mainVars
<1>1. CASE OpenFile(s)
  <2>1. PICK n \in Number : Opens(n, File)
    BY <1>1 DEF OpenFile
  <2>2. table[n] \notin Session /\ table' = [table EXCEPT ![n] = File]
    BY <2>1 DEF Opens, Free
  <2>3. UNCHANGED <<fd, life, main, victim>> /\ pc' = [pc EXCEPT ![s] = "file"]
        /\ pc[s] = "auth"
    BY <1>1 DEF OpenFile
  <2>4. DescriptorOwned'
    <3>1. \A k \in Number : table'[k] \in Session => table'[k] = table[k]
      BY <2>2, WireAssumption DEF File
    <3>2. \A r \in Session : Closing(r)' <=> Closing(r)
      BY <2>3
    <3>3. \A r \in Session : fd[r] # NoFd /\ ~Closing(r) => fd[r] # n
      BY <2>2 DEF DescriptorOwned
    <3>4. QED
      BY <2>2, <2>3, <3>1, <3>2, <3>3 DEF DescriptorOwned
  <2>5. ClosedForGood'
    BY <2>2, <2>3 DEF ClosedForGood
  <2>6. QED
    BY <2>4, <2>5
<1>2. CASE CloseFile(s)
  <2>1. table[number[s]] = File /\ number[s] \in Number
    BY <1>2 DEF CloseFile, FilesAgree
  <2>2. table' = [table EXCEPT ![number[s]] = Closed]
    BY <1>2, <2>1, ClosesTable DEF CloseFile
  <2>3. UNCHANGED <<fd, life, main, victim>> /\ pc' = [pc EXCEPT ![s] = "auth"]
        /\ pc[s] = "file"
    BY <1>2 DEF CloseFile
  <2>4. DescriptorOwned'
    BY <2>1, <2>2, <2>3, SMTT(20) DEF DescriptorOwned
  <2>5. ClosedForGood'
    BY <2>1, <2>2, <2>3 DEF ClosedForGood
  <2>6. QED
    BY <2>4, <2>5
<1>3. CASE \/ AddClient(s) \/ AuthFails(s) \/ Recv(s) \/ RecvFails(s) \/ Dangles(s)
           \/ SendRefused(s) \/ SendGet(s) \/ SendFails(s) \/ SendFailed(s)
           \/ SendPart(s) \/ RemoveClient(s) \/ \E t \in Session : BeginSend(s, t)
  <2>1. Elsewhere
    BY <1>3 DEF Elsewhere, AddClient, AuthFails, Recv, RecvFails, Dangles, SendRefused,
       SendGet, SendFails, SendFailed, SendPart, RemoveClient, BeginSend, handlerVars
  <2>2. QED
    BY <2>1, ElsewherePreservesOwnership
<1>4. CASE CloseSession(s)
  <2>1. ~Closing(s)
    BY <1>4 DEF CloseSession, ShutdownAgrees, LabelsAgree, Chatting, SendLabels
  <2>2. CASE ~active[s]
    BY <1>4, <2>2, ElsewherePreservesOwnership DEF CloseSession, Elsewhere
  <2>3. CASE active[s]
    <3>1. /\ Closes(fd[s]) /\ pc' = [pc EXCEPT ![s] = "clear"]
          /\ UNCHANGED <<fd, life, main, victim>>
      BY <1>4, <2>3 DEF CloseSession
    <3>2. fd[s] # NoFd => table[fd[s]] = s
      BY <2>1 DEF DescriptorOwned
    <3>3. table' = IF fd[s] = NoFd THEN table ELSE [table EXCEPT ![fd[s]] = Closed]
      BY <3>1, ClosesTable
    <3>4. DescriptorOwned'
      BY <3>1, <3>2, <3>3 DEF DescriptorOwned
    <3>5. ClosedForGood'
      BY <3>1, <3>2, <3>3 DEF DescriptorOwned, ClosedForGood
    <3>6. QED
      BY <3>4, <3>5
  <2>4. QED
    BY <2>2, <2>3
<1>5. CASE ClearFd(s)
  <2>1. /\ pc[s] = "clear" /\ pc' = [pc EXCEPT ![s] = "delete"]
        /\ fd' = [fd EXCEPT ![s] = NoFd] /\ UNCHANGED <<table, life, main, victim>>
    BY <1>5 DEF ClearFd
  <2>2. \A n \in Number : table[n] # s
    BY <2>1 DEF ClosedForGood
  <2>3. DescriptorOwned'
    BY <2>1, <2>2 DEF DescriptorOwned
  <2>4. ClosedForGood'
    BY <2>1, <2>2 DEF ClosedForGood
  <2>5. QED
    BY <2>3, <2>4
<1>6. CASE Delete(s)
  <2>1. /\ pc[s] = "delete" /\ pc' = [pc EXCEPT ![s] = "done"] /\ Closes(fd[s])
        /\ fd' = [fd EXCEPT ![s] = NoFd] /\ life' = [life EXCEPT ![s] = "freed"]
        /\ UNCHANGED <<main, victim>>
    BY <1>6 DEF Delete
  <2>2. ~Closing(s)
    BY <2>1 DEF ShutdownAgrees, LabelsAgree, Chatting, SendLabels
  <2>3. fd[s] # NoFd => table[fd[s]] = s
    BY <2>2 DEF DescriptorOwned
  <2>4. \A n \in Number : table[n] = s => n = fd[s]
    BY DEF DescriptorOwned
  <2>5. table' = IF fd[s] = NoFd THEN table ELSE [table EXCEPT ![fd[s]] = Closed]
    BY <2>1, ClosesTable
  <2>6. \A n \in Number : table'[n] # s /\ (table'[n] \in Session => table'[n] = table[n])
    BY <2>3, <2>4, <2>5
  <2>7. DescriptorOwned'
    BY <2>1, <2>3, <2>5, <2>6 DEF DescriptorOwned
  <2>8. ClosedForGood'
    BY <2>1, <2>6 DEF ClosedForGood
  <2>9. QED
    BY <2>7, <2>8
<1>7. QED
  BY <1>1, <1>2, <1>3, <1>4, <1>5, <1>6 DEF Serve, Leave

-----------------------------------------------------------------------------
(* The user file and the receiving handlers.                               *)

\* What becomes of the numbers others hold: a connection that is closed leaves
\* its number free, and only before shutdown_all does a number get a new one.
Releases(s) ==
    \A n \in Number : table'[n] = table[n] \/ (table[n] = s /\ table'[n] = Closed)

LEMMA ReleasesPreserve ==
    ASSUME TypeOK, FilesAgree, ReadsOwnConnection, WaitsOnOwn,
           NEW s \in Session, Releases(s), UNCHANGED number,
           \A r \in Session : pc'[r] \in {"file", "chat"} => pc'[r] = pc[r],
           main' = "accept" => main = "accept" /\ pc[s] # "chat"
    PROVE  FilesAgree' /\ ReadsOwnConnection' /\ WaitsOnOwn'
<1> USE DEF TypeOK, Releases
<1>1. FilesAgree'
  <2>1. \A r \in Session : pc'[r] = "file" => pc[r] = "file"
    OBVIOUS
  <2>2. \A n \in Number : table[n] = File => table'[n] = File
    OBVIOUS
  <2>3. QED
    BY <2>1, <2>2 DEF FilesAgree
<1>2. ReadsOwnConnection'
  BY DEF ReadsOwnConnection
<1>3. WaitsOnOwn'
  BY DEF WaitsOnOwn
<1>4. QED
  BY <1>1, <1>2, <1>3

LEMMA MainPreservesUse ==
    ASSUME WireInv,
           \/ \E s \in Session : Accept(s)
           \/ ShutdownBegins \/ ShutdownStep
    PROVE  FilesAgree' /\ ReadsOwnConnection' /\ WaitsOnOwn'
<1> USE DEF WireInv, TypeOK, Main, kernelVars, sessionVars, listVars, handlerVars
<1>1. ASSUME NEW s \in Session, Accept(s)
      PROVE  FilesAgree' /\ ReadsOwnConnection' /\ WaitsOnOwn'
  <2>1. PICK n \in Number : Opens(n, s)
    BY <1>1 DEF Accept
  <2>2. table[n] = Closed /\ table' = [table EXCEPT ![n] = s]
    BY <2>1 DEF Opens, Free
  <2>3. /\ main = "accept" /\ main' = "accept" /\ number' = number
        /\ pc' = [pc EXCEPT ![s] = "auth"]
    BY <1>1 DEF Accept
  <2>4. FilesAgree'
    BY <2>2, <2>3, SMTT(20) DEF FilesAgree
  <2>5. ReadsOwnConnection' /\ WaitsOnOwn'
    BY <2>2, <2>3 DEF ReadsOwnConnection, WaitsOnOwn
  <2>6. QED
    BY <2>4, <2>5
<1>2. CASE ShutdownBegins \/ ShutdownClears \/ ShutdownEnds
  <2>1. UNCHANGED <<table, number, pc>> /\ main' # "accept"
    BY <1>2 DEF ShutdownBegins, ShutdownClears, ShutdownEnds
  <2>2. QED
    BY <2>1 DEF FilesAgree, ReadsOwnConnection, WaitsOnOwn
<1>3. ASSUME NEW s \in Session, ShutdownLooks(s)
      PROVE  FilesAgree' /\ ReadsOwnConnection' /\ WaitsOnOwn'
  <2>1. main = "closing" /\ main' # "accept" /\ UNCHANGED <<pc, number>>
    BY <1>3 DEF ShutdownLooks
  <2>2. pc[s] # "clear"
    BY <1>3 DEF ShutdownLooks, ShutdownAgrees, LabelsAgree, Chatting, SendLabels
  <2>3. fd[s] # NoFd => table[fd[s]] = s
    BY <2>1, <2>2 DEF DescriptorOwned, Closing
  <2>4. Releases(s)
    BY <1>3, <2>3, ClosesTable DEF ShutdownLooks, Releases
  <2>5. QED
    BY <2>1, <2>4, ReleasesPreserve
<1>4. QED
  BY <1>1, <1>2, <1>3 DEF ShutdownStep

\* A handler that asks its session for the number gets that of its own
\* connection, or one that shutdown_all has just closed.
LEMMA OwnNumber ==
    ASSUME WireInv, NEW s \in Session, pc[s] # "clear", fd[s] # NoFd
    PROVE  /\ table[fd[s]] \in {s, Closed, File}
           /\ main = "accept" => table[fd[s]] = s
<1>1. CASE main = "clear" /\ victim = s
  BY <1>1 DEF WireInv, VictimClosed
<1>2. CASE ~(main = "clear" /\ victim = s)
  BY <1>2 DEF WireInv, DescriptorOwned, Closing
<1>3. QED
  BY <1>1, <1>2

\* Steps that only give s a number to wait on, or none.
LEMMA WaitingPreserves ==
    ASSUME WireInv, NEW s \in Session, UNCHANGED <<table, main>>,
           number' \in [Session -> Number \cup {NoFd}],
           \A r \in Session \ {s} : pc'[r] = pc[r] /\ number'[r] = number[r],
           pc[s] # "clear", pc'[s] # "file",
           pc'[s] = "chat" => number'[s] = fd[s]
    PROVE  FilesAgree' /\ ReadsOwnConnection' /\ WaitsOnOwn'
<1>1. FilesAgree'
  BY DEF WireInv, FilesAgree
<1>2. ReadsOwnConnection'
  BY OwnNumber DEF WireInv, ReadsOwnConnection
<1>3. WaitsOnOwn'
  BY OwnNumber DEF WireInv, WaitsOnOwn
<1>4. QED
  BY <1>1, <1>2, <1>3

LEMMA HandlerPreservesUse ==
    ASSUME WireInv, NEW s \in Session,
           \/ Serve(s) \/ Leave(s) \/ SendPart(s)
           \/ \E t \in Session : BeginSend(s, t)
    PROVE  FilesAgree' /\ ReadsOwnConnection' /\ WaitsOnOwn'
<1>1. CASE OpenFile(s)
  <2> USE DEF WireInv, TypeOK, Enter, mainVars
  <2>1. PICK n \in Number : Opens(n, File) /\ number' = [number EXCEPT ![s] = n]
    BY <1>1 DEF OpenFile
  <2>2. table[n] = Closed /\ table' = [table EXCEPT ![n] = File]
    BY <2>1 DEF Opens, Free
  <2>3. /\ pc' = [pc EXCEPT ![s] = "file"] /\ main' = main
        /\ \A r \in Session : pc[r] # "file"
    BY <1>1 DEF OpenFile, FilesAgree
  <2>4. FilesAgree'
    BY <2>1, <2>2, <2>3 DEF FilesAgree
  <2>5. ReadsOwnConnection' /\ WaitsOnOwn'
    BY <2>1, <2>2, <2>3 DEF ReadsOwnConnection, WaitsOnOwn
  <2>6. QED
    BY <2>4, <2>5
<1>2. CASE CloseFile(s)
  <2> USE DEF WireInv, TypeOK, Enter, mainVars
  <2>1. /\ pc[s] = "file" /\ pc' = [pc EXCEPT ![s] = "auth"] /\ main' = main
        /\ number' = [number EXCEPT ![s] = NoFd]
        /\ number[s] \in Number /\ table[number[s]] = File
    BY <1>2 DEF CloseFile, FilesAgree
  <2>2. table' = [table EXCEPT ![number[s]] = Closed]
    BY <1>2, <2>1, ClosesTable DEF CloseFile
  <2>3. FilesAgree'
    BY <2>1, <2>2 DEF FilesAgree
  <2>4. ReadsOwnConnection' /\ WaitsOnOwn'
    BY <2>1, <2>2 DEF ReadsOwnConnection, WaitsOnOwn
  <2>5. QED
    BY <2>3, <2>4
<1>3. CASE \/ AddClient(s) \/ AuthFails(s) \/ Recv(s) \/ RecvFails(s)
           \/ SendRefused(s) \/ SendGet(s) \/ SendFails(s) \/ SendFailed(s)
           \/ SendPart(s) \/ \E t \in Session : BeginSend(s, t)
  <2> USE DEF WireInv, TypeOK, Enter, Waits, SendOver, kernelVars, sessionVars, mainVars
  <2>1. UNCHANGED <<table, main>> /\ pc[s] # "clear"
    BY <1>3 DEF AddClient, AuthFails, Recv, RecvFails, SendRefused, SendGet, SendFails,
       SendFailed, SendPart, BeginSend
  <2>2. /\ \A r \in Session \ {s} : pc'[r] = pc[r] /\ number'[r] = number[r]
        /\ pc'[s] # "file" /\ (pc'[s] = "chat" => number'[s] = fd[s])
    BY <1>3 DEF AddClient, AuthFails, Recv, RecvFails, SendRefused, SendGet, SendFails,
       SendFailed, SendPart, BeginSend
  <2>3. number' \in [Session -> Number \cup {NoFd}]
    BY <1>3, ServePreservesType, SendAndLeavePreserveType DEF Serve
  <2>4. QED
    BY <2>1, <2>2, <2>3, WaitingPreserves
<1>4. CASE Dangles(s) \/ RemoveClient(s) \/ ClearFd(s)
  <2>1. /\ UNCHANGED <<table, number, main>>
        /\ \A r \in Session : pc'[r] \in {"file", "chat"} => pc'[r] = pc[r]
    BY <1>4 DEF Dangles, RemoveClient, ClearFd, WireInv, TypeOK, Enter, kernelVars,
       handlerVars, mainVars
  <2>2. QED
    BY <2>1 DEF WireInv, FilesAgree, ReadsOwnConnection, WaitsOnOwn
<1>5. CASE CloseSession(s) \/ Delete(s)
  <2> USE DEF WireInv, TypeOK, Enter, mainVars
  <2>1. pc[s] \in {"close", "delete"} /\ ~Closing(s)
    BY <1>5 DEF CloseSession, Delete, Closing, ShutdownAgrees, LabelsAgree, Chatting,
       SendLabels
  <2>2. fd[s] # NoFd => table[fd[s]] = s
    BY <2>1 DEF DescriptorOwned
  <2>3. Releases(s)
    <3>1. Closes(fd[s]) \/ table' = table
      BY <1>5 DEF CloseSession, Delete, kernelVars
    <3>2. QED
      BY <2>2, <3>1, ClosesTable DEF Releases
  <2>4. /\ UNCHANGED <<number, main>>
        /\ \A r \in Session : pc'[r] \in {"file", "chat"} => pc'[r] = pc[r]
    BY <1>5 DEF CloseSession, Delete
  <2>5. QED
    BY <2>1, <2>3, <2>4, ReleasesPreserve
<1>6. QED
  BY <1>1, <1>2, <1>3, <1>4, <1>5 DEF Serve, Leave

\* The number shutdown_all is about to clear is given to no connection.
LEMMA VictimStaysClosed ==
    ASSUME WireInv, TypeOK', Next
    PROVE  VictimClosed'
<1> SUFFICES ASSUME main' = "clear", fd'[victim'] # NoFd
             PROVE  table'[fd'[victim']] \in {Closed, File}
  BY DEF VictimClosed
<1> USE DEF WireInv, TypeOK, Main, kernelVars, sessionVars, listVars, handlerVars
<1>1. CASE (\E s \in Session : Accept(s)) \/ ShutdownBegins
           \/ ShutdownClears \/ ShutdownEnds
  BY <1>1 DEF Accept, ShutdownBegins, ShutdownClears, ShutdownEnds
<1>2. ASSUME NEW s \in Session, ShutdownLooks(s)
      PROVE  table'[fd'[victim']] \in {Closed, File}
  <2>1. Closes(fd[s]) /\ victim' = s /\ fd' = fd
    BY <1>2 DEF ShutdownLooks
  <2>2. QED
    BY <2>1, ClosesTable
<1>3. ASSUME NEW s \in Session,
             \/ Serve(s) \/ Leave(s) \/ SendPart(s)
             \/ \E t \in Session : BeginSend(s, t)
      PROVE  table'[fd'[victim']] \in {Closed, File}
  <2> USE DEF mainVars, Enter
  <2>1. main = "clear" /\ victim' = victim /\ victim \in clients
    BY <1>3 DEF Serve, OpenFile, CloseFile, AddClient, AuthFails, Recv, RecvFails, Dangles,
       SendRefused, SendGet, SendFails, SendFailed, SendPart, BeginSend, Leave,
       RemoveClient, CloseSession, ClearFd, Delete, ShutdownAgrees
  <2>2. pc[s] \in {"clear", "delete"} => s # victim
    BY <2>1 DEF LabelsAgree, Chatting, SendLabels
  <2>3. fd'[victim] = fd[victim]
    BY <1>3, <2>1, <2>2 DEF Serve, OpenFile, CloseFile, AddClient, AuthFails, Recv,
       RecvFails, Dangles, SendRefused, SendGet, SendFails, SendFailed, SendPart,
       BeginSend, Leave, RemoveClient, CloseSession, ClearFd, Delete
  <2>4. table[fd[victim]] \in {Closed, File} /\ fd[victim] \in Number
    BY <2>1, <2>3 DEF VictimClosed
  <2>5. \A n \in Number : table'[n] \in {table[n], Closed, File}
    BY <1>3, ClosesTable DEF Serve, OpenFile, CloseFile, AddClient, AuthFails, Recv,
       RecvFails, Dangles, SendRefused, SendGet, SendFails, SendFailed, SendPart,
       BeginSend, Leave, RemoveClient, CloseSession, ClearFd, Delete, Opens
  <2>6. QED
    BY <2>1, <2>3, <2>4, <2>5
<1>4. CASE Ended
  BY <1>4 DEF Ended, vars, mainVars, VictimClosed
<1>5. QED
  BY <1>1, <1>2, <1>3, <1>4 DEF Next, ShutdownStep

-----------------------------------------------------------------------------
(* The theorems.                                                           *)

LEMMA StutterPreservesInv ==
    ASSUME WireInv, UNCHANGED vars
    PROVE  WireInv'
<1> USE DEF vars, kernelVars, sessionVars, listVars, handlerVars, mainVars
<1>1. TypeOK'
  BY DEF WireInv, TypeOK
<1>2. LabelsAgree' /\ ShutdownAgrees'
  BY DEF WireInv, LabelsAgree, ShutdownAgrees
<1>3. FilesAgree' /\ ReadsOwnConnection' /\ WaitsOnOwn' /\ VictimClosed'
  BY DEF WireInv, FilesAgree, ReadsOwnConnection, WaitsOnOwn, VictimClosed
<1>4. DescriptorOwned' /\ ClosedForGood'
  BY ElsewherePreservesOwnership DEF WireInv, Elsewhere, Closing
<1>5. QED
  BY <1>1, <1>2, <1>3, <1>4 DEF WireInv

LEMMA NextPreservesInv ==
    ASSUME WireInv, Next
    PROVE  WireInv'
<1>1. CASE (\E s \in Session : Accept(s)) \/ ShutdownBegins \/ ShutdownStep
  <2>1. TypeOK'
    BY <1>1, MainPreservesType DEF WireInv
  <2>2. LabelsAgree' /\ ShutdownAgrees'
    BY <1>1, MainPreservesControl DEF WireInv
  <2>3. QED
    BY <1>1, <2>1, <2>2, MainPreservesOwnership, MainPreservesUse, VictimStaysClosed
       DEF WireInv
<1>2. ASSUME NEW s \in Session,
             \/ Serve(s) \/ Leave(s) \/ SendPart(s)
             \/ \E t \in Session : BeginSend(s, t)
      PROVE  WireInv'
  <2>1. TypeOK'
    BY <1>2, ServePreservesType, SendAndLeavePreserveType DEF WireInv
  <2>2. LabelsAgree' /\ ShutdownAgrees'
    BY <1>2, HandlerPreservesControl DEF WireInv
  <2>3. QED
    BY <1>2, <2>1, <2>2, HandlerPreservesOwnership, HandlerPreservesUse, VictimStaysClosed
       DEF WireInv
<1>3. CASE Ended
  BY <1>3, StutterPreservesInv DEF Ended
<1>4. QED
  BY <1>1, <1>2, <1>3 DEF Next

\* WireInv holds of every server: one closer at a time for each descriptor
\* (close_session, shutdown_all, cleanup_and_exit).
THEOREM WireInvariant == Spec => []WireInv
<1>1. WireInv /\ [Next]_vars => WireInv'
  BY NextPreservesInv, StutterPreservesInv
<1>2. QED
  BY <1>1, InitEstablishesInv, PTL DEF Spec

\* The number in a UniqueFd stands for the session's own connection until it is
\* closed, and is closed once (UniqueFd, session.h).
THEOREM DescriptorsOwned == Spec => []DescriptorOwned
<1>1. WireInv => DescriptorOwned
  BY DEF WireInv
<1>2. QED
  BY <1>1, WireInvariant, PTL

\* No handler receives from the connection of another client (recv_line,
\* shutdown_all, accept_loop).
THEOREM OwnConnectionRead == Spec => []ReadsOwnConnection
<1>1. WireInv => ReadsOwnConnection
  BY DEF WireInv
<1>2. QED
  BY <1>1, WireInvariant, PTL

-----------------------------------------------------------------------------
(* Leaving.                                                                *)

\* The main thread moves no handler, and only nears the end of its list.
LEMMA MainNearsEnd ==
    ASSUME WireInv,
           \/ \E s \in Session : Accept(s)
           \/ ShutdownBegins \/ ShutdownStep
    PROVE  /\ \A s \in Session : pc[s] \in LeaveLabels => pc'[s] = pc[s]
           /\ mutex = "main" => LooksOnce
<1> USE DEF WireInv, TypeOK, Main
<1>1. ASSUME NEW s \in Session, Accept(s)
      PROVE  mutex # "main" /\ \A r \in Session : pc[r] \in LeaveLabels => pc'[r] = pc[r]
  <2>1. life[s] = "none" /\ pc' = [pc EXCEPT ![s] = "auth"] /\ main = "accept"
    BY <1>1 DEF Accept
  <2>2. pc[s] = "none"
    BY <2>1 DEF LabelsAgree
  <2>3. QED
    BY <2>1, <2>2 DEF LeaveLabels, ShutdownAgrees
<1>2. CASE ShutdownBegins
  BY <1>2 DEF ShutdownBegins, handlerVars
<1>3. ASSUME NEW s \in Session, ShutdownLooks(s)
      PROVE  UNCHANGED pc /\ LooksOnce
  BY <1>3 DEF ShutdownLooks, LooksOnce, handlerVars
<1>4. CASE ShutdownClears \/ ShutdownEnds
  BY <1>4 DEF ShutdownClears, ShutdownEnds, LooksOnce, handlerVars
<1>5. QED
  BY <1>1, <1>2, <1>3, <1>4 DEF ShutdownStep

\* A handler moves nobody else and leaves shutdown_all alone; if it is leaving it
\* goes on.
LEMMA HandlerNearsEnd ==
    ASSUME TypeOK, NEW s \in Session,
           \/ Serve(s) \/ Leave(s) \/ SendPart(s)
           \/ \E t \in Session : BeginSend(s, t)
    PROVE  /\ UNCHANGED <<mainVars, mutex>>
           /\ \A r \in Session : pc[r] \in LeaveLabels =>
                pc'[r] = pc[r] \/ LeaveLeft[pc'[r]] < LeaveLeft[pc[r]]
<1> USE DEF TypeOK, Enter, mainVars, listVars, handlerVars
<1>1. CASE Serve(s) \/ SendPart(s) \/ \E t \in Session : BeginSend(s, t)
  <2>1. UNCHANGED <<mainVars, mutex>>
    BY <1>1 DEF Serve, OpenFile, CloseFile, AddClient, AuthFails, Recv, RecvFails, Dangles,
       SendRefused, SendGet, SendFails, SendFailed, SendPart, BeginSend
  <2>2. \A r \in Session : pc'[r] = pc[r] \/ pc[r] \notin LeaveLabels
    BY <1>1 DEF Serve, OpenFile, CloseFile, AddClient, AuthFails, Recv, RecvFails, Dangles,
       SendRefused, SendGet, SendFails, SendFailed, SendPart, BeginSend, LeaveLabels
  <2>3. QED
    BY <2>1, <2>2
<1>2. CASE Leave(s)
  <2>1. /\ UNCHANGED <<mainVars, mutex>>
        /\ \/ pc[s] = "leave" /\ pc' = [pc EXCEPT ![s] = "close"]
           \/ pc[s] = "close" /\ pc' = [pc EXCEPT ![s] = "clear"]
           \/ pc[s] = "close" /\ pc' = [pc EXCEPT ![s] = "delete"]
           \/ pc[s] = "clear" /\ pc' = [pc EXCEPT ![s] = "delete"]
           \/ pc[s] = "delete" /\ pc' = [pc EXCEPT ![s] = "done"]
    BY <1>2 DEF Leave, RemoveClient, CloseSession, ClearFd, Delete
  <2>2. \A r \in Session \ {s} : pc'[r] = pc[r]
    BY <2>1
  <2>3. LeaveLeft[pc'[s]] < LeaveLeft[pc[s]]
    BY <2>1 DEF LeaveLeft, Labels, LeaveLabels, SendLabels
  <2>4. QED
    BY <2>1, <2>2, <2>3
<1>3. QED
  BY <1>1, <1>2

\* The safety half of LeavingCompletes: a handler that leaves never turns back,
\* and the only one it may wait for, shutdown_all with the mutex, has with every
\* step of its own fewer sessions to look at, whatever the handlers do meanwhile
\* (cleanup_and_exit, remove_client, shutdown_all).
THEOREM LeaversComeNearer == Spec => LeaversAdvance
<1>1. ASSUME WireInv, Next
      PROVE  /\ \A s \in Session : pc[s] \in LeaveLabels =>
                    pc'[s] = pc[s] \/ LeaveLeft[pc'[s]] < LeaveLeft[pc[s]]
             /\ mutex = "main" => UNCHANGED <<mainVars, mutex>> \/ LooksOnce
  <2>1. CASE \E s \in Session : Accept(s)
    BY <1>1, <2>1, MainNearsEnd
  <2>2. CASE ShutdownBegins \/ ShutdownStep
    BY <1>1, <2>2, MainNearsEnd
  <2>3. ASSUME NEW s \in Session,
               \/ Serve(s) \/ Leave(s) \/ SendPart(s)
               \/ \E t \in Session : BeginSend(s, t)
        PROVE  /\ UNCHANGED <<mainVars, mutex>>
               /\ \A r \in Session : pc[r] \in LeaveLabels =>
                    pc'[r] = pc[r] \/ LeaveLeft[pc'[r]] < LeaveLeft[pc[r]]
    BY <1>1, <2>3, HandlerNearsEnd DEF WireInv
  <2>4. CASE Ended
    BY <2>4 DEF Ended, vars, mainVars, handlerVars, listVars
  <2>5. QED
    BY <1>1, <2>1, <2>2, <2>3, <2>4 DEF Next
<1>2. QED
  BY <1>1, WireInvariant, PTL DEF Spec, LeaversAdvance
=============================================================================
