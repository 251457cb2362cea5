------------------------ MODULE ClientHandlerProofs ------------------------
(***************************************************************************)
(* Proofs about ClientHandler for any number of sessions, users, rooms and *)
(* attempts.                                                               *)
(*                                                                         *)
(* TypeOK alone is not inductive: that a room to be joined has a name and  *)
(* that the attempts stay in range depends on where the handler is, and so *)
(* do the safety properties.  HandlerInv states these dependencies; it is  *)
(* shown inductive action by action, and every theorem below follows.      *)
(***************************************************************************)
EXTENDS ClientHandler, TLAPS

\* Abbreviations that every proof below looks through.
USE UnauthenticatedIsNoUser, NoSessionIsNoSession, RoomAssumption,
    AttemptAssumption
USE DEF Unlisted, Listed, Closing, MayBeInRoom, Step, Goto, Quiet, sessionVars,
        managerVars, threadVars, Members, NoFrame, Frame, SessionTypeOK,
        BroadcastTypeOK, RoomTypeOK

\* Initially nothing is allocated and nothing is registered.
LEMMA InitEstablishesInv == Init => HandlerInv
<1> USE DEF Init, SessionInit, BroadcastInit, RoomInit
<1>1. Init => TypeOK
  <2>1. Init => SessionTypeOK /\ BroadcastTypeOK
    OBVIOUS
  <2>2. Init => RoomTypeOK
    OBVIOUS
  <2>3. Init => attempts \in [Session -> 0..MaxAuthAttempts]
    OBVIOUS
  <2>4. Init => sent \in Frame \cup {NoFrame}
    OBVIOUS
  <2>5. Init => pc \in [Session -> Unlisted \cup Listed \cup Closing]
    OBVIOUS
  <2>6. Init => /\ current_room \in [Session -> Room \cup {NoRoom}]
                /\ kind \in [Session -> {"none", "room", "all", "pm"}]
                /\ recipients \in [Session -> SUBSET Session]
                /\ registered \in SUBSET User
                /\ fault \in BOOLEAN
    OBVIOUS
  <2>7. QED
    BY <2>1, <2>2, <2>3, <2>4, <2>5, <2>6, Zenon DEF TypeOK
<1>2. Init => LifeFollowsHandler /\ HandlerLocal
  BY DEF LifeFollowsHandler, HandlerLocal
<1>3. Init => ManagersFollowHandlers /\ RecipientsSettled
  BY DEF ManagersFollowHandlers, RecipientsSettled
<1>4. Init => NameIndexConsistent /\ NoEmptyRooms /\ NoEcho
  BY DEF NameIndexConsistent, NoEmptyRooms, NoEcho
<1>5. QED
  BY <1>1, <1>2, <1>3, <1>4 DEF HandlerInv

\* Every step of the accept loop, of a handler and of shutdown_all preserves
\* HandlerInv.
LEMMA StepPreservesInv == HandlerInv /\ [Next]_vars => HandlerInv'
<1>1. SUFFICES ASSUME HandlerInv, [Next]_vars
               PROVE  HandlerInv'
  OBVIOUS
<1>2. QED
  <2> USE <1>1 DEF HandlerInv, TypeOK
  (* The accept loop. *)
  <2>1. ASSUME NEW h \in Session, Accept(h)
        PROVE  HandlerInv'
    <3> USE <2>1 DEF Accept, construct
    <3>1. TypeOK'
      OBVIOUS
    <3>2. LifeFollowsHandler' /\ HandlerLocal' /\ ManagersFollowHandlers'
      BY DEF LifeFollowsHandler, HandlerLocal, ManagersFollowHandlers
    <3>3. RecipientsSettled' /\ NameIndexConsistent' /\ NoEmptyRooms' /\ NoEcho'
      BY DEF RecipientsSettled, NameIndexConsistent, NoEmptyRooms,
             NoEcho, HandlerLocal
    <3>4. QED
      BY <3>1, <3>2, <3>3
  <2>2. ASSUME NEW h \in Session, SpawnFails(h)
        PROVE  HandlerInv'
    <3> USE <2>2 DEF SpawnFails, construct
    <3>1. TypeOK'
      OBVIOUS
    <3>2. LifeFollowsHandler' /\ HandlerLocal' /\ ManagersFollowHandlers'
      BY DEF LifeFollowsHandler, HandlerLocal, ManagersFollowHandlers
    <3>3. RecipientsSettled' /\ NameIndexConsistent' /\ NoEmptyRooms' /\ NoEcho'
      BY DEF RecipientsSettled, NameIndexConsistent, NoEmptyRooms,
             NoEcho, HandlerLocal
    <3>4. QED
      BY <3>1, <3>2, <3>3
  (* try_authenticate. *)
  <2>3. ASSUME NEW h \in Session, AuthLost(h)
        PROVE  HandlerInv'
    <3> USE <2>3 DEF AuthLost, send_msg, send_refused, send_delivered, send_failed
    <3>1. TypeOK'
      OBVIOUS
    <3>2. LifeFollowsHandler' /\ HandlerLocal' /\ ManagersFollowHandlers'
      BY DEF LifeFollowsHandler, HandlerLocal, ManagersFollowHandlers
    <3>3. RecipientsSettled' /\ NameIndexConsistent' /\ NoEmptyRooms' /\ NoEcho'
      BY DEF RecipientsSettled, NameIndexConsistent, NoEmptyRooms,
             NoEcho
    <3>4. QED
      BY <3>1, <3>2, <3>3
  <2>4. ASSUME NEW h \in Session, AuthFails(h)
        PROVE  HandlerInv'
    <3> USE <2>4 DEF AuthFails, send_msg, send_refused, send_delivered, send_failed
    <3>1. TypeOK'
      <4>1. attempts[h] \in Nat /\ attempts[h] < MaxAuthAttempts
        BY DEF HandlerLocal
      <4>2. attempts' \in [Session -> 0..MaxAuthAttempts]
        BY <4>1
      <4>3. QED
        BY <4>2
    <3>2. LifeFollowsHandler' /\ HandlerLocal' /\ ManagersFollowHandlers'
      BY DEF LifeFollowsHandler, HandlerLocal, ManagersFollowHandlers
    <3>3. RecipientsSettled' /\ NameIndexConsistent' /\ NoEmptyRooms' /\ NoEcho'
      BY DEF RecipientsSettled, NameIndexConsistent, NoEmptyRooms,
             NoEcho
    <3>4. QED
      BY <3>1, <3>2, <3>3
  <2>5. ASSUME NEW h \in Session, NEW u \in User, handle_register(h, u)
        PROVE  HandlerInv'
    <3> USE <2>5 DEF handle_register, Authenticated, set_username
    <3>1. TypeOK'
      OBVIOUS
    <3>2. LifeFollowsHandler' /\ HandlerLocal' /\ ManagersFollowHandlers'
      BY DEF LifeFollowsHandler, HandlerLocal, ManagersFollowHandlers
    <3>3. RecipientsSettled' /\ NameIndexConsistent' /\ NoEmptyRooms' /\ NoEcho'
      BY DEF RecipientsSettled, NameIndexConsistent, NoEmptyRooms,
             NoEcho, HandlerLocal
    <3>4. QED
      BY <3>1, <3>2, <3>3
  <2>6. ASSUME NEW h \in Session, NEW u \in User, handle_login(h, u)
        PROVE  HandlerInv'
    <3> USE <2>6 DEF handle_login, Authenticated, set_username
    <3>1. TypeOK'
      OBVIOUS
    <3>2. LifeFollowsHandler' /\ HandlerLocal' /\ ManagersFollowHandlers'
      BY DEF LifeFollowsHandler, HandlerLocal, ManagersFollowHandlers
    <3>3. RecipientsSettled' /\ NameIndexConsistent' /\ NoEmptyRooms' /\ NoEcho'
      BY DEF RecipientsSettled, NameIndexConsistent, NoEmptyRooms,
             NoEcho, HandlerLocal
    <3>4. QED
      BY <3>1, <3>2, <3>3
  <2>7. ASSUME NEW h \in Session, AddClient(h)
        PROVE  HandlerInv'
    <3> USE <2>7 DEF AddClient, add_client
    <3>1. TypeOK'
      OBVIOUS
    <3>2. LifeFollowsHandler' /\ HandlerLocal' /\ ManagersFollowHandlers'
      BY DEF LifeFollowsHandler, HandlerLocal, ManagersFollowHandlers
    <3>3. RecipientsSettled' /\ NameIndexConsistent' /\ NoEmptyRooms' /\ NoEcho'
      BY DEF RecipientsSettled, NameIndexConsistent, NoEmptyRooms,
             NoEcho
    <3>4. QED
      BY <3>1, <3>2, <3>3
  <2>8. ASSUME NEW h \in Session, SendOk(h)
        PROVE  HandlerInv'
    <3> USE <2>8 DEF SendOk, send_msg, send_refused, send_delivered, send_failed
    <3>1. TypeOK'
      OBVIOUS
    <3>2. LifeFollowsHandler' /\ HandlerLocal' /\ ManagersFollowHandlers'
      BY DEF LifeFollowsHandler, HandlerLocal, ManagersFollowHandlers
    <3>3. RecipientsSettled' /\ NameIndexConsistent' /\ NoEmptyRooms' /\ NoEcho'
      BY DEF RecipientsSettled, NameIndexConsistent, NoEmptyRooms,
             NoEcho
    <3>4. QED
      BY <3>1, <3>2, <3>3
  (* recv_loop. *)
  <2>9. ASSUME NEW h \in Session, JoinRoom(h)
        PROVE  HandlerInv'
    <3> USE <2>9 DEF JoinRoom, join_room
    <3>1. TypeOK'
      BY DEF HandlerLocal
    <3>2. LifeFollowsHandler' /\ HandlerLocal' /\ ManagersFollowHandlers'
      BY DEF LifeFollowsHandler, HandlerLocal, ManagersFollowHandlers
    <3>3. RecipientsSettled' /\ NameIndexConsistent' /\ NoEmptyRooms' /\ NoEcho'
      BY DEF RecipientsSettled, NameIndexConsistent, NoEmptyRooms,
             NoEcho
    <3>4. QED
      BY <3>1, <3>2, <3>3
  <2>10. ASSUME NEW h \in Session, Reply(h)
        PROVE  HandlerInv'
    <3> USE <2>10 DEF Reply, send_msg, send_refused, send_delivered, send_failed
    <3>1. TypeOK'
      OBVIOUS
    <3>2. LifeFollowsHandler' /\ HandlerLocal' /\ ManagersFollowHandlers'
      BY DEF LifeFollowsHandler, HandlerLocal, ManagersFollowHandlers
    <3>3. RecipientsSettled' /\ NameIndexConsistent' /\ NoEmptyRooms' /\ NoEcho'
      BY DEF RecipientsSettled, NameIndexConsistent, NoEmptyRooms,
             NoEcho
    <3>4. QED
      BY <3>1, <3>2, <3>3
  <2>11. ASSUME NEW h \in Session, NEW room \in Room, CommandJoin(h, room)
        PROVE  HandlerInv'
    <3> USE <2>11 DEF CommandJoin, HasLine, leave_room
    <3>1. TypeOK'
      OBVIOUS
    <3>2. LifeFollowsHandler' /\ HandlerLocal' /\ ManagersFollowHandlers'
      BY DEF LifeFollowsHandler, HandlerLocal, ManagersFollowHandlers
    <3>3. RecipientsSettled' /\ NameIndexConsistent' /\ NoEmptyRooms' /\ NoEcho'
      BY DEF RecipientsSettled, NameIndexConsistent, NoEmptyRooms,
             NoEcho
    <3>4. QED
      BY <3>1, <3>2, <3>3
  <2>12. ASSUME NEW h \in Session, CommandLeave(h)
        PROVE  HandlerInv'
    <3> USE <2>12 DEF CommandLeave, HasLine, leave_room
    <3>1. TypeOK'
      OBVIOUS
    <3>2. LifeFollowsHandler' /\ HandlerLocal' /\ ManagersFollowHandlers'
      BY DEF LifeFollowsHandler, HandlerLocal, ManagersFollowHandlers
    <3>3. RecipientsSettled' /\ NameIndexConsistent' /\ NoEmptyRooms' /\ NoEcho'
      BY DEF RecipientsSettled, NameIndexConsistent, NoEmptyRooms,
             NoEcho
    <3>4. QED
      BY <3>1, <3>2, <3>3
  <2>13. ASSUME NEW h \in Session, CommandRejected(h)
        PROVE  HandlerInv'
    <3> USE <2>13 DEF CommandRejected, HasLine
    <3>1. TypeOK'
      OBVIOUS
    <3>2. LifeFollowsHandler' /\ HandlerLocal' /\ ManagersFollowHandlers'
      BY DEF LifeFollowsHandler, HandlerLocal, ManagersFollowHandlers
    <3>3. RecipientsSettled' /\ NameIndexConsistent' /\ NoEmptyRooms' /\ NoEcho'
      BY DEF RecipientsSettled, NameIndexConsistent, NoEmptyRooms,
             NoEcho
    <3>4. QED
      BY <3>1, <3>2, <3>3
  <2>14. ASSUME NEW h \in Session, NEW to \in User, CommandPm(h, to)
        PROVE  HandlerInv'
    <3> USE <2>14 DEF CommandPm, Deliver, HasLine, private_target
    <3>1. TypeOK'
      OBVIOUS
    <3>2. LifeFollowsHandler' /\ HandlerLocal' /\ ManagersFollowHandlers'
      BY DEF LifeFollowsHandler, HandlerLocal, ManagersFollowHandlers
    <3>3. RecipientsSettled' /\ NameIndexConsistent' /\ NoEmptyRooms' /\ NoEcho'
      BY DEF RecipientsSettled, NameIndexConsistent, NoEmptyRooms,
             NoEcho, ManagersFollowHandlers
    <3>4. QED
      BY <3>1, <3>2, <3>3
  <2>15. ASSUME NEW h \in Session, RoomMessage(h)
        PROVE  HandlerInv'
    <3> USE <2>15 DEF RoomMessage, Deliver, HasLine
    <3>1. TypeOK'
      OBVIOUS
    <3>2. LifeFollowsHandler' /\ HandlerLocal' /\ ManagersFollowHandlers'
      BY DEF LifeFollowsHandler, HandlerLocal, ManagersFollowHandlers
    <3>3. RecipientsSettled' /\ NameIndexConsistent' /\ NoEmptyRooms' /\ NoEcho'
      BY DEF RecipientsSettled, NameIndexConsistent, NoEmptyRooms,
             NoEcho, ManagersFollowHandlers
    <3>4. QED
      BY <3>1, <3>2, <3>3
  <2>16. ASSUME NEW h \in Session, GlobalMessage(h)
        PROVE  HandlerInv'
    <3> USE <2>16 DEF GlobalMessage, Deliver, HasLine, broadcast_snapshot
    <3>1. TypeOK'
      OBVIOUS
    <3>2. LifeFollowsHandler' /\ HandlerLocal' /\ ManagersFollowHandlers'
      BY DEF LifeFollowsHandler, HandlerLocal, ManagersFollowHandlers
    <3>3. RecipientsSettled' /\ NameIndexConsistent' /\ NoEmptyRooms' /\ NoEcho'
      BY DEF RecipientsSettled, NameIndexConsistent, NoEmptyRooms,
             NoEcho, ManagersFollowHandlers
    <3>4. QED
      BY <3>1, <3>2, <3>3
  <2>17. ASSUME NEW h \in Session, NEW t \in Session, SendNext(h, t)
        PROVE  HandlerInv'
    <3> USE <2>17 DEF SendNext, Skipped, send_msg, send_refused, send_delivered, send_failed
    <3>1. TypeOK'
      <4>1. kind[h] \in {"room", "all", "pm"}
        BY DEF HandlerLocal
      <4>2. sent' \in Frame \cup {NoFrame}
        BY <4>1
      <4>3. QED
        BY <4>2
    <3>2. LifeFollowsHandler' /\ HandlerLocal' /\ ManagersFollowHandlers'
      BY DEF LifeFollowsHandler, HandlerLocal, ManagersFollowHandlers
    <3>3. RecipientsSettled' /\ NameIndexConsistent' /\ NoEmptyRooms' /\ NoEcho'
      BY DEF RecipientsSettled, NameIndexConsistent, NoEmptyRooms,
             NoEcho
    <3>4. QED
      BY <3>1, <3>2, <3>3
  <2>18. ASSUME NEW h \in Session, NEW t \in Session, SendDangling(h, t)
        PROVE  HandlerInv'
    <3> USE <2>18 DEF SendDangling
    <3>1. TypeOK'
      OBVIOUS
    <3>2. LifeFollowsHandler' /\ HandlerLocal' /\ ManagersFollowHandlers'
      BY DEF LifeFollowsHandler, HandlerLocal, ManagersFollowHandlers
    <3>3. RecipientsSettled' /\ NameIndexConsistent' /\ NoEmptyRooms' /\ NoEcho'
      BY DEF RecipientsSettled, NameIndexConsistent, NoEmptyRooms,
             NoEcho
    <3>4. QED
      BY <3>1, <3>2, <3>3
  <2>19. ASSUME NEW h \in Session, Exit(h)
        PROVE  HandlerInv'
    <3> USE <2>19 DEF Exit, HasLine, send_msg, send_refused, send_delivered, send_failed
    <3>1. TypeOK'
      OBVIOUS
    <3>2. LifeFollowsHandler' /\ HandlerLocal' /\ ManagersFollowHandlers'
      BY DEF LifeFollowsHandler, HandlerLocal, ManagersFollowHandlers
    <3>3. RecipientsSettled' /\ NameIndexConsistent' /\ NoEmptyRooms' /\ NoEcho'
      BY DEF RecipientsSettled, NameIndexConsistent, NoEmptyRooms,
             NoEcho
    <3>4. QED
      BY <3>1, <3>2, <3>3
  <2>20. ASSUME NEW h \in Session, Lost(h)
        PROVE  HandlerInv'
    <3> USE <2>20 DEF Lost
    <3>1. TypeOK'
      OBVIOUS
    <3>2. LifeFollowsHandler' /\ HandlerLocal' /\ ManagersFollowHandlers'
      BY DEF LifeFollowsHandler, HandlerLocal, ManagersFollowHandlers
    <3>3. RecipientsSettled' /\ NameIndexConsistent' /\ NoEmptyRooms' /\ NoEcho'
      BY DEF RecipientsSettled, NameIndexConsistent, NoEmptyRooms,
             NoEcho
    <3>4. QED
      BY <3>1, <3>2, <3>3
  <2>21. ASSUME NEW h \in Session, ReceivesLine(h)
        PROVE  HandlerInv'
    <3> USE <2>21 DEF ReceivesLine
    <3>1. TypeOK'
      OBVIOUS
    <3>2. LifeFollowsHandler' /\ HandlerLocal' /\ ManagersFollowHandlers'
      BY DEF LifeFollowsHandler, HandlerLocal, ManagersFollowHandlers
    <3>3. RecipientsSettled' /\ NameIndexConsistent' /\ NoEmptyRooms' /\ NoEcho'
      BY DEF RecipientsSettled, NameIndexConsistent, NoEmptyRooms,
             NoEcho
    <3>4. QED
      BY <3>1, <3>2, <3>3
  <2>22. ASSUME NEW h \in Session, EmptyText(h)
        PROVE  HandlerInv'
    <3> USE <2>22 DEF EmptyText
    <3>1. TypeOK'
      OBVIOUS
    <3>2. LifeFollowsHandler' /\ HandlerLocal' /\ ManagersFollowHandlers'
      BY DEF LifeFollowsHandler, HandlerLocal, ManagersFollowHandlers
    <3>3. RecipientsSettled' /\ NameIndexConsistent' /\ NoEmptyRooms' /\ NoEcho'
      BY DEF RecipientsSettled, NameIndexConsistent, NoEmptyRooms,
             NoEcho
    <3>4. QED
      BY <3>1, <3>2, <3>3
  (* cleanup_and_exit. *)
  <2>23. ASSUME NEW h \in Session, LeaveAllRooms(h)
        PROVE  HandlerInv'
    <3> USE <2>23 DEF LeaveAllRooms, leave_all
    <3>1. TypeOK'
      OBVIOUS
    <3>2. LifeFollowsHandler' /\ HandlerLocal' /\ ManagersFollowHandlers'
      BY DEF LifeFollowsHandler, HandlerLocal, ManagersFollowHandlers
    <3>3. RecipientsSettled' /\ NameIndexConsistent' /\ NoEmptyRooms' /\ NoEcho'
      BY DEF RecipientsSettled, NameIndexConsistent, NoEmptyRooms,
             NoEcho
    <3>4. QED
      BY <3>1, <3>2, <3>3
  <2>24. ASSUME NEW h \in Session, RemoveClient(h)
        PROVE  HandlerInv'
    <3> USE <2>24 DEF RemoveClient, remove_client
    <3>1. TypeOK'
      OBVIOUS
    <3>2. LifeFollowsHandler' /\ HandlerLocal' /\ ManagersFollowHandlers'
      BY DEF LifeFollowsHandler, HandlerLocal, ManagersFollowHandlers
    <3>3. RecipientsSettled' /\ NameIndexConsistent' /\ NoEmptyRooms' /\ NoEcho'
      BY DEF RecipientsSettled, NameIndexConsistent, NoEmptyRooms,
             NoEcho
    <3>4. QED
      BY <3>1, <3>2, <3>3
  <2>25. ASSUME NEW h \in Session, CloseSession(h)
        PROVE  HandlerInv'
    <3> USE <2>25 DEF CloseSession, close_session
    <3>1. TypeOK'
      OBVIOUS
    <3>2. LifeFollowsHandler' /\ HandlerLocal' /\ ManagersFollowHandlers'
      BY DEF LifeFollowsHandler, HandlerLocal, ManagersFollowHandlers
    <3>3. RecipientsSettled' /\ NameIndexConsistent' /\ NoEmptyRooms' /\ NoEcho'
      BY DEF RecipientsSettled, NameIndexConsistent, NoEmptyRooms,
             NoEcho
    <3>4. QED
      BY <3>1, <3>2, <3>3
  <2>26. ASSUME NEW h \in Session, DeleteSession(h)
        PROVE  HandlerInv'
    <3> USE <2>26 DEF DeleteSession, destroy
    <3>1. TypeOK'
      OBVIOUS
    <3>2. LifeFollowsHandler' /\ HandlerLocal' /\ ManagersFollowHandlers'
      BY DEF LifeFollowsHandler, HandlerLocal, ManagersFollowHandlers
    <3>3. RecipientsSettled' /\ NameIndexConsistent' /\ NoEmptyRooms' /\ NoEcho'
      BY DEF RecipientsSettled, NameIndexConsistent, NoEmptyRooms,
             NoEcho
    <3>4. QED
      BY <3>1, <3>2, <3>3
  (* shutdown_all. *)
  <2>27. ASSUME ShutdownBegin
        PROVE  HandlerInv'
    <3> USE <2>27 DEF ShutdownBegin, shutdown_all_begin, shutdownUnchanged
    <3>1. TypeOK'
      OBVIOUS
    <3>2. LifeFollowsHandler' /\ HandlerLocal' /\ ManagersFollowHandlers'
      BY DEF LifeFollowsHandler, HandlerLocal, ManagersFollowHandlers
    <3>3. RecipientsSettled' /\ NameIndexConsistent' /\ NoEmptyRooms' /\ NoEcho'
      BY DEF RecipientsSettled, NameIndexConsistent, NoEmptyRooms,
             NoEcho
    <3>4. QED
      BY <3>1, <3>2, <3>3
  <2>28. ASSUME NEW h \in Session, ShutdownClose(h)
        PROVE  HandlerInv'
    <3> USE <2>28 DEF ShutdownClose, shutdown_all_close, close_session, shutdownUnchanged
    <3>1. TypeOK'
      OBVIOUS
    <3>2. LifeFollowsHandler' /\ HandlerLocal' /\ ManagersFollowHandlers'
      BY DEF LifeFollowsHandler, HandlerLocal, ManagersFollowHandlers
    <3>3. RecipientsSettled' /\ NameIndexConsistent' /\ NoEmptyRooms' /\ NoEcho'
      BY DEF RecipientsSettled, NameIndexConsistent, NoEmptyRooms,
             NoEcho
    <3>4. QED
      BY <3>1, <3>2, <3>3
  <2>29. ASSUME ShutdownEnd
        PROVE  HandlerInv'
    <3> USE <2>29 DEF ShutdownEnd, shutdown_all_end, shutdownUnchanged
    <3>1. TypeOK'
      OBVIOUS
    <3>2. LifeFollowsHandler' /\ HandlerLocal' /\ ManagersFollowHandlers'
      BY DEF LifeFollowsHandler, HandlerLocal, ManagersFollowHandlers
    <3>3. RecipientsSettled' /\ NameIndexConsistent' /\ NoEmptyRooms' /\ NoEcho'
      BY DEF RecipientsSettled, NameIndexConsistent, NoEmptyRooms,
             NoEcho
    <3>4. QED
      BY <3>1, <3>2, <3>3
  <2>30. CASE UNCHANGED vars
    BY <2>30 DEF vars, LifeFollowsHandler, HandlerLocal, ManagersFollowHandlers,
       RecipientsSettled, NameIndexConsistent, NoEmptyRooms, NoEcho
  <2>31. QED
    BY <2>1, <2>2, <2>3, <2>4, <2>5, <2>6, <2>7, <2>8, <2>9, <2>10, <2>11,
       <2>12, <2>13, <2>14, <2>15, <2>16, <2>17, <2>18, <2>19, <2>20, <2>21,
       <2>22, <2>23, <2>24, <2>25, <2>26, <2>27, <2>28, <2>29, <2>30
    DEF Next, AcceptStep, HandlerStep, ShutdownStep, Undefined,
        Authenticate, Chat, Cleanup

\* In every reachable state of every instance the handlers and the managers fit
\* together (recv_loop, try_authenticate, cleanup_and_exit, shutdown_all).
THEOREM HandlerInvariant == Spec => []HandlerInv
<1>1. Init => HandlerInv
  BY InitEstablishesInv
<1>2. HandlerInv /\ [Next]_vars => HandlerInv'
  BY StepPreservesInv
<1>3. QED
  BY <1>1, <1>2, PTL DEF Spec

\* Every variable keeps its type; in particular no room is ever created under
\* the empty name and nobody gets more than MaxAuthAttempts attempts.
THEOREM TypeCorrect == Spec => []TypeOK
<1>1. HandlerInv => TypeOK
  BY DEF HandlerInv
<1>2. QED
  BY <1>1, HandlerInvariant, PTL

\* What the managers can hand out to another thread has not been deleted, for
\* any number of sessions under any names (cleanup_and_exit).
LEMMA InvKeepsRegisteredLive == HandlerInv => RegisteredSessionsLive
<1>1. SUFFICES ASSUME HandlerInv, NEW s \in Session,
                      \/ s \in clients
                      \/ \E u \in User : by_name[u] = s
                      \/ \E r \in DOMAIN rooms : s \in rooms[r]
               PROVE  life[s] = "live"
  BY DEF RegisteredSessionsLive
<1>2. pc[s] \in Listed
  BY <1>1 DEF HandlerInv, ManagersFollowHandlers, NameIndexConsistent
<1>3. QED
  BY <1>1, <1>2 DEF HandlerInv, TypeOK, LifeFollowsHandler

\* No manager ever holds a pointer to a deleted session.
THEOREM RegisteredLive == Spec => []RegisteredSessionsLive
  BY InvKeepsRegisteredLive, HandlerInvariant, PTL

\* The name index leads only to listed sessions of that name, however logins
\* and disconnections under one name interleave (add_client, remove_client).
THEOREM IndexConsistent == Spec => []NameIndexConsistent
<1>1. HandlerInv => NameIndexConsistent
  BY DEF HandlerInv
<1>2. QED
  BY <1>1, HandlerInvariant, PTL

\* The handlers and the RoomManager agree on who is where, and nobody is in two
\* rooms (recv_loop, join_room, leave_room, leave_all).
THEOREM MembershipCorrect == Spec => []MembershipAgrees
<1>1. HandlerInv => MembershipAgrees
  BY DEF HandlerInv, TypeOK, ManagersFollowHandlers, MembershipAgrees
<1>2. QED
  BY <1>1, HandlerInvariant, PTL

\* A room disappears with its last member (leave_room, leave_all).
THEOREM RoomsNotEmpty == Spec => []NoEmptyRooms
<1>1. HandlerInv => NoEmptyRooms
  BY DEF HandlerInv
<1>2. QED
  BY <1>1, HandlerInvariant, PTL

\* No chat message is written to a session of its sender (broadcast,
\* broadcast_to_recipients).
THEOREM SenderNotEchoed == Spec => []NoEcho
<1>1. HandlerInv => NoEcho
  BY DEF HandlerInv
<1>2. QED
  BY <1>1, HandlerInvariant, PTL

\* Apart from add_client, remove_client and shutdown_all no step touches the
\* client list or the name index.
LEMMA ListsChangeOnlyThere ==
    [Next]_vars =>
        \/ UNCHANGED <<clients, by_name>>
        \/ \E s \in Session : add_client(s) \/ remove_client(s)
        \/ shutdown_all_end
  BY DEF Next, AcceptStep, HandlerStep, ShutdownStep, Undefined, Authenticate,
         Chat, Cleanup, Accept, SpawnFails, AuthLost, AuthFails, handle_register,
         handle_login, Authenticated, AddClient, SendOk, JoinRoom, Reply,
         ReceivesLine, CommandJoin, CommandLeave, CommandRejected, EmptyText,
         CommandPm, RoomMessage, GlobalMessage, Deliver, SendNext, SendDangling, Exit, Lost,
         LeaveAllRooms, RemoveClient, CloseSession, DeleteSession, ShutdownBegin,
         ShutdownClose, ShutdownEnd, shutdown_all_begin, shutdown_all_close, vars

\* The older of two sessions of a user takes nothing from the newer one when it
\* leaves (remove_client).
THEOREM NameLeaves == Spec => NameLeavesWithSession
<1>1. TypeOK /\ [Next]_vars =>
        [\A u \in User : by_name[u] # NoSession /\ by_name'[u] = NoSession
            => by_name[u] \notin clients']_vars
  <2>1. SUFFICES ASSUME TypeOK, [Next]_vars, NEW u \in User,
                        by_name[u] # NoSession, by_name'[u] = NoSession
                 PROVE  by_name[u] \notin clients'
    OBVIOUS
  <2> USE <2>1 DEF TypeOK
  <2>2. CASE UNCHANGED <<clients, by_name>>
    BY <2>2
  <2>3. ASSUME NEW s \in Session, add_client(s)
        PROVE  FALSE
    BY <2>3 DEF add_client
  <2>4. ASSUME NEW s \in Session, remove_client(s)
        PROVE  by_name[u] \notin clients'
    BY <2>4 DEF remove_client
  <2>5. CASE shutdown_all_end
    BY <2>5 DEF shutdown_all_end
  <2>6. QED
    BY <2>2, <2>3, <2>4, <2>5, ListsChangeOnlyThere
<1>2. QED
  BY <1>1, TypeCorrect, PTL DEF Spec, NameLeavesWithSession
-----------------------------------------------------------------------------
(* The service of ChatService.                                             *)

\* Nobody is in the chat without a name (handle_register, handle_login), and
\* nothing is sent to a session once it is closed (close_session).
LEMMA StepKeepsPeersNamed == HandlerInv /\ PeersNamed /\ [Next]_vars => PeersNamed'
<1> SUFFICES ASSUME HandlerInv, PeersNamed, [Next]_vars
             PROVE  PeersNamed'
  OBVIOUS
<1> USE DEF HandlerInv, TypeOK, PeersNamed
<1>1. ASSUME NEW h \in Session, AcceptStep(h)
      PROVE  PeersNamed'
  <2>1. username' = username
    BY <1>1 DEF AcceptStep, Accept, SpawnFails, construct, HandlerLocal
  <2>2. QED
    BY <1>1, <2>1 DEF AcceptStep, Accept, SpawnFails, construct
<1>2. ASSUME NEW h \in Session, Authenticate(h)
      PROVE  PeersNamed'
  <2>1. CASE AuthLost(h) \/ AuthFails(h) \/ SendOk(h)
    BY <2>1 DEF AuthLost, AuthFails, SendOk, send_msg, send_refused, send_delivered,
                send_failed
  <2>2. ASSUME NEW u \in User, handle_register(h, u) \/ handle_login(h, u)
        PROVE  PeersNamed'
    BY <2>2 DEF handle_register, handle_login, Authenticated, set_username
  <2>3. CASE AddClient(h)
    BY <2>3 DEF AddClient, add_client, HandlerLocal
  <2>4. QED
    BY <1>2, <2>1, <2>2, <2>3 DEF Authenticate
<1>3. ASSUME NEW h \in Session, Chat(h)
      PROVE  PeersNamed'
  <2>1. CASE JoinRoom(h)
    BY <2>1 DEF JoinRoom, join_room
  <2>2. CASE Reply(h) \/ Exit(h)
    BY <2>2 DEF Reply, Exit, HasLine, send_msg, send_refused, send_delivered,
                send_failed
  <2>3. CASE (\E room \in Room : CommandJoin(h, room)) \/ CommandLeave(h)
    <3>1. \A r \in DOMAIN rooms' : r \in DOMAIN rooms /\ rooms'[r] \subseteq rooms[r]
      <4>1. leave_room(current_room[h], h) \/ UNCHANGED rooms
        BY <2>3 DEF CommandJoin, CommandLeave
      <4>2. CASE leave_room(current_room[h], h)
        BY <4>2 DEF leave_room
      <4>3. CASE UNCHANGED rooms
        BY <4>3
      <4>4. QED
        BY <4>1, <4>2, <4>3
    <3>2. /\ UNCHANGED <<username, active, clients, recipients>>
          /\ pc[h] = "line"
          /\ \E label \in {"join", "reply"} : pc' = [pc EXCEPT ![h] = label]
      BY <2>3 DEF CommandJoin, CommandLeave, HasLine
    <3>3. QED
      BY <3>1, <3>2
  <2>4. CASE ReceivesLine(h) \/ CommandRejected(h) \/ EmptyText(h) \/ Lost(h)
    BY <2>4 DEF ReceivesLine, CommandRejected, EmptyText, Lost, HasLine
  <2>5. ASSUME NEW k, NEW targets \in SUBSET Session, Deliver(h, k, targets),
               \A t \in targets : username[t] \in User
        PROVE  PeersNamed'
    BY <2>5 DEF Deliver, HasLine
  <2>6. CASE \E to \in User : CommandPm(h, to)
    BY <2>5, <2>6 DEF CommandPm, private_target, NameIndexConsistent
  <2>7. CASE RoomMessage(h) \/ GlobalMessage(h)
    BY <2>5, <2>7 DEF RoomMessage, GlobalMessage, broadcast_snapshot
  <2>8. ASSUME NEW t \in Session, SendNext(h, t) \/ SendDangling(h, t)
        PROVE  PeersNamed'
    BY <2>8 DEF SendNext, SendDangling, send_refused, send_delivered, send_failed
  <2>9. QED
    BY <1>3, <2>1, <2>2, <2>3, <2>4, <2>6, <2>7, <2>8 DEF Chat
<1>4. ASSUME NEW h \in Session, Cleanup(h)
      PROVE  PeersNamed'
  BY <1>4 DEF Cleanup, LeaveAllRooms, leave_all, RemoveClient, remove_client,
              CloseSession, close_session, DeleteSession, destroy
<1>5. CASE ShutdownStep
  BY <1>5 DEF ShutdownStep, ShutdownBegin, ShutdownClose, ShutdownEnd,
              shutdown_all_begin, shutdown_all_close, shutdown_all_end,
              shutdownUnchanged, close_session
<1>6. CASE Undefined \/ UNCHANGED vars
  BY <1>6 DEF Undefined, vars
<1>7. QED
  BY <1>1, <1>2, <1>3, <1>4, <1>5, <1>6 DEF Next, HandlerStep

\* Handlers chat under a name and with sessions that have one, and no closed
\* session is active (try_authenticate, close_session).
THEOREM PeersHaveNames == Spec => []PeersNamed
<1>1. Init => PeersNamed
  BY DEF Init, SessionInit, BroadcastInit, RoomInit, PeersNamed
<1>2. QED
  BY <1>1, StepKeepsPeersNamed, HandlerInvariant, PTL DEF Spec

\* A step that moves one handler without changing its stage, and touches neither
\* names nor rooms nor copied pointers, is none of the service's business.
LEMMA UnseenStep ==
    ASSUME HandlerInv, NEW h \in Session, NEW label,
           pc' = [pc EXCEPT ![h] = label], StageView'[h] = StageView[h],
           UNCHANGED <<username, rooms, current_room, kind, recipients>>, Quiet
    PROVE  Service!Idle
<1> USE DEF HandlerInv, TypeOK
<1>1. StageView' = StageView
  <2>1. \A s \in Session \ {h} : StageView'[s] = StageView[s]
    BY DEF StageView
  <2>2. QED
    BY <2>1 DEF StageView
<1>2. PlaceView' = PlaceView /\ AudienceView' = AudienceView /\ FormView' = FormView
  BY DEF PlaceView, AudienceView, FormView
<1>3. QED
  BY <1>1, <1>2 DEF Service!Idle, Service!Silent, Service!Nothing

\* What a handler does before the chat and when it takes leave, seen from outside.
LEMMA UnseenSteps ==
    ASSUME HandlerInv, PeersNamed, NEW h \in Session,
           \/ AcceptStep(h) \/ AuthLost(h) \/ AuthFails(h) \/ SendOk(h)
           \/ Reply(h) \/ ReceivesLine(h) \/ CommandRejected(h) \/ EmptyText(h)
           \/ Exit(h) \/ Lost(h) \/ RemoveClient(h) \/ DeleteSession(h)
    PROVE  Service!Idle
<1> USE DEF HandlerInv, TypeOK
<1>1. CASE AcceptStep(h)
  <2>1. username' = username
    BY <1>1 DEF AcceptStep, Accept, SpawnFails, construct, HandlerLocal
  <2>2. pc[h] = "none" /\ pc'[h] \in {"auth", "abandoned"}
    BY <1>1 DEF AcceptStep, Accept, SpawnFails
  <2>3. StageView'[h] = StageView[h]
    BY <2>2 DEF StageView
  <2>4. QED
    BY <1>1, <2>1, <2>3, UnseenStep DEF AcceptStep, Accept, SpawnFails
<1>2. CASE AuthLost(h) \/ AuthFails(h)
  <2>1. pc[h] = "auth" /\ pc'[h] \in {"auth", "leave_all"} /\ username' = username
    BY <1>2 DEF AuthLost, AuthFails
  <2>2. StageView'[h] = StageView[h]
    BY <2>1 DEF StageView, HandlerLocal
  <2>3. QED
    BY <1>2, <2>1, <2>2, UnseenStep DEF AuthLost, AuthFails
<1>3. CASE \/ SendOk(h) \/ Reply(h) \/ ReceivesLine(h) \/ CommandRejected(h)
           \/ EmptyText(h) \/ Exit(h) \/ Lost(h) \/ RemoveClient(h)
  <2>1. /\ pc[h] \in Listed
        /\ pc'[h] \in Listed \cup {"close"}
        /\ username' = username
    BY <1>3 DEF SendOk, Reply, ReceivesLine, CommandRejected, EmptyText, HasLine, Exit, Lost,
        RemoveClient
  <2>2. StageView'[h] = StageView[h]
    BY <2>1 DEF StageView
  <2>3. QED
    BY <1>3, <2>1, <2>2, UnseenStep
    DEF SendOk, Reply, ReceivesLine, CommandRejected, EmptyText, HasLine, Exit, Lost,
        RemoveClient
<1>4. CASE DeleteSession(h)
  <2>1. StageView'[h] = StageView[h]
    BY <1>4 DEF DeleteSession, StageView
  <2>2. QED
    BY <1>4, <2>1, UnseenStep DEF DeleteSession
<1>5. QED
  BY <1>1, <1>2, <1>3, <1>4

\* Logging in gives the connection its name; add_client lets it into the chat.
LEMMA EnteringSteps ==
    ASSUME HandlerInv, PeersNamed, NEW h \in Session
    PROVE  /\ \A u \in User : handle_register(h, u) \/ handle_login(h, u)
                    => Service!Identify(h, u)
           /\ AddClient(h) => Service!Enter(h)
<1> USE DEF HandlerInv, TypeOK
<1>1. ASSUME NEW u \in User, handle_register(h, u) \/ handle_login(h, u)
      PROVE  Service!Identify(h, u)
  <2> USE <1>1 DEF handle_register, handle_login, Authenticated
  <2>1. username[h] = Unauthenticated /\ username' = [username EXCEPT ![h] = u]
    BY DEF HandlerLocal, set_username
  <2>2. StageView' = StageView /\ StageView[h] = "out"
    BY <2>1 DEF StageView
  <2>3. PlaceView' = PlaceView
    BY DEF PlaceView
  <2>4. \A s \in Session : h \notin recipients[s]
    BY DEF RecipientsSettled
  <2>5. recipients[h] = {}
    BY DEF HandlerLocal
  <2>6. AudienceView' = AudienceView
    BY <2>1, <2>4, <2>5 DEF AudienceView
  <2>7. FormView' = FormView
    BY <2>6 DEF FormView
  <2>8. QED
    BY <2>1, <2>2, <2>3, <2>6, <2>7
    DEF Service!Identify, Service!Silent, Service!Nothing
<1>2. ASSUME AddClient(h)
      PROVE  Service!Enter(h)
  <2> USE <1>2 DEF AddClient
  <2>1. username[h] # Unauthenticated
    BY DEF HandlerLocal
  <2>2. StageView[h] = "out" /\ StageView' = [StageView EXCEPT ![h] = "in"]
    BY <2>1 DEF StageView
  <2>3. PlaceView' = PlaceView /\ AudienceView' = AudienceView /\ FormView' = FormView
    BY DEF PlaceView, AudienceView, FormView
  <2>4. QED
    BY <2>1, <2>2, <2>3 DEF Service!Enter, Service!Silent, Service!Nothing
<1>3. QED
  BY <1>1, <1>2

\* Between two messages a handler of a named session is ready for another.
LEMMA ReadyToChat ==
    ASSUME HandlerInv, PeersNamed, NEW h \in Session, pc[h] \in {"join", "line"}
    PROVE  Service!Ready(h) /\ AudienceView[h] = {}
<1>1. AudienceView[h] = {}
  BY DEF HandlerInv, HandlerLocal, AudienceView
<1>2. StageView[h] = "in"
  BY DEF HandlerInv, TypeOK, PeersNamed, StageView
<1>3. QED
  BY <1>1, <1>2 DEF Service!Ready

\* A step of a handler between two named stages that only touches its own place:
\* the four ways to enter or leave a room.
LEMMA PlaceStep ==
    ASSUME HandlerInv, NEW h \in Session, NEW label,
           pc' = [pc EXCEPT ![h] = label],
           StageView'[h] = StageView[h],
           \A s \in Session \ {h} : PlaceView'[s] = PlaceView[s],
           UNCHANGED <<username, kind, recipients>>, Quiet
    PROVE  /\ UNCHANGED <<StageView, username, AudienceView, FormView>>
           /\ Service!Silent
           /\ PlaceView' = [PlaceView EXCEPT ![h] = PlaceView'[h]]
<1> USE DEF HandlerInv, TypeOK
<1>1. StageView' = StageView
  <2>1. \A s \in Session \ {h} : StageView'[s] = StageView[s]
    BY DEF StageView
  <2>2. QED
    BY <2>1 DEF StageView
<1>2. AudienceView' = AudienceView /\ FormView' = FormView
  BY DEF AudienceView, FormView
<1>3. PlaceView' = [PlaceView EXCEPT ![h] = PlaceView'[h]]
  <2>1. /\ PlaceView = [s \in Session |-> PlaceView[s]]
        /\ PlaceView' = [s \in Session |-> PlaceView'[s]]
    BY DEF PlaceView
  <2>2. QED
    BY <2>1
<1>4. QED
  BY <1>1, <1>2, <1>3 DEF Service!Silent, Service!Nothing

\* Nobody is a member of a room other than the one its handler names, so what a
\* handler does to the rooms moves nobody else (join_room, leave_room, leave_all).
LEMMA OthersStayInPlace ==
    ASSUME HandlerInv, NEW h \in Session, NEW t \in Session \ {h},
           current_room'[t] = current_room[t],
           \/ \E room \in Room : join_room(room, h) \/ leave_room(room, h)
           \/ leave_all(h)
           \/ UNCHANGED rooms
    PROVE  PlaceView'[t] = PlaceView[t]
<1> USE DEF HandlerInv, TypeOK
<1>1. ASSUME NEW room \in Room, join_room(room, h)
      PROVE  t \in Members(current_room[t])' <=> t \in Members(current_room[t])
  BY <1>1 DEF join_room
<1>2. ASSUME NEW room \in Room, leave_room(room, h)
      PROVE  t \in Members(current_room[t])' <=> t \in Members(current_room[t])
  BY <1>2 DEF leave_room
<1>3. CASE leave_all(h)
  BY <1>3 DEF leave_all, PlaceView
<1>4. CASE UNCHANGED rooms
  BY <1>4 DEF PlaceView
<1>5. QED
  BY <1>1, <1>2, <1>3, <1>4 DEF PlaceView

\* The two halves of /join, /leave and leave_all are the service's Join and Part.
LEMMA MovingSteps ==
    ASSUME HandlerInv, PeersNamed, NEW h \in Session,
           \/ JoinRoom(h) \/ (\E room \in Room : CommandJoin(h, room))
           \/ CommandLeave(h) \/ LeaveAllRooms(h)
    PROVE  \/ \E room \in Room : Service!Join(h, room)
           \/ Service!Part(h) \/ Service!Idle
<1> USE DEF HandlerInv, TypeOK
<1>1. CASE JoinRoom(h)
  <2>1. current_room[h] \in Room /\ PlaceView[h] = NoRoom
    BY <1>1 DEF JoinRoom, HandlerLocal, ManagersFollowHandlers, PlaceView
  <2>2. StageView'[h] = StageView[h]
    BY <1>1 DEF JoinRoom, StageView
  <2>3. PlaceView'[h] = current_room[h]
    BY <1>1, <2>1 DEF JoinRoom, join_room, PlaceView
  <2>4. \A t \in Session \ {h} : PlaceView'[t] = PlaceView[t]
    BY <1>1, <2>1, OthersStayInPlace DEF JoinRoom
  <2>5. /\ UNCHANGED <<StageView, username, AudienceView, FormView>>
        /\ Service!Silent
        /\ PlaceView' = [PlaceView EXCEPT ![h] = PlaceView'[h]]
    BY <1>1, <2>2, <2>4, PlaceStep DEF JoinRoom
  <2>6. Service!Ready(h)
    BY <1>1, ReadyToChat DEF JoinRoom
  <2>7. Service!Join(h, current_room[h])
    BY <2>1, <2>3, <2>5, <2>6 DEF Service!Join
  <2>8. QED
    BY <2>1, <2>7
<1>2. ASSUME \/ \E room \in Room : CommandJoin(h, room)
             \/ CommandLeave(h) \/ LeaveAllRooms(h)
      PROVE  Service!Part(h) \/ Service!Idle
  <2>1. pc[h] \in Listed /\ recipients[h] = {} /\ UNCHANGED <<username, kind, recipients>>
    BY <1>2 DEF CommandJoin, CommandLeave, LeaveAllRooms, HasLine, HandlerLocal
  <2>2. PlaceView'[h] = NoRoom
    <3>1. CASE \E room \in Room : CommandJoin(h, room)
      <4> PICK room \in Room : CommandJoin(h, room)
        BY <3>1
      <4>1. \A r \in DOMAIN rooms' : h \notin rooms'[r]
        BY DEF CommandJoin, leave_room, ManagersFollowHandlers
      <4>2. QED
        BY <4>1 DEF PlaceView
    <3>2. CASE CommandLeave(h)
      BY <3>2 DEF CommandLeave, leave_room, PlaceView, ManagersFollowHandlers
    <3>3. CASE LeaveAllRooms(h)
      BY <3>3 DEF LeaveAllRooms, leave_all, PlaceView
    <3>4. QED
      BY <1>2, <3>1, <3>2, <3>3
  <2>3. \A t \in Session \ {h} : PlaceView'[t] = PlaceView[t]
    BY <1>2, OthersStayInPlace DEF CommandJoin, CommandLeave, LeaveAllRooms
  <2>4. \E label \in Listed : pc' = [pc EXCEPT ![h] = label]
    BY <1>2 DEF CommandJoin, CommandLeave, LeaveAllRooms
  <2>5. StageView'[h] = StageView[h]
    BY <2>1, <2>4 DEF StageView
  <2>6. Quiet
    BY <1>2 DEF CommandJoin, CommandLeave, LeaveAllRooms
  <2>7. /\ UNCHANGED <<StageView, username, AudienceView, FormView>>
        /\ Service!Silent
        /\ PlaceView' = [PlaceView EXCEPT ![h] = NoRoom]
    BY <2>1, <2>2, <2>3, <2>4, <2>5, <2>6, PlaceStep
  <2>8. CASE PlaceView[h] = NoRoom
    <3>1. PlaceView' = PlaceView
      BY <2>7, <2>8 DEF PlaceView
    <3>2. QED
      BY <2>7, <3>1 DEF Service!Idle
  <2>9. CASE PlaceView[h] # NoRoom
    <3>1. username[h] # Unauthenticated
      BY <2>9 DEF PlaceView, PeersNamed
    <3>2. Service!Ready(h)
      BY <2>1, <3>1 DEF Service!Ready, StageView, AudienceView
    <3>3. QED
      BY <2>7, <2>9, <3>2 DEF Service!Part
  <2>10. QED
    BY <2>8, <2>9
<1>3. QED
  BY <1>1, <1>2

\* The copy of the recipients under the lock is what makes the post.
LEMMA DeliverIsAddress ==
    ASSUME HandlerInv, PeersNamed, NEW h \in Session, NEW k \in {"room", "all", "pm"},
           NEW targets \in SUBSET Session, Deliver(h, k, targets)
    PROVE  Service!Address(h, k,
                {t \in targets : k = "room" => username[t] # username[h]})
<1> USE DEF HandlerInv, TypeOK
<1> DEFINE Heard == {t \in targets : k = "room" => username[t] # username[h]}
<1>1. UNCHANGED <<username, rooms, current_room>> /\ Service!Silent
  BY DEF Deliver, Service!Silent, Service!Nothing
<1>2. StageView' = StageView
  BY DEF Deliver, HasLine, StageView
<1>3. PlaceView' = PlaceView
  BY <1>1 DEF PlaceView
<1>4. AudienceView'[h] = Heard
  BY <1>1 DEF Deliver, AudienceView
<1>5. \A s \in Session \ {h} :
            AudienceView'[s] = AudienceView[s] /\ kind'[s] = kind[s]
  BY <1>1 DEF Deliver, AudienceView
<1>6. AudienceView' = [AudienceView EXCEPT ![h] = Heard]
  BY <1>4, <1>5 DEF AudienceView
<1>7. FormView' = [FormView EXCEPT ![h] = IF Heard = {} THEN "none" ELSE k]
  <2>1. Heard # {} => kind'[h] = k
    BY DEF Deliver
  <2>2. FormView'[h] = IF Heard = {} THEN "none" ELSE k
    BY <1>4, <2>1 DEF FormView
  <2>3. \A s \in Session \ {h} : FormView'[s] = FormView[s]
    BY <1>5 DEF FormView
  <2>4. QED
    BY <2>2, <2>3 DEF FormView
<1>8. Service!Ready(h)
  BY ReadyToChat DEF Deliver, HasLine
<1>9. QED
  BY <1>1, <1>2, <1>3, <1>6, <1>7, <1>8 DEF Service!Address, Service!Pending

\* A line that is not a command is a post, and /pm is one to a single session:
\* the pointers copied under the lock are those the service would address
\* (broadcast_to_room, broadcast, send_private).
LEMMA PostingSteps ==
    ASSUME HandlerInv, PeersNamed, NEW h \in Session
    PROVE  /\ RoomMessage(h) => Service!PostRoom(h)
           /\ GlobalMessage(h) => Service!PostAll(h)
           /\ \A to \in User : CommandPm(h, to) =>
                    Service!PostPrivate(h, to) \/ Service!Address(h, "pm", {})
<1> USE DEF HandlerInv, TypeOK
<1>1. ASSUME NEW t \in clients
      PROVE  t \in Session /\ StageView[t] = "in"
  BY DEF ManagersFollowHandlers, PeersNamed, StageView
<1>2. ASSUME RoomMessage(h)
      PROVE  Service!PostRoom(h)
  <2> DEFINE room == current_room[h]
  <2>1. room # NoRoom /\ pc[h] = "line" /\ Deliver(h, "room", Members(room))
    BY <1>2 DEF RoomMessage, Deliver, HasLine
  <2>2. h \in Members(room) /\ PlaceView[h] = room
    BY <2>1 DEF ManagersFollowHandlers, PlaceView
  <2>3. \A t \in Session : PlaceView[t] = room <=> t \in Members(room)
    BY <2>1 DEF ManagersFollowHandlers, PlaceView
  <2>4. Members(room) \in SUBSET Session
    OBVIOUS
  <2>5. Service!Address(h, "room",
            {t \in Members(room) : "room" = "room" => username[t] # username[h]})
    BY <2>1, <2>4, DeliverIsAddress
  <2>6. {t \in Members(room) : "room" = "room" => username[t] # username[h]}
          = {t \in Session : PlaceView[t] = PlaceView[h] /\ username[t] # username[h]}
    BY <2>2, <2>3, <2>4
  <2>7. QED
    BY <2>1, <2>2, <2>5, <2>6 DEF Service!PostRoom
<1>3. ASSUME GlobalMessage(h)
      PROVE  Service!PostAll(h)
  <2> DEFINE copied == broadcast_snapshot(username[h])
  <2>1. copied \in SUBSET {t \in Session : StageView[t] = "in" /\ username[t] # username[h]}
    BY <1>1 DEF broadcast_snapshot
  <2>2. PlaceView[h] = NoRoom
    BY <1>3 DEF GlobalMessage, PlaceView
  <2>3. Deliver(h, "all", copied)
    BY <1>3 DEF GlobalMessage
  <2>4. Service!Address(h, "all",
            {t \in copied : "all" = "room" => username[t] # username[h]})
    BY <2>1, <2>3, DeliverIsAddress
  <2>5. {t \in copied : "all" = "room" => username[t] # username[h]} = copied
    OBVIOUS
  <2>6. QED
    BY <2>1, <2>2, <2>4, <2>5 DEF Service!PostAll
<1>4. ASSUME NEW to \in User, CommandPm(h, to)
      PROVE  Service!PostPrivate(h, to) \/ Service!Address(h, "pm", {})
  <2> DEFINE found == private_target(to)
  <2>1. Deliver(h, "pm", found)
    BY <1>4 DEF CommandPm
  <2>2. \/ found = {}
        \/ \E t \in clients : found = {t} /\ username[t] = to
    BY DEF private_target, NameIndexConsistent
  <2>3. found \in SUBSET Session
    BY <2>2
  <2>4. Service!Address(h, "pm",
            {t \in found : "pm" = "room" => username[t] # username[h]})
    BY <2>1, <2>3, DeliverIsAddress
  <2>5. {t \in found : "pm" = "room" => username[t] # username[h]} = found
    OBVIOUS
  <2>6. Service!Address(h, "pm", found)
    BY <2>4, <2>5
  <2> HIDE DEF found
  <2>7. CASE found = {}
    BY <2>6, <2>7
  <2>8. ASSUME NEW t \in clients, found = {t}, username[t] = to
        PROVE  Service!PostPrivate(h, to)
    <3>1. Service!Address(h, "pm", {t})
      BY <2>6, <2>8, Zenon
    <3>2. QED
      BY <1>1, <2>8, <3>1, Zenon DEF Service!PostPrivate
  <2>9. QED
    BY <2>2, <2>7, <2>8
<1>5. QED
  BY <1>2, <1>3, <1>4

\* An address with nobody to hear it is nothing at all.
LEMMA EmptyAddressIsIdle ==
    ASSUME HandlerInv, NEW h \in Session, Service!Address(h, "pm", {})
    PROVE  Service!Idle
<1>1. AudienceView[h] = {} /\ FormView[h] = "none"
  BY DEF Service!Address, Service!Ready, FormView
<1>2. /\ AudienceView = [s \in Session |-> AudienceView[s]]
      /\ FormView = [s \in Session |-> FormView[s]]
  BY DEF AudienceView, FormView
<1>3. AudienceView' = AudienceView /\ FormView' = FormView
  BY <1>1, <1>2 DEF Service!Address, Service!Pending
<1>4. QED
  BY <1>3 DEF Service!Address, Service!Idle

\* One turn of the delivery loop takes one listener off the post, who hears it
\* only if still connected, or skips one of the sender's own sessions.
LEMMA DeliveringSteps ==
    ASSUME HandlerInv, PeersNamed, NEW h \in Session, NEW t \in Session, SendNext(h, t)
    PROVE  Service!Deliver(h, t) \/ Service!Lose(h, t) \/ Service!Idle
<1> USE DEF HandlerInv, TypeOK
<1>1. /\ pc[h] = "send" /\ t \in recipients[h]
      /\ recipients' = [recipients EXCEPT ![h] = @ \ {t}]
      /\ kind' = [kind EXCEPT ![h] = IF recipients[h] = {t} THEN "none" ELSE @]
      /\ UNCHANGED <<username, rooms, current_room>>
  BY DEF SendNext
<1>2. StageView' = StageView
  BY DEF SendNext, StageView
<1>3. PlaceView' = PlaceView
  BY <1>1 DEF PlaceView
<1>4. AudienceView'[h] = AudienceView[h] \ {t}
  BY <1>1 DEF AudienceView
<1>5. \A s \in Session \ {h} :
            AudienceView'[s] = AudienceView[s] /\ kind'[s] = kind[s]
  BY <1>1 DEF AudienceView
<1>6. AudienceView' = [AudienceView EXCEPT ![h] = @ \ {t}]
  BY <1>4, <1>5 DEF AudienceView
<1>7. AudienceView'[h] # {} => kind'[h] = kind[h]
  BY <1>1 DEF AudienceView
<1>8. FormView' = [FormView EXCEPT ![h] =
                     IF AudienceView[h] \ {t} = {} THEN "none" ELSE FormView[h]]
  <2>1. FormView'[h] = IF AudienceView[h] \ {t} = {} THEN "none" ELSE FormView[h]
    BY <1>4, <1>7 DEF FormView
  <2>2. \A s \in Session \ {h} : FormView'[s] = FormView[s]
    BY <1>5 DEF FormView
  <2>3. QED
    BY <2>1, <2>2 DEF FormView
<1>9. CASE t \notin AudienceView[h]
  <2>1. Skipped(h, t)
    BY <1>1, <1>9 DEF Skipped, AudienceView
  <2>2. sent' = NoFrame
    BY <2>1 DEF SendNext
  <2>3. AudienceView' = AudienceView
    BY <1>4, <1>5, <1>9 DEF AudienceView
  <2>4. FormView' = FormView
    <3>1. FormView'[h] = FormView[h]
      BY <1>4, <1>7, <1>9 DEF FormView
    <3>2. QED
      BY <1>5, <3>1 DEF FormView
  <2>5. QED
    BY <1>1, <1>2, <1>3, <2>2, <2>3, <2>4 DEF Service!Idle, Service!Silent, Service!Nothing
<1>10. CASE t \in AudienceView[h]
  <2>1. Service!Hear(h, t)
    BY <1>1, <1>2, <1>3, <1>6, <1>8, <1>10 DEF Service!Hear, Service!Pending
  <2>2. CASE sent' = NoFrame
    BY <2>1, <2>2 DEF Service!Lose, Service!Silent, Service!Nothing
  <2>3. CASE /\ active[t]
             /\ sent' = [kind |-> kind[h], from |-> username[h], to |-> t]
    <3>1. StageView[t] = "in"
      BY <1>1, <2>3 DEF StageView, RecipientsSettled, PeersNamed
    <3>2. FormView[h] = kind[h]
      BY <1>10 DEF FormView
    <3>3. QED
      BY <2>1, <2>3, <3>1, <3>2 DEF Service!Deliver
  <2>4. QED
    BY <2>2, <2>3 DEF SendNext, send_delivered
<1>11. QED
  BY <1>9, <1>10

\* close_session takes a connection out of the chat, after it has left its room.
LEMMA ClosingSteps ==
    ASSUME HandlerInv, NEW h \in Session, CloseSession(h)
    PROVE  Service!Quit(h)
<1> USE DEF HandlerInv, TypeOK
<1>1. PlaceView[h] = NoRoom /\ AudienceView[h] = {}
  BY DEF CloseSession, ManagersFollowHandlers, HandlerLocal, PlaceView, AudienceView
<1>2. StageView[h] # "gone" /\ StageView' = [StageView EXCEPT ![h] = "gone"]
  BY DEF CloseSession, StageView
<1>3. PlaceView' = PlaceView /\ AudienceView' = AudienceView /\ FormView' = FormView
  BY DEF CloseSession, PlaceView, AudienceView, FormView
<1>4. QED
  BY <1>1, <1>2, <1>3 DEF CloseSession, Service!Quit, Service!Silent, Service!Nothing

\* What shutdown_all does, and what a use after deletion leaves behind, changes
\* nothing the service speaks of.
LEMMA BackgroundSteps ==
    ASSUME \/ ShutdownStep
           \/ \E h, t \in Session : SendDangling(h, t)
    PROVE  Service!Idle
<1>1. UNCHANGED <<pc, username, rooms, current_room, kind, recipients>> /\ sent' = NoFrame
  BY DEF ShutdownStep, ShutdownBegin, ShutdownClose, ShutdownEnd, shutdownUnchanged,
         SendDangling
<1>2. /\ StageView' = StageView /\ PlaceView' = PlaceView
      /\ AudienceView' = AudienceView /\ FormView' = FormView
  BY <1>1 DEF StageView, PlaceView, AudienceView, FormView
<1>3. QED
  BY <1>1, <1>2 DEF Service!Idle, Service!Silent, Service!Nothing

\* Every step of every thread is a step of the service or none of its business.
LEMMA StepImplementsService ==
    HandlerInv /\ PeersNamed /\ [Next]_vars
        => [Service!ServiceNext]_(Service!serviceVars)
<1> SUFFICES ASSUME HandlerInv, PeersNamed, [Next]_vars
             PROVE  [Service!ServiceNext]_(Service!serviceVars)
  OBVIOUS
<1>1. ASSUME NEW h \in Session, AcceptStep(h)
      PROVE  Service!ServiceNext
  BY <1>1, UnseenSteps DEF Service!ServiceNext
<1>2. ASSUME NEW h \in Session, Authenticate(h)
      PROVE  Service!ServiceNext
  BY <1>2, UnseenSteps, EnteringSteps DEF Authenticate, Service!ServiceNext
<1>3. ASSUME NEW h \in Session, Chat(h)
      PROVE  Service!ServiceNext
  <2>1. CASE JoinRoom(h) \/ (\E room \in Room : CommandJoin(h, room)) \/ CommandLeave(h)
    BY <2>1, MovingSteps DEF Service!ServiceNext
  <2>2. CASE \/ Reply(h) \/ ReceivesLine(h) \/ CommandRejected(h) \/ EmptyText(h)
             \/ Exit(h) \/ Lost(h)
    BY <2>2, UnseenSteps DEF Service!ServiceNext
  <2>3. CASE \/ RoomMessage(h) \/ GlobalMessage(h)
             \/ \E to \in User : CommandPm(h, to)
    BY <2>3, PostingSteps, EmptyAddressIsIdle DEF Service!ServiceNext
  <2>4. ASSUME NEW t \in Session, SendNext(h, t)
        PROVE  Service!ServiceNext
    BY <2>4, DeliveringSteps DEF Service!ServiceNext
  <2>5. ASSUME NEW t \in Session, SendDangling(h, t)
        PROVE  Service!ServiceNext
    BY <2>5, BackgroundSteps DEF Service!ServiceNext
  <2>6. QED
    BY <1>3, <2>1, <2>2, <2>3, <2>4, <2>5 DEF Chat
<1>4. ASSUME NEW h \in Session, Cleanup(h)
      PROVE  Service!ServiceNext
  BY <1>4, MovingSteps, UnseenSteps, ClosingSteps DEF Cleanup, Service!ServiceNext
<1>5. CASE ShutdownStep
  BY <1>5, BackgroundSteps DEF Service!ServiceNext
<1>6. CASE Undefined \/ UNCHANGED vars
  <2>1. UNCHANGED <<pc, username, rooms, current_room, kind, recipients, sent>>
    BY <1>6 DEF Undefined, vars
  <2>2. /\ StageView' = StageView /\ PlaceView' = PlaceView
        /\ AudienceView' = AudienceView /\ FormView' = FormView
    BY <2>1 DEF StageView, PlaceView, AudienceView, FormView
  <2>3. QED
    BY <2>1, <2>2 DEF Service!serviceVars
<1>7. QED
  BY <1>1, <1>2, <1>3, <1>4, <1>5, <1>6 DEF Next, HandlerStep

\* The handler threads and the managers keep the promises of ChatService for any
\* number of users, rooms and sessions: above all, who hears a post is settled
\* when its sender makes it and nobody hears it twice, although it is delivered
\* from a copy of pointers after the locks are dropped (recv_loop, broadcast,
\* broadcast_to_recipients, send_private, cleanup_and_exit).
THEOREM HandlersImplementService == Spec => ImplementsChatService
<1>1. Init => Service!ServiceInit
  <2> SUFFICES ASSUME Init PROVE Service!ServiceInit
    OBVIOUS
  <2> USE DEF Init, SessionInit, BroadcastInit, RoomInit
  <2>1. AudienceView = [s \in Session |-> {}]
    BY DEF AudienceView
  <2>2. FormView = [s \in Session |-> "none"]
    BY <2>1 DEF FormView
  <2>3. StageView = [s \in Session |-> "out"] /\ PlaceView = [s \in Session |-> NoRoom]
    BY DEF StageView, PlaceView
  <2>4. QED
    BY <2>1, <2>2, <2>3 DEF Service!ServiceInit, Service!Nothing
<1>2. HandlerInv /\ PeersNamed /\ [Next]_vars
        => [Service!ServiceNext]_(Service!serviceVars)
  BY StepImplementsService
<1>3. QED
  BY <1>1, <1>2, HandlerInvariant, PeersHaveNames, PTL
  DEF Spec, ImplementsChatService, Service!ServiceSpec

\* Whatever the service does, a post is heard by those it was for, once each.
LEMMA ServiceHearsOnce ==
    TypeOK /\ [Service!ServiceNext]_(Service!serviceVars)
        => [Service!HeardOnceStep]_(Service!serviceVars)
<1> SUFFICES ASSUME TypeOK, Service!ServiceNext
             PROVE  Service!HeardOnceStep
  OBVIOUS
<1>1. /\ username = [s \in Session |-> username[s]]
      /\ StageView = [s \in Session |-> StageView[s]]
      /\ PlaceView = [s \in Session |-> PlaceView[s]]
      /\ AudienceView = [s \in Session |-> AudienceView[s]]
  BY DEF TypeOK, SessionTypeOK, StageView, PlaceView, AudienceView
<1> USE DEF Service!HeardOnceStep, Service!Ready, Service!Silent
<1>2. ASSUME NEW s \in Session, NEW t \in Session, Service!Hear(s, t)
      PROVE  /\ t \in AudienceView[s] /\ t \notin AudienceView'[s]
             /\ \A r \in Session : AudienceView'[r] \subseteq AudienceView[r]
             /\ UNCHANGED <<StageView, username, PlaceView>>
  BY <1>1, <1>2 DEF Service!Hear, Service!Pending
<1>3. ASSUME NEW s \in Session, NEW t \in Session, Service!Deliver(s, t)
      PROVE  Service!HeardOnceStep
  BY <1>2, <1>3 DEF Service!Deliver
<1>4. ASSUME NEW s \in Session, NEW t \in Session, Service!Lose(s, t)
      PROVE  Service!HeardOnceStep
  BY <1>2, <1>4 DEF Service!Lose
<1>5. ASSUME NEW s \in Session, NEW k, NEW listeners, Service!Address(s, k, listeners)
      PROVE  Service!HeardOnceStep
  BY <1>1, <1>5 DEF Service!Address, Service!Pending
<1>6. ASSUME NEW s \in Session,
             \/ Service!PostRoom(s) \/ Service!PostAll(s)
             \/ \E u \in User : Service!PostPrivate(s, u)
      PROVE  Service!HeardOnceStep
  <2> HIDE DEF Service!HeardOnceStep
  <2>1. QED
    BY <1>5, <1>6 DEF Service!PostRoom, Service!PostAll, Service!PostPrivate
<1>7. ASSUME NEW s \in Session, Service!Enter(s) \/ Service!Part(s) \/ Service!Quit(s)
      PROVE  Service!HeardOnceStep
  BY <1>1, <1>7 DEF Service!Enter, Service!Part, Service!Quit
<1>8. ASSUME NEW s \in Session, NEW u \in User, Service!Identify(s, u)
      PROVE  Service!HeardOnceStep
  BY <1>1, <1>8 DEF Service!Identify
<1>9. ASSUME NEW s \in Session, NEW room \in Room, Service!Join(s, room)
      PROVE  Service!HeardOnceStep
  BY <1>1, <1>9 DEF Service!Join
<1>10. CASE Service!Idle
  BY <1>10 DEF Service!Idle
<1>11. QED
  <2> HIDE DEF Service!HeardOnceStep
  <2>1. QED
    BY <1>3, <1>4, <1>6, <1>7, <1>8, <1>9, <1>10 DEF Service!ServiceNext

\* Who hears a post is settled when it is made and each of them hears it at most
\* once, whatever joins, logouts and failures come between the copy of the
\* pointers and the sends (broadcast, broadcast_to_recipients, send_private).
THEOREM HandlersHearOnce == Spec => PostsHeardOnce
<1>1. TypeOK /\ [Service!ServiceNext]_(Service!serviceVars)
        => [Service!HeardOnceStep]_(Service!serviceVars)
  BY ServiceHearsOnce
<1>2. QED
  BY <1>1, TypeCorrect, HandlersImplementService, PTL
  DEF ImplementsChatService, Service!ServiceSpec, PostsHeardOnce, Service!HeardOnce

-----------------------------------------------------------------------------
(* The contract of try_authenticate.                                       *)

\* A step that a connection has no part in can only register other names.
LEMMA BystanderStep ==
    ASSUME NEW s \in Session, pc'[s] = pc[s], attempts'[s] = attempts[s],
           username'[s] = username[s], registered' \in SUBSET User,
           registered \subseteq registered'
    PROVE  Auth(s)!OthersRegister
<1>1. AuthState(s)' = AuthState(s)
  BY DEF AuthState
<1>2. QED
  BY <1>1 DEF Auth!OthersRegister

\* A connection is let in or sent away by its own handler alone, and after the
\* chat it does not come back (handle_register, handle_login, run).
LEMMA OwnStepIsContracts ==
    ASSUME HandlerInv, NEW h \in Session, AcceptStep(h) \/ HandlerStep(h)
    PROVE  [Auth(h)!AuthNext]_(Auth(h)!authVars)
<1> USE DEF HandlerInv, TypeOK
<1>1. CASE AcceptStep(h)
  <2>1. CASE Accept(h)
    <3>1. AuthState(h)' = AuthState(h)
      BY <2>1 DEF Accept, AuthState
    <3>2. UNCHANGED <<attempts, registered>> /\ username'[h] = username[h]
      BY <2>1 DEF Accept, construct, HandlerLocal
    <3>3. QED
      BY <3>1, <3>2 DEF Auth!authVars
  <2>2. CASE SpawnFails(h)
    <3>1. AuthState(h) = "trying" /\ AuthState(h)' = "out"
      BY <2>2 DEF SpawnFails, AuthState
    <3>2. UNCHANGED registered /\ username'[h] = username[h]
      BY <2>2 DEF SpawnFails, construct, HandlerLocal
    <3>3. Auth(h)!GivesUp
      BY <3>1, <3>2 DEF Auth!GivesUp
    <3>4. QED
      BY <3>3 DEF Auth!AuthNext
  <2>3. QED
    BY <1>1, <2>1, <2>2 DEF AcceptStep
<1>2. CASE AuthLost(h) \/ AuthFails(h)
  <2>1. /\ pc[h] = "auth" /\ pc'[h] \in {"auth", "leave_all"}
        /\ UNCHANGED <<username, registered>>
    BY <1>2 DEF AuthLost, AuthFails
  <2>2. CASE pc'[h] = "auth"
    <3>1. attempts[h] \in Nat /\ attempts'[h] = attempts[h] + 1 /\ attempts'[h] < MaxAuthAttempts
      BY <1>2, <2>2 DEF AuthLost, AuthFails
    <3>2. Auth(h)!Fails
      BY <2>1, <2>2, <3>1 DEF Auth!Fails, AuthState
    <3>3. QED
      BY <3>2 DEF Auth!AuthNext
  <2>3. CASE pc'[h] = "leave_all"
    <3>1. Auth(h)!GivesUp
      BY <2>1, <2>3 DEF Auth!GivesUp, AuthState
    <3>2. QED
      BY <3>1 DEF Auth!AuthNext
  <2>4. QED
    BY <2>1, <2>2, <2>3
<1>3. ASSUME NEW u \in User, handle_register(h, u) \/ handle_login(h, u)
      PROVE  [Auth(h)!AuthNext]_(Auth(h)!authVars)
  <2>1. pc[h] = "auth" /\ pc'[h] = "add" /\ username'[h] = u
    BY <1>3 DEF handle_register, handle_login, Authenticated, set_username, HandlerLocal
  <2>2. Auth(h)!LetIn(u)
    BY <2>1 DEF Auth!LetIn, AuthState
  <2>3. Auth(h)!Registers(u) \/ Auth(h)!LogsIn(u)
    BY <1>3, <2>2 DEF handle_register, handle_login, Auth!Registers, Auth!LogsIn
  <2>4. QED
    BY <2>3 DEF Auth!AuthNext
<1>4. CASE AddClient(h) \/ SendOk(h) \/ Chat(h) \/ Cleanup(h)
  <2>1. UNCHANGED <<username, attempts, registered>>
    BY <1>4 DEF AddClient, SendOk, Chat, JoinRoom, Reply, ReceivesLine, CommandJoin,
                CommandLeave, CommandRejected, EmptyText, CommandPm, RoomMessage, GlobalMessage, Deliver,
                SendNext, SendDangling, Exit, Lost, Cleanup, LeaveAllRooms,
                RemoveClient, CloseSession, DeleteSession
  <2>2. \/ AuthState(h)' = AuthState(h) /\ AuthState(h) # "trying"
        \/ AuthState(h) = "in" /\ AuthState(h)' = "out"
    <3>1. CASE AddClient(h) \/ SendOk(h)
      BY <3>1 DEF AddClient, SendOk, AuthState
    <3>2. CASE Chat(h)
      BY <3>2 DEF Chat, JoinRoom, Reply, ReceivesLine, CommandJoin, CommandLeave,
                  CommandRejected, EmptyText, CommandPm, RoomMessage, GlobalMessage, Deliver, HasLine,
                  SendNext, SendDangling, Exit, Lost, AuthState
    <3>3. CASE Cleanup(h)
      BY <3>3 DEF Cleanup, LeaveAllRooms, RemoveClient, CloseSession, DeleteSession,
                  AuthState
    <3>4. QED
      BY <1>4, <3>1, <3>2, <3>3
  <2>3. CASE AuthState(h)' = AuthState(h) /\ AuthState(h) # "trying"
    BY <2>1, <2>3 DEF Auth!authVars
  <2>4. CASE AuthState(h) = "in" /\ AuthState(h)' = "out"
    <3>1. Auth(h)!Leaves
      BY <2>1, <2>4 DEF Auth!Leaves
    <3>2. QED
      BY <3>1 DEF Auth!AuthNext
  <2>5. QED
    BY <2>2, <2>3, <2>4
<1>5. QED
  BY <1>1, <1>2, <1>3, <1>4 DEF HandlerStep, Authenticate

\* A thread's step touches its own session's name, attempts and place in the
\* program only; the store never loses a name.
LEMMA StepsAreLocal ==
    ASSUME HandlerInv, NEW h \in Session, AcceptStep(h) \/ HandlerStep(h)
    PROVE  /\ \A s \in Session \ {h} :
                /\ pc'[s] = pc[s]
                /\ attempts'[s] = attempts[s]
                /\ username'[s] = username[s]
           /\ registered' \in SUBSET User /\ registered \subseteq registered'
<1> USE DEF HandlerInv, TypeOK
<1>1. CASE AcceptStep(h)
  BY <1>1 DEF AcceptStep, Accept, SpawnFails, construct
<1>2. CASE Authenticate(h)
  BY <1>2 DEF Authenticate, AuthLost, AuthFails, handle_register, handle_login,
              Authenticated, set_username, AddClient, SendOk
<1>3. CASE Chat(h)
  BY <1>3 DEF Chat, JoinRoom, Reply, ReceivesLine, CommandJoin, CommandLeave,
              CommandRejected, EmptyText, CommandPm, RoomMessage, GlobalMessage, Deliver, SendNext, SendDangling,
              Exit, Lost
<1>4. CASE Cleanup(h)
  BY <1>4 DEF Cleanup, LeaveAllRooms, RemoveClient, CloseSession, DeleteSession
<1>5. QED
  BY <1>1, <1>2, <1>3, <1>4 DEF HandlerStep

\* Each connection is let in at most once, under a registered name, after fewer
\* than MaxAuthAttempts failures, whatever the other handlers register meanwhile
\* (try_authenticate, handle_register, handle_login, run).
THEOREM EachConnectionAuthenticates == Spec => EachAuthenticates
<1>1. Init => \A s \in Session : Auth(s)!AuthInit
  BY DEF Init, SessionInit, AuthState, Auth!AuthInit
<1>2. HandlerInv /\ [Next]_vars
        => [\A s \in Session : [Auth(s)!AuthNext]_(Auth(s)!authVars)]_vars
  <2> SUFFICES ASSUME HandlerInv, [Next]_vars, NEW s \in Session
               PROVE  [Auth(s)!AuthNext]_(Auth(s)!authVars) \/ UNCHANGED vars
    OBVIOUS
  <2>1. ASSUME NEW h \in Session, AcceptStep(h) \/ HandlerStep(h)
        PROVE  [Auth(s)!AuthNext]_(Auth(s)!authVars)
    <3>1. CASE s = h
      BY <2>1, <3>1, OwnStepIsContracts
    <3>2. CASE s # h
      <4>1. Auth(s)!OthersRegister
        BY <2>1, <3>2, StepsAreLocal, BystanderStep
      <4>2. QED
        BY <4>1 DEF Auth!AuthNext
    <3>3. QED
      BY <3>1, <3>2
  <2>2. CASE ShutdownStep
    <3>1. UNCHANGED <<pc, attempts, username, registered>>
      BY <2>2 DEF ShutdownStep, ShutdownBegin, ShutdownClose, ShutdownEnd,
                  shutdownUnchanged
    <3>2. AuthState(s)' = AuthState(s)
      BY <3>1 DEF AuthState
    <3>3. QED
      BY <3>1, <3>2 DEF Auth!authVars
  <2>3. CASE Undefined \/ UNCHANGED vars
    BY <2>3 DEF Undefined
  <2>4. QED
    BY <2>1, <2>2, <2>3 DEF Next
<1>3. QED
  BY <1>1, <1>2, HandlerInvariant, PTL DEF Spec, EachAuthenticates

-----------------------------------------------------------------------------
(* The Session class.                                                      *)

\* A handler may use a session that its program or a list leads it to.
LEMMA KnownSessionsLive ==
    ASSUME HandlerInv, NEW s \in Session
    PROVE  /\ pc[s] # "none" /\ pc[s] # "done" => life[s] = "live"
           /\ s \in clients => life[s] = "live"
BY DEF HandlerInv, TypeOK, SessionTypeOK, LifeFollowsHandler, ManagersFollowHandlers, Listed

\* A send is a failed one or leaves the session as it was.
LEMMA SendingIsSessionStep ==
    ASSUME NEW s \in Session, life[s] = "live", send_msg(s),
           UNCHANGED <<life, fd_open, username>>
    PROVE  [SessionStep(s)]_sessionVars
BY DEF send_msg, send_refused, send_delivered, SessionStep, sessionVars

LEMMA StepUsesSessions ==
    HandlerInv /\ [Next]_vars => [\E s \in Session : SessionStep(s)]_sessionVars
<1> SUFFICES ASSUME HandlerInv, [Next]_vars
             PROVE  (\E s \in Session : SessionStep(s)) \/ UNCHANGED sessionVars
  OBVIOUS
<1>1. ASSUME NEW h \in Session, AcceptStep(h) PROVE SessionStep(h)
  BY <1>1 DEF AcceptStep, Accept, SpawnFails, SessionStep
<1>2. ASSUME NEW h \in Session,
             AuthLost(h) \/ AuthFails(h) \/ SendOk(h) \/ Reply(h) \/ Exit(h)
      PROVE  [SessionStep(h)]_sessionVars
  <2>1. send_msg(h) /\ UNCHANGED <<life, fd_open, username>>
    BY <1>2 DEF AuthLost, AuthFails, SendOk, Reply, Exit
  <2>2. pc[h] \in {"auth", "ok", "reply", "line"}
    BY <1>2 DEF AuthLost, AuthFails, SendOk, Reply, Exit, Step, HasLine
  <2>3. QED
    BY <2>1, <2>2, KnownSessionsLive, SendingIsSessionStep
<1>3. ASSUME NEW h \in Session, NEW u \in User, handle_register(h, u) \/ handle_login(h, u)
      PROVE  SessionStep(h)
  <2>1. /\ set_username(h, u) /\ UNCHANGED <<life, active, fd_open>> /\ pc[h] = "auth"
    BY <1>3 DEF handle_register, handle_login, Authenticated, Step
  <2>2. QED
    BY <2>1, KnownSessionsLive DEF SessionStep
<1>4. ASSUME NEW h \in Session, NEW t \in Session, SendNext(h, t)
      PROVE  [SessionStep(t)]_sessionVars
  <2>1. life[t] = "live"
    <3>1. pc[t] \in Listed \cup Closing /\ life[t] # "freed"
      BY <1>4 DEF SendNext, HandlerInv, RecipientsSettled
    <3>2. pc[t] # "none" /\ pc[t] # "done"
      BY <3>1 DEF HandlerInv, LifeFollowsHandler, Listed, Closing
    <3>3. QED
      BY <3>2, KnownSessionsLive
  <2>2. (send_msg(t) \/ UNCHANGED active) /\ UNCHANGED <<life, fd_open, username>>
    BY <1>4 DEF SendNext, send_msg
  <2>3. QED
    BY <2>1, <2>2, SendingIsSessionStep DEF sessionVars
<1>5. ASSUME NEW h \in Session,
             \/ AddClient(h) \/ JoinRoom(h) \/ (\E room \in Room : CommandJoin(h, room))
             \/ CommandLeave(h) \/ CommandRejected(h) \/ ReceivesLine(h) \/ EmptyText(h)
             \/ (\E to \in User : CommandPm(h, to)) \/ RoomMessage(h) \/ GlobalMessage(h)
             \/ (\E t \in Session : SendDangling(h, t)) \/ Lost(h)
             \/ LeaveAllRooms(h) \/ RemoveClient(h)
      PROVE  UNCHANGED sessionVars
  BY <1>5 DEF AddClient, JoinRoom, CommandJoin, CommandLeave, CommandRejected, ReceivesLine,
     EmptyText, CommandPm, RoomMessage, GlobalMessage, Deliver, SendDangling, Lost, LeaveAllRooms, RemoveClient
<1>6. ASSUME NEW h \in Session, CloseSession(h) \/ DeleteSession(h)
      PROVE  SessionStep(h)
  <2>1. pc[h] \in {"close", "delete"}
    BY <1>6 DEF CloseSession, DeleteSession, Step
  <2>2. QED
    BY <1>6, <2>1, KnownSessionsLive DEF CloseSession, DeleteSession, SessionStep
<1>7. ASSUME NEW s \in Session, ShutdownClose(s) PROVE SessionStep(s)
  <2>1. s \in clients /\ close_session(s) /\ UNCHANGED <<life, username>>
    BY <1>7 DEF ShutdownClose, shutdown_all_close
  <2>2. QED
    BY <2>1, KnownSessionsLive DEF SessionStep
<1>8. CASE ShutdownBegin \/ ShutdownEnd \/ Undefined \/ UNCHANGED vars
  BY <1>8 DEF ShutdownBegin, ShutdownEnd, Undefined, vars
<1>9. QED
  BY <1>1, <1>2, <1>3, <1>4, <1>5, <1>6, <1>7, <1>8
     DEF Next, HandlerStep, Authenticate, Chat, Cleanup, ShutdownStep

\* Handlers, managers and shutdown_all use sessions as the class allows: nothing
\* is done to a session before its construction or after its deletion, but for
\* the use after deletion the model stops at, and no session is closed but by
\* close_session or the destructor (Session, client_handler.cpp).
THEOREM HandlersUseSessions == Spec => SessionSpec
<1>1. Init => SessionInit
  BY DEF Init
<1>2. QED
  BY <1>1, StepUsesSessions, HandlerInvariant, PTL DEF Spec, SessionSpec

-----------------------------------------------------------------------------
(* The way to the end.                                                     *)

\* A handler that can receive no line takes one step nearer to its end.
LEMMA OwnStepNears ==
    ASSUME HandlerInv, NEW h \in Session, HandlerStep(h), ~fd_open[h]
    PROVE  Nears(h) \/ UNCHANGED <<pc[h], attempts[h], recipients[h]>>
<1> USE DEF HandlerInv, TypeOK
<1>1. CASE AuthFails(h)
  <2>1. pc[h] = "auth" /\ attempts' = [attempts EXCEPT ![h] = @ + 1]
        /\ pc'[h] \in {"auth", "leave_all"}
    BY <1>1 DEF AuthFails, Goto
  <2>2. attempts'[h] > attempts[h]
    BY <2>1
  <2>3. HandlerLeft["leave_all"] < HandlerLeft["auth"]
    BY DEF HandlerLeft, Unlisted, Listed, Closing
  <2>4. QED
    BY <2>1, <2>2, <2>3 DEF Nears
<1>2. CASE \/ AuthLost(h) \/ (\E u \in User : handle_register(h, u) \/ handle_login(h, u))
           \/ AddClient(h) \/ SendOk(h)
  <2>1. \/ pc[h] = "auth" /\ pc'[h] \in {"leave_all", "add"}
        \/ pc[h] = "add" /\ pc'[h] = "ok"
        \/ pc[h] = "ok" /\ pc'[h] = "join"
    BY <1>2 DEF AuthLost, handle_register, handle_login, Authenticated, AddClient, SendOk,
       Step, Goto
  <2>2. QED
    BY <2>1 DEF Nears, HandlerLeft, Unlisted, Listed, Closing
<1>3. CASE JoinRoom(h) \/ Reply(h) \/ Lost(h) \/ Cleanup(h)
  <2>1. \/ pc[h] = "join" /\ pc'[h] = "reply"
        \/ pc[h] = "reply" /\ pc'[h] = "chat"
        \/ pc[h] = "chat" /\ pc'[h] = "leave_all"
        \/ pc[h] = "leave_all" /\ pc'[h] = "remove"
        \/ pc[h] = "remove" /\ pc'[h] = "close"
        \/ pc[h] = "close" /\ pc'[h] = "delete"
        \/ pc[h] = "delete" /\ pc'[h] = "done"
    BY <1>3 DEF JoinRoom, Reply, Lost, Cleanup, LeaveAllRooms, RemoveClient, CloseSession,
       DeleteSession, Step, Goto
  <2>2. QED
    BY <2>1 DEF Nears, HandlerLeft, Unlisted, Listed, Closing
<1>4. ASSUME NEW t \in Session, SendNext(h, t) PROVE Nears(h)
  <2>1. /\ pc[h] = "send" /\ t \in recipients[h] /\ pc'[h] \in {"send", "chat"}
        /\ recipients'[h] = recipients[h] \ {t}
    BY <1>4 DEF SendNext, Goto
  <2>2. HandlerLeft["chat"] < HandlerLeft["send"]
    BY DEF HandlerLeft, Unlisted, Listed, Closing
  <2>3. QED
    BY <2>1, <2>2 DEF Nears
<1>5. ASSUME NEW t \in Session, SendDangling(h, t)
      PROVE  UNCHANGED <<pc[h], attempts[h], recipients[h]>>
  BY <1>5 DEF SendDangling, threadVars
<1>6. CASE \/ (\E room \in Room : CommandJoin(h, room)) \/ CommandLeave(h)
           \/ CommandRejected(h) \/ EmptyText(h) \/ (\E to \in User : CommandPm(h, to))
           \/ RoomMessage(h) \/ GlobalMessage(h) \/ Exit(h)
  <2>1. pc[h] = "line" /\ pc'[h] \in {"join", "reply", "chat", "send", "leave_all"}
    BY <1>6 DEF CommandJoin, CommandLeave, CommandRejected, EmptyText, CommandPm, RoomMessage,
       GlobalMessage, Deliver, Exit, HasLine
  <2>2. QED
    BY <2>1 DEF Nears, HandlerLeft, Unlisted, Listed, Closing
<1>7. ~ReceivesLine(h)
  BY DEF ReceivesLine
<1>8. QED
  BY <1>1, <1>2, <1>3, <1>4, <1>5, <1>6, <1>7 DEF HandlerStep, Authenticate, Chat

\* Whom a message is still to be sent to is its sender's own business.
LEMMA OthersKeepRecipients ==
    ASSUME HandlerInv, NEW h \in Session, AcceptStep(h) \/ HandlerStep(h)
    PROVE  \A s \in Session \ {h} : recipients'[s] = recipients[s]
BY DEF HandlerInv, TypeOK, AcceptStep, Accept, SpawnFails, HandlerStep, Authenticate, AuthLost,
   AuthFails, handle_register, handle_login, Authenticated, AddClient, SendOk, Chat, JoinRoom,
   Reply, ReceivesLine, CommandJoin, CommandLeave, CommandRejected, EmptyText, CommandPm, RoomMessage, GlobalMessage,
   Deliver, SendNext, SendDangling, threadVars, Exit, Lost, Cleanup, LeaveAllRooms,
   RemoveClient, CloseSession, DeleteSession

\* The safety half of ClosedSessionsReaped: a session whose descriptor is closed
\* is not opened again, and its handler, wherever it was, has with every step fewer
\* attempts, recipients or labels before its end, whatever the other handlers and
\* shutdown_all do (recv_loop, broadcast, cleanup_and_exit).
THEOREM ClosedComeToAnEnd == Spec => ClosedAdvances
<1>1. HandlerInv /\ [Next]_vars =>
        [\A s \in Session : life[s] = "live" /\ ~fd_open[s] =>
            /\ ~fd_open'[s]
            /\ \/ UNCHANGED <<pc[s], attempts[s], recipients[s]>>
               \/ Nears(s)]_vars
  <2> SUFFICES ASSUME HandlerInv, [Next]_vars, NEW s \in Session,
                      life[s] = "live", ~fd_open[s]
               PROVE  /\ ~fd_open'[s]
                      /\ UNCHANGED <<pc[s], attempts[s], recipients[s]>> \/ Nears(s)
    OBVIOUS
  <2>1. ~fd_open'[s]
    <3>1. CASE UNCHANGED sessionVars
      BY <3>1 DEF sessionVars
    <3>2. ASSUME NEW r \in Session, SessionStep(r) PROVE ~fd_open'[s]
      BY <3>2 DEF SessionStep, construct, close_session, destroy, HandlerInv, TypeOK,
         SessionTypeOK
    <3>3. QED
      BY <3>1, <3>2, StepUsesSessions
  <2>2. CASE HandlerStep(s)
    BY <2>1, <2>2, OwnStepNears
  <2>3. ASSUME NEW h \in Session, AcceptStep(h) \/ HandlerStep(h), h # s
        PROVE  UNCHANGED <<pc[s], attempts[s], recipients[s]>>
    <3>1. pc'[s] = pc[s] /\ attempts'[s] = attempts[s]
      BY <2>3, StepsAreLocal
    <3>2. recipients'[s] = recipients[s]
      BY <2>3, OthersKeepRecipients
    <3>3. QED
      BY <3>1, <3>2
  <2>4. ~AcceptStep(s)
    BY DEF AcceptStep, Accept, SpawnFails, construct
  <2>5. CASE ShutdownStep \/ Undefined \/ UNCHANGED vars
    BY <2>1, <2>5 DEF ShutdownStep, ShutdownBegin, ShutdownClose, ShutdownEnd, shutdownUnchanged,
       Undefined, vars, threadVars
  <2>6. QED
    BY <2>1, <2>2, <2>3, <2>4, <2>5 DEF Next
<1>2. QED
  BY <1>1, HandlerInvariant, PTL DEF Spec, ClosedAdvances
=============================================================================
