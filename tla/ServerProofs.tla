---------------------------- MODULE ServerProofs ----------------------------
(***************************************************************************)
(* Proofs about Server: the main thread and the handler threads together   *)
(* are an instance of ClientHandler, so what ClientHandlerProofs shows     *)
(* holds of the whole server, and a server that has stopped is quiet and   *)
(* clean.  Both follow from one more inductive invariant, about the        *)
(* threads the main thread has recorded.                                   *)
(***************************************************************************)
EXTENDS Server, ClientHandlerProofs

\* Abbreviations that every proof below looks through.
USE NoSessionIsNoSession
USE DEF Unlisted, Listed, Closing, MayBeInRoom, Step, Goto, sessionVars,
        managerVars, threadVars, mainVars, SessionTypeOK, BroadcastTypeOK,
        RoomTypeOK

\* Until the join, every thread that exists is recorded, and afterwards every
\* thread has ended.
TrackedInv ==
    /\ main # "stopped" => \A s \in Session \ tids : pc[s] \in {"none", "abandoned"}
    /\ StoppedServerIsQuiet

\* A step of the server is a step of ClientHandler or leaves all of it alone.
LEMMA ServerStepSimulates == [ServerNext]_serverVars => [Next]_vars
<1>1. SUFFICES ASSUME [ServerNext]_serverVars
               PROVE  [Next]_vars
  OBVIOUS
<1>2. CASE MainStep
  <2>1. CASE Start \/ SetUpFails \/ TestRunning \/ EnterAccept \/ JoinAll
    BY <2>1 DEF Start, SetUpFails, TestRunning, EnterAccept, JoinAll
  <2>2. CASE ShutdownStarts \/ (\E s \in Session : ShutdownCloses(s)) \/ ShutdownEnds
    BY <2>2 DEF ShutdownStarts, ShutdownCloses, ShutdownEnds, Main, Next, ShutdownStep
  <2>3. QED
    BY <1>2, <2>1, <2>2 DEF MainStep
<1>3. ASSUME NEW s \in Session, AcceptConnection(s) \/ Handler(s)
      PROVE  [Next]_vars
  BY <1>3 DEF AcceptConnection, Handler, Next
<1>4. CASE AcceptError \/ (\E interrupted \in BOOLEAN : Sigint(interrupted))
  BY <1>4 DEF AcceptError, Sigint
<1>5. CASE Ended \/ UNCHANGED serverVars
  BY <1>5 DEF Ended, serverVars
<1>6. QED
  BY <1>1, <1>2, <1>3, <1>4, <1>5 DEF ServerNext

\* Server, with its signal handler and its single call of shutdown_all, drives
\* the handlers only as ClientHandler allows (start, accept_loop, shutdown).
LEMMA ServerDrivesHandlers == ServerSpec => Spec
<1>1. ServerInit => Init
  BY DEF ServerInit
<1>2. [ServerNext]_serverVars => [Next]_vars
  BY ServerStepSimulates
<1>3. QED
  BY <1>1, <1>2, PTL DEF ServerSpec, Spec

\* The invariant of the handlers holds in the composed server.
LEMMA ServerHandlerInv == ServerSpec => []HandlerInv
  BY ServerDrivesHandlers, HandlerInvariant, PTL

\* Every variable of the composition keeps its type.
THEOREM ServerTypeCorrect == ServerSpec => []ServerTypeOK
<1> USE SignalAssumption
<1>1. ServerInit => ServerTypeOK
  <2>1. ServerInit => TypeOK
    BY InitEstablishesInv DEF ServerInit, HandlerInv
  <2>2. ServerInit => signals \in 0..MaxSignals
    BY DEF ServerInit
  <2>3. ServerInit => main \in MainLabels /\ running \in BOOLEAN /\ tids \in SUBSET Session
    BY DEF ServerInit, MainLabels
  <2>4. QED
    BY <2>1, <2>2, <2>3 DEF ServerTypeOK
<1>2. ServerTypeOK /\ TypeOK' /\ [ServerNext]_serverVars => ServerTypeOK'
  <2> SUFFICES ASSUME ServerTypeOK, TypeOK', [ServerNext]_serverVars
               PROVE  ServerTypeOK'
    OBVIOUS
  <2> USE DEF ServerTypeOK, MainLabels, Main
  <2>1. CASE MainStep
    BY <2>1 DEF MainStep, Start, SetUpFails, TestRunning, EnterAccept, ShutdownStarts,
                ShutdownCloses, ShutdownEnds, JoinAll
  <2>2. ASSUME NEW s \in Session, AcceptConnection(s) \/ Handler(s)
        PROVE  ServerTypeOK'
    BY <2>2 DEF AcceptConnection, Handler, mainVars
  <2>3. CASE AcceptError
    BY <2>3 DEF AcceptError
  <2>4. ASSUME NEW interrupted \in BOOLEAN, Sigint(interrupted)
        PROVE  ServerTypeOK'
    <3>1. signals' \in 0..MaxSignals
      BY <2>4 DEF Sigint
    <3>2. main' \in MainLabels /\ running' \in BOOLEAN /\ tids' \in SUBSET Session
      BY <2>4 DEF Sigint
    <3>3. QED
      BY <3>1, <3>2
  <2>5. CASE Ended \/ UNCHANGED serverVars
    BY <2>5 DEF Ended, serverVars, mainVars
  <2>6. QED
    BY <2>1, <2>2, <2>3, <2>4, <2>5 DEF ServerNext
<1>3. HandlerInv => TypeOK
  BY DEF HandlerInv
<1>4. QED
  BY <1>1, <1>2, <1>3, ServerHandlerInv, PTL DEF ServerSpec

\* A handler thread is never un-ended and never starts by itself.
LEMMA HandlerStepFrame ==
    ASSUME NEW s \in Session, TypeOK, HandlerStep(s)
    PROVE  /\ pc[s] \notin {"none", "abandoned", "done"}
           /\ \A t \in Session \ {s} : pc'[t] = pc[t]
  BY DEF TypeOK, HandlerStep, Authenticate, Chat, Cleanup, AuthLost, AuthFails,
         handle_register, handle_login, Authenticated, AddClient, SendOk, JoinRoom,
         Reply, CommandJoin, CommandLeave, CommandRejected, EmptyText, CommandPm, RoomMessage,
         GlobalMessage, Deliver, ReceivesLine, HasLine, SendNext, SendDangling, Exit, Lost,
         LeaveAllRooms, RemoveClient, CloseSession, DeleteSession

\* shutdown_all does not move any handler.
LEMMA ShutdownFrame ==
    ASSUME \/ ShutdownBegin
           \/ \E s \in Session : ShutdownClose(s)
           \/ ShutdownEnd
    PROVE  pc' = pc
  BY DEF ShutdownBegin, ShutdownClose, ShutdownEnd, shutdownUnchanged

\* Once the main thread has joined everybody and is about to destroy the
\* managers, no handler thread runs (shutdown, join_all).
THEOREM ServerQuiet == ServerSpec => []StoppedServerIsQuiet
<1>1. ServerInit => TrackedInv
  BY DEF ServerInit, Init, TrackedInv, StoppedServerIsQuiet
<1>2. ServerTypeOK /\ TrackedInv /\ [ServerNext]_serverVars => TrackedInv'
  <2> SUFFICES ASSUME ServerTypeOK, TrackedInv, [ServerNext]_serverVars
               PROVE  TrackedInv'
    OBVIOUS
  <2> USE DEF TrackedInv, StoppedServerIsQuiet, ServerTypeOK, TypeOK, Main
  <2>1. CASE Start \/ SetUpFails \/ TestRunning \/ EnterAccept \/ AcceptError
    BY <2>1 DEF Start, SetUpFails, TestRunning, EnterAccept, AcceptError, vars
  <2>2. CASE ShutdownStarts \/ (\E s \in Session : ShutdownCloses(s)) \/ ShutdownEnds
    <3>1. pc' = pc
      BY <2>2, ShutdownFrame DEF ShutdownStarts, ShutdownCloses, ShutdownEnds
    <3>2. main # "stopped" /\ main' # "stopped" /\ tids' = tids
      BY <2>2 DEF ShutdownStarts, ShutdownCloses, ShutdownEnds
    <3>3. QED
      BY <3>1, <3>2
  <2>3. CASE JoinAll
    BY <2>3 DEF JoinAll, vars
  <2>4. ASSUME NEW s \in Session, AcceptConnection(s)
        PROVE  TrackedInv'
    BY <2>4 DEF AcceptConnection, AcceptStep, Accept, SpawnFails
  <2>5. ASSUME NEW s \in Session, Handler(s)
        PROVE  TrackedInv'
    <3>1. /\ pc[s] \notin {"none", "abandoned", "done"}
          /\ \A t \in Session \ {s} : pc'[t] = pc[t]
      BY <2>5, HandlerStepFrame DEF Handler
    <3>2. main' = main /\ tids' = tids
      BY <2>5 DEF Handler, mainVars
    <3>3. QED
      BY <3>1, <3>2
  <2>6. ASSUME NEW interrupted \in BOOLEAN, Sigint(interrupted)
        PROVE  TrackedInv'
    BY <2>6 DEF Sigint, vars
  <2>7. CASE Ended \/ UNCHANGED serverVars
    BY <2>7 DEF Ended, serverVars, vars, mainVars
  <2>8. QED
    BY <2>1, <2>2, <2>3, <2>4, <2>5, <2>6, <2>7 DEF ServerNext, MainStep
<1>3. TrackedInv => StoppedServerIsQuiet
  BY DEF TrackedInv
<1>4. QED
  BY <1>1, <1>2, <1>3, ServerTypeCorrect, PTL DEF ServerSpec

\* What a stopped server leaves behind: no session in a manager and no open
\* descriptor but that of a session whose thread was never created.
LEMMA QuietIsClean == HandlerInv /\ StoppedServerIsQuiet => StoppedServerIsClean
<1>1. SUFFICES ASSUME HandlerInv, main = "stopped",
                      \A s \in Session : pc[s] \in {"none", "abandoned", "done"}
               PROVE  /\ clients = {} /\ rooms = [r \in {} |-> {}]
                      /\ \A u \in User : by_name[u] = NoSession
                      /\ \A s \in Session : fd_open[s] => pc[s] = "abandoned"
  BY DEF StoppedServerIsQuiet, StoppedServerIsClean
<1> USE <1>1 DEF HandlerInv, TypeOK
<1>2. clients = {}
  BY DEF ManagersFollowHandlers
<1>3. DOMAIN rooms = {}
  <2>1. SUFFICES ASSUME NEW r \in DOMAIN rooms
                 PROVE  FALSE
    OBVIOUS
  <2>2. PICK s \in rooms[r] : TRUE
    BY DEF NoEmptyRooms
  <2>3. s \in Session /\ pc[s] \in MayBeInRoom
    BY <2>2 DEF ManagersFollowHandlers
  <2>4. QED
    BY <2>3
<1>4. \A u \in User : by_name[u] = NoSession
  BY <1>2 DEF NameIndexConsistent
<1>5. \A s \in Session : fd_open[s] => pc[s] = "abandoned"
  BY DEF LifeFollowsHandler
<1>6. QED
  BY <1>2, <1>3, <1>4, <1>5

\* A stopped server has released every session, whenever it authenticated and
\* however its sends ended (shutdown, cleanup_and_exit, ~Session).
THEOREM ServerClean == ServerSpec => []StoppedServerIsClean
  BY QuietIsClean, ServerHandlerInv, ServerQuiet, PTL

\* A handler enters the chat by listing its session, and a session leaves the
\* list with its handler's chat or when shutdown_all finds it deactivated.
LEMMA HandlerKeepsChattersListed ==
    ASSUME NEW s \in Session, TypeOK, ChattersListed, HandlerStep(s)
    PROVE  ChattersListed'
<1> USE DEF TypeOK, ChattersListed, InChat
<1>1. CASE Authenticate(s)
  <2>1. CASE AddClient(s)
    BY <2>1 DEF AddClient, add_client
  <2>2. CASE AuthLost(s) \/ AuthFails(s) \/ SendOk(s)
    BY <2>2 DEF AuthLost, AuthFails, SendOk, send_msg, send_refused,
                send_delivered, send_failed
  <2>3. ASSUME NEW u \in User, handle_register(s, u) \/ handle_login(s, u)
        PROVE  ChattersListed'
    BY <2>3 DEF handle_register, handle_login, Authenticated
  <2>4. QED
    BY <1>1, <2>1, <2>2, <2>3 DEF Authenticate
<1>2. CASE Chat(s)
  <2>1. /\ clients' = clients
        /\ pc[s] \in InChat
        /\ \A t \in Session \ {s} : pc'[t] = pc[t]
    BY <1>2 DEF Chat, JoinRoom, Reply, ReceivesLine, CommandJoin, CommandLeave,
                CommandRejected, EmptyText, CommandPm, RoomMessage, GlobalMessage, Deliver,
                HasLine, SendNext, SendDangling, Exit, Lost
  <2>2. \A t \in Session : active'[t] => active[t]
    BY <1>2 DEF Chat, JoinRoom, Reply, ReceivesLine, CommandJoin, CommandLeave,
                CommandRejected, EmptyText, CommandPm, RoomMessage, GlobalMessage, Deliver, SendNext, SendDangling,
                Exit, Lost, send_msg, send_refused, send_delivered, send_failed
  <2>3. QED
    BY <2>1, <2>2
<1>3. CASE Cleanup(s)
  BY <1>3 DEF Cleanup, LeaveAllRooms, RemoveClient, remove_client, CloseSession,
              close_session, DeleteSession, destroy
<1>4. QED
  BY <1>1, <1>2, <1>3 DEF HandlerStep

\* Whoever chats is listed or deactivated, from the first connection to the end
\* of shutdown (add_client, shutdown_all, cleanup_and_exit).
THEOREM ChattersStayListed == ServerSpec => []ChattersListed
<1>1. Init => ChattersListed
  BY DEF Init, ChattersListed, InChat
<1>2. TypeOK /\ ChattersListed /\ [Next]_vars => ChattersListed'
  <2> SUFFICES ASSUME TypeOK, ChattersListed, [Next]_vars
               PROVE  ChattersListed'
    OBVIOUS
  <2>1. ASSUME NEW s \in Session, AcceptStep(s)
        PROVE  ChattersListed'
    BY <2>1 DEF TypeOK, ChattersListed, InChat, AcceptStep, Accept, SpawnFails, construct
  <2>2. ASSUME NEW s \in Session, HandlerStep(s)
        PROVE  ChattersListed'
    BY <2>2, HandlerKeepsChattersListed
  <2>3. CASE ShutdownStep
    BY <2>3 DEF TypeOK, ChattersListed, InChat, ShutdownStep, ShutdownBegin,
                ShutdownClose, ShutdownEnd, shutdown_all_begin, shutdown_all_close,
                shutdown_all_end, shutdownUnchanged, close_session
  <2>4. CASE Undefined \/ UNCHANGED vars
    BY <2>4 DEF Undefined, vars, ChattersListed
  <2>5. QED
    BY <2>1, <2>2, <2>3, <2>4 DEF Next
<1>3. HandlerInv => TypeOK
  BY DEF HandlerInv
<1>4. Spec => []ChattersListed
  BY <1>1, <1>2, <1>3, HandlerInvariant, PTL DEF Spec
<1>5. QED
  BY <1>4, ServerDrivesHandlers, PTL

-----------------------------------------------------------------------------
(* shutdown_all beside the running handlers.                               *)

\* What a handler may do while shutdown_all holds the mutex of the client list.
LEMMA HandlerBesideShutdown ==
    ASSUME TypeOK, NEW s \in Session, HandlerStep(s)
    PROVE  /\ mutex' = mutex
           /\ mutex # "free" => clients' = clients
           /\ \A t \in Session : active'[t] => active[t]
<1> USE DEF TypeOK
<1>1. CASE AuthLost(s) \/ AuthFails(s) \/ SendOk(s) \/ Reply(s) \/ Exit(s)
  BY <1>1 DEF AuthLost, AuthFails, SendOk, Reply, Exit, send_msg, send_refused,
              send_delivered, send_failed
<1>2. CASE AddClient(s) \/ RemoveClient(s)
  BY <1>2 DEF AddClient, RemoveClient, add_client, remove_client
<1>3. CASE \/ \E u \in User : handle_register(s, u) \/ handle_login(s, u)
           \/ JoinRoom(s) \/ (\E room \in Room : CommandJoin(s, room)) \/ CommandLeave(s)
           \/ ReceivesLine(s) \/ CommandRejected(s) \/ EmptyText(s) \/ Lost(s)
           \/ LeaveAllRooms(s)
           \/ RoomMessage(s) \/ GlobalMessage(s) \/ \E to \in User : CommandPm(s, to)
  <2>1. UNCHANGED <<clients, mutex, active>>
    BY <1>3 DEF handle_register, handle_login, Authenticated, JoinRoom, ReceivesLine,
       CommandJoin, CommandLeave, CommandRejected, EmptyText, Lost, LeaveAllRooms, RoomMessage, GlobalMessage,
       CommandPm, Deliver
  <2>2. QED
    BY <2>1
<1>4. ASSUME NEW t \in Session, SendNext(s, t) \/ SendDangling(s, t)
      PROVE  /\ UNCHANGED <<clients, mutex>>
             /\ \A r \in Session : active'[r] => active[r]
  BY <1>4 DEF SendNext, SendDangling, send_refused, send_delivered, send_failed
<1>5. CASE CloseSession(s) \/ DeleteSession(s)
  BY <1>5 DEF CloseSession, DeleteSession, close_session, destroy
<1>6. QED
  BY <1>1, <1>2, <1>3, <1>4, <1>5 DEF HandlerStep, Authenticate, Chat, Cleanup

\* Nobody but the main thread, in shutdown_all, keeps a manager's mutex from one
\* step to another (shutdown, shutdown_all).
THEOREM ShutdownHoldsMutex == ServerSpec => []ShutdownExclusive
<1>1. ServerInit => ShutdownExclusive
  BY DEF ServerInit, Init, BroadcastInit, ShutdownExclusive
<1>2. ServerTypeOK /\ ShutdownExclusive /\ [ServerNext]_serverVars => ShutdownExclusive'
  <2> SUFFICES ASSUME ServerTypeOK, ShutdownExclusive, [ServerNext]_serverVars
               PROVE  ShutdownExclusive'
    OBVIOUS
  <2> USE DEF ShutdownExclusive, Main
  <2>1. CASE Start \/ SetUpFails \/ TestRunning \/ EnterAccept \/ AcceptError \/ JoinAll
    BY <2>1 DEF Start, SetUpFails, TestRunning, EnterAccept, AcceptError, JoinAll, vars
  <2>2. CASE ShutdownStarts \/ (\E s \in Session : ShutdownCloses(s)) \/ ShutdownEnds
    BY <2>2 DEF ShutdownStarts, ShutdownCloses, ShutdownEnds, ShutdownBegin, ShutdownClose,
                ShutdownEnd, shutdown_all_begin, shutdown_all_close, shutdown_all_end
  <2>3. ASSUME NEW s \in Session, AcceptConnection(s)
        PROVE  ShutdownExclusive'
    BY <2>3 DEF AcceptConnection, AcceptStep, Accept, SpawnFails
  <2>4. ASSUME NEW s \in Session, Handler(s)
        PROVE  ShutdownExclusive'
    BY <2>4, HandlerBesideShutdown DEF Handler, ServerTypeOK
  <2>5. ASSUME NEW interrupted \in BOOLEAN, Sigint(interrupted)
        PROVE  ShutdownExclusive'
    BY <2>5 DEF Sigint, vars
  <2>6. CASE Ended \/ UNCHANGED serverVars
    BY <2>6 DEF Ended, serverVars, vars
  <2>7. QED
    BY <2>1, <2>2, <2>3, <2>4, <2>5, <2>6 DEF ServerNext, MainStep
<1>3. QED
  BY <1>1, <1>2, ServerTypeCorrect, PTL DEF ServerSpec

\* The loop of shutdown_all is over a list that stays as it is and whose sessions
\* only become inactive, whatever the handlers do meanwhile: with
\* ShutdownHoldsMutex, what keeps the server from stopping after it is only a
\* handler that has not ended (shutdown_all, join_all).
THEOREM ShutdownComesToAnEnd == ServerSpec => ShutdownAdvances
<1>1. ServerTypeOK /\ ShutdownExclusive /\ [ServerNext]_serverVars =>
        [main = "closing" =>
            \/ main' = "join"
            \/ /\ main' = "closing" /\ clients' = clients
               /\ \A s \in clients : active'[s] => active[s]]_serverVars
  <2>1. SUFFICES ASSUME ServerTypeOK, ShutdownExclusive, ServerNext, main = "closing"
                 PROVE  \/ main' = "join"
                        \/ /\ main' = "closing" /\ clients' = clients
                           /\ \A s \in clients : active'[s] => active[s]
    OBVIOUS
  <2> USE <2>1 DEF Main
  <2>2. CASE ShutdownEnds
    BY <2>2 DEF ShutdownEnds
  <2>3. ASSUME NEW s \in Session, ShutdownCloses(s)
        PROVE  /\ main' = "closing" /\ clients' = clients
               /\ \A t \in clients : active'[t] => active[t]
    BY <2>3 DEF ShutdownCloses, ShutdownClose, shutdown_all_close, close_session,
                ServerTypeOK, TypeOK
  <2>4. ASSUME NEW s \in Session, Handler(s)
        PROVE  /\ main' = "closing" /\ clients' = clients
               /\ \A t \in clients : active'[t] => active[t]
    <3>1. mutex # "free" /\ TypeOK /\ clients \subseteq Session
      BY DEF ShutdownExclusive, ServerTypeOK, TypeOK
    <3>2. HandlerStep(s) /\ main' = main
      BY <2>4 DEF Handler, mainVars
    <3>3. QED
      BY <3>1, <3>2, HandlerBesideShutdown
  <2>5. ASSUME NEW interrupted \in BOOLEAN, Sigint(interrupted)
        PROVE  UNCHANGED <<main, clients, active>>
    BY <2>5 DEF Sigint, vars
  <2>6. CASE Ended
    BY <2>6 DEF Ended, serverVars, vars
  <2>7. ~(\/ Start \/ SetUpFails \/ TestRunning \/ EnterAccept \/ AcceptError \/ JoinAll
          \/ ShutdownStarts \/ \E s \in Session : AcceptConnection(s))
    BY DEF Start, SetUpFails, TestRunning, EnterAccept, AcceptError, JoinAll,
           ShutdownStarts, AcceptConnection
  <2>8. QED
    BY <2>2, <2>3, <2>4, <2>5, <2>6, <2>7 DEF ServerNext, MainStep
<1>2. QED
  BY <1>1, ServerTypeCorrect, ShutdownHoldsMutex, PTL DEF ServerSpec, ShutdownAdvances

-----------------------------------------------------------------------------
(* What the handlers are shown to do under any main thread they do under   *)
(* the real one.                                                           *)

\* In the running server no manager holds a deleted session, a user's name leads
\* to a listed session of that user, rooms and handlers agree, no empty room stays,
\* and nobody hears their own posts
\* (accept_loop, shutdown, recv_loop, cleanup_and_exit).
THEOREM ServerKeepsHandlersSafe ==
    ServerSpec => [](/\ RegisteredSessionsLive /\ NameIndexConsistent
                     /\ MembershipAgrees /\ NoEmptyRooms
                     /\ NoEcho)
  BY ServerDrivesHandlers, RegisteredLive, IndexConsistent,
     MembershipCorrect, RoomsNotEmpty, SenderNotEchoed, PTL

\* The server as a whole, with signals, accept errors and shutdown_all where the
\* main thread calls it, keeps the promises of ChatService to those in the chat
\* and of Authentication to everyone who connects, and uses each Session as the
\* class allows.
THEOREM ServerImplementsServices ==
    ServerSpec => /\ ImplementsChatService /\ PostsHeardOnce
                  /\ EachAuthenticates /\ SessionSpec
  BY ServerDrivesHandlers, HandlersImplementService, HandlersHearOnce,
     EachConnectionAuthenticates, HandlersUseSessions, PTL

\* The safety half of ClosedSessionsReaped for the server as a whole: whether its
\* handler or shutdown_all has closed it, a session stays closed and its handler
\* only nears the deletion (recv_loop, cleanup_and_exit, shutdown_all).
THEOREM ServerReapsClosed == ServerSpec => ClosedAdvances
  BY ServerDrivesHandlers, ClosedComeToAnEnd, PTL
=============================================================================
