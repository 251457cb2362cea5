--------------------------- MODULE ClientHandler ---------------------------
(***************************************************************************)
(* The handler threads (src/src/server/client_handler.cpp), one per        *)
(* session, over the shared BroadcastManager and RoomManager.              *)
(*                                                                         *)
(* A step is one critical section, one send or one access to a shared      *)
(* flag, together with the thread-local code around it.  What a handler    *)
(* does before add_client touches only its own session, which no other     *)
(* thread can reach yet, so an attempt to authenticate is one step; the    *)
(* dialogue inside it is the subject of another module.  The user store    *)
(* is reduced to the set of registered names: its operations are atomic    *)
(* (module UserRegistry) and a wrong password is a failed attempt.         *)
(*                                                                         *)
(* The accept loop and shutdown_all act at any time here; module Server    *)
(* puts the main thread that really calls them in their place.             *)
(***************************************************************************)
EXTENDS BroadcastManager, RoomManager, Naturals

CONSTANTS
    Lobby,            \* current_room_ of a new handler
    NoRoom,           \* the empty current_room_
    MaxAuthAttempts   \* MAX_AUTH_ATTEMPTS

ASSUME RoomAssumption == Lobby \in Room /\ NoRoom \notin Room
ASSUME AttemptAssumption == MaxAuthAttempts \in Nat \ {0}

VARIABLES
    pc,             \* where each handler thread is
    attempts,       \* the loop counter of try_authenticate
    current_room,   \* current_room_
    kind,           \* the kind of message being delivered
    recipients,     \* the copied pointers still to be sent to
    registered,     \* the names in the user store
    sent,           \* history: the frame written by the last step, if any
    fault           \* history: a deleted session has been dereferenced

threadVars == <<pc, attempts, current_room, kind, recipients>>
vars == <<sessionVars, managerVars, rooms, threadVars, registered, sent, fault>>

NoFrame == [kind |-> "none"]
Frame == [kind : {"room", "all", "pm"}, from : User \cup {Unauthenticated},
          to : Session]

\* Where a handler is, by what the managers may know of its session.
Unlisted  == {"none", "abandoned", "auth", "add"}
Listed    == {"ok", "join", "reply", "chat", "line", "send", "leave_all", "remove"}
Closing   == {"close", "delete", "done"}
MayBeInRoom == {"reply", "chat", "line", "send", "leave_all"}

TypeOK ==
    /\ SessionTypeOK /\ BroadcastTypeOK /\ RoomTypeOK
    /\ pc \in [Session -> Unlisted \cup Listed \cup Closing]
    /\ attempts \in [Session -> 0..MaxAuthAttempts]
    /\ current_room \in [Session -> Room \cup {NoRoom}]
    /\ kind \in [Session -> {"none", "room", "all", "pm"}]
    /\ recipients \in [Session -> SUBSET Session]
    /\ registered \in SUBSET User
    /\ sent \in Frame \cup {NoFrame}
    /\ fault \in BOOLEAN

Init ==
    /\ SessionInit /\ BroadcastInit /\ RoomInit
    /\ pc = [s \in Session |-> "none"]
    /\ attempts = [s \in Session |-> 0]
    /\ current_room = [s \in Session |-> Lobby]
    /\ kind = [s \in Session |-> "none"]
    /\ recipients = [s \in Session |-> {}]
    /\ registered = {}
    /\ sent = NoFrame
    /\ fault = FALSE

Goto(h, label) == pc' = [pc EXCEPT ![h] = label]
Step(h, from, to) == pc[h] = from /\ Goto(h, to)

\* No frame for another session is written and nothing stale is touched.
Quiet == sent' = NoFrame /\ UNCHANGED fault

-----------------------------------------------------------------------------
(* The accept loop creates the session, the handler and its thread.        *)

Accept(s) ==
    /\ Step(s, "none", "auth")
    /\ construct(s)
    /\ Quiet
    /\ UNCHANGED <<managerVars, rooms, attempts, current_room, kind,
                   recipients, registered>>

\* pthread_create fails: the handler is destroyed with its context, but its
\* destructor does not delete the session, which nobody refers to any more.
SpawnFails(s) ==
    /\ Step(s, "none", "abandoned")
    /\ construct(s)
    /\ Quiet
    /\ UNCHANGED <<managerVars, rooms, attempts, current_room, kind,
                   recipients, registered>>

-----------------------------------------------------------------------------
(* try_authenticate: menu, dialogue, and at most MaxAuthAttempts failures. *)

\* The menu cannot be sent or no choice arrives: no further attempt.
AuthLost(h) ==
    /\ Step(h, "auth", "leave_all")
    /\ send_msg(h)
    /\ Quiet
    /\ UNCHANGED <<life, fd_open, username, managerVars, rooms, attempts,
                   current_room, kind, recipients, registered>>

\* Mutant: the counter is tested before it is incremented.
AuthFails_once_more(h) ==
    /\ pc[h] = "auth"
    /\ active[h]
    /\ attempts' = [attempts EXCEPT ![h] = @ + 1]
    /\ Goto(h, IF attempts[h] < MaxAuthAttempts THEN "auth" ELSE "leave_all")
    /\ send_msg(h)
    /\ Quiet
    /\ UNCHANGED <<life, fd_open, username, managerVars, rooms,
                   current_room, kind, recipients, registered>>

\* Any other failure: bad choice, lost or invalid name or password, name
\* taken, user store not writable, wrong credentials.  The menu was sent, so the
\* session is active; the reply may fail.
AuthFails(h) ==
    /\ pc[h] = "auth"
    /\ active[h]
    /\ attempts' = [attempts EXCEPT ![h] = @ + 1]
    /\ Goto(h, IF attempts'[h] < MaxAuthAttempts THEN "auth" ELSE "leave_all")
    /\ send_msg(h)
    /\ Quiet
    /\ UNCHANGED <<life, fd_open, username, managerVars, rooms,
                   current_room, kind, recipients, registered>>

\* The dialogue needs its prompts sent, so the session is active.  The name is
\* set right after the store answers, when the session is still private.
Authenticated(h, u) ==
    /\ Step(h, "auth", "add")
    /\ active[h]
    /\ set_username(h, u)
    /\ Quiet
    /\ UNCHANGED <<life, active, fd_open, managerVars, rooms, attempts,
                   current_room, kind, recipients>>

handle_register(h, u) ==
    /\ u \notin registered
    /\ registered' = registered \cup {u}
    /\ Authenticated(h, u)

handle_login(h, u) ==
    /\ u \in registered
    /\ UNCHANGED registered
    /\ Authenticated(h, u)

AddClient(h) ==
    /\ Step(h, "add", "ok")
    /\ add_client(h)
    /\ Quiet
    /\ UNCHANGED <<sessionVars, rooms, attempts, current_room, kind,
                   recipients, registered>>

\* The OK frame that the client waits for.
SendOk(h) ==
    /\ Step(h, "ok", "join")
    /\ send_msg(h)
    /\ Quiet
    /\ UNCHANGED <<life, fd_open, username, managerVars, rooms, attempts,
                   current_room, kind, recipients, registered>>

-----------------------------------------------------------------------------
(* recv_loop: room membership, commands and messages.                      *)

\* Mutant: the line is waited for again when the descriptor has been closed.
ReceivesLine_reopened(h) ==
    /\ Step(h, "chat", "line")
    /\ Quiet
    /\ UNCHANGED <<sessionVars, managerVars, rooms, attempts, current_room,
                   kind, recipients, registered>>

\* recv_line: only a descriptor that is still open can deliver a line.  active_
\* is not looked at: a session that a failed send deactivated goes on talking.
ReceivesLine(h) ==
    /\ fd_open[h]
    /\ Step(h, "chat", "line")
    /\ Quiet
    /\ UNCHANGED <<sessionVars, managerVars, rooms, attempts, current_room,
                   kind, recipients, registered>>

\* A line is carried out whatever has become of the descriptor since.
HasLine(h) == pc[h] = "line"

JoinRoom(h) ==
    /\ Step(h, "join", "reply")
    /\ join_room(current_room[h], h)
    /\ Quiet
    /\ UNCHANGED <<sessionVars, managerVars, attempts, current_room, kind,
                   recipients, registered>>

\* The banner, or the OK or ERR that answers a command; the result is ignored.
Reply(h) ==
    /\ Step(h, "reply", "chat")
    /\ send_msg(h)
    /\ Quiet
    /\ UNCHANGED <<life, fd_open, username, managerVars, rooms, attempts,
                   current_room, kind, recipients, registered>>

\* Mutant: the old room is not left.
CommandJoin_staying(h, room) ==
    /\ HasLine(h)
    /\ UNCHANGED rooms
    /\ current_room' = [current_room EXCEPT ![h] = room]
    /\ Goto(h, "join")
    /\ Quiet
    /\ UNCHANGED <<sessionVars, managerVars, attempts, kind, recipients,
                   registered>>

\* /join room: the old room is left here, the new one entered by JoinRoom.
CommandJoin(h, room) ==
    /\ HasLine(h)
    /\ IF current_room[h] # NoRoom
         THEN leave_room(current_room[h], h)
         ELSE UNCHANGED rooms
    /\ current_room' = [current_room EXCEPT ![h] = room]
    /\ Goto(h, "join")
    /\ Quiet
    /\ UNCHANGED <<sessionVars, managerVars, attempts, kind, recipients,
                   registered>>

CommandLeave(h) ==
    /\ HasLine(h)
    /\ current_room[h] # NoRoom
    /\ leave_room(current_room[h], h)
    /\ current_room' = [current_room EXCEPT ![h] = NoRoom]
    /\ Goto(h, "reply")
    /\ Quiet
    /\ UNCHANGED <<sessionVars, managerVars, attempts, kind, recipients,
                   registered>>

\* Usage errors, /leave outside a room, an unknown command, a line too long.
CommandRejected(h) ==
    /\ HasLine(h)
    /\ Goto(h, "reply")
    /\ Quiet
    /\ UNCHANGED <<sessionVars, managerVars, rooms, attempts, current_room,
                   kind, recipients, registered>>

\* A message without a text.
EmptyText(h) ==
    /\ Step(h, "line", "chat")
    /\ Quiet
    /\ UNCHANGED <<sessionVars, managerVars, rooms, attempts, current_room,
                   kind, recipients, registered>>

\* Start delivering a message to the copied set, or go on when it is empty.
Deliver(h, k, targets) ==
    /\ HasLine(h)
    /\ mutex = "free" \/ k = "room"
    /\ recipients' = [recipients EXCEPT ![h] = targets]
    /\ kind' = [kind EXCEPT ![h] = IF targets = {} THEN "none" ELSE k]
    /\ Goto(h, IF targets = {} THEN "chat" ELSE "send")
    /\ Quiet
    /\ UNCHANGED <<sessionVars, managerVars, rooms, attempts, current_room,
                   registered>>

\* /pm user text
CommandPm(h, to) == Deliver(h, "pm", private_target(to))

\* Mutant: current_room_ is not looked at, and everybody starts in the lobby.
RoomMessage_to_lobby(h) ==
    /\ current_room[h] # NoRoom
    /\ Deliver(h, "room", Members(Lobby))

\* A text inside a room goes to everybody the room holds, the sender included.
RoomMessage(h) ==
    /\ current_room[h] # NoRoom
    /\ Deliver(h, "room", Members(current_room[h]))

GlobalMessage(h) ==
    /\ current_room[h] = NoRoom
    /\ Deliver(h, "all", broadcast_snapshot(username[h]))

\* Mutant: the sender is not skipped.
Skipped_inactive_only(h, t) == kind[h] = "room" /\ ~active[t]

\* broadcast_to_recipients tests each room member again before the send.
Skipped(h, t) ==
    kind[h] = "room" /\ (~active[t] \/ username[t] = username[h])

\* One turn of the delivery loop, whatever becomes of the frame.  The pointer
\* was copied under a mutex that is no longer held.
SendNext(h, t) ==
    /\ pc[h] = "send"
    /\ t \in recipients[h]
    /\ life[t] # "freed"
    /\ recipients' = [recipients EXCEPT ![h] = @ \ {t}]
    /\ kind' = [kind EXCEPT ![h] = IF recipients[h] = {t} THEN "none" ELSE @]
    /\ Goto(h, IF recipients[h] = {t} THEN "chat" ELSE "send")
    /\ \/ /\ Skipped(h, t) \/ send_refused(t)
          /\ sent' = NoFrame
          /\ UNCHANGED active
       \/ /\ ~Skipped(h, t) /\ send_delivered(t)
          /\ sent' = [kind |-> kind[h], from |-> username[h], to |-> t]
       \/ /\ ~Skipped(h, t) /\ send_failed(t)
          /\ sent' = NoFrame
    /\ UNCHANGED <<life, fd_open, username, managerVars, rooms, attempts,
                   current_room, registered, fault>>

\* The session was deleted after it was copied.  What the program does next is
\* undefined, so the model stops here.
SendDangling(h, t) ==
    /\ pc[h] = "send"
    /\ t \in recipients[h]
    /\ life[t] = "freed"
    /\ fault' = TRUE
    /\ sent' = NoFrame
    /\ UNCHANGED <<sessionVars, managerVars, rooms, threadVars, registered>>

-----------------------------------------------------------------------------
(* The end of a handler.                                                   *)

\* EXIT, exit or quit: the goodbye is sent, its result ignored.
Exit(h) ==
    /\ HasLine(h)
    /\ Goto(h, "leave_all")
    /\ send_msg(h)
    /\ Quiet
    /\ UNCHANGED <<life, fd_open, username, managerVars, rooms, attempts,
                   current_room, kind, recipients, registered>>

\* Mutant: recv_line retries when the descriptor has been closed under it.
Lost_only_while_open(h) ==
    /\ fd_open[h]
    /\ Step(h, "chat", "leave_all")
    /\ Quiet
    /\ UNCHANGED <<sessionVars, managerVars, rooms, attempts, current_room,
                   kind, recipients, registered>>

\* recv_line returns "": end of stream, an error, the 60 s timeout, a closed
\* descriptor or an empty line.
Lost(h) ==
    /\ Step(h, "chat", "leave_all")
    /\ Quiet
    /\ UNCHANGED <<sessionVars, managerVars, rooms, attempts, current_room,
                   kind, recipients, registered>>

\* cleanup_and_exit in its four steps.
LeaveAllRooms(h) ==
    /\ Step(h, "leave_all", "remove")
    /\ leave_all(h)
    /\ Quiet
    /\ UNCHANGED <<sessionVars, managerVars, attempts, current_room, kind,
                   recipients, registered>>

\* Mutant: the client list is cleaned up only for sessions still active.
RemoveClient_if_active(h) ==
    /\ Step(h, "remove", "close")
    /\ IF active[h] THEN remove_client(h) ELSE UNCHANGED managerVars
    /\ Quiet
    /\ UNCHANGED <<sessionVars, rooms, attempts, current_room, kind,
                   recipients, registered>>

RemoveClient(h) ==
    /\ Step(h, "remove", "close")
    /\ remove_client(h)
    /\ Quiet
    /\ UNCHANGED <<sessionVars, rooms, attempts, current_room, kind,
                   recipients, registered>>

CloseSession(h) ==
    /\ Step(h, "close", "delete")
    /\ close_session(h)
    /\ Quiet
    /\ UNCHANGED <<life, username, managerVars, rooms, attempts, current_room,
                   kind, recipients, registered>>

DeleteSession(h) ==
    /\ Step(h, "delete", "done")
    /\ destroy(h)
    /\ Quiet
    /\ UNCHANGED <<username, managerVars, rooms, attempts, current_room, kind,
                   recipients, registered>>

-----------------------------------------------------------------------------
(* shutdown_all, called by the main thread.                                *)

shutdownUnchanged == <<rooms, threadVars, registered>>

ShutdownBegin ==
    shutdown_all_begin /\ Quiet /\ UNCHANGED <<sessionVars, shutdownUnchanged>>

ShutdownClose(s) ==
    shutdown_all_close(s) /\ Quiet /\ UNCHANGED <<life, username, shutdownUnchanged>>

ShutdownEnd ==
    shutdown_all_end /\ Quiet /\ UNCHANGED <<sessionVars, shutdownUnchanged>>

-----------------------------------------------------------------------------
Authenticate(h) ==
    \/ AuthLost(h) \/ AuthFails(h)
    \/ \E u \in User : handle_register(h, u) \/ handle_login(h, u)
    \/ AddClient(h) \/ SendOk(h)

Chat(h) ==
    \/ JoinRoom(h) \/ Reply(h) \/ ReceivesLine(h)
    \/ \E room \in Room : CommandJoin(h, room)
    \/ CommandLeave(h) \/ CommandRejected(h) \/ EmptyText(h)
    \/ \E to \in User : CommandPm(h, to)
    \/ RoomMessage(h) \/ GlobalMessage(h)
    \/ \E t \in Session : SendNext(h, t) \/ SendDangling(h, t)
    \/ Exit(h) \/ Lost(h)

Cleanup(h) ==
    LeaveAllRooms(h) \/ RemoveClient(h) \/ CloseSession(h) \/ DeleteSession(h)

\* One step of the handler thread of session h.
HandlerStep(h) == ~fault /\ (Authenticate(h) \/ Chat(h) \/ Cleanup(h))

AcceptStep(s) == ~fault /\ (Accept(s) \/ SpawnFails(s))

ShutdownStep ==
    ~fault /\ (ShutdownBegin \/ (\E s \in Session : ShutdownClose(s)) \/ ShutdownEnd)

\* The program has run into undefined behaviour.
Undefined == fault /\ UNCHANGED vars

Next ==
    \/ \E s \in Session : AcceptStep(s) \/ HandlerStep(s)
    \/ ShutdownStep
    \/ Undefined

Spec == Init /\ [][Next]_vars

-----------------------------------------------------------------------------
(* Safety.                                                                 *)

\* A manager never holds a pointer to a deleted session: cleanup takes the
\* session out of every room, the client list and the name index before the
\* delete, also when shutdown_all empties the lists meanwhile or a second
\* session logs in under the same name (cleanup_and_exit).
RegisteredSessionsLive ==
    \A s \in Session :
        (\/ s \in clients
         \/ \E u \in User : by_name[u] = s
         \/ \E r \in DOMAIN rooms : s \in rooms[r]) => life[s] = "live"

\* The name index only names listed sessions, each under its own user name
\* (add_client, remove_client, and the name being immutable once set).
NameIndexConsistent ==
    \A u \in User : by_name[u] # NoSession =>
        by_name[u] \in clients /\ username[by_name[u]] = u

\* A session is in the room its handler believes it is in and in no other,
\* whatever sequence of joins and leaves led there; between two commands the
\* two views agree (recv_loop against RoomManager).
MembershipAgrees ==
    /\ \A r \in DOMAIN rooms : \A s \in rooms[r] : current_room[s] = r
    /\ \A s \in Session : pc[s] \in {"reply", "chat", "line", "send"} =>
            (current_room[s] # NoRoom <=> \E r \in DOMAIN rooms : s \in rooms[r])

\* No room outlives its last member (leave_room, leave_all).
NoEmptyRooms == \A r \in DOMAIN rooms : rooms[r] # {}

\* A chat message is never written to a session of its own sender, although
\* the recipients are chosen before, and the names compared after, the locks
\* are dropped (broadcast, broadcast_to_recipients).
NoEcho == sent.kind \in {"room", "all"} => username[sent.to] # sent.from

\* A name leaves the index only together with the session it stands for: the
\* logout of an older session does not make a newer one of the same user
\* unreachable by /pm (remove_client, shutdown_all).
NameLeavesWithSession ==
    [][\A u \in User :
        by_name[u] # NoSession /\ by_name'[u] = NoSession
            => by_name[u] \notin clients']_vars

-----------------------------------------------------------------------------
(* The inductive invariant behind the safety properties.  None of them is  *)
(* inductive alone: each rests on where the owning handler is.             *)

\* A session is allocated and deleted with its own handler and nobody else's,
\* and has a descriptor only in between.
LifeFollowsHandler ==
    \A s \in Session :
        /\ life[s] = "unallocated" <=> pc[s] = "none"
        /\ life[s] = "freed" <=> pc[s] = "done"
        /\ fd_open[s] => life[s] = "live"

\* What a handler may rely on at each point of its program.
HandlerLocal ==
    \A s \in Session :
        /\ pc[s] \in {"none", "auth"} =>
                attempts[s] < MaxAuthAttempts /\ username[s] = Unauthenticated
        /\ pc[s] = "add" => username[s] \in User
        /\ pc[s] \in Unlisted \cup {"ok", "join"} => current_room[s] # NoRoom
        /\ pc[s] = "send" => kind[s] # "none"
        /\ recipients[s] # {} => pc[s] = "send"

\* The managers know only sessions whose handlers are in the right place.
ManagersFollowHandlers ==
    /\ \A s \in clients : pc[s] \in Listed
    /\ \A r \in DOMAIN rooms : \A s \in rooms[r] :
            pc[s] \in MayBeInRoom /\ current_room[s] = r
    /\ \A s \in Session :
            pc[s] \in {"reply", "chat", "line", "send"} /\ current_room[s] # NoRoom
                => s \in Members(current_room[s])

\* A copied pointer is to a session that had been authenticated, and a global
\* message is for other users only.
RecipientsSettled ==
    \A h \in Session : \A t \in recipients[h] :
        /\ pc[t] \in Listed \cup Closing
        /\ kind[h] = "all" => username[t] # username[h]

\* Every safety property above follows from this one, and every step of every
\* thread preserves it (ClientHandlerProofs).
HandlerInv ==
    /\ TypeOK
    /\ LifeFollowsHandler /\ HandlerLocal
    /\ ManagersFollowHandlers /\ RecipientsSettled
    /\ NameIndexConsistent /\ NoEmptyRooms /\ NoEcho

-----------------------------------------------------------------------------
(* The end of a handler, step by step.                                     *)

\* How far a handler without a connection is from its end.
HandlerLeft ==
    [l \in Unlisted \cup Listed \cup Closing |->
        CASE l = "none" -> 13 [] l = "auth" -> 12 [] l = "add" -> 11 [] l = "ok" -> 10
          [] l = "line" -> 9 [] l = "join" -> 8 [] l = "reply" -> 7
          [] l = "send" -> 6 [] l = "chat" -> 5
          [] l = "leave_all" -> 4 [] l = "remove" -> 3 [] l = "close" -> 2
          [] l = "delete" -> 1 [] OTHER -> 0]

\* A step of a handler brings it nearer to its end, or it spends an attempt or a
\* recipient where it is.
Nears(s) ==
    \/ HandlerLeft[pc'[s]] < HandlerLeft[pc[s]]
    \/ pc[s] = "auth" /\ pc'[s] = "auth" /\ attempts'[s] > attempts[s]
    \/ /\ pc[s] = "send" /\ pc'[s] = "send"
       /\ \E t \in recipients[s] : recipients'[s] = recipients[s] \ {t}

\* Once its descriptor is closed, under it or by it, a session is never connected
\* again, and its handler only goes on towards the deletion: it carries out the line
\* it has, takes no further one, and delivers to fewer, whatever the others do
\* (recv_loop, broadcast, cleanup_and_exit).
ClosedAdvances ==
    [][\A s \in Session : life[s] = "live" /\ ~fd_open[s] =>
        /\ ~fd_open'[s]
        /\ \/ UNCHANGED <<pc[s], attempts[s], recipients[s]>>
           \/ Nears(s)]_vars

-----------------------------------------------------------------------------
(* What the handlers and the managers promise together.                    *)

\* Who is being chatted with has a name, and a closed session is inactive.
PeersNamed ==
    /\ \A s \in Session :
        /\ pc[s] \in {"ok", "join", "reply", "chat", "line", "send"} => username[s] \in User
        /\ pc[s] \in {"delete", "done"} => ~active[s]
    /\ \A s \in clients : username[s] \in User
    /\ \A r \in DOMAIN rooms : \A s \in rooms[r] : username[s] \in User
    /\ \A h \in Session : \A t \in recipients[h] : username[t] \in User

\* A session enters the chat with add_client and leaves it with close_session.
StageView ==
    [s \in Session |->
        IF pc[s] \in {"delete", "done"} THEN "gone"
        ELSE IF pc[s] \in Unlisted \/ username[s] = Unauthenticated THEN "out"
        ELSE "in"]

\* A session is where the RoomManager has it; between the two halves of /join
\* that is nowhere, although current_room_ names the new room already.
PlaceView ==
    [s \in Session |->
        IF s \in Members(current_room[s]) THEN current_room[s] ELSE NoRoom]

\* Among the copied members of a room are the sender's own sessions, which the
\* loop skips.
AudienceView ==
    [s \in Session |->
        {t \in recipients[s] : kind[s] = "room" => username[t] # username[s]}]

FormView ==
    [s \in Session |-> IF AudienceView[s] = {} THEN "none" ELSE kind[s]]

Service == INSTANCE ChatService WITH
    Nobody <- Unauthenticated, stage <- StageView, who <- username,
    where <- PlaceView, audience <- AudienceView, form <- FormView,
    delivered <- sent

\* The threads and the two managers, whose pointer copies and locks overlap in
\* every way, amount to the service: a post goes to whom its room or the chat
\* held when it was made, under the poster's name, at most once to each, and
\* to nobody who has left since (recv_loop, broadcast, broadcast_to_recipients,
\* send_private, cleanup_and_exit).
ImplementsChatService == Service!ServiceSpec

\* In particular nobody hears a post twice, or one made before he came in.
PostsHeardOnce == Service!HeardOnce

\* One connection's way through try_authenticate and out again.
AuthState(s) ==
    IF pc[s] \in {"none", "auth"} THEN "trying"
    ELSE IF pc[s] \in {"add", "ok", "join", "reply", "chat", "line", "send"} THEN "in"
    ELSE "out"

Auth(s) == INSTANCE Authentication WITH
    Nobody <- Unauthenticated, MaxAttempts <- MaxAuthAttempts,
    state <- AuthState(s), name <- username[s],
    failures <- IF AuthState(s) = "trying" THEN attempts[s] ELSE 0

\* Whatever the other handlers do meanwhile, each connection gets its attempts
\* and no more, is let in once, under a name that is registered, and never comes
\* back (try_authenticate, run).
EachAuthenticates ==
    /\ \A s \in Session : Auth(s)!AuthInit
    /\ [][\A s \in Session : [Auth(s)!AuthNext]_(Auth(s)!authVars)]_vars

-----------------------------------------------------------------------------
(* What the sources say and the code does not do.                          *)

\* broadcast_manager.h calls the class a thread-safe registry of active
\* sessions: no thread uses a session after its deletion.
NoUseAfterDelete == ~fault
=============================================================================
