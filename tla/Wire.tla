-------------------------------- MODULE Wire --------------------------------
(***************************************************************************)
(* Sessions over the kernel's descriptor table.  Sessions, BroadcastManager*)
(* and ClientHandler take a send for one step and a descriptor for a flag; *)
(* here a frame goes out in parts (Session::send_msg), the number in       *)
(* UniqueFd is read in one step and used in another, it is cleared only    *)
(* after the close (UniqueFd::reset), and the kernel gives the lowest free *)
(* number to whoever asks next: accept, or the user registry for its file. *)
(*                                                                         *)
(* Of the handlers' work what uses descriptors is kept: authenticating,    *)
(* receiving, sending to one session and leaving.  The shutdown before a   *)
(* close is part of the close: what fails in between, a send or a recv,    *)
(* may fail here as well.                                                  *)
(***************************************************************************)
EXTENDS Integers, Sequences, FiniteSets

CONSTANTS
    Session,     \* sessions and their connections, in the order of their arrival
    Number,      \* the descriptor numbers the process may use
    Parts,       \* parts a frame is sent in
    MaxSends     \* bound: frames sent in a run

ASSUME WireAssumption ==
    /\ Session \subseteq Nat /\ Number \subseteq Nat
    /\ Parts \in Nat \ {0} /\ MaxSends \in Nat

NoFd == -1        \* in UniqueFd: no descriptor
Closed == -1      \* in the table: the number is free
File == -2        \* in the table: the user file or its temporary file
NoSession == -1

VARIABLES
    table,     \* the kernel: what each descriptor number stands for
    wire,      \* history: the parts each open connection has been given
    fd,        \* client_fd_.fd_ of each session
    active,    \* active_
    life,      \* whether the Session object exists
    clients,   \* clients_ of the BroadcastManager
    mutex,     \* mutex_ of the BroadcastManager
    pc,        \* where each handler thread is
    to,        \* the session a handler is sending to
    number,    \* the descriptor number a handler has read and not yet used
    part,      \* how many parts of its frame a handler has sent
    main,      \* where the main thread is
    todo,      \* the sessions shutdown_all has still to look at
    victim,    \* the session it is closing
    sends,     \* how many frames have been begun
    fault      \* a deleted session has been used

kernelVars == <<table, wire>>
sessionVars == <<fd, active, life>>
listVars == <<clients, mutex>>
handlerVars == <<pc, to, number, part>>
mainVars == <<main, todo, victim>>
vars == <<kernelVars, sessionVars, listVars, handlerVars, mainVars, sends, fault>>

SendLabels == {"get", "send", "failed"}
LeaveLabels == {"leave", "close", "clear", "delete"}
Labels == {"none", "auth", "file", "chat", "done"}
              \cup SendLabels \cup LeaveLabels

TypeOK ==
    /\ table \in [Number -> Session \cup {Closed, File}]
    /\ wire \in [Session -> Seq([from : Session, to : Session, part : 1..Parts])]
    /\ fd \in [Session -> Number \cup {NoFd}]
    /\ active \in [Session -> BOOLEAN]
    /\ life \in [Session -> {"none", "live", "freed"}]
    /\ clients \in SUBSET Session
    /\ mutex \in {"free", "main"}
    /\ pc \in [Session -> Labels]
    /\ to \in [Session -> Session \cup {NoSession}]
    /\ number \in [Session -> Number \cup {NoFd}]
    /\ part \in [Session -> 0..(Parts - 1)]
    /\ main \in {"accept", "closing", "clear", "join"}
    /\ todo \in SUBSET Session
    /\ victim \in Session \cup {NoSession}
    /\ sends \in 0..MaxSends
    /\ fault \in BOOLEAN

Init ==
    /\ table = [n \in Number |-> Closed]
    /\ wire = [s \in Session |-> <<>>]
    /\ fd = [s \in Session |-> NoFd]
    /\ active = [s \in Session |-> FALSE]
    /\ life = [s \in Session |-> "none"]
    /\ clients = {} /\ mutex = "free"
    /\ pc = [s \in Session |-> "none"]
    /\ to = [s \in Session |-> NoSession]
    /\ number = [s \in Session |-> NoFd]
    /\ part = [s \in Session |-> 0]
    /\ main = "accept" /\ todo = {} /\ victim = NoSession
    /\ sends = 0 /\ fault = FALSE

-----------------------------------------------------------------------------
(* The kernel.                                                             *)

Free(n) == table[n] = Closed

\* Who asks for a descriptor gets the lowest free number.
Opens(n, what) ==
    /\ Free(n) /\ \A k \in Number : Free(k) => n <= k
    /\ table' = [table EXCEPT ![n] = what]

\* What a connection has been given is of no interest once it is closed.
Forgets(c) == wire' = IF c \in Session THEN [wire EXCEPT ![c] = <<>>] ELSE wire

\* ::close on the number in a UniqueFd, if there is one.
Closes(n) ==
    \/ n = NoFd /\ UNCHANGED kernelVars
    \/ n # NoFd /\ table' = [table EXCEPT ![n] = Closed] /\ Forgets(table[n])

-----------------------------------------------------------------------------
(* The main thread: accept_loop and shutdown_all.                          *)

Main(from, next) == ~fault /\ main = from /\ main' = next

\* A connection gets the lowest number, a session of its own and a thread.
Accept(s) ==
    /\ Main("accept", "accept")
    /\ life[s] = "none"
    /\ \A r \in Session : r < s => life[r] # "none"
    /\ \E n \in Number : Opens(n, s) /\ fd' = [fd EXCEPT ![s] = n]
    /\ active' = [active EXCEPT ![s] = TRUE]
    /\ life' = [life EXCEPT ![s] = "live"]
    /\ pc' = [pc EXCEPT ![s] = "auth"]
    /\ UNCHANGED <<wire, listVars, to, number, part, todo, victim,
                   sends, fault>>

\* shutdown_all takes the mutex and goes through the list.
ShutdownBegins ==
    /\ Main("accept", "closing")
    /\ mutex = "free"
    /\ mutex' = "main"
    /\ todo' = clients
    /\ UNCHANGED <<kernelVars, sessionVars, clients, handlerVars, victim, sends, fault>>

\* An active session is closed, another one passed by.
ShutdownLooks(s) ==
    /\ s \in todo
    /\ todo' = todo \ {s}
    /\ \/ /\ active[s]
          /\ Main("closing", "clear")
          /\ active' = [active EXCEPT ![s] = FALSE]
          /\ Closes(fd[s])
          /\ victim' = s
       \/ ~active[s] /\ Main("closing", "closing") /\ UNCHANGED <<kernelVars, active, victim>>
    /\ UNCHANGED <<fd, life, listVars, handlerVars, sends, fault>>

ShutdownClears ==
    /\ Main("clear", "closing")
    /\ fd' = [fd EXCEPT ![victim] = NoFd]
    /\ victim' = NoSession
    /\ UNCHANGED <<kernelVars, active, life, listVars, handlerVars, todo, sends, fault>>

ShutdownEnds ==
    /\ Main("closing", "join")
    /\ todo = {}
    /\ clients' = {} /\ mutex' = "free"
    /\ UNCHANGED <<kernelVars, sessionVars, handlerVars, todo, victim, sends, fault>>

ShutdownStep ==
    \/ (\E s \in Session : ShutdownLooks(s))
    \/ ShutdownClears \/ ShutdownEnds

-----------------------------------------------------------------------------
(* A handler: authenticating and receiving.                                *)

Enter(s, from, next) == ~fault /\ pc[s] = from /\ pc' = [pc EXCEPT ![s] = next]

\* The registry opens one of its files.
OpenFile(s) ==
    /\ Enter(s, "auth", "file")
    /\ \A n \in Number : table[n] # File
    /\ \E n \in Number : Opens(n, File) /\ number' = [number EXCEPT ![s] = n]
    /\ UNCHANGED <<wire, sessionVars, listVars, to, part, mainVars,
                   sends, fault>>

CloseFile(s) ==
    /\ Enter(s, "file", "auth")
    /\ Closes(number[s])
    /\ number' = [number EXCEPT ![s] = NoFd]
    /\ UNCHANGED <<sessionVars, listVars, to, part, mainVars,
                   sends, fault>>

\* A handler in its chat loop waits in recv on the number recv_line has asked
\* its session for.
Waits(s) == number' = [number EXCEPT ![s] = fd[s]]

AddClient(s) ==
    /\ Enter(s, "auth", "chat")
    /\ mutex = "free"
    /\ clients' = clients \cup {s}
    /\ Waits(s)
    /\ UNCHANGED <<kernelVars, sessionVars, mutex, to, part, mainVars, sends, fault>>

AuthFails(s) ==
    /\ Enter(s, "auth", "leave")
    /\ UNCHANGED <<kernelVars, sessionVars, listVars, to, number, part, mainVars,
                   sends, fault>>

\* It receives something of whatever the number stands for now, and asks again.
Recv(s) ==
    /\ Enter(s, "chat", "chat")
    /\ number[s] # NoFd /\ table[number[s]] \in Session
    /\ Waits(s)
    /\ UNCHANGED <<kernelVars, sessionVars, listVars, to, part, mainVars, sends, fault>>

\* End of the stream, timeout, or a number that stands for no connection.
RecvFails(s) ==
    /\ Enter(s, "chat", "leave")
    /\ number' = [number EXCEPT ![s] = NoFd]
    /\ UNCHANGED <<kernelVars, sessionVars, listVars, to, part, mainVars, sends, fault>>

-----------------------------------------------------------------------------
(* A handler: sending.                                                     *)

\* A session in its chat loop, which is in a room.
Chatting == {"chat"} \cup SendLabels

\* Between two lines: a reply to the own client, or a delivery to a session
\* whose pointer was copied from a room or from the list of clients.
BeginSend(s, t) ==
    /\ Enter(s, "chat", "get")
    /\ t = s \/ pc[t] \in Chatting \/ (t \in clients /\ mutex = "free")
    /\ sends < MaxSends
    /\ sends' = sends + 1
    /\ to' = [to EXCEPT ![s] = t]
    /\ number' = [number EXCEPT ![s] = NoFd]
    /\ UNCHANGED <<kernelVars, sessionVars, listVars, part, mainVars, fault>>

\* Using a deleted session is undefined; use_after_delete is about it, and
\* here the run ends.
Dangles(s) ==
    /\ ~fault
    /\ pc[s] \in {"get", "failed"}
    /\ life[to[s]] = "freed"
    /\ fault' = TRUE
    /\ UNCHANGED <<kernelVars, sessionVars, listVars, handlerVars, mainVars, sends>>

SendOver(s) ==
    /\ to' = [to EXCEPT ![s] = NoSession]
    /\ part' = [part EXCEPT ![s] = 0]
    /\ Waits(s)

\* send_msg asks active_ once, before the loop.
SendRefused(s) ==
    /\ Enter(s, "get", "chat")
    /\ part[s] = 0
    /\ life[to[s]] = "live" /\ ~active[to[s]]
    /\ SendOver(s)
    /\ UNCHANGED <<kernelVars, sessionVars, listVars, mainVars, sends, fault>>

\* Mutant: the sender's own number is used for the one of its target.
SendGet_own_number(s) ==
    /\ Enter(s, "get", "send")
    /\ life[to[s]] = "live"
    /\ part[s] = 0 => active[to[s]]
    /\ number' = [number EXCEPT ![s] = fd[s]]
    /\ UNCHANGED <<kernelVars, sessionVars, listVars, to, part, mainVars, sends, fault>>

\* Every round of the loop asks UniqueFd for the number again.
SendGet(s) ==
    /\ Enter(s, "get", "send")
    /\ life[to[s]] = "live"
    /\ part[s] = 0 => active[to[s]]
    /\ number' = [number EXCEPT ![s] = fd[to[s]]]
    /\ UNCHANGED <<kernelVars, sessionVars, listVars, to, part, mainVars, sends, fault>>

\* The connection that the number stands for when ::send is called.
Reached(s) == table[number[s]]

Sendable(s) ==
    number[s] # NoFd /\ Reached(s) \in Session

\* ::send takes one part, when the peer has made room for it.
SendPart(s) ==
    /\ pc[s] = "send" /\ Sendable(s)
    /\ LET c == Reached(s)
           next == part[s] + 1
       IN  /\ wire' = [wire EXCEPT ![c] =
                        Append(@, [from |-> s, to |-> to[s], part |-> next])]
           /\ IF next < Parts
                THEN /\ Enter(s, "send", "get")
                     /\ part' = [part EXCEPT ![s] = next]
                     /\ number' = [number EXCEPT ![s] = NoFd]
                     /\ UNCHANGED to
                ELSE Enter(s, "send", "chat") /\ SendOver(s)
    /\ UNCHANGED <<table, sessionVars, listVars, mainVars, sends, fault>>

\* Mutant: the result of ::send is not looked at.
SendFails_counted(s) ==
    /\ Enter(s, "send", IF part[s] + 1 < Parts THEN "get" ELSE "failed")
    /\ part' = [part EXCEPT ![s] = IF @ + 1 < Parts THEN @ + 1 ELSE @]
    /\ number' = [number EXCEPT ![s] = NoFd]
    /\ UNCHANGED <<kernelVars, sessionVars, listVars, to, mainVars, sends, fault>>

\* The number stands for no connection; or ::send fails on one that is there,
\* because the peer has given it up, or because a signal has come, which
\* send_msg does not tell apart.
SendFails(s) ==
    /\ Enter(s, "send", "failed")
    /\ number' = [number EXCEPT ![s] = NoFd]
    /\ UNCHANGED <<kernelVars, sessionVars, listVars, to, part, mainVars, sends, fault>>

\* Mutant: the sender closes the session it could not send to.
SendFailed_closing(s) ==
    /\ Enter(s, "failed", "chat")
    /\ life[to[s]] = "live"
    /\ active' = [active EXCEPT ![to[s]] = FALSE]
    /\ Closes(fd[to[s]])
    /\ fd' = [fd EXCEPT ![to[s]] = NoFd]
    /\ SendOver(s)
    /\ UNCHANGED <<life, listVars, mainVars, sends, fault>>

\* The session is deactivated; its descriptor stays open.
SendFailed(s) ==
    /\ Enter(s, "failed", "chat")
    /\ life[to[s]] = "live"
    /\ active' = [active EXCEPT ![to[s]] = FALSE]
    /\ SendOver(s)
    /\ UNCHANGED <<kernelVars, fd, life, listVars, mainVars, sends, fault>>

-----------------------------------------------------------------------------
(* A handler: leaving.                                                     *)

\* Mutant: the senders hold the mutex while they send.
RemoveClient_behind_senders(s) ==
    /\ Enter(s, "leave", "close")
    /\ mutex = "free" /\ \A r \in Session : pc[r] \notin SendLabels
    /\ clients' = clients \ {s}
    /\ UNCHANGED <<kernelVars, sessionVars, mutex, to, number, part, mainVars,
                   sends, fault>>

RemoveClient(s) ==
    /\ Enter(s, "leave", "close")
    /\ mutex = "free"
    /\ clients' = clients \ {s}
    /\ UNCHANGED <<kernelVars, sessionVars, mutex, to, number, part, mainVars,
                   sends, fault>>

\* close_session: one compare-and-exchange decides who closes.
CloseSession(s) ==
    /\ \/ active[s] /\ Enter(s, "close", "clear") /\ Closes(fd[s])
       \/ ~active[s] /\ Enter(s, "close", "delete") /\ UNCHANGED kernelVars
    /\ active' = [active EXCEPT ![s] = FALSE]
    /\ UNCHANGED <<fd, life, listVars, to, number, part, mainVars,
                   sends, fault>>

\* Mutant: the number is kept after the close.
ClearFd_keeping_number(s) ==
    /\ Enter(s, "clear", "delete")
    /\ UNCHANGED <<kernelVars, sessionVars, listVars, to, number, part, mainVars,
                   sends, fault>>

ClearFd(s) ==
    /\ Enter(s, "clear", "delete")
    /\ fd' = [fd EXCEPT ![s] = NoFd]
    /\ UNCHANGED <<kernelVars, active, life, listVars, to, number, part, mainVars,
                   sends, fault>>

\* Mutant: UniqueFd has no destructor.
Delete_leaving_descriptor(s) ==
    /\ Enter(s, "delete", "done")
    /\ fd' = [fd EXCEPT ![s] = NoFd]
    /\ life' = [life EXCEPT ![s] = "freed"]
    /\ UNCHANGED <<kernelVars, active, listVars, to, number, part, mainVars,
                   sends, fault>>

\* The destructors: close_session does nothing a second time, UniqueFd closes
\* what is still open.
Delete(s) ==
    /\ Enter(s, "delete", "done")
    /\ Closes(fd[s])
    /\ fd' = [fd EXCEPT ![s] = NoFd]
    /\ life' = [life EXCEPT ![s] = "freed"]
    /\ UNCHANGED <<active, listVars, to, number, part, mainVars,
                   sends, fault>>

Leave(s) ==
    RemoveClient(s) \/ CloseSession(s) \/ ClearFd(s) \/ Delete(s)

-----------------------------------------------------------------------------
\* What a handler does while its client talks.
Serve(s) ==
    \/ OpenFile(s) \/ CloseFile(s) \/ AddClient(s) \/ AuthFails(s)
    \/ Recv(s) \/ RecvFails(s)
    \/ Dangles(s) \/ SendRefused(s) \/ SendGet(s) \/ SendFails(s) \/ SendFailed(s)

Ended ==
    /\ \/ fault
       \/ main = "join" /\ \A s \in Session : pc[s] \in {"none", "done"}
    /\ UNCHANGED vars

Next ==
    \/ \E s \in Session :
        \/ Accept(s) \/ Serve(s) \/ Leave(s)
        \/ \E t \in Session : BeginSend(s, t)
        \/ SendPart(s)
    \/ ShutdownBegins \/ ShutdownStep
    \/ Ended

Spec == Init /\ [][Next]_vars

\* The main thread in shutdown_all and the handlers that leave are scheduled.
\* Nothing is assumed of the others: a client need not read what it is sent,
\* and a ::send on a connection that works may never return.
FairSpec ==
    /\ Spec
    /\ WF_vars(ShutdownStep)
    /\ \A s \in Session : WF_vars(Leave(s))

-----------------------------------------------------------------------------
(* Safety.                                                                 *)

\* Somebody has closed the descriptor of s and not yet cleared its number.
Closing(s) == pc[s] = "clear" \/ (main = "clear" /\ victim = s)

\* session.h: a session owns its descriptor.  The number in UniqueFd stands for
\* the session's own connection until the moment it is closed, and whoever is
\* about to close it, its handler or shutdown_all, closes that connection and
\* no newer one that has been given the same number.
DescriptorOwned ==
    /\ \A s \in Session :
        fd[s] # NoFd /\ ~Closing(s) => table[fd[s]] = s
    /\ \A n \in Number : table[n] \in Session => life[table[n]] = "live" /\ fd[table[n]] = n

\* A handler never receives from the connection of another client, although
\* shutdown_all closes its descriptor at any moment and the number can be in
\* use again when recv is called (recv_line, shutdown_all, accept_loop).
ReadsOwnConnection ==
    \A s \in Session :
        pc[s] = "chat" /\ number[s] # NoFd => table[number[s]] \in {s, Closed, File}

\* The handlers' labels say whether their session exists and is listed.
LabelsAgree ==
    \A s \in Session :
        /\ life[s] = "none" <=> pc[s] = "none"
        /\ life[s] = "freed" <=> pc[s] = "done"
        /\ s \in clients => pc[s] \in Chatting \cup {"leave"}
        /\ pc[s] \in SendLabels => to[s] \in Session
        /\ life[s] = "none" => fd[s] = NoFd

\* shutdown_all keeps the mutex from its first look to its last, and looks at
\* listed sessions only; no handler that has left the list is its victim.
ShutdownAgrees ==
    /\ main \in {"closing", "clear"} <=> mutex = "main"
    /\ todo \subseteq IF mutex = "main" THEN clients ELSE {}
    /\ main = "clear" => victim \in clients

\* The registry's mutex: one handler at a time has a file, which nobody else
\* closes.
FilesAgree ==
    /\ \A s \in Session :
        pc[s] = "file" => number[s] \in Number /\ table[number[s]] = File
    /\ \A r, s \in Session : pc[r] = "file" /\ pc[s] = "file" => r = s

\* Until shutdown_all begins, a handler in recv waits on its own connection.
WaitsOnOwn ==
    \A s \in Session :
        main = "accept" /\ pc[s] = "chat" /\ number[s] # NoFd => table[number[s]] = s

\* A number that is about to be cleared stands for another session no more.
ClosedForGood ==
    \A s \in Session : Closing(s) => \A n \in Number : table[n] # s

\* Nor does it stand for any session while shutdown_all is about to clear it.
VictimClosed ==
    main = "clear" /\ fd[victim] # NoFd => table[fd[victim]] \in {Closed, File}

\* Everything the safety of descriptors rests on, as an inductive invariant.
WireInv ==
    /\ TypeOK /\ DescriptorOwned /\ ReadsOwnConnection
    /\ LabelsAgree /\ ShutdownAgrees /\ FilesAgree /\ WaitsOnOwn
    /\ ClosedForGood /\ VictimClosed

\* Of each frame its receiver gets the parts in order and without a gap, even
\* though the number is looked up again for every part (send_msg).
Follows(stream, j, i) ==
    /\ stream[j].from = stream[i].from /\ stream[j].to = stream[i].to

FramesKeepOrder ==
    \A c \in Session : \A i \in DOMAIN wire[c] :
        wire[c][i].to = c /\ wire[c][i].part > 1 =>
            \E j \in 1..(i - 1) :
                /\ Follows(wire[c], j, i) /\ wire[c][j].part = wire[c][i].part - 1
                /\ \A k \in (j + 1)..(i - 1) : ~Follows(wire[c], k, i)

\* The connection of s is not there: closed, or not yet accepted.
Gone(s) == \A n \in Number : table[n] # s

\* A part reaches the connection of another session than the one it is for only
\* when its own connection has been closed already: while a client is connected,
\* deactivated by a failed send or not, nothing that is meant for it goes to
\* anybody else, however descriptors are closed and given out again between
\* get_fd and ::send (send_msg, accept_loop).
OnlyClosedGoAstray ==
    \A c \in Session : \A i \in DOMAIN wire[c] :
        LET t == wire[c][i].to IN t # c => Gone(t)

\* Why: a connection that is gone never comes back, an active session has its
\* own, and a number in the hands of a sender stands for its target until the
\* target's connection is gone.

ActiveConnected ==
    \A s \in Session : active[s] =>
        pc[s] \notin {"none", "clear", "delete", "done"} /\ fd[s] # NoFd /\ ~Closing(s)

Holds(s) ==
    pc[s] = "send" /\ number[s] # NoFd => table[number[s]] = to[s] \/ Gone(to[s])

NumberStands == \A s \in Session : Holds(s)

StraysClosed ==
    \A c \in Session : \A i \in DOMAIN wire[c] :
        LET t == wire[c][i].to IN t # c => life[t] # "none" /\ Gone(t)

\* What a sender has behind it when it is in the middle of a frame: the target
\* has its parts so far, the last of them last, or has been cut off.
Sent(s, stream) ==
    \E j \in DOMAIN stream :
        /\ stream[j].from = s /\ stream[j].to = to[s] /\ stream[j].part = part[s]
        /\ \A k \in (j + 1)..Len(stream) : ~(stream[k].from = s /\ stream[k].to = to[s])

Agrees(s) ==
    /\ pc[s] \notin SendLabels => part[s] = 0
    /\ pc[s] \in SendLabels => life[to[s]] # "none"
    /\ part[s] > 0 => Gone(to[s]) \/ Sent(s, wire[to[s]])

SendersAgree == \A s \in Session : Agrees(s)

DeliveryInv ==
    ActiveConnected /\ NumberStands /\ StraysClosed /\ SendersAgree /\ FramesKeepOrder

-----------------------------------------------------------------------------
(* The Session class.                                                      *)

\* A session's descriptor is open while the kernel has its connection, under
\* whatever number.  Names are left out here.
LifeView == [s \in Session |-> IF life[s] = "none" THEN "unallocated" ELSE life[s]]

OpenView == [s \in Session |-> \E n \in Number : table[n] = s]

Object == INSTANCE Sessions WITH
    User <- {}, Unauthenticated <- NoSession, username <- [s \in Session |-> NoSession],
    life <- LifeView, fd_open <- OpenView

\* With numbers that are closed before they are cleared, given out again and
\* closed by two threads, each session still behaves as the flag fd_open says:
\* one close ends its own connection, a failed send leaves it open, a deletion
\* ends what is left, and nothing else touches it (Session, UniqueFd).
ImplementsSessions == Object!SessionSpec

\* What is left to a handler that leaves.
LeaveLeft ==
    [l \in Labels |-> CASE l = "leave" -> 4 [] l = "close" -> 3 [] l = "clear" -> 2
                        [] l = "delete" -> 1 [] OTHER -> 0]

\* The main thread looks at the list once: it has fewer left to look at, or ends
\* the close it is in, or gives the mutex back.
LooksOnce ==
    \/ main' = "join" /\ mutex' = "free"
    \/ main' \in {"closing", "clear"} /\ \E s \in todo : todo' = todo \ {s}
    \/ main = "clear" /\ main' = "closing" /\ UNCHANGED todo

\* Who leaves does not turn back, and what it may wait for comes to an end: while
\* the mutex is taken shutdown_all only nears the end of its list, to which the
\* handlers add nothing (cleanup_and_exit, shutdown_all, add_client).
LeaversAdvance ==
    [][/\ \A s \in Session : pc[s] \in LeaveLabels =>
            pc'[s] = pc[s] \/ LeaveLeft[pc'[s]] < LeaveLeft[pc[s]]
       /\ mutex = "main" => UNCHANGED <<mainVars, mutex>> \/ LooksOnce]_vars

-----------------------------------------------------------------------------
(* Liveness.                                                               *)

\* A handler that leaves gets away even while others are stuck in sends to
\* clients that never read: nobody sends with the mutex held (broadcast).
LeavingCompletes ==
    \A s \in Session : pc[s] = "leave" ~> (pc[s] = "done" \/ fault)

-----------------------------------------------------------------------------
(* What the sources say and the code does not do.                          *)

\* The tests: a frame is delivered only to its target.  The number a sender has
\* looked up may belong to a newer client when it calls ::send.
DeliveredToTarget ==
    \A c \in Session : \A i \in DOMAIN wire[c] : wire[c][i].to = c
=============================================================================
