# MPCC in TLA+

MPCC is a multi-party chat: one server process with a thread per client, and a
client process per user, over TCP. This directory holds TLA+ modules of its
control, TLC configurations that check them on small instances, and TLAPS proofs
for all instances. Paths below are relative to the repository.

## 1. The system

### Components

| Component | State | Operations | Correct when |
|---|---|---|---|
| `Session` (`src/src/core/session.cpp`, `unique_fd.h`) | `active_`, the descriptor, `username_` | `send_msg`, `close_session`, `set_username`, construction, deletion | nobody uses it after its deletion; its descriptor is closed exactly once and not leaked |
| `BroadcastManager` (`server/broadcast_manager.cpp`) | `clients_`, `by_name_`, one mutex | `add_client`, `remove_client`, `broadcast`, `send_private`, `broadcast_to_recipients`, `shutdown_all` | lists only live authenticated sessions; the name index is consistent with the list |
| `RoomManager` (`server/room_manager.cpp`) | `rooms_`, one mutex | `join_room`, `leave_room`, `leave_all`, `broadcast_to_room` | agrees with what every handler believes; no empty room stays |
| `ClientHandler` (`server/client_handler.cpp`) | its session, `current_room_`, where its thread is | `try_authenticate`, `recv_loop` with its commands, `cleanup_and_exit` | takes its session out of everything before deleting it; ends when its client has gone |
| `Server` (`server/server.cpp`, `util/thread_handler.h`) | `running_`, the listening socket, the threads to join | `start`, `accept_loop`, the SIGINT handler, `shutdown` | stops on request, and only when every handler has ended and nothing is left over |
| `UserRegistry`, `FileIO` (`server/user_registry.cpp`, `core/file_io.cpp`) | the user file, its temporary file, one mutex | `register_user`, `authenticate`, `user_exists`; `read_all_lines`, `atomic_write_lines` | atomic operations; no acknowledged account is ever lost or changed |
| `Client` (`client/client.cpp`) | the socket, `running_`, the main thread and the receiving thread | `auth_loop`, `do_register`, `do_login`, `send_loop`, `recv_loop` | believes itself authenticated only if it is; never leaves its user waiting for good; its two threads share the socket without losing a line, and every way out ends both |
| `Message`, `Cipher` (`core/message.cpp`, `core/cipher.cpp`) | none | `serialise`, `parse`, the factories; XOR with a key | what is parsed is what was serialised |
| `Logger` (`util/logger.cpp`) | a file under a mutex | `log` | its streams have the lines in one order, and all of them while they do not fail; nobody waits for ever |

### How they interact

The main thread accepts a connection, allocates a `Session` and a
`ClientHandler`, and starts a thread that owns both. The handlers share the two
managers and the registry. The managers hold raw pointers to sessions, and a
handler that delivers a message sends, on its own thread, to the sessions of
other handlers: it copies the pointers under the manager's mutex and uses them
after it has released it. The main thread, on its way out, closes the sessions in
`clients_` under their handlers (`shutdown_all`) and joins all threads. Client
and handler speak in lines; neither checks that the line it gets answers what
it asked. In the client the main thread types and sends while a second thread
receives; they share the socket and `running_`. Every component logs, the
registry and the managers call into sessions or the logger with their own
mutexes held, and sessions, files and `accept` draw on one table of descriptor
numbers.

### What is hard here

Interleavings of handlers around the copied pointers; a session deactivated,
closed or deleted by one thread while others use it; two sessions of one user;
clients that authenticate while the server shuts down; signals between two
steps of the main thread; a killed process or a failed write in the middle of
saving the users; receive timeouts racing late answers in the dialogue; frames sent in
parts by several threads, and descriptor numbers closed and reused under them;
full buffers in both directions; mutexes taken inside one another. The
complete list, each item at its line and with the properties that cover it,
is `hazards` in `PROJECT.json`.

## 2. The modules

| Module | Models |
|---|---|
| `Sessions` | the session objects: allocated, live, freed; `active_`; whether the descriptor is open; the name. One operator per method, with the three ways `send_msg` ends (refused, delivered, failed), and the class by itself (`SessionSpec`), which `ClientHandler` and `Wire` implement |
| `BroadcastManager`, `RoomManager` | the managers' data and one operator per operation; both extend `Sessions` |
| `ClientHandler` | all handler threads over the two managers, plus the accept loop and `shutdown_all` acting at any time |
| `Server` | the main thread and SIGINT, composed with the handlers of `ClientHandler` |
| `UserStore` | what `IUserStore` promises: an atomic, durable table of accounts |
| `UserRegistry` | the registry on its file, step by step, with errors and crashes; implements `UserStore` |
| `AuthDialogue` | one client process and one handler over two lines of frames, from the first menu to the chat |
| `ChatClient` | the client's two threads over one connection with bounded buffers, from `connect` to the return of `main`, against a server that may do anything |
| `Wire` | sessions over the kernel's descriptor table: partial sends, the number read, closed, cleared and reused, `shutdown_all` |
| `LockOrder` | all mutexes of the server, what is called with one held, and the logger |
| `ChatService` | what the handlers and the managers promise those who chat, without threads, pointers or lists; `ClientHandler` implements it |
| `Authentication` | what `try_authenticate` promises about one connection; `AuthDialogue` implements it, and so does `ClientHandler` for each of its connections |
| `MCClientHandler`, `MCServer` | symmetry sets for TLC |
| `ClientHandlerProofs`, `ServerProofs`, `UserRegistryProofs`, `AuthDialogueProofs`, `ChatClientProofs`, `WireProofs`, `WireDeliveryProofs`, `LockOrderProofs` | the proofs |

Three views of a session are kept apart on purpose: `ClientHandler` has all of
the managers' data and takes a send for one step; `Wire` takes the step apart and
keeps of the managers only the list; `LockOrder` keeps of every operation
only which mutexes it takes and what it calls with them. What one module takes for
granted another shows: that a critical section may be one step and ends
(`LockOrder`, `CallsReturn`), that a closed descriptor is the session's own
(`Wire`, `DescriptorOwned`) and a session one flag although it has numbers that are reused
(`Wire`, `ImplementsSessions`), that the store's operations are atomic
(`UserRegistry`), that an attempt to authenticate may be one step: the
step and the dialogue of two programs inside it both implement `Authentication`.

### Sessions, managers and handlers

A step is one critical section, one send, or one access to a shared flag,
together with the thread-local code around it. `pc[s]` says where the handler of
session `s` is:

    none -> auth -> add -> ok -> join -> reply -> chat -> line
    line -> join or reply or send or chat,  send -> chat
    auth or chat or line -> leave_all -> remove -> close -> delete -> done

`auth` is an attempt of `try_authenticate`. Until `add_client` no other thread
can reach the session, so one attempt is one step (`AuthLost`, `AuthFails`,
`handle_register`, `handle_login`); its inside is the subject of
`AuthDialogue`. `add`, `ok`, `join`, `reply` are `add_client`, the `OK` frame,
`join_room`, and the banner or the answer to a command. `chat` is `recv_line` in
`recv_loop`: `ReceivesLine` while the descriptor is open, and `Lost` when there is no
line. `line` is a line in hand: `CommandJoin`, `CommandLeave`, `CommandPm`,
`CommandRejected`, `RoomMessage`, `GlobalMessage`, `EmptyText` or `Exit`, which are
carried out even if `shutdown_all` closes the descriptor in between. `/join` is two critical sections, and so two steps: leaving the old room
(`CommandJoin`), then entering the new one (`JoinRoom`). A delivery copies the
recipients (`Deliver`) and then sends to them one at a time (`SendNext`), in any
order: `clients_` is a vector in the code and a set here, because no property
tells the orders apart. `SendDangling` is the send to a session that has been
deleted in between. What the program does then is undefined, so `fault` is set
and the behaviour ends there; the properties are about what happens until then.
`shutdown_all` keeps the mutex while it closes sessions one by one, which
handlers can observe, and so is three kinds of steps.

What all of this amounts to is `ChatService`: a connection gets a name once, is in
at most one room, and what it posts goes to those who are to hear it at that
moment, to each at most once. The refinement mapping has four views.
`StageView`: a session enters the chat with `add_client` and leaves it
with `close_session`. `PlaceView`: it is where the `RoomManager` has it, so between the two
halves of `/join` nowhere, although `current_room_` has the new name. `AudienceView`:
the recipients still to come, without the sender's own sessions, which
`broadcast_to_recipients` skips one by one; passing one of them is a stutter.
`FormView`: how the post was made, until nobody is left to hear it.

Abstracted: texts of messages, the address of a peer, partial sends and
descriptor numbers (see `Wire`), the log (see `LockOrder`).
Session objects are never reused, so a pointer to a freed one stays recognisable.

`Server` adds `main`, the place of the main thread (`start`, `test`, `enter`,
`accept`, `shutdown`, `closing`, `join`, `stopped`, and `failed` when a socket
could not be set up), `running_`, the recorded
threads `tids` and a count of signals. `Accept`, `SpawnFails` and the steps of
`shutdown_all` happen only where the main thread performs them. A signal clears
the flag, and interrupts `accept` only if the main thread is inside it and is the
thread that takes the signal: no thread masks SIGINT.

### The user store

`UserRegistry` has a label for every point where another thread, an error or a
crash can come between: waiting for the mutex, the first reading of the file
(`Find`), the second reading (`Load`), opening the temporary file, each line
written, closing it, the rename, the return. `Faults` says what the file system
may do wrong in a run: `write` is an error the code sees, `flush` one it does not
see because `good()` is asked before the stream has flushed, `read` a file that
cannot be opened. `promised` and `damage` are history variables: the
registrations that have been acknowledged, and the silent faults (`flush`,
`read`) that have happened. The program notices neither; the properties say what
holds until one happens, and what holds even then. The refinement mapping reads the abstract table off the
file; a registration takes effect with its rename, everything else with its first
reading. The ban list is left out: the program never fills it.

### The dialogue

`AuthDialogue` has the lines under way in both directions (`toServer`,
`toClient`), the place of the handler (`handler`), of the client (`client`), and
what the user may type at each prompt: choices, names, passwords, texts with a
colon and empty lines. A line remembers the prompt it was typed at, which the
programs cannot see and the properties can. Of the codec it keeps what decides
the outcome: `serialise` writes no colon when there is no text, a line without a
colon is all type, and the two validations refuse colons. `HearsNothing` is the
receive timeout, an empty line, or a connection that has ended. `ForeignFrame`
is a message of another handler, which can come as soon as `add_client` has made
the session visible, before the `OK`. `Reset` is what TCP does when a
handler closes with lines unread. A send may fail after the first of its frames and
clears `active`, after which the session takes nothing. Until the client is
authenticated that is the end: the question returns, the next menu fails as well,
and the handler closes (`Breaks`, `Close`). After `add_client` the handler
looks at no result: it goes on reading, and the client may wait for
an `OK` that is lost until the handler's timeout closes the connection (`Send`).

### The client's threads

`ChatClient` has a label for every call of the main thread that can wait or fail:
`connect`, each `recv_line`, `getline` and `send_encrypted` of the dialogue
and the chat, starting the receiver, and the steps of the end (`stop`,
`shutdown`, `join`, `destroy`, `destroy_thread`, `exited`), through which an
exception passes as well. The receiver tests `running_` and reads. `inbox`
and `outbox` are what the kernels hold on the way, at most `Capacity` lines each:
a full `outbox` makes the main thread wait in `send`, a full `inbox` the
handler. The handler is reduced to its rhythm: it reads a line only when it has
written its answers (`owed`), at most the three lines of an `OK` and the banner. Of a line only whether it is an `OK` matters.
Standard input may end at any prompt (`EndOfInput`), after which every `getline`
fails: that leads from the menu into the chat, and there to the end.

### Sessions on the wire

In `Wire` a frame has `Parts` parts. `SendGet` reads the number from `UniqueFd`
and `SendPart` passes it to `::send`; in between, and between two parts,
anything may happen to the session. `close_session` is its compare-and-exchange
with the close (`CloseSession`, `ShutdownLooks`), and then the clearing of the
number (`ClearFd`, `ShutdownClears`). `Opens` gives the lowest free number, to
`accept` or to the registry for its file. `wire` is a history variable: for each
connection that is open the parts it was given, each with its sender and the session it was
meant for. `LifeView` and `OpenView` map all this to the one flag `fd_open` of `Sessions`. Reading a number while another thread clears it is a data race; the
outcomes are the old number and none.

### Mutexes and the logger

`LockOrder` lets every thread make any of the calls the program makes: a
manager's operation, which takes its mutex (`outer`), may ask sessions for their
names and may log inside; a session's name; a line of the log. `Lock` and
`Unlock` are `LockGuard`. `WriteFile` and `WriteConsole` are the two halves of
`Logger::log` under its mutex: the file, and stdout or stderr. A line is its number in
the order in which `log` was entered under the mutex. Each of the three streams may
fail at any line, the file also at once; it then takes no line any more, because nobody
clears it.

## 3. What TLC checks

All passing runs explore their whole state space.

| Run | Instance | Shows |
|---|---|---|
| `handlers_rooms` | 2 sessions, 2 users, 2 rooms, 2 attempts | rooms and handlers agree (`MembershipAgrees`), nobody hears himself, the inductive invariant `HandlerInv`, which includes the consistent name index; the handlers implement `ChatService`, and each connection `Authentication`; a handler whose descriptor is closed only comes nearer to its end (`ClosedAdvances`) |
| `handlers_three` | 3 sessions of 1 user, 1 room | no manager holds a deleted session, and a name leaves the index only with its session. Three of one user, so that the name goes from one to the next while the others leave in any order |
| `server` | 2 sessions of 1 user, 1 SIGINT | nobody who chats is overlooked (`ChattersListed`), a stopped server is quiet and clean, shutdown completes, and closed sessions are reaped |
| `registry` | 2 threads, 2 names, 2 passwords, `write` and `flush` errors, crashes | acknowledged accounts are kept, no account is lost or changed, and the registry implements `UserStore`, until a flush is lost unseen; names stay unique and every operation returns the mutex even then |
| `dialogue` | 2 names and 2 passwords, one of each equal to a choice; 3 attempts, 8 typed lines, 1 foreign frame | the client believes only what is true, the lines under way keep the order of their prompts (`LinesInTurn`) and so choices never pass for names or passwords, the user always gets a turn, and the dialogue implements `Authentication` |
| `client` | buffers of 2 lines, 8 typed lines, 3 unasked lines | the two threads never read together, the socket outlives the receiver, nothing is missed; the program ends after the chat and after the end of input, the receiver ends with the server, and full buffers do not block both sides |
| `wire` | 3 connections, 2 descriptor numbers, 2 frames of 2 parts | no close hits another's descriptor, no handler reads another's connection, frames keep their order, only what is for a session whose connection is gone goes astray, a handler can leave while others are stuck in sends, and each session behaves as the class `Session` says |
| `locks` | 2 handlers and the main thread, 4 calls, level `INFO` | nobody waits in a circle, every call returns, and log file, stdout and stderr have their lines in one order (`LinesInOrder`) |

The other runs each show one place where the code does not do what a comment or
test says (`findings` in `PROJECT.json` quotes both):

| Run | Shows |
|---|---|
| `use_after_delete` | a delivery uses a session its own handler has deleted meanwhile |
| `stop_request_ignored` | a SIGINT before `start()` sets `running_`, or between the test and `accept`, is lost |
| `registry_unreadable` | a file that cannot be opened reads as empty, and the next registration replaces all users |
| `wire_misdelivered` | a frame reaches a newcomer who was given the descriptor number of its target |

### Bounds, and why they are enough

- Two sessions are enough for every interaction between a deliverer and a
  recipient, or a handler and `shutdown_all`; three are needed only where they
  share a name, in `handlers_three`, where one user is enough. So it is in `server`,
  which is about the places of the threads: a `/pm` to the common name reaches
  the newer session, and a message to the room or to all is not sent between the
  two. `handlers_rooms` has two users who send to each other. Two rooms let a session move. The
  invariants checked here are proved for all numbers (section 5), and so is that
  `ChatService` is implemented.
- `MaxAuthAttempts` is 3 in the code. `handlers_rooms` has 2 (a failure
  followed by a success), the runs about something else have 1, and `dialogue`
  has 3.
- `MaxSignals` (1): a signal clears a flag that only `Start` sets.
- `MaxTyped` (8): two full attempts of three lines and either the start of a third
  or the chat.
  `MaxForeign` (1): one stray frame is enough to put the client out of step.
- `MaxLines` (1) in the registry bounds when a registration may be called: only
  while the file is empty. Two threads may both be called then, with one name or two, so
  the file grows to two lines, and a name registered twice would show. Logins
  and lookups are called at any time.
- `Capacity` (2) makes a buffer full after two lines; `MaxTyped` (8) is a
  dialogue of three lines, two full buffers, and one line more; `MaxBcast` (3)
  fills the client's buffer once more than the answers do.
- In `wire` three connections over two numbers make every number reusable, by a
  connection or by a file; two frames of two parts can interleave, be cut, and be
  misdirected. `wire_misdelivered` needs one frame only. What `wire` records of
  a connection is forgotten when the connection is closed, because no property
  is about it any more.
- `MaxCalls` (4) in `locks` lets every thread make a call and one of them a
  second; no circle of three threads needs more. The level `INFO` drops
  some lines and writes others.
- Sessions are not reused in a run, so handler threads end and the runs of
  `ClientHandler` are finite.

Of the inductive invariants only `HandlerInv` is in a run. The others
(`RegistryInv`, `DialogueInv`, `ClientInv`, `WireInv`, `DeliveryInv`, `PeersNamed`,
`LocksInv`, `LogInv`, each with the module's types) can be added to the run of their
module, which is the way to find out what a change of a model breaks before a
proof is tried.

Deadlock is checked in all runs; where the system may stop, an explicit
stuttering action says so (`Undefined`, `Ended`, `Finished`). Symmetry over
sessions and users is used only in runs without liveness properties.

### Fairness

- `ThreadFairness` (Server): weak fairness of the main thread and of every
  handler. Threads are scheduled, a blocked `recv` returns within
  `SO_RCVTIMEO` (60 s), no mutex is held for ever, and peers read what they are
  sent. The last is an assumption about clients: there is no send timeout, and
  a client that stops reading can block whoever sends to it. Nothing is
  assumed about new connections arriving.
- `ClientsLeave` is added for the `server` run: strong fairness of the end
  of a connection that is still open. Shutdown waits for clients it has not
  signalled, so it ends only if they leave or fall silent for 60 s. For a session
  whose descriptor has been closed nothing of the kind is assumed: a line still in
  hand is carried out, then `ReceivesLine` is disabled and weak fairness leads to `Lost`.
- `UserRegistry!FairSpec`: a thread inside an operation goes on. A crash is
  never forced.
- `AuthDialogue!FairSpec`: both programs are scheduled and the receive timeout
  passes at last. The user owes nothing.
- `ChatClient!FairSpec`: the two threads are scheduled, and `getline` returns at
  once when its input has ended. The server owes nothing; `TypedLinesGetThrough`
  and `EndOfInputEnds` state what they need of it (it goes on serving, it says
  something or closes) as their premises.
- `Wire!FairSpec`: `shutdown_all` and the handlers that are leaving are
  scheduled. Nothing is assumed of a send, which may never return.
- `LockOrder!FairSpec`: threads are scheduled. Calls are finitely many, because a
  mutex that others take for ever need not come to a thread that waits for it.

## 4. Properties worth a word

- `NoEcho` concerns a name compared before the mutex is released in
  `broadcast`, and after it in `broadcast_to_recipients`, while recipients come
  and go. It holds because names are written once.
- `StoppedServerIsClean` makes one exception, for a session whose thread could
  not be created: `~ClientHandler` is defaulted and nobody deletes the session, so
  its descriptor stays open and no property says otherwise. What is checked of this case
  is that shutdown does not wait for the thread (`ShutdownCompletes`).
- `ClosedAdvances` is about a handler that finds its descriptor closed at any of its
  labels, by itself, by `shutdown_all`, and with a line in hand or in the middle of a delivery. Every
  way back in its loop passes `ReceivesLine`, which needs the descriptor.
- `ClosedSessionsReaped` and `ShutdownCompletes` end with `\/ fault`: nothing
  can be promised of a program that has used freed memory.
- `ChattersListed` is what is true of step 4 of the shutdown sequence in
  `server.h` ("For each active thread: send shutdown signal via session
  close"). Literally the step does not hold: threads still in the dialogue, those
  that enter the chat after `shutdown_all` has emptied the list, and those
  whose session a failed send had deactivated are joined without a signal.
- `ImplementsSessions` is what the other modules take for granted when they give a
  session a flag for its descriptor: whatever numbers are closed, cleared and
  given out again, one close ends the session's own connection, a failed send leaves it
  open, and the deletion ends what is left.
- `AcknowledgedUsersKept`, `AccountsPermanent` and `ImplementsUserStore` hold
  while `damage` is empty. `file_io.h` promises an atomic write without that
  condition, but `good()` is asked before the stream has flushed: if the closing
  flush fails, a truncated file is renamed over the users.
- `DescriptorOwned` holds although the number is closed first and cleared later,
  because only who wins the compare-and-exchange on `active_` closes, and the
  destructor runs after both. `ReadsOwnConnection` says the same of the reader
  of a session; the sender has no such property (`wire_misdelivered`).
- `ImplementsChatService` says what a recipient can count on although a delivery
  works on a copy: who hears a post is settled when it is made, nobody hears it
  twice, and nobody who has gone hears it. A session that joins a room after the copy
  hears nothing, one that leaves it still does. It does not say that a post
  is heard.
- `EachAuthenticates` is `Authentication` seen from one connection: what other
  handlers register meanwhile is its environment (`OthersRegister`), and what they do
  to the managers is nothing to it. `ImplementsAuthentication` has the same
  contract for the dialogue, where timeouts and lines out of step decide how an attempt ends.
- `OnlyClosedGoAstray` bounds what `wire_misdelivered` shows: a frame can reach
  a newcomer, but only one that was meant for a session whose own connection is
  gone. As long as that is open its number is its own, whether the session is active
  or a failed send has deactivated it, and so while a client is connected nothing
  that is for it goes to anybody else.
- `FramesKeepOrder` does not say that a frame is not mixed with another one, or
  complete: nothing serialises two senders of one session.
- `ReceiverFollowsServer` is all that can be had: the main thread notices the end
  of the server only when the user types or the input ends.
- `NoWaitCycle` and `CallsReturn` hold because the inner mutexes (names, log) are
  leaves: who holds one waits for nothing.
- `CredentialsAsTyped` holds because a choice is sent as `CHOICE:n`, and the
  colon is refused in names and passwords. Its exception, `blank`, is
  a menu answered with an empty line: it travels as `CHOICE` with no colon, is a
  valid name, and shifts the lines that follow. Behind it is `LinesInTurn`: server
  and client may disagree where they are, but a name is followed by a password and a
  password by a choice, so what the server reads after a name is the password typed with it. TLC finds that without the
  exception an account can be created under a text typed as a password.

Behaviour that was noticed and that no run refutes, because no document says
otherwise:

- After a user's second session has left, the first can no longer be reached by
  `/pm`: the index forgets the name with the newer session.
- When `accept` fails for want of descriptors the loop retries without a pause.
- A choice that is a negative number is taken for a lost connection.
- After a refused name the client takes a menu for the answer to its password,
  and stays a frame behind; `client.cpp:144` says "Server responds OK or ERR".
- A send interrupted by a signal deactivates a session that is well.
- `logger.h` says that the console is stderr; `INFO` and `DEBUG` go to stdout.
- The client's chat ignores the result of its sends.
- A thread that has ended is joined only at shutdown.
- The repository's README says that a message goes to all connected users; in
  the code a new handler is in the room `lobby`, and a message goes to the room.
- A message to a room gets the tag of the room twice (`client_handler.cpp:299`,
  `room_manager.cpp:76`).
- `Server::disconnect_all_clients` is defined in `server.cpp:227` and not
  declared in `server.h`. The model takes it to be declared.

## 5. What is proved

For every value of the constants that satisfies the named `ASSUME`s, which say
no more than that placeholders differ from real values and that bounds are
numbers. Each theorem is listed in `PROJECT.json`.

**Handlers** (`ClientHandlerProofs`). None of the safety properties is inductive
alone: that rooms hold only live sessions depends on where each owner is in its
cleanup, that names agree depends on names being set before `add_client`, and so
on. `HandlerInv` states these dependencies: `LifeFollowsHandler` (a session is
allocated and freed by its own handler), `HandlerLocal` (what a handler may rely
on at each label), `ManagersFollowHandlers` (the managers know only sessions
whose handlers are between adding and removing them), `RecipientsSettled`
(copied pointers were authenticated, and for a global message belong to others).
`InitEstablishesInv` and `StepPreservesInv` show it inductive, action by action,
and `TypeCorrect`, `RegisteredLive`, `IndexConsistent`, `MembershipCorrect`,
`RoomsNotEmpty`, `SenderNotEchoed` and the action property
`NameLeaves` follow.

`HandlersImplementService` takes one more invariant, `PeersNamed` (`PeersHaveNames`):
whoever can be sent to has a name, because `add_client` comes after
`set_username`. Under it and `HandlerInv` every action is mapped, one lemma
per kind: entering, moving between rooms, posting, delivering, closing; what happens
in the background (a failed send, `shutdown_all`, a menu) is `Idle`. That a copied
room is the audience rests on `MembershipAgrees` and on nobody's being in a room
before it is in the chat. `HandlersHearOnce` draws the conclusion for those who chat
(`PostsHeardOnce`): a message is from a post whose audience still held its receiver and
holds it no longer, and no audience grows. `EachConnectionAuthenticates` is proved for an arbitrary session `s`: a
step of its own handler is a step of the contract (`OwnStepIsContracts`), and a step of another
changes at most the set of registered names (`BystanderStep`). `HandlersUseSessions`
shows that whatever is done to a session is in `SessionSpec`, where nothing is
done to one that is not live; for the target of a delivery this is
`RecipientsSettled`, and where that does not help, the model stops (`SendDangling`).
`ClosedComeToAnEnd` orders what is left of a handler: labels first, then attempts or
recipients where it stays. The order holds only without a descriptor, because with one the
chat goes round: the one action that goes back is `ReceivesLine`, which needs the descriptor.
This is `ClosedAdvances`.

**Server** (`ServerProofs`). Every step of the
composition is one of `ClientHandler` or leaves it alone, because it is built
of its actions (the lemma `ServerDrivesHandlers`), so all of the above
carries over: `ServerKeepsHandlersSafe` has the safety properties, and
`ServerImplementsServices` the abstract specifications, of the whole server, and
`ServerReapsClosed` the way of a closed session to its deletion. `ChattersStayListed` is inductive by itself over the handlers'
types. `TrackedInv`, that until the join every existing thread is
recorded and afterwards every one has ended, gives `ServerQuiet`; with
`HandlerInv` that gives `ServerClean`. `ShutdownHoldsMutex` and
`ShutdownComesToAnEnd` are about `shutdown_all` beside the running handlers: it alone keeps
a manager's mutex from step to step, and the list it goes through only becomes inactive.

**Registry** (`UserRegistryProofs`), whatever the file system does. `RegistryInv`:
names are unique, a registration past its reading has read the current file, and
what has been promised is in it, each part as long as the silent faults in
`damage` allow. `NamesStayUnique`, `AcknowledgedKept`, `AccountsKept` and
`RegistryRefinesStore` follow. `Stored` is a `CHOOSE` of the first line with a
name; a lemma shows what appending does to it. `HolderComesToAnEnd` and `WritersCanGoOn`
need neither unique names nor correct readings: who holds the mutex
gives it back after steps of its own, finitely many, and is never stuck half-way through its lines.

**Dialogue** (`AuthDialogueProofs`). What a client believes rests on the frames
still under way. `DialogueInv` adds that an unauthenticated session has no `OK` on
its way and a handler no further than the password, and that a name being
registered has been validated. `BelieversAreAuthenticated` and
`DialogueTypeCorrect` follow. `LinesKeepTheirTurn` is inductive relative to it: a line is
appended only where the client has got to, and the server takes lines only from the
front, so whatever it takes them for, their order stays. `CredentialsWereTyped`
follows where an account is made or found, from the colon that both validations refuse.
`DialogueImplementsContract` is proved step by step: the handler's end of an attempt is
`Fails`, `GivesUp`, `Registers` or `LogsIn`, everything else a stutter.

**Client** (`ChatClientProofs`). `ClientInv` ties the receiver to the stretch of
the main thread between its start and the join (`ReceiverWithin`), and the socket
and `running_` to the labels (`SocketWithin`). `NothingMissed` is a part of it: a
receiver that has ended while the chat goes on has seen the server's close and
an empty buffer. `ReadsAlone` and `DescriptorKept` follow. `JoinFindsWokenReceiver` says
that the join comes after `running_` has been cleared and the socket shut down, so the
receiver is not blocked; `ProgramComesToAnEnd`, that both threads then only
come nearer to their end, whatever the server still sends.

**Wire** (`WireProofs`). That a number stands for its own session rests on who
may close it when. `WireInv` adds to `DescriptorOwned` and `ReadsOwnConnection`
that labels, lives and lists agree, that the mutex is the main thread's during
all of `shutdown_all`, that a session about to be cleared owns no number any more
(`ClosedForGood`, `VictimClosed`), and that before the shutdown nobody but the
reader's own handler closes the connection it reads (`WaitsOnOwn`). The proof of
preservation has one lemma for each kind of part and of actor. `LeaversComeNearer` needs
of it that the mutex is taken exactly while `shutdown_all` goes through its list.

What arrives is the subject of `WireDeliveryProofs`. `DeliveryInv`, inductive under
`WireInv`: an active session has its own number (`ActiveConnected`), a number a
sender has read stands for its target until the target's connection is gone, which is for good
(`NumberStands`), what has gone astray was for sessions whose connections are gone (`StraysClosed`), and a
sender in the middle of a frame has its last part behind it on the target's
connection, with nothing of its own after it (`SendersAgree`). `FramesInOrder` and
`StraysOnlyAfterClose` are parts or consequences of it. `WireImplementsSessions` rests on
`WireInv` and `ActiveConnected`: a close, in whichever of its two steps and by whom, ends
the session's own connection (`CloseEndsOwn`), and a number that is reused stands for a
session only after its construction.

**Mutexes** (`LockOrderProofs`). `LocksInv` says that a mutex is held by exactly
the thread whose place says so. From it `NoDeadlockOfLocks`, for any number of
threads: a circle of waiting threads would have one that holds an inner mutex,
and such a thread waits for nothing. `ShortWaits` is stronger: nobody has more than
two threads ahead of it. `CallsComeNearer` orders what is left of a call, the names still to ask
for before the warning to log before the place in the current inner call, and shows that only
its own thread moves it, and forward. `LogInv` adds to `LinesInOrder` that the line being
written is the last one and on no console yet, and gives `LogSerialized`.

Only model-checked: all liveness (`ShutdownCompletes`, `ClosedSessionsReaped`,
`MutexReleased`, `UserGetsTurn`, `ProgramEnds`, `ReceiverFollowsServer`,
`EndOfInputEnds`, `TypedLinesGetThrough`, `LeavingCompletes`, `CallsReturn`), because
the prover handles neither fairness nor `ENABLED`. Six of them have their safety half
proved, which says that something comes nearer to the end with every step that counts and
nothing moves it back: `CallsReturn` (`ShortWaits`, `CallsComeNearer`), `MutexReleased`
(`HolderComesToAnEnd`, `WritersCanGoOn`), `ProgramEnds` (`JoinFindsWokenReceiver`,
`ProgramComesToAnEnd`), `ShutdownCompletes` up to the join (`ShutdownHoldsMutex`,
`ShutdownComesToAnEnd`), `ClosedSessionsReaped` (`ClosedComeToAnEnd`, `ServerReapsClosed`)
and `LeavingCompletes` (`LeaversComeNearer`). For these the run adds that the steps are taken
when threads are scheduled. The others, `UserGetsTurn`, `ReceiverFollowsServer`,
`EndOfInputEnds` and `TypedLinesGetThrough`, depend on timeouts and on what a
user or the other program does, and have no such half short of the whole.
Every invariant and every action property
that a passing run checks is also proved, and so are all the refinements: `ClientHandler` of `ChatService`, of `Authentication` and of `Sessions`, `AuthDialogue`
of `Authentication`, `UserRegistry` of `UserStore`, `Wire` of `Sessions`.

## 6. What is not modelled

- The command lines of both programs, which are parsed before anything starts.
- What the bytes of a frame are, and so what a client makes of two frames that
  were mixed on the wire.
- Two servers on one user file: the mutex is one process's own, and the second
  server cannot bind the same port.
- Loss of power: there is no `fsync`, and no document claims more.
- The cipher, its own inverse byte by byte, and `Message::parse` on texts; both
  are functions without state that the repository's tests cover. The
  dialogue has what its outcome depends on.
- Exceptions for want of memory.

## 7. Plan

Done, in this order: the handlers and the managers, the server, the registry, the
dialogue, the client's threads, sessions on the wire, mutexes and logger, each
with its invariant proved, and the abstract specifications `UserStore`, `ChatService`,
`Authentication` and `Sessions` with the proofs that they are implemented. Left:

1. `Codec`: `serialise`, `parse`, the cipher and the hex form, checked
   against their inverses over bounded inputs.
2. One module with what a client makes of mixed frames, over `Wire` and
   `ChatClient`.

## 8. Running

    tlc -config handlers_rooms.cfg MCClientHandler.tla
    tlc -config handlers_three.cfg MCClientHandler.tla
    tlc -config server.cfg MCServer.tla
    tlc -config registry.cfg UserRegistry.tla
    tlc -config dialogue.cfg AuthDialogue.tla
    tlc -config client.cfg ChatClient.tla
    tlc -config wire.cfg Wire.tla
    tlc -config locks.cfg LockOrder.tla
    tlapm ClientHandlerProofs.tla

and likewise for the other configurations and proof modules. Definitions named
`..._without_...`, `..._keeping_...` and the like, marked `Mutant`, are broken
variants of the definition that follows them; `mutants` in `PROJECT.json` says
which property notices each.
