---------------------------- MODULE AuthDialogue ----------------------------
(***************************************************************************)
(* One client process (src/src/client/client.cpp) and the handler thread   *)
(* of its session (src/src/server/client_handler.cpp) over one connection: *)
(* the authentication dialogue, and as much of the chat after it as        *)
(* answers the client.  The two sides have no shared idea of where they    *)
(* are; each takes the next line for whatever it expects.                  *)
(*                                                                         *)
(* A step of either side is the reading of one line and everything up to   *)
(* the next reading, except that the handler lists its session before it   *)
(* writes OK and the banner, and other handlers may write in between.  The *)
(* connection is reliable until one side closes it or a send of the        *)
(* handler fails, after which the session sends nothing more.              *)
(***************************************************************************)
EXTENDS Naturals, Sequences

CONSTANTS
    Name, Password,   \* texts without a colon the user may type as such
    MaxAttempts,      \* MAX_AUTH_ATTEMPTS
    MaxTyped,         \* bound: lines the user types
    MaxForeign        \* bound: frames of other handlers

ASSUME DialogueAssumption ==
    /\ "empty" \notin Name \cup Password /\ "a:b" \notin Name \cup Password
    /\ MaxAttempts \in Nat \ {0} /\ MaxTyped \in Nat /\ MaxForeign \in Nat

VARIABLES
    toServer, toClient,   \* the lines under way
    handler,              \* where the handler thread is
    method,               \* handle_register or handle_login
    attempt,              \* the attempt of try_authenticate, from 1
    username,             \* the line handle_... took for the name
    account,              \* the lines the session was authenticated with
    active,               \* active_: the session still takes frames
    accounts,             \* the user store
    foreign,              \* how many frames other handlers have written
    client,               \* where the main thread of the client is
    eof,                  \* the user's input is at its end
    believes,             \* the client has taken an OK for the answer
    typed,                \* how many lines the user has typed
    blank                 \* history: the menu was answered with an empty line

handlerVars == <<handler, method, attempt, username, account, active, accounts, foreign>>
clientVars == <<client, eof, believes, typed, blank>>
vars == <<toServer, toClient, handlerVars, clientVars>>

\* What the user types; NoText is the empty line.  With "1" in Name or Password a name or password can
\* pass for a choice.
WithColon == "a:b"
NoText == "empty"
Choice == {"1", "2", "-1", "3", NoText}
Text == {"hello", "/leave", "exit", NoText}

\* A line as the client sends it; prompt says what the user typed it for.
Line == [tag : {"none", "CHOICE", "MSG", "EXIT"},
         text : Choice \cup Name \cup Password \cup {WithColon} \cup Text,
         prompt : {"menu", "name", "password", "chat"}]
NoLine == [tag |-> "none"]

Frames == {"MENU", "ASK_NAME", "ASK_PASSWORD", "OK", "ERR",
           "BANNER", "COMMANDS", "BCAST"}

TypeOK ==
    /\ toServer \in Seq(Line) /\ toClient \in Seq(Frames)
    /\ handler \in {"choice", "name", "password", "listed", "banner", "chat", "closed"}
    /\ method \in {"register", "login"}
    /\ attempt \in 1..MaxAttempts
    /\ username \in Line \cup {NoLine}
    /\ account \in [name : Line, password : Line] \cup {NoLine}
    /\ active \in BOOLEAN
    /\ \A a \in accounts : a.name # NoText /\ a.password # NoText
    /\ foreign \in 0..MaxForeign
    /\ client \in {"menu", "choosing", "prompt1", "naming", "prompt2", "secret",
                   "response", "banner", "chat", "ended"}
    /\ eof \in BOOLEAN /\ believes \in BOOLEAN /\ blank \in BOOLEAN
    /\ typed \in 0..MaxTyped

\* The connection is up, the handler has sent its first menu and waits.
Init ==
    /\ toServer = <<>> /\ toClient = <<"MENU">>
    /\ handler = "choice" /\ method = "login" /\ attempt = 1
    /\ username = NoLine /\ account = NoLine /\ active = TRUE
    /\ \/ accounts = {}
       \/ \E n \in Name, p \in Password : accounts = {[name |-> n, password |-> p]}
    /\ foreign = 0
    /\ client = "menu" /\ eof = FALSE /\ believes = FALSE
    /\ typed = 0 /\ blank = FALSE

-----------------------------------------------------------------------------
(* Lines.                                                                  *)

\* serialise() puts a colon between tag and text only when there is a text.
HasColon(l) ==
    \/ l.text = WithColon
    \/ l.tag \in {"CHOICE", "MSG"} /\ l.text # NoText

\* The whole line, for lines without a colon.
Raw(l) == IF l.tag = "none" THEN l.text ELSE l.tag

Empty(l) == l.tag = "none" /\ l.text = NoText

\* stoi of the payload of a CHOICE, or of the type of any other line; "0" is
\* every number that is no choice and every text that is no number.
Number(l) ==
    IF l.tag \in {"none", "CHOICE"} /\ l.text \in {"1", "2", "-1"}
      THEN l.text
      ELSE "0"

validate_username(l) == ~HasColon(l) /\ Raw(l) # NoText
\* Mutant: the password may contain the separator.
validate_password_with_colon(l) == Raw(l) # NoText

validate_password(l) == ~HasColon(l) /\ Raw(l) # NoText

Credentials(name, password) ==
    [name |-> Raw(name), password |-> Raw(password)]

\* authenticate compares whole lines, and no stored name has a colon.
Matches(name, password) ==
    ~HasColon(name) /\ ~HasColon(password) /\ Credentials(name, password) \in accounts

-----------------------------------------------------------------------------
(* The handler thread.                                                     *)

\* A client that has gone receives nothing.
Delivers(frames) == toClient' = IF client = "ended" THEN <<>> ELSE toClient \o frames

\* A send that fails may have delivered the first of its frames, and the session
\* is not active any more.
SendFails(frames) ==
    /\ active /\ active' = FALSE
    /\ \E n \in 0..(Len(frames) - 1) : Delivers(SubSeq(frames, 1, n))

\* send_msg, for a handler that goes on whatever it returns; a session that is
\* not active takes nothing.
Send(frames) ==
    \/ active /\ Delivers(frames) /\ UNCHANGED active
    \/ SendFails(frames)
    \/ ~active /\ UNCHANGED <<toClient, active>>

\* recv_line returns the next line.
line == Head(toServer)
Hears == toServer # <<>> /\ ~Empty(line) /\ toServer' = Tail(toServer)

\* Mutant: the socket has no receive timeout.
HearsNothing_without_timeout ==
    \/ toServer # <<>> /\ Empty(line) /\ toServer' = Tail(toServer)
    \/ client = "ended" /\ toServer' = <<>>

\* recv_line returns "": an empty line; the receive timeout, which can only
\* pass while no line is there; or the end of the connection, whose last lines
\* a reset may have destroyed.
HearsNothing ==
    \/ toServer # <<>> /\ Empty(line) /\ toServer' = Tail(toServer)
    \/ toServer = <<>> /\ UNCHANGED toServer
    \/ client = "ended" /\ toServer' = <<>>

\* The handler is done with a client to which these are the last frames; it does
\* not look whether they could be sent.
Close(frames) ==
    /\ handler' = "closed" /\ active' = FALSE
    /\ IF active THEN \E n \in 0..Len(frames) : Delivers(SubSeq(frames, 1, n))
                 ELSE UNCHANGED toClient
    /\ UNCHANGED <<attempt, username, account>>

\* A frame that cannot be sent ends the attempt, and then the next menu cannot be
\* sent either, which ends the dialogue.
Breaks(frames) ==
    /\ SendFails(frames)
    /\ handler' = "closed"
    /\ UNCHANGED <<attempt, username, account>>

\* Mutant: the loop runs once too often.
NextAttempt_once_more(frames) ==
    \/ /\ attempt <= MaxAttempts
       /\ attempt' = attempt + 1
       /\ handler' = "choice"
       /\ Delivers(frames \o <<"MENU">>)
       /\ UNCHANGED <<username, account, active>>
    \/ attempt <= MaxAttempts /\ Breaks(frames \o <<"MENU">>)
    \/ attempt > MaxAttempts /\ Close(frames \o <<"ERR">>)

\* The attempt has failed after the given frames: the next menu, or the end.
NextAttempt(frames) ==
    \/ /\ attempt < MaxAttempts
       /\ attempt' = attempt + 1
       /\ handler' = "choice"
       /\ Delivers(frames \o <<"MENU">>)
       /\ UNCHANGED <<username, account, active>>
    \/ attempt < MaxAttempts /\ Breaks(frames \o <<"MENU">>)
    \/ attempt = MaxAttempts /\ Close(frames \o <<"ERR">>)

\* A negative number counts as a lost connection.
HearChoice ==
    /\ handler = "choice"
    /\ \/ HearsNothing /\ Close(<<>>) /\ UNCHANGED method
       \/ Hears /\ Number(line) = "-1" /\ Close(<<>>) /\ UNCHANGED method
       \/ /\ Hears /\ Number(line) \in {"1", "2"}
          /\ method' = IF Number(line) = "1" THEN "register" ELSE "login"
          /\ \/ /\ handler' = "name"
                /\ Delivers(<<"ASK_NAME">>)
                /\ UNCHANGED <<attempt, username, account, active>>
             \/ Breaks(<<"ASK_NAME">>)
       \/ /\ Hears /\ Number(line) = "0"
          /\ NextAttempt(<<"ERR">>)
          /\ UNCHANGED method
    /\ UNCHANGED <<accounts, foreign, clientVars>>

\* Only a registration looks at the name.
HearName ==
    /\ handler = "name"
    /\ \/ HearsNothing /\ NextAttempt(<<>>)
       \/ /\ Hears /\ (method = "login" \/ validate_username(line))
          /\ \/ /\ handler' = "password"
                /\ username' = line
                /\ Delivers(<<"ASK_PASSWORD">>)
                /\ UNCHANGED <<attempt, account, active>>
             \/ Breaks(<<"ASK_PASSWORD">>)
       \/ /\ Hears /\ method = "register" /\ ~validate_username(line)
          /\ NextAttempt(<<"ERR">>)
    /\ UNCHANGED <<method, accounts, foreign, clientVars>>

Authenticated(password) ==
    /\ handler' = "listed"
    /\ account' = [name |-> username, password |-> password]
    /\ UNCHANGED <<toClient, attempt, username, active>>

\* register_user refuses a name that is taken, and may fail to save any.
Register(password) ==
    \/ /\ validate_password(password)
       /\ \A a \in accounts : a.name # Raw(username)
       /\ accounts' = accounts \cup {Credentials(username, password)}
       /\ Authenticated(password)
    \/ NextAttempt(<<"ERR">>) /\ UNCHANGED accounts

Login(password) ==
    /\ UNCHANGED accounts
    /\ IF Matches(username, password)
         THEN Authenticated(password)
         ELSE NextAttempt(<<"ERR">>)

HearPassword ==
    /\ handler = "password"
    /\ \/ HearsNothing /\ NextAttempt(<<>>) /\ UNCHANGED accounts
       \/ Hears /\ method = "register" /\ Register(line)
       \/ Hears /\ method = "login" /\ Login(line)
    /\ UNCHANGED <<method, foreign, clientVars>>

\* add_client has made the session visible; OK and the banner follow, and the
\* chat follows whether they could be sent or not.
SendOk ==
    /\ handler = "listed" /\ handler' = "banner"
    /\ Send(<<"OK">>)
    /\ UNCHANGED <<toServer, method, attempt, username, account, accounts,
                   foreign, clientVars>>

SendBanner ==
    /\ handler = "banner" /\ handler' = "chat"
    /\ Send(<<"BANNER", "COMMANDS">>)
    /\ UNCHANGED <<toServer, method, attempt, username, account, accounts,
                   foreign, clientVars>>

\* Any tag will do for "exit".  A command is answered, a message is not.
IsExit(l) == l.tag = "EXIT" \/ l.text = "exit"
IsCommand(l) == l.tag \in {"none", "MSG"} /\ l.text = "/leave"

HearChat ==
    /\ handler = "chat"
    /\ \/ HearsNothing /\ Close(<<>>)
       \/ Hears /\ IsExit(line) /\ Close(<<"OK">>)
       \/ /\ Hears /\ IsCommand(line)
          /\ \E answer \in {"OK", "ERR"} : Send(<<answer>>)
          /\ UNCHANGED <<handler, attempt, username, account>>
       \/ /\ Hears /\ ~IsExit(line) /\ ~IsCommand(line)
          /\ UNCHANGED <<toClient, handler, attempt, username, account, active>>
    /\ UNCHANGED <<method, accounts, foreign, clientVars>>

\* Another handler delivers a message to this session.
ForeignFrame ==
    /\ handler \in {"listed", "banner", "chat"}
    /\ foreign < MaxForeign /\ foreign' = foreign + 1
    /\ Send(<<"BCAST">>)
    /\ UNCHANGED <<toServer, handler, method, attempt, username, account,
                   accounts, clientVars>>

HandlerStep ==
    HearChoice \/ HearName \/ HearPassword \/ SendOk \/ SendBanner \/ HearChat

\* The handler closed with lines unread: the frames still under way are lost.
Reset ==
    /\ handler = "closed" /\ toServer # <<>>
    /\ toServer' = <<>>
    /\ \E n \in 0..Len(toClient) : toClient' = SubSeq(toClient, 1, n)
    /\ UNCHANGED <<handlerVars, clientVars>>

-----------------------------------------------------------------------------
(* The client.                                                             *)

\* recv_line returns a frame, or nothing when the server has closed.
frame == IF toClient # <<>> THEN Head(toClient) ELSE "none"
Reads ==
    \/ toClient # <<>> /\ toClient' = Tail(toClient)
    \/ toClient = <<>> /\ handler = "closed" /\ UNCHANGED toClient

ClientGoes(from, to) == client = from /\ client' = to

AuthLoop ==
    /\ Reads
    /\ ClientGoes("menu", IF frame = "none" THEN "ended" ELSE "choosing")
    /\ UNCHANGED <<toServer, handlerVars, eof, believes, typed, blank>>

\* do_register and do_login print what they read as a prompt, whatever it is.
ShowPrompt ==
    /\ Reads
    /\ ClientGoes("prompt1", "naming") \/ ClientGoes("prompt2", "secret")
    /\ UNCHANGED <<toServer, handlerVars, eof, believes, typed, blank>>

\* Mutant: everything but an ERR is a success.
ReadResponse_unless_err ==
    /\ Reads
    /\ believes' = (frame # "ERR")
    /\ ClientGoes("response", IF frame # "ERR" THEN "banner" ELSE "menu")
    /\ UNCHANGED <<toServer, handlerVars, eof, typed, blank>>

ReadResponse ==
    /\ Reads
    /\ believes' = (frame = "OK")
    /\ ClientGoes("response", IF frame = "OK" THEN "banner" ELSE "menu")
    /\ UNCHANGED <<toServer, handlerVars, eof, typed, blank>>

\* send_loop reads one line as the banner, then starts the receiving thread.
ReadBanner ==
    /\ Reads
    /\ ClientGoes("banner", "chat")
    /\ UNCHANGED <<toServer, handlerVars, eof, believes, typed, blank>>

\* The receiving thread prints a frame.
RecvLoop ==
    /\ client = "chat" /\ toClient # <<>>
    /\ toClient' = Tail(toClient)
    /\ UNCHANGED <<toServer, handlerVars, clientVars>>

\* The user types a line, which is sent; a closed connection swallows it.
Types(prompt, tag, text) ==
    /\ ~eof /\ typed < MaxTyped /\ typed' = typed + 1
    /\ toServer' = IF handler = "closed" THEN toServer
                   ELSE Append(toServer, [tag |-> tag, text |-> text, prompt |-> prompt])
    /\ UNCHANGED <<toClient, handlerVars, eof, believes>>

TypeChoice ==
    \E text \in Choice :
        /\ Types("menu", "CHOICE", text)
        /\ ClientGoes("choosing", IF text \in {"1", "2"} THEN "prompt1" ELSE "menu")
        /\ blank' = (blank \/ text = NoText)

TypeName ==
    /\ \E text \in Name \cup {WithColon, NoText} : Types("name", "none", text)
    /\ ClientGoes("naming", "prompt2")
    /\ UNCHANGED blank

TypePassword ==
    /\ \E text \in Password \cup {WithColon, NoText} : Types("password", "none", text)
    /\ ClientGoes("secret", "response")
    /\ UNCHANGED blank

TypeText ==
    /\ \E text \in Text \ {"exit"} : Types("chat", "MSG", text)
    /\ ClientGoes("chat", "chat")
    /\ UNCHANGED blank

\* The client's socket is shut down and what it had not read is gone.
TypeExit ==
    /\ ClientGoes("chat", "ended")
    /\ ~eof /\ typed < MaxTyped /\ typed' = typed + 1
    /\ toServer' = IF handler = "closed" THEN toServer
                   ELSE Append(toServer, [tag |-> "EXIT", text |-> NoText, prompt |-> "chat"])
    /\ toClient' = <<>>
    /\ UNCHANGED <<handlerVars, eof, believes, blank>>

\* Mutant: the failed state of the input is cleared after every line.
EndOfInput_cleared ==
    /\ \/ ClientGoes("choosing", "banner") \/ ClientGoes("naming", "menu")
       \/ ClientGoes("secret", "menu") \/ ClientGoes("chat", "ended")
    /\ toClient' = IF client' = "ended" THEN <<>> ELSE toClient
    /\ UNCHANGED <<toServer, handlerVars, eof, believes, typed, blank>>

\* The input ends: an unfinished dialogue goes back to the menu, the menu goes
\* on to send_loop, and send_loop ends.
EndOfInput ==
    /\ eof' = TRUE
    /\ \/ ClientGoes("choosing", "banner") \/ ClientGoes("naming", "menu")
       \/ ClientGoes("secret", "menu") \/ ClientGoes("chat", "ended")
    /\ toClient' = IF client' = "ended" THEN <<>> ELSE toClient
    /\ UNCHANGED <<toServer, handlerVars, believes, typed, blank>>

\* What the client does without waiting for its user, and what the user does.
ClientStep == AuthLoop \/ ShowPrompt \/ ReadResponse \/ ReadBanner \/ RecvLoop
UserStep == TypeChoice \/ TypeName \/ TypePassword \/ TypeText \/ TypeExit \/ EndOfInput

Finished == client = "ended" /\ handler = "closed" /\ UNCHANGED vars

Next == HandlerStep \/ ForeignFrame \/ Reset \/ ClientStep \/ UserStep \/ Finished

Spec == Init /\ [][Next]_vars

\* Both programs are scheduled, and a receive timeout passes at last.  Nothing
\* is assumed of the user.
FairSpec == Spec /\ WF_vars(HandlerStep) /\ WF_vars(ClientStep)

-----------------------------------------------------------------------------
(* Properties.                                                             *)

\* A client that takes itself for authenticated is: however far it lags behind
\* the server, no stray frame passes for the answer to a password (do_register,
\* do_login, try_authenticate).
BelieversAuthenticated == believes => account # NoLine

\* Why it is: every OK under way comes from a handler that has authenticated its
\* session, and only such a handler gets as far as the chat (HandlerStep).  With
\* the types, and with the name that handle_register has already validated,
\* this is inductive.
OkMeansAuthenticated ==
    account = NoLine =>
        /\ ~believes
        /\ handler \notin {"listed", "banner", "chat"}
        /\ toClient \in Seq(Frames \ {"OK"})

NameHeard ==
    handler = "password" =>
        username \in Line /\ (method = "register" => validate_username(username))

DialogueInv == TypeOK /\ OkMeansAuthenticated /\ NameHeard

\* A session is only ever authenticated with a line typed as a name and a line
\* typed as a password, although after a timeout or a rejected name the server
\* takes names and passwords for choices and choices for names: the colon in
\* CHOICE:n is what stops them (validate_username, validate_password).  The
\* exception is an empty choice, which is sent without a colon.
CredentialsAsTyped ==
    account # NoLine =>
        blank \/ (account.name.prompt = "name" /\ account.password.prompt = "password")

\* Why: as long as the session is not authenticated, the lines under way are in
\* the order of the client's prompts, one for each, and the last one is as far as
\* the client has got.  A name is followed by nothing but a password, and a
\* password by nothing but a choice.
AsTyped(l) ==
    /\ l.prompt # "chat"
    /\ l.tag = IF l.prompt = "menu" THEN "CHOICE" ELSE "none"
    /\ l.prompt = "menu" /\ l.text = NoText => blank

InTurn(l, next) ==
    \/ l.prompt = "menu" /\ next.prompt \in {"menu", "name"}
    \/ l.prompt = "name" /\ next.prompt = "password"
    \/ l.prompt = "password" /\ next.prompt = "menu"

LastTyped(l) ==
    \/ eof
    \/ l.prompt = "menu" /\ client \in {"prompt1", "naming", "menu", "choosing"}
    \/ l.prompt = "name" /\ client \in {"prompt2", "secret"}
    \/ l.prompt = "password" /\ client \in {"response", "menu", "choosing"}

InOrder ==
    \A i \in 1..Len(toServer) :
        /\ AsTyped(toServer[i])
        /\ IF i < Len(toServer) THEN InTurn(toServer[i], toServer[i + 1])
           ELSE LastTyped(toServer[i])

NameInTurn ==
    /\ AsTyped(username)
    /\ IF toServer # <<>> THEN InTurn(username, toServer[1]) ELSE LastTyped(username)

Trying == handler \in {"choice", "name", "password"}

LinesInTurn ==
    Trying =>
        /\ account = NoLine
        /\ client \in {"banner", "chat", "ended"} => eof
        /\ InOrder
        /\ handler = "password" => NameInTurn

\* Whatever a line can register.
Nameable == {Raw(l) : l \in Line}

\* However the two programs misunderstand each other, the handler lets the client
\* in or sends it away as the rest of the server expects: in ClientHandler all of
\* this is one step for each attempt (try_authenticate).
Contract == INSTANCE Authentication WITH
    User <- Nameable, Nobody <- NoText,
    state <- IF Trying THEN "trying"
             ELSE IF handler = "closed" THEN "out" ELSE "in",
    failures <- IF Trying THEN attempt - 1 ELSE 0,
    name <- IF account = NoLine THEN NoText ELSE Raw(account.name),
    registered <- {a.name : a \in accounts}

ImplementsAuthentication == Contract!AuthSpec

\* A client that waits for the server does not wait for ever: its user gets the
\* next turn, however the two sides have lost each other, because the server
\* stops waiting first (recv_line, SO_RCVTIMEO).
ClientWaits == client \in {"menu", "prompt1", "prompt2", "response", "banner"}

UserGetsTurn == ClientWaits ~> ~ClientWaits
=============================================================================
