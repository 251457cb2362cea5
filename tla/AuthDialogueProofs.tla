------------------------- MODULE AuthDialogueProofs -------------------------
(***************************************************************************)
(* Proofs about AuthDialogue for any texts, any number of attempts, lines  *)
(* typed and frames of other handlers.                                     *)
(*                                                                         *)
(* That a client believes only what is true is not inductive: it rests on  *)
(* the frames still under way.  DialogueInv adds them.                     *)
(***************************************************************************)
EXTENDS AuthDialogue, SequenceTheorems, TLAPS

USE DialogueAssumption

\* A line of one or two elements is a sequence of them.
LEMMA ShortSeqs ==
    ASSUME NEW S
    PROVE  /\ <<>> \in Seq(S)
           /\ \A x \in S : <<x>> \in Seq(S)
           /\ \A x, y \in S : <<x, y>> \in Seq(S)
<1>1. \A x, y \in S : <<x>> \in Seq(S) /\ <<x, y>> \in Seq(S)
  OBVIOUS
<1>2. QED
  BY <1>1, EmptySeq

\* Initially there is one MENU frame and nobody is authenticated.
LEMMA InitEstablishesInv == Init => DialogueInv
<1> SUFFICES ASSUME Init PROVE DialogueInv
  OBVIOUS
<1>1. toServer \in Seq(Line) /\ toClient \in Seq(Frames)
  BY ShortSeqs DEF Init, Frames
<1>2. \A a \in accounts : a.name # NoText /\ a.password # NoText
  BY DEF Init, NoText
<1>3. /\ username = NoLine /\ account = NoLine
      /\ attempt = 1 /\ foreign = 0 /\ typed = 0
      /\ eof = FALSE /\ believes = FALSE /\ blank = FALSE /\ active = TRUE
  BY Zenon DEF Init
<1>4. handler = "choice" /\ method = "login" /\ client = "menu"
  BY DEF Init
<1>5. TypeOK
  <2>1. /\ eof \in BOOLEAN /\ believes \in BOOLEAN /\ blank \in BOOLEAN
        /\ active \in BOOLEAN
    BY <1>3, Zenon
  <2>2. /\ username \in Line \cup {NoLine}
        /\ account \in [name : Line, password : Line] \cup {NoLine}
    BY <1>3, Zenon
  <2>3. /\ attempt \in 1..MaxAttempts
        /\ foreign \in 0..MaxForeign /\ typed \in 0..MaxTyped
    BY <1>3
  <2>4. QED
    BY <1>1, <1>2, <1>4, <2>1, <2>2, <2>3 DEF TypeOK
<1>6. toClient \in Seq(Frames \ {"OK"})
  BY ShortSeqs DEF Init, Frames
<1>7. OkMeansAuthenticated /\ NameHeard
  BY <1>6 DEF Init, OkMeansAuthenticated, NameHeard
<1>8. QED
  BY <1>5, <1>7 DEF DialogueInv

\* An account is never mistaken for its absence.
LEMMA AccountIsNoLine ==
    ASSUME NEW n, NEW p
    PROVE  [name |-> n, password |-> p] # NoLine
<1>1. "tag" \in DOMAIN NoLine
  BY DEF NoLine
<1>2. "tag" \notin DOMAIN [name |-> n, password |-> p]
  OBVIOUS
<1>3. QED
  BY <1>1, <1>2

\* What is read is taken away, on either side.
LEMMA TailStaysIn ==
    ASSUME NEW S, NEW s \in Seq(S), s # <<>>
    PROVE  Tail(s) \in Seq(S) /\ Head(s) \in S
BY HeadTailProperties

LEMMA AppendStaysIn ==
    ASSUME NEW S, NEW s \in Seq(S), NEW x \in S
    PROVE  Append(s, x) \in Seq(S)
OBVIOUS

LEMMA PrefixStaysIn ==
    ASSUME NEW S, NEW s \in Seq(S), NEW n \in 0..Len(s)
    PROVE  SubSeq(s, 1, n) \in Seq(S)
<1>1. Len(s) \in Nat
  BY LenProperties
<1>2. ASSUME NEW i \in 1..n PROVE s[i] \in S
  <2>1. i \in 1..Len(s)
    BY <1>1
  <2>2. QED
    BY <2>1, ElementOfSeq
<1>3. n \in Int /\ 1 \in Int
  BY <1>1
<1>4. QED
  BY <1>2, <1>3, SubSeqProperties

\* What is under way to the client stays in the set it is drawn from, whether all
\* of the frames are delivered, some or none.
LEMMA SendStaysIn ==
    ASSUME NEW S, toClient \in Seq(S), NEW fs \in Seq(S),
           \/ Delivers(fs) \/ Send(fs) \/ Breaks(fs) \/ Close(fs)
    PROVE  toClient' \in Seq(S)
<1>1. ASSUME NEW gs \in Seq(S), Delivers(gs) PROVE toClient' \in Seq(S)
  BY <1>1, EmptySeq, ConcatProperties DEF Delivers
<1>2. ASSUME NEW n \in 0..Len(fs), Delivers(SubSeq(fs, 1, n)) PROVE toClient' \in Seq(S)
  BY <1>1, <1>2, PrefixStaysIn
<1>3. CASE SendFails(fs)
  <2>1. PICK n \in 0..(Len(fs) - 1) : Delivers(SubSeq(fs, 1, n))
    BY <1>3 DEF SendFails
  <2>2. n \in 0..Len(fs)
    BY LenProperties
  <2>3. QED
    BY <1>2, <2>1, <2>2
<1>4. CASE Close(fs)
  BY <1>2, <1>4 DEF Close
<1>5. QED
  BY <1>1, <1>3, <1>4 DEF Send, Breaks

\* Whatever the handler hears, the rest is still lines, and so is what it heard.
LEMMA HearingLines ==
    ASSUME toServer \in Seq(Line), Hears \/ HearsNothing
    PROVE  toServer' \in Seq(Line) /\ (Hears => line \in Line)
BY TailStaysIn, ShortSeqs DEF Hears, HearsNothing, line

\* A failed attempt and a closed connection leave the session unauthenticated
\* and write no OK.
LEMMA FailureKeepsInv ==
    ASSUME TypeOK, NEW fs \in Seq(Frames \ {"OK"}),
           NextAttempt(fs) \/ Breaks(fs) \/ Close(fs)
    PROVE  /\ handler' \in {"choice", "closed"}
           /\ attempt' \in 1..MaxAttempts /\ active' \in BOOLEAN
           /\ username' = username /\ account' = account
           /\ toClient' \in Seq(Frames)
           /\ toClient \in Seq(Frames \ {"OK"}) => toClient' \in Seq(Frames \ {"OK"})
<1>1. /\ handler' \in {"choice", "closed"}
      /\ username' = username /\ account' = account
  BY DEF NextAttempt, Breaks, Close
<1>2. attempt' \in 1..MaxAttempts
  BY DEF NextAttempt, Breaks, Close, TypeOK
<1>3. active' \in BOOLEAN
  <2>1. active' = active \/ active' = FALSE
    BY Zenon DEF NextAttempt, Breaks, Close, SendFails
  <2>2. QED
    BY <2>1, Zenon DEF TypeOK
<1>4. PICK gs \in {<<>>, <<"MENU">>, <<"ERR">>} :
        Delivers(fs \o gs) \/ Breaks(fs \o gs) \/ Close(fs \o gs)
  <2>1. fs \o <<>> = fs
    BY ConcatEmptySeq
  <2>2. QED
    BY <2>1 DEF NextAttempt
<1>5. fs \o gs \in Seq(Frames \ {"OK"}) /\ fs \o gs \in Seq(Frames)
  <2>1. gs \in Seq(Frames \ {"OK"})
    BY <1>4, ShortSeqs DEF Frames
  <2>2. fs \o gs \in Seq(Frames \ {"OK"})
    BY <2>1, ConcatProperties
  <2>3. QED
    BY <2>2, SeqMonotonic
<1>6. toClient' \in Seq(Frames)
  BY <1>4, <1>5, SendStaysIn DEF TypeOK
<1>7. toClient \in Seq(Frames \ {"OK"}) => toClient' \in Seq(Frames \ {"OK"})
  BY <1>4, <1>5, SendStaysIn
<1>8. QED
  BY <1>1, <1>2, <1>3, <1>6, <1>7

\* So a step of the handler that ends in one preserves DialogueInv.
LEMMA FailingStepKeepsInv ==
    ASSUME DialogueInv, NEW fs \in Seq(Frames \ {"OK"}),
           NextAttempt(fs) \/ Breaks(fs) \/ Close(fs), toServer' \in Seq(Line),
           method' \in {"register", "login"},
           UNCHANGED <<accounts, foreign, clientVars>>
    PROVE  DialogueInv'
<1>1. /\ handler' \in {"choice", "closed"} /\ attempt' \in 1..MaxAttempts
      /\ username' = username /\ account' = account /\ active' \in BOOLEAN
      /\ toClient' \in Seq(Frames)
      /\ toClient \in Seq(Frames \ {"OK"}) => toClient' \in Seq(Frames \ {"OK"})
  BY FailureKeepsInv DEF DialogueInv
<1>2. TypeOK'
  BY <1>1 DEF DialogueInv, TypeOK, clientVars
<1>3. OkMeansAuthenticated' /\ NameHeard'
  BY <1>1 DEF DialogueInv, OkMeansAuthenticated, NameHeard, clientVars
<1>4. QED
  BY <1>2, <1>3 DEF DialogueInv

\* The same of a step that asks for the name or the password.
LEMMA AskingStepKeepsInv ==
    ASSUME DialogueInv, NEW f \in Frames \ {"OK"}, Delivers(<<f>>),
           handler' \in {"name", "password"}, method' \in {"register", "login"},
           username' \in Line \cup {NoLine}, NameHeard',
           toServer' \in Seq(Line),
           UNCHANGED <<attempt, account, active, accounts, foreign, clientVars>>
    PROVE  DialogueInv'
<1>1. <<f>> \in Seq(Frames) /\ <<f>> \in Seq(Frames \ {"OK"})
  BY ShortSeqs
<1>2. /\ toClient' \in Seq(Frames)
      /\ toClient \in Seq(Frames \ {"OK"}) => toClient' \in Seq(Frames \ {"OK"})
  BY <1>1, SendStaysIn DEF DialogueInv, TypeOK
<1>3. TypeOK'
  BY <1>2 DEF DialogueInv, TypeOK, clientVars
<1>4. OkMeansAuthenticated'
  BY <1>2 DEF DialogueInv, OkMeansAuthenticated, clientVars
<1>5. QED
  BY <1>3, <1>4 DEF DialogueInv

LEMMA HearChoiceKeepsInv == DialogueInv /\ HearChoice => DialogueInv'
<1> SUFFICES ASSUME DialogueInv, HearChoice PROVE DialogueInv'
  OBVIOUS
<1>1. toServer' \in Seq(Line)
  BY HearingLines DEF HearChoice, DialogueInv, TypeOK
<1>2. /\ <<>> \in Seq(Frames \ {"OK"}) /\ <<"ERR">> \in Seq(Frames \ {"OK"})
      /\ <<"ASK_NAME">> \in Seq(Frames \ {"OK"})
  BY ShortSeqs DEF Frames
<1>3. CASE /\ NextAttempt(<<"ERR">>) \/ Close(<<>>) \/ Breaks(<<"ASK_NAME">>)
           /\ method' \in {"register", "login"}
  BY <1>1, <1>2, <1>3, FailingStepKeepsInv DEF HearChoice
<1>4. CASE /\ handler' = "name" /\ method' \in {"register", "login"}
           /\ Delivers(<<"ASK_NAME">>)
           /\ UNCHANGED <<attempt, username, account, active>>
  <2>1. "ASK_NAME" \in Frames \ {"OK"}
    BY DEF Frames
  <2>2. NameHeard' /\ username' \in Line \cup {NoLine}
    BY <1>4 DEF NameHeard, DialogueInv, TypeOK
  <2>3. QED
    BY <1>1, <1>4, <2>1, <2>2, AskingStepKeepsInv DEF HearChoice
<1>5. method \in {"register", "login"}
  BY DEF DialogueInv, TypeOK
<1>6. QED
  BY <1>3, <1>4, <1>5 DEF HearChoice

LEMMA HearNameKeepsInv == DialogueInv /\ HearName => DialogueInv'
<1> SUFFICES ASSUME DialogueInv, HearName PROVE DialogueInv'
  OBVIOUS
<1>1. toServer' \in Seq(Line) /\ (Hears => line \in Line)
  BY HearingLines DEF HearName, DialogueInv, TypeOK
<1>2. /\ <<>> \in Seq(Frames \ {"OK"}) /\ <<"ERR">> \in Seq(Frames \ {"OK"})
      /\ <<"ASK_PASSWORD">> \in Seq(Frames \ {"OK"})
  BY ShortSeqs DEF Frames
<1>3. method' = method /\ method' \in {"register", "login"}
  BY DEF HearName, DialogueInv, TypeOK
<1>4. CASE NextAttempt(<<"ERR">>) \/ NextAttempt(<<>>) \/ Breaks(<<"ASK_PASSWORD">>)
  BY <1>1, <1>2, <1>3, <1>4, FailingStepKeepsInv DEF HearName
<1>5. CASE /\ Hears /\ (method = "login" \/ validate_username(line))
           /\ handler' = "password" /\ username' = line
           /\ Delivers(<<"ASK_PASSWORD">>)
           /\ UNCHANGED <<attempt, account, active>>
  <2>1. "ASK_PASSWORD" \in Frames \ {"OK"}
    BY DEF Frames
  <2>2. NameHeard' /\ username' \in Line \cup {NoLine}
    BY <1>1, <1>3, <1>5 DEF NameHeard, validate_username, HasColon, Raw
  <2>3. QED
    BY <1>1, <1>3, <1>5, <2>1, <2>2, AskingStepKeepsInv DEF HearName
<1>6. QED
  BY <1>4, <1>5 DEF HearName

\* The step that authenticates: the account is a pair of lines, and what it adds
\* to the store has a name and a password.
LEMMA HearPasswordKeepsInv == DialogueInv /\ HearPassword => DialogueInv'
<1> SUFFICES ASSUME DialogueInv, HearPassword PROVE DialogueInv'
  OBVIOUS
<1>1. toServer' \in Seq(Line) /\ (Hears => line \in Line)
  BY HearingLines DEF HearPassword, DialogueInv, TypeOK
<1>2. <<>> \in Seq(Frames \ {"OK"}) /\ <<"ERR">> \in Seq(Frames \ {"OK"})
  BY ShortSeqs DEF Frames
<1>3. CASE (NextAttempt(<<"ERR">>) \/ NextAttempt(<<>>)) /\ UNCHANGED accounts
  <2>1. method' \in {"register", "login"}
    BY DEF HearPassword, DialogueInv, TypeOK
  <2>2. QED
    BY <1>1, <1>2, <1>3, <2>1, FailingStepKeepsInv DEF HearPassword
<1>4. CASE /\ Hears /\ Authenticated(line)
           /\ \/ accounts' = accounts
              \/ /\ method = "register" /\ validate_password(line)
                 /\ accounts' = accounts \cup {Credentials(username, line)}
  <2>1. \A a \in accounts' : a.name # NoText /\ a.password # NoText
    <3>1. CASE accounts' = accounts
      BY <3>1 DEF DialogueInv, TypeOK
    <3>2. CASE /\ method = "register" /\ validate_password(line)
               /\ accounts' = accounts \cup {Credentials(username, line)}
      <4>1. Raw(username) # NoText
        BY <3>2 DEF HearPassword, DialogueInv, NameHeard, validate_username
      <4>2. Raw(line) # NoText
        BY <3>2 DEF validate_password
      <4>3. QED
        BY <3>2, <4>1, <4>2 DEF Credentials, DialogueInv, TypeOK
    <3>3. QED
      BY <1>4, <3>1, <3>2
  <2>2. username \in Line
    BY DEF HearPassword, DialogueInv, NameHeard
  <2>3. account' \in [name : Line, password : Line]
    BY <1>1, <1>4, <2>2 DEF Authenticated
  <2>4. account' # NoLine
    BY <1>4, AccountIsNoLine DEF Authenticated
  <2>5. TypeOK'
    BY <1>1, <1>4, <2>1, <2>2, <2>3
       DEF Authenticated, HearPassword, DialogueInv, TypeOK, clientVars
  <2>6. QED
    BY <1>4, <2>4, <2>5
       DEF Authenticated, DialogueInv, OkMeansAuthenticated, NameHeard
<1>5. QED
  BY <1>3, <1>4 DEF HearPassword, Register, Login

\* Whatever is written to an authenticated session, the account stays.
LEMMA ListedStepKeepsInv ==
    ASSUME DialogueInv, handler \in {"listed", "banner", "chat"},
           handler' \in {"listed", "banner", "chat", "closed"},
           NEW fs \in Seq(Frames), Send(fs) \/ Close(fs), toServer' \in Seq(Line),
           foreign' \in 0..MaxForeign,
           UNCHANGED <<method, attempt, username, account, accounts, clientVars>>
    PROVE  DialogueInv'
<1>1. toClient' \in Seq(Frames)
  BY SendStaysIn DEF DialogueInv, TypeOK
<1>2. active' \in BOOLEAN
  <2>1. active' = active \/ active' = FALSE
    BY Zenon DEF Send, SendFails, Close
  <2>2. QED
    BY <2>1, Zenon DEF DialogueInv, TypeOK
<1>3. TypeOK'
  BY <1>1, <1>2 DEF DialogueInv, TypeOK, clientVars
<1>4. OkMeansAuthenticated' /\ NameHeard'
  BY DEF DialogueInv, OkMeansAuthenticated, NameHeard
<1>5. QED
  BY <1>3, <1>4 DEF DialogueInv

LEMMA ListedHandlerKeepsInv ==
    DialogueInv /\ (SendOk \/ SendBanner \/ HearChat \/ ForeignFrame) => DialogueInv'
<1> SUFFICES ASSUME DialogueInv, SendOk \/ SendBanner \/ HearChat \/ ForeignFrame
             PROVE  DialogueInv'
  OBVIOUS
<1>1. /\ <<>> \in Seq(Frames) /\ <<"OK">> \in Seq(Frames) /\ <<"ERR">> \in Seq(Frames)
      /\ <<"BCAST">> \in Seq(Frames) /\ <<"BANNER", "COMMANDS">> \in Seq(Frames)
  BY ShortSeqs DEF Frames
<1>2. toServer \in Seq(Line) /\ toClient \in Seq(Frames) /\ foreign \in 0..MaxForeign
  BY DEF DialogueInv, TypeOK
<1>3. CASE SendOk
  BY <1>1, <1>2, <1>3, ListedStepKeepsInv DEF SendOk
<1>4. CASE SendBanner
  BY <1>1, <1>2, <1>4, ListedStepKeepsInv DEF SendBanner
<1>5. CASE HearChat
  <2>1. toServer' \in Seq(Line)
    BY <1>2, <1>5, HearingLines DEF HearChat
  <2>2. CASE Close(<<>>) \/ Close(<<"OK">>)
    BY <1>1, <1>2, <1>5, <2>1, <2>2, ListedStepKeepsInv DEF HearChat, Close
  <2>3. CASE /\ \E answer \in {"OK", "ERR"} : Send(<<answer>>)
             /\ UNCHANGED <<handler, attempt, username, account>>
    BY <1>1, <1>2, <1>5, <2>1, <2>3, ListedStepKeepsInv DEF HearChat
  <2>4. CASE UNCHANGED <<toClient, handler, attempt, username, account, active>>
    BY <1>5, <2>1, <2>4
       DEF HearChat, DialogueInv, TypeOK, OkMeansAuthenticated, NameHeard, clientVars
  <2>5. QED
    BY <1>5, <2>2, <2>3, <2>4 DEF HearChat
<1>6. CASE ForeignFrame
  <2>1. foreign' \in 0..MaxForeign
    BY <1>2, <1>6 DEF ForeignFrame
  <2>2. QED
    BY <1>1, <1>2, <1>6, <2>1, ListedStepKeepsInv DEF ForeignFrame
<1>7. QED
  BY <1>3, <1>4, <1>5, <1>6

\* The client, its user and the connection: frames are only taken away, and the
\* client comes to believe no more than the frame it reads says.
LEMMA ClientSideKeepsInv ==
    ASSUME DialogueInv, toServer' \in Seq(Line),
           \A S : toClient \in Seq(S) => toClient' \in Seq(S),
           client' \in {"menu", "choosing", "prompt1", "naming", "prompt2", "secret",
                        "response", "banner", "chat", "ended"},
           eof' \in BOOLEAN, believes' \in BOOLEAN, blank' \in BOOLEAN,
           typed' \in 0..MaxTyped,
           believes' => believes \/ account # NoLine,
           UNCHANGED handlerVars
    PROVE  DialogueInv'
<1>1. toClient' \in Seq(Frames)
  BY DEF DialogueInv, TypeOK
<1>2. /\ UNCHANGED <<handler, method, attempt, username, account, active, accounts, foreign>>
  BY DEF handlerVars
<1>3. TypeOK'
  BY <1>1, <1>2 DEF DialogueInv, TypeOK
<1>4. OkMeansAuthenticated'
  BY <1>2 DEF DialogueInv, OkMeansAuthenticated
<1>5. NameHeard'
  BY <1>2 DEF DialogueInv, NameHeard
<1>6. QED
  BY <1>3, <1>4, <1>5 DEF DialogueInv

\* Reading takes the first frame away.
LEMMA ReadsFrame ==
    ASSUME toClient \in Seq(Frames), Reads
    PROVE  /\ \A S : toClient \in Seq(S) => toClient' \in Seq(S)
           /\ \A S : toClient \in Seq(S) => frame \in S \cup {"none"}
<1>1. CASE toClient # <<>> /\ toClient' = Tail(toClient)
  BY <1>1, TailStaysIn DEF frame
<1>2. CASE toClient = <<>> /\ UNCHANGED toClient
  BY <1>2 DEF frame
<1>3. QED
  BY <1>1, <1>2 DEF Reads

LEMMA ClientStepKeepsInv == DialogueInv /\ ClientStep => DialogueInv'
<1> SUFFICES ASSUME DialogueInv, ClientStep PROVE DialogueInv'
  OBVIOUS
<1> USE DEF ClientGoes
<1>1. /\ toServer \in Seq(Line) /\ toClient \in Seq(Frames) /\ typed \in 0..MaxTyped
      /\ eof \in BOOLEAN /\ believes \in BOOLEAN /\ blank \in BOOLEAN
  BY DEF DialogueInv, TypeOK
<1>2. CASE ReadResponse
  <2>1. /\ \A S : toClient \in Seq(S) => toClient' \in Seq(S)
        /\ \A S : toClient \in Seq(S) => frame \in S \cup {"none"}
    BY <1>1, <1>2, ReadsFrame DEF ReadResponse
  <2>2. believes' \in BOOLEAN /\ (believes' <=> frame = "OK")
    BY <1>2, Zenon DEF ReadResponse
  <2>3. frame = "OK" => account # NoLine
    <3>1. ASSUME account = NoLine PROVE frame \in (Frames \ {"OK"}) \cup {"none"}
      BY <2>1, <3>1 DEF DialogueInv, OkMeansAuthenticated
    <3>2. QED
      BY <3>1
  <2>4. client' \in {"banner", "menu"}
    BY <1>2 DEF ReadResponse
  <2>5. UNCHANGED <<toServer, handlerVars, eof, typed, blank>>
    BY <1>2 DEF ReadResponse
  <2>6. QED
    BY <1>1, <2>1, <2>2, <2>3, <2>4, <2>5, ClientSideKeepsInv
<1>3. CASE AuthLoop \/ ShowPrompt \/ ReadBanner
  <2>1. \A S : toClient \in Seq(S) => toClient' \in Seq(S)
    BY <1>1, <1>3, ReadsFrame DEF AuthLoop, ShowPrompt, ReadBanner
  <2>2. client' \in {"ended", "choosing", "naming", "secret", "chat"}
    BY <1>3 DEF AuthLoop, ShowPrompt, ReadBanner
  <2>3. UNCHANGED <<toServer, handlerVars, eof, believes, typed, blank>>
    BY <1>3 DEF AuthLoop, ShowPrompt, ReadBanner
  <2>4. QED
    BY <1>1, <2>1, <2>2, <2>3, ClientSideKeepsInv
<1>4. CASE RecvLoop
  <2>1. \A S : toClient \in Seq(S) => toClient' \in Seq(S)
    BY <1>4, TailStaysIn DEF RecvLoop
  <2>2. client' = "chat" /\ UNCHANGED <<toServer, handlerVars, eof, believes, typed, blank>>
    BY <1>4 DEF RecvLoop, clientVars
  <2>3. QED
    BY <1>1, <2>1, <2>2, ClientSideKeepsInv
<1>5. QED
  BY <1>2, <1>3, <1>4 DEF ClientStep

\* A line the user types is a line.
LEMMA TypingLines ==
    ASSUME TypeOK, NEW prompt \in {"menu", "name", "password", "chat"},
           NEW tag \in {"none", "CHOICE", "MSG", "EXIT"},
           NEW text \in Choice \cup Name \cup Password \cup {WithColon} \cup Text,
           toServer' = IF handler = "closed" THEN toServer
                       ELSE Append(toServer, [tag |-> tag, text |-> text, prompt |-> prompt])
    PROVE  toServer' \in Seq(Line)
<1>1. [tag |-> tag, text |-> text, prompt |-> prompt] \in Line
  BY DEF Line
<1>2. QED
  BY <1>1, AppendStaysIn DEF TypeOK

LEMMA UserStepKeepsInv == DialogueInv /\ UserStep => DialogueInv'
<1> SUFFICES ASSUME DialogueInv, UserStep PROVE DialogueInv'
  OBVIOUS
<1> USE DEF ClientGoes
<1>1. /\ TypeOK /\ toServer \in Seq(Line) /\ typed \in 0..MaxTyped
      /\ eof \in BOOLEAN /\ believes \in BOOLEAN /\ blank \in BOOLEAN
  BY DEF DialogueInv, TypeOK
<1>2. \A S : toClient' \in {toClient, <<>>} /\ toClient \in Seq(S) => toClient' \in Seq(S)
  BY ShortSeqs
<1>3. ASSUME NEW prompt \in {"menu", "name", "password", "chat"},
             NEW tag \in {"none", "CHOICE", "MSG"},
             NEW text \in Choice \cup Name \cup Password \cup {WithColon} \cup Text,
             Types(prompt, tag, text), blank' \in BOOLEAN,
             client' \in {"prompt1", "menu", "prompt2", "response", "chat"}
      PROVE  DialogueInv'
  <2>1. toServer' \in Seq(Line)
    BY <1>1, <1>3, TypingLines DEF Types
  <2>2. typed' \in 0..MaxTyped
    BY <1>1, <1>3 DEF Types
  <2>3. UNCHANGED <<toClient, handlerVars, eof, believes>>
    BY <1>3 DEF Types
  <2>4. QED
    BY <1>1, <1>2, <1>3, <2>1, <2>2, <2>3, ClientSideKeepsInv
<1>4. CASE TypeChoice
  <2>1. PICK text \in Choice : TypeChoice!(text)
    BY <1>4 DEF TypeChoice
  <2>2. blank' \in BOOLEAN
    BY <2>1, Zenon
  <2>3. QED
    BY <1>3, <2>1, <2>2
<1>5. CASE TypeName
  BY <1>1, <1>3, <1>5 DEF TypeName, Choice
<1>6. CASE TypePassword
  BY <1>1, <1>3, <1>6 DEF TypePassword, Choice
<1>7. CASE TypeText
  BY <1>1, <1>3, <1>7 DEF TypeText
<1>8. CASE TypeExit
  <2>1. toServer' \in Seq(Line)
    BY <1>1, <1>8, TypingLines DEF TypeExit, Choice
  <2>2. typed' \in 0..MaxTyped /\ client' = "ended" /\ toClient' = <<>>
    BY <1>1, <1>8 DEF TypeExit
  <2>3. UNCHANGED <<handlerVars, eof, believes, blank>>
    BY <1>8 DEF TypeExit
  <2>4. QED
    BY <1>1, <1>2, <2>1, <2>2, <2>3, ClientSideKeepsInv
<1>9. CASE EndOfInput
  <2>1. client' \in {"banner", "menu", "ended"} /\ toClient' \in {toClient, <<>>}
    BY <1>9 DEF EndOfInput
  <2>2. eof' \in BOOLEAN /\ UNCHANGED <<toServer, handlerVars, believes, typed, blank>>
    BY <1>9 DEF EndOfInput
  <2>3. QED
    BY <1>1, <1>2, <2>1, <2>2, ClientSideKeepsInv
<1>10. QED
  BY <1>4, <1>5, <1>6, <1>7, <1>8, <1>9 DEF UserStep

LEMMA ResetKeepsInv == DialogueInv /\ Reset => DialogueInv'
<1> SUFFICES ASSUME DialogueInv, Reset PROVE DialogueInv'
  OBVIOUS
<1>1. PICK n \in 0..Len(toClient) : toClient' = SubSeq(toClient, 1, n)
  BY DEF Reset
<1>2. \A S : toClient \in Seq(S) => toClient' \in Seq(S)
  BY <1>1, PrefixStaysIn
<1>3. toServer' \in Seq(Line)
  BY ShortSeqs DEF Reset
<1>4. UNCHANGED <<handlerVars, client, eof, believes, typed, blank>>
  BY DEF Reset, clientVars
<1>5. QED
  BY <1>2, <1>3, <1>4, ClientSideKeepsInv DEF DialogueInv, TypeOK

\* Every step of either side, of another handler and of the connection
\* preserves DialogueInv.
LEMMA StepPreservesInv == DialogueInv /\ [Next]_vars => DialogueInv'
<1>1. DialogueInv /\ HandlerStep => DialogueInv'
  BY HearChoiceKeepsInv, HearNameKeepsInv, HearPasswordKeepsInv, ListedHandlerKeepsInv
     DEF HandlerStep
<1>2. DialogueInv /\ UNCHANGED vars => DialogueInv'
  BY DEF vars, handlerVars, clientVars, DialogueInv, TypeOK, OkMeansAuthenticated,
         NameHeard
<1>3. QED
  BY <1>1, <1>2, ListedHandlerKeepsInv, ResetKeepsInv, ClientStepKeepsInv,
     UserStepKeepsInv DEF Next, Finished

\* The inductive invariant of the dialogue (client.cpp, client_handler.cpp).
THEOREM DialogueInvariant == Spec => []DialogueInv
BY InitEstablishesInv, StepPreservesInv, PTL DEF Spec

\* Lines, frames and both programs' places are what they should be, and the
\* attempts keep their bound (try_authenticate).
THEOREM DialogueTypeCorrect == Spec => []TypeOK
<1>1. DialogueInv => TypeOK
  BY DEF DialogueInv
<1>2. QED
  BY <1>1, DialogueInvariant, PTL

\* A client that takes itself for authenticated is (do_register, do_login).
THEOREM BelieversAreAuthenticated == Spec => []BelieversAuthenticated
<1>1. DialogueInv => BelieversAuthenticated
  BY DEF DialogueInv, OkMeansAuthenticated, BelieversAuthenticated
<1>2. QED
  BY <1>1, DialogueInvariant, PTL

-----------------------------------------------------------------------------
(* The order of the lines.                                                 *)

\* In the beginning there are none.
LEMMA InitEstablishesTurns == Init => LinesInTurn /\ CredentialsAsTyped
<1> SUFFICES ASSUME Init PROVE LinesInTurn /\ CredentialsAsTyped
  OBVIOUS
<1>1. account = NoLine
  BY Zenon DEF Init
<1>2. toServer = <<>> /\ handler = "choice" /\ client = "menu"
  BY DEF Init
<1>3. Len(toServer) = 0
  BY <1>2
<1>4. InOrder
  BY <1>3 DEF InOrder
<1>5. QED
  BY <1>1, <1>2, <1>4 DEF LinesInTurn, CredentialsAsTyped

\* What is left when a line has been heard is in order.
LEMMA RestInOrder ==
    ASSUME toServer \in Seq(Line), InOrder, UNCHANGED clientVars,
           \/ toServer # <<>> /\ toServer' = Tail(toServer)
           \/ UNCHANGED toServer
           \/ toServer' = <<>>
    PROVE  InOrder'
<1> USE DEF clientVars
<1>1. CASE toServer # <<>> /\ toServer' = Tail(toServer)
  <2>1. /\ Len(toServer) \in Nat /\ Len(toServer') = Len(toServer) - 1
        /\ \A i \in 1..Len(toServer') : toServer'[i] = toServer[i + 1]
    BY <1>1, HeadTailProperties
  <2>2. ASSUME NEW i \in 1..Len(toServer')
        PROVE  /\ AsTyped(toServer[i + 1])
               /\ IF i < Len(toServer') THEN InTurn(toServer[i + 1], toServer[i + 2])
                  ELSE LastTyped(toServer[i + 1])
    <3>1. i + 1 \in 1..Len(toServer) /\ (i < Len(toServer') <=> i + 1 < Len(toServer))
          /\ (i + 1) + 1 = i + 2
      BY <2>1
    <3>2. QED
      BY <3>1 DEF InOrder
  <2>3. ASSUME NEW i \in 1..Len(toServer')
        PROVE  /\ AsTyped(toServer[i])'
               /\ IF i < Len(toServer') THEN InTurn(toServer[i], toServer[i + 1])'
                  ELSE LastTyped(toServer[i])'
    <3>1. i < Len(toServer') => i + 1 \in 1..Len(toServer') /\ (i + 1) + 1 = i + 2
      BY <2>1
    <3>2. QED
      BY <2>1, <2>2, <3>1 DEF AsTyped, InTurn, LastTyped
  <2>4. QED
    BY <2>3 DEF InOrder
<1>2. CASE UNCHANGED toServer
  BY <1>2 DEF InOrder, AsTyped, LastTyped
<1>3. CASE toServer' = <<>>
  <2>1. Len(toServer') = 0
    BY <1>3
  <2>2. QED
    BY <2>1 DEF InOrder
<1>4. QED
  BY <1>1, <1>2, <1>3

\* A handler that goes back to the menu, or closes.
LEMMA FailureKeepsTurns ==
    ASSUME DialogueInv, LinesInTurn, Trying, NEW fs,
           NextAttempt(fs) \/ Breaks(fs) \/ Close(fs),
           UNCHANGED clientVars,
           \/ toServer # <<>> /\ toServer' = Tail(toServer)
           \/ UNCHANGED toServer
           \/ toServer' = <<>>
    PROVE  LinesInTurn' /\ account' = account
<1>1. InOrder'
  BY RestInOrder DEF LinesInTurn, DialogueInv, TypeOK
<1>2. handler' \in {"choice", "closed"} /\ account' = account
  BY DEF NextAttempt, Breaks, Close
<1>3. QED
  BY <1>1, <1>2 DEF LinesInTurn, Trying, clientVars

\* What the handler reads next.
LEMMA Listening ==
    ASSUME Hears \/ HearsNothing
    PROVE  \/ toServer # <<>> /\ toServer' = Tail(toServer)
           \/ UNCHANGED toServer
           \/ toServer' = <<>>
BY DEF Hears, HearsNothing

LEMMA HearChoiceKeepsTurns ==
    ASSUME DialogueInv, LinesInTurn, HearChoice
    PROVE  LinesInTurn' /\ account' = account
<1>1. Trying /\ UNCHANGED clientVars
  BY DEF HearChoice, Trying
<1>2. \/ toServer # <<>> /\ toServer' = Tail(toServer)
      \/ UNCHANGED toServer
      \/ toServer' = <<>>
  BY Listening DEF HearChoice
<1>3. CASE NextAttempt(<<"ERR">>) \/ Close(<<>>) \/ Breaks(<<"ASK_NAME">>)
  BY <1>1, <1>2, <1>3, FailureKeepsTurns
<1>4. CASE handler' = "name" /\ account' = account
  <2>1. InOrder'
    BY <1>1, <1>2, RestInOrder DEF LinesInTurn, DialogueInv, TypeOK
  <2>2. QED
    BY <1>1, <1>4, <2>1 DEF LinesInTurn, clientVars
<1>5. QED
  BY <1>3, <1>4 DEF HearChoice

\* The line taken for the name, and the rest.
LEMMA HearNameKeepsTurns ==
    ASSUME DialogueInv, LinesInTurn, HearName
    PROVE  LinesInTurn' /\ account' = account
<1>1. Trying /\ UNCHANGED clientVars
  BY DEF HearName, Trying
<1>2. \/ toServer # <<>> /\ toServer' = Tail(toServer)
      \/ UNCHANGED toServer
      \/ toServer' = <<>>
  BY Listening DEF HearName
<1>3. CASE NextAttempt(<<"ERR">>) \/ NextAttempt(<<>>) \/ Breaks(<<"ASK_PASSWORD">>)
  BY <1>1, <1>2, <1>3, FailureKeepsTurns
<1>4. CASE Hears /\ username' = line /\ account' = account
  <2>1. toServer # <<>> /\ toServer' = Tail(toServer) /\ toServer \in Seq(Line)
    BY <1>4 DEF Hears, DialogueInv, TypeOK
  <2>2. InOrder'
    BY <1>1, <2>1, RestInOrder DEF LinesInTurn
  <2>3. /\ line = toServer[1] /\ Len(toServer) \in Nat \ {0}
        /\ toServer' = <<>> <=> Len(toServer) = 1
        /\ toServer' # <<>> => toServer'[1] = toServer[2] /\ 1 < Len(toServer)
    <3>1. /\ Len(toServer) \in Nat \ {0} /\ Len(toServer') = Len(toServer) - 1
          /\ toServer' \in Seq(Line)
          /\ \A i \in 1..Len(toServer') : toServer'[i] = toServer[i + 1]
      BY <2>1, HeadTailProperties, EmptySeq
    <3>2. toServer' = <<>> <=> Len(toServer') = 0
      BY <3>1, EmptySeq
    <3>3. QED
      BY <2>1, <3>1, <3>2 DEF line
  <2>4. /\ AsTyped(toServer[1])
        /\ IF 1 < Len(toServer) THEN InTurn(toServer[1], toServer[2])
           ELSE LastTyped(toServer[1])
    <3>1. 1 \in 1..Len(toServer) /\ 1 + 1 = 2
      BY <2>3
    <3>2. QED
      BY <1>1, <3>1 DEF LinesInTurn, InOrder
  <2>5. NameInTurn'
    BY <1>1, <1>4, <2>3, <2>4 DEF NameInTurn, AsTyped, InTurn, LastTyped, clientVars
  <2>6. QED
    BY <1>1, <1>4, <2>2, <2>5 DEF LinesInTurn, clientVars
<1>5. QED
  BY <1>3, <1>4 DEF HearName

\* The step that authenticates.  A name and a password have no colon, so neither
\* was typed as a choice, and of two lines in turn the second is the password.
LEMMA HearPasswordKeepsTurns ==
    ASSUME DialogueInv, LinesInTurn, HearPassword
    PROVE  LinesInTurn' /\ (account' = account \/ CredentialsAsTyped')
<1>1. Trying /\ handler = "password" /\ UNCHANGED clientVars
  BY DEF HearPassword, Trying
<1>2. \/ toServer # <<>> /\ toServer' = Tail(toServer)
      \/ UNCHANGED toServer
      \/ toServer' = <<>>
  BY Listening DEF HearPassword
<1>3. CASE NextAttempt(<<"ERR">>) \/ NextAttempt(<<>>)
  BY <1>1, <1>2, <1>3, FailureKeepsTurns
<1>4. CASE /\ Hears /\ Authenticated(line)
           /\ ~HasColon(username) /\ ~HasColon(line)
  <2>1. LinesInTurn'
    BY <1>4 DEF Authenticated, LinesInTurn, Trying
  <2>2. toServer # <<>> /\ line = toServer[1] /\ 1 \in 1..Len(toServer)
    BY <1>4 DEF Hears, line, DialogueInv, TypeOK
  <2>3. /\ AsTyped(username) /\ InTurn(username, line) /\ AsTyped(line)
    BY <1>1, <2>2 DEF LinesInTurn, NameInTurn, InOrder
  <2>4. ~blank => username.prompt # "menu" /\ line.prompt # "menu"
    BY <1>4, <2>3 DEF AsTyped, HasColon
  <2>5. ~blank => username.prompt = "name" /\ line.prompt = "password"
    BY <2>3, <2>4 DEF InTurn
  <2>6. account'.name = username /\ account'.password = line /\ blank' = blank
    BY <1>1, <1>4 DEF Authenticated, clientVars
  <2>7. QED
    BY <2>1, <2>5, <2>6 DEF CredentialsAsTyped
<1>5. method = "register" => ~HasColon(username)
  BY <1>1 DEF DialogueInv, NameHeard, validate_username
<1>6. QED
  BY <1>3, <1>4, <1>5 DEF HearPassword, Register, Login, validate_password, Matches

\* Once the session is authenticated, or the connection closed, nothing is asked
\* of the lines any more.
LEMMA ListedKeepsTurns ==
    ASSUME SendOk \/ SendBanner \/ HearChat \/ ForeignFrame
    PROVE  LinesInTurn' /\ account' = account
<1>1. ~Trying' /\ account' = account
  BY DEF SendOk, SendBanner, HearChat, ForeignFrame, Close, Trying
<1>2. QED
  BY <1>1 DEF LinesInTurn

LEMMA ResetKeepsTurns ==
    ASSUME Reset
    PROVE  LinesInTurn' /\ account' = account /\ blank' = blank
<1>1. ~Trying' /\ account' = account /\ blank' = blank
  BY DEF Reset, Trying, handlerVars, clientVars
<1>2. QED
  BY <1>1 DEF LinesInTurn

\* The client reads a frame and goes on to its next prompt.
LEMMA MovingKeepsTurns ==
    ASSUME LinesInTurn, UNCHANGED <<toServer, handlerVars, blank>>,
           Trying => /\ eof => eof'
                     /\ client' \in {"banner", "chat", "ended"} => eof'
                     /\ \/ eof' \/ client' = client
                        \/ client = "menu" /\ client' = "choosing"
                        \/ client = "prompt1" /\ client' = "naming"
                        \/ client = "prompt2" /\ client' = "secret"
                        \/ client = "response" /\ client' = "menu"
    PROVE  LinesInTurn'
<1>1. SUFFICES ASSUME Trying PROVE LinesInTurn'
  BY DEF LinesInTurn, Trying, handlerVars
<1>2. ASSUME NEW l, LastTyped(l)
      PROVE  \/ eof'
             \/ l.prompt = "menu" /\ client' \in {"prompt1", "naming", "menu", "choosing"}
             \/ l.prompt = "name" /\ client' \in {"prompt2", "secret"}
             \/ l.prompt = "password" /\ client' \in {"response", "menu", "choosing"}
  BY <1>1, <1>2 DEF LastTyped
<1>3. InOrder'
  BY <1>1, <1>2 DEF LinesInTurn, InOrder, AsTyped, InTurn, LastTyped
<1>4. handler = "password" => NameInTurn'
  BY <1>1, <1>2 DEF LinesInTurn, NameInTurn, AsTyped, InTurn, LastTyped, handlerVars
<1>5. QED
  BY <1>1, <1>3, <1>4 DEF LinesInTurn, handlerVars

LEMMA ClientStepKeepsTurns ==
    ASSUME DialogueInv, LinesInTurn, ClientStep
    PROVE  LinesInTurn' /\ account' = account /\ blank' = blank
<1> USE DEF ClientGoes
<1>1. toClient \in Seq(Frames) /\ UNCHANGED <<toServer, handlerVars, blank, eof>>
  BY DEF DialogueInv, TypeOK, ClientStep, AuthLoop, ShowPrompt, ReadResponse, ReadBanner,
         RecvLoop, clientVars
<1>2. CASE AuthLoop
  <2>1. Trying => frame # "none"
    BY <1>1, <1>2, TailStaysIn DEF AuthLoop, Reads, Trying, frame, Frames
  <2>2. QED
    BY <1>1, <1>2, <2>1, MovingKeepsTurns DEF AuthLoop, handlerVars
<1>3. CASE ShowPrompt \/ RecvLoop
  BY <1>1, <1>3, MovingKeepsTurns DEF ShowPrompt, RecvLoop, LinesInTurn, handlerVars, clientVars
<1>4. CASE ReadResponse
  <2>1. Trying => frame # "OK"
    <3>1. SUFFICES ASSUME Trying PROVE frame # "OK"
      OBVIOUS
    <3>2. toClient \in Seq(Frames \ {"OK"})
      BY <3>1 DEF LinesInTurn, DialogueInv, OkMeansAuthenticated
    <3>3. frame \in (Frames \ {"OK"}) \cup {"none"}
      BY <3>2, TailStaysIn DEF frame
    <3>4. QED
      BY <3>3
  <2>2. QED
    BY <1>1, <1>4, <2>1, MovingKeepsTurns DEF ReadResponse, handlerVars
<1>5. CASE ReadBanner
  BY <1>1, <1>5, MovingKeepsTurns DEF ReadBanner, LinesInTurn, handlerVars
<1>6. QED
  BY <1>2, <1>3, <1>4, <1>5 DEF ClientStep

\* The user types the next line, which is in turn after the last one.
LEMMA TypingKeepsTurns ==
    ASSUME DialogueInv, LinesInTurn,
           NEW prompt, NEW tag, NEW text, Types(prompt, tag, text),
           blank => blank', client' \notin {"banner", "chat", "ended"},
           LET l == [tag |-> tag, text |-> text, prompt |-> prompt]
           IN  /\ AsTyped(l)' /\ LastTyped(l)'
               /\ \A last : LastTyped(last) => InTurn(last, l)
    PROVE  LinesInTurn'
<1> DEFINE l == [tag |-> tag, text |-> text, prompt |-> prompt]
<1>1. SUFFICES ASSUME Trying PROVE LinesInTurn'
  BY DEF LinesInTurn, Trying, Types, handlerVars
<1>2. /\ toServer' = Append(toServer, l) /\ toServer \in Seq(Line)
      /\ UNCHANGED <<handler, account, username, eof>> /\ Len(toServer) \in Nat
  BY <1>1 DEF Types, Trying, handlerVars, DialogueInv, TypeOK
<1>3. /\ Len(toServer') = Len(toServer) + 1
      /\ \A i \in 1..Len(toServer) : toServer'[i] = toServer[i]
      /\ toServer'[Len(toServer) + 1] = l /\ toServer' # <<>>
  BY <1>2
<1>4. AsTyped(l)' /\ LastTyped(l)' /\ \A last : LastTyped(last) => InTurn(last, l)
  OBVIOUS
<1> HIDE DEF l
<1>5. \A k : AsTyped(k) => AsTyped(k)'
  BY DEF AsTyped
<1>6. ASSUME NEW i \in 1..Len(toServer')
      PROVE  /\ AsTyped(toServer[i])'
             /\ IF i < Len(toServer') THEN InTurn(toServer[i], toServer[i + 1])'
                ELSE LastTyped(toServer[i])'
  <2>1. CASE i = Len(toServer) + 1
    BY <1>2, <1>3, <1>4, <2>1
  <2>2. CASE i \in 1..Len(toServer)
    <3>1. AsTyped(toServer[i])
      BY <1>1, <2>2 DEF LinesInTurn, InOrder
    <3>2. AsTyped(toServer[i])'
      BY <1>3, <1>5, <2>2, <3>1
    <3>3. IF i < Len(toServer) THEN InTurn(toServer[i], toServer[i + 1])
          ELSE LastTyped(toServer[i])
      BY <1>1, <2>2 DEF LinesInTurn, InOrder
    <3>4. InTurn(toServer[i], toServer'[i + 1])
      <4>1. CASE i < Len(toServer)
        BY <1>2, <1>3, <2>2, <3>3, <4>1
      <4>2. CASE i = Len(toServer)
        BY <1>2, <1>3, <1>4, <3>3, <4>2
      <4>3. QED
        BY <1>2, <2>2, <4>1, <4>2
    <3>5. QED
      BY <1>2, <1>3, <2>2, <3>2, <3>4 DEF InTurn
  <2>3. QED
    BY <1>2, <1>3, <2>1, <2>2
<1>7. InOrder'
  BY <1>6 DEF InOrder
<1>8. handler = "password" => NameInTurn'
  <2>1. SUFFICES ASSUME handler = "password" PROVE NameInTurn'
    OBVIOUS
  <2>2. AsTyped(username)' /\ (toServer = <<>> => LastTyped(username))
        /\ (toServer # <<>> => InTurn(username, toServer[1]))
    BY <1>1, <1>2, <1>5, <2>1 DEF LinesInTurn, NameInTurn
  <2>3. InTurn(username, toServer'[1])
    <3>1. CASE toServer = <<>>
      BY <1>3, <1>4, <2>2, <3>1
    <3>2. CASE toServer # <<>>
      <4>1. 1 \in 1..Len(toServer)
        BY <1>2, <3>2, EmptySeq
      <4>2. QED
        BY <1>3, <2>2, <3>2, <4>1
    <3>3. QED
      BY <3>1, <3>2
  <2>4. QED
    BY <1>2, <1>3, <2>2, <2>3 DEF NameInTurn, InTurn
<1>9. QED
  BY <1>1, <1>2, <1>7, <1>8 DEF LinesInTurn

LEMMA UserStepKeepsTurns ==
    ASSUME DialogueInv, LinesInTurn, UserStep
    PROVE  LinesInTurn' /\ account' = account /\ (blank => blank')
<1> USE DEF ClientGoes
<1>1. account' = account /\ (blank => blank')
  <2>1. CASE TypeChoice
    BY <2>1, Zenon DEF TypeChoice, Types, handlerVars
  <2>2. CASE TypeName \/ TypePassword \/ TypeText \/ TypeExit \/ EndOfInput
    <3>1. account' = account
      BY <2>2 DEF TypeName, TypePassword, TypeText, TypeExit, EndOfInput, Types, handlerVars
    <3>2. blank' = blank
      BY <2>2 DEF TypeName, TypePassword, TypeText, TypeExit, EndOfInput
    <3>3. QED
      BY <3>1, <3>2, Zenon
  <2>3. QED
    BY <2>1, <2>2 DEF UserStep
<1>2. CASE TypeChoice
  <2>1. PICK text \in Choice : TypeChoice!(text)
    BY <1>2 DEF TypeChoice
  <2> DEFINE l == [tag |-> "CHOICE", text |-> text, prompt |-> "menu"]
  <2>2. client = "choosing" /\ client' \in {"prompt1", "menu"} /\ ~eof
        /\ Types("menu", "CHOICE", text)
    BY <2>1 DEF Types
  <2>3. text = NoText => blank'
    BY <2>1, Zenon
  <2>4. AsTyped(l)' /\ LastTyped(l)'
    BY <2>2, <2>3 DEF AsTyped, LastTyped
  <2>5. \A last : LastTyped(last) => InTurn(last, l)
    BY <2>2 DEF LastTyped, InTurn
  <2>6. QED
    BY <1>1, <2>2, <2>4, <2>5, TypingKeepsTurns
<1>3. CASE TypeName
  <2>1. PICK text \in Name \cup {WithColon, NoText} : Types("name", "none", text)
    BY <1>3 DEF TypeName
  <2> DEFINE l == [tag |-> "none", text |-> text, prompt |-> "name"]
  <2>2. client = "naming" /\ client' = "prompt2" /\ ~eof
    BY <1>3, <2>1 DEF TypeName, Types
  <2>3. AsTyped(l)' /\ LastTyped(l)' /\ \A last : LastTyped(last) => InTurn(last, l)
    BY <2>2 DEF AsTyped, LastTyped, InTurn
  <2>4. QED
    BY <1>1, <2>1, <2>2, <2>3, TypingKeepsTurns
<1>4. CASE TypePassword
  <2>1. PICK text \in Password \cup {WithColon, NoText} : Types("password", "none", text)
    BY <1>4 DEF TypePassword
  <2> DEFINE l == [tag |-> "none", text |-> text, prompt |-> "password"]
  <2>2. client = "secret" /\ client' = "response" /\ ~eof
    BY <1>4, <2>1 DEF TypePassword, Types
  <2>3. AsTyped(l)' /\ LastTyped(l)' /\ \A last : LastTyped(last) => InTurn(last, l)
    BY <2>2 DEF AsTyped, LastTyped, InTurn
  <2>4. QED
    BY <1>1, <2>1, <2>2, <2>3, TypingKeepsTurns
<1>5. CASE TypeText \/ TypeExit
  <2>1. client = "chat" /\ ~eof /\ handler' = handler
    BY <1>5 DEF TypeText, TypeExit, Types, handlerVars
  <2>2. ~Trying'
    BY <2>1 DEF LinesInTurn, Trying
  <2>3. QED
    BY <1>1, <2>2 DEF LinesInTurn
<1>6. CASE EndOfInput
  <2>1. eof' /\ UNCHANGED <<toServer, handlerVars, blank>>
    BY <1>6 DEF EndOfInput
  <2>2. QED
    BY <1>1, <2>1, MovingKeepsTurns
<1>7. QED
  BY <1>2, <1>3, <1>4, <1>5, <1>6 DEF UserStep

LEMMA StepKeepsTurns ==
    ASSUME DialogueInv, LinesInTurn, CredentialsAsTyped, [Next]_vars
    PROVE  LinesInTurn' /\ CredentialsAsTyped'
<1>1. ASSUME account' = account, blank => blank' PROVE CredentialsAsTyped'
  BY <1>1 DEF CredentialsAsTyped
<1>2. CASE HearPassword
  BY <1>1, <1>2, HearPasswordKeepsTurns DEF HearPassword, clientVars
<1>3. CASE HearChoice \/ HearName \/ SendOk \/ SendBanner \/ HearChat \/ ForeignFrame
  <2>1. blank' = blank
    BY <1>3 DEF HearChoice, HearName, SendOk, SendBanner, HearChat, ForeignFrame, clientVars
  <2>2. QED
    BY <1>1, <1>3, <2>1, HearChoiceKeepsTurns, HearNameKeepsTurns, ListedKeepsTurns
<1>4. CASE Reset \/ ClientStep \/ UserStep
  BY <1>1, <1>4, ResetKeepsTurns, ClientStepKeepsTurns, UserStepKeepsTurns
<1>5. CASE UNCHANGED vars
  <2>1. UNCHANGED <<toServer, handlerVars, blank, account, client, eof>>
    BY <1>5 DEF vars, handlerVars, clientVars
  <2>2. LinesInTurn'
    BY <2>1, MovingKeepsTurns DEF LinesInTurn
  <2>3. QED
    BY <1>1, <2>1, <2>2
<1>6. QED
  BY <1>2, <1>3, <1>4, <1>5 DEF Next, HandlerStep, Finished

\* Until the session is authenticated, what is under way from the client is in the
\* order of its prompts (auth_loop, do_register, do_login).
THEOREM LinesKeepTheirTurn == Spec => [](LinesInTurn /\ CredentialsAsTyped)
<1>1. DialogueInv /\ LinesInTurn /\ CredentialsAsTyped /\ [Next]_vars
        => LinesInTurn' /\ CredentialsAsTyped'
  BY StepKeepsTurns
<1>2. QED
  BY <1>1, InitEstablishesTurns, DialogueInvariant, PTL DEF Spec

\* Nobody is authenticated with a line the user typed for something else, but
\* for the empty choice (validate_username, validate_password, try_authenticate).
THEOREM CredentialsWereTyped == Spec => []CredentialsAsTyped
BY LinesKeepTheirTurn, PTL

-----------------------------------------------------------------------------
(* The dialogue as the rest of the server sees it.                         *)

\* A failed attempt, and the end of the last one.
LEMMA FailureIsContracts ==
    ASSUME TypeOK, Trying, NEW fs, UNCHANGED accounts,
           NextAttempt(fs) \/ Breaks(fs) \/ Close(fs)
    PROVE  Contract!Fails \/ Contract!GivesUp
<1> USE DEF TypeOK, Trying
<1>1. UNCHANGED account
  BY DEF NextAttempt, Breaks, Close
<1>2. CASE handler' = "choice"
  <2>1. attempt < MaxAttempts /\ attempt' = attempt + 1
    BY <1>2 DEF NextAttempt, Breaks, Close
  <2>2. QED
    BY <1>1, <1>2, <2>1 DEF Contract!Fails
<1>3. CASE handler' = "closed"
  BY <1>1, <1>3 DEF Contract!GivesUp
<1>4. QED
  BY <1>2, <1>3 DEF NextAttempt, Breaks, Close

\* Nothing the store or the rest of the server could notice.
LEMMA TalkIsStuttering ==
    ASSUME \/ Trying /\ Trying' /\ UNCHANGED attempt
           \/ ~Trying /\ ~Trying' /\ (handler = "closed" <=> handler' = "closed"),
           UNCHANGED <<account, accounts>>
    PROVE  UNCHANGED Contract!authVars
<1>1. UNCHANGED (IF Trying THEN "trying" ELSE IF handler = "closed" THEN "out" ELSE "in")
  BY DEF Trying
<1>2. UNCHANGED (IF Trying THEN attempt - 1 ELSE 0)
  OBVIOUS
<1>3. QED
  BY <1>1, <1>2 DEF Contract!authVars

\* The handler takes the client's name from a line that it heard, and the store
\* has it when the client is let in (register_user, authenticate).
LEMMA LettingIn ==
    ASSUME DialogueInv, handler = "password", NEW password, Authenticated(password),
           \/ UNCHANGED accounts /\ Raw(username) \in {a.name : a \in accounts}
           \/ /\ accounts' = accounts \cup {Credentials(username, password)}
              /\ \A a \in accounts : a.name # Raw(username)
    PROVE  \E u \in Nameable : Contract!Registers(u) \/ Contract!LogsIn(u)
<1> DEFINE u == Raw(username)
<1>1. u \in Nameable
  BY DEF DialogueInv, NameHeard, Nameable
<1>2. account' # NoLine /\ account'.name = username
  BY AccountIsNoLine DEF Authenticated
<1>3. Contract!LetIn(u)
  <2>1. Trying /\ ~Trying' /\ handler' = "listed"
    BY DEF Authenticated, Trying
  <2>2. (IF account' = NoLine THEN NoText ELSE Raw(account'.name)) = u
    BY <1>2
  <2>3. QED
    BY <2>1, <2>2 DEF Contract!LetIn
<1>4. CASE UNCHANGED accounts /\ u \in {a.name : a \in accounts}
  BY <1>1, <1>3, <1>4 DEF Contract!LogsIn
<1>5. CASE /\ accounts' = accounts \cup {Credentials(username, password)}
           /\ \A a \in accounts : a.name # u
  <2>1. Credentials(username, password).name = u
    BY DEF Credentials
  <2>2. {a.name : a \in accounts'} = {a.name : a \in accounts} \cup {u}
    BY <1>5, <2>1
  <2>3. u \notin {a.name : a \in accounts}
    BY <1>5
  <2>4. QED
    BY <1>1, <1>3, <2>2, <2>3 DEF Contract!Registers
<1>6. QED
  BY <1>4, <1>5

\* What the handler hears while the client is not authenticated.
LEMMA TryingStepIsContracts ==
    ASSUME DialogueInv, HearChoice \/ HearName \/ HearPassword
    PROVE  [Contract!AuthNext]_(Contract!authVars)
<1> USE DEF DialogueInv
<1>1. CASE HearChoice
  <2>1. CASE \E fs : NextAttempt(fs) \/ Breaks(fs) \/ Close(fs)
    BY <1>1, <2>1, FailureIsContracts DEF HearChoice, Trying, Contract!AuthNext
  <2>2. CASE handler' = "name" /\ UNCHANGED <<attempt, account>>
    BY <1>1, <2>2, TalkIsStuttering DEF HearChoice, Trying
  <2>3. QED
    BY <1>1, <2>1, <2>2 DEF HearChoice
<1>2. CASE HearName
  <2>1. CASE \E fs : NextAttempt(fs) \/ Breaks(fs)
    BY <1>2, <2>1, FailureIsContracts DEF HearName, Trying, Contract!AuthNext
  <2>2. CASE handler' = "password" /\ UNCHANGED <<attempt, account>>
    BY <1>2, <2>2, TalkIsStuttering DEF HearName, Trying
  <2>3. QED
    BY <1>2, <2>1, <2>2 DEF HearName
<1>3. CASE HearPassword
  <2>1. CASE UNCHANGED accounts /\ \E fs : NextAttempt(fs)
    BY <1>3, <2>1, FailureIsContracts DEF HearPassword, Trying, Contract!AuthNext
  <2>2. CASE /\ Authenticated(line)
             /\ accounts' = accounts \cup {Credentials(username, line)}
             /\ \A a \in accounts : a.name # Raw(username)
    BY <1>3, <2>2, LettingIn DEF HearPassword, Contract!AuthNext
  <2>3. CASE Authenticated(line) /\ UNCHANGED accounts /\ Matches(username, line)
    <3>1. Credentials(username, line) \in accounts
      BY <2>3 DEF Matches
    <3>2. Raw(username) \in {a.name : a \in accounts}
      BY <3>1 DEF Credentials
    <3>3. QED
      BY <1>3, <2>3, <3>2, LettingIn DEF HearPassword, Contract!AuthNext
  <2>4. QED
    BY <1>3, <2>1, <2>2, <2>3 DEF HearPassword, Register, Login
<1>4. QED
  BY <1>1, <1>2, <1>3

\* Every step of the two programs is a step of the contract or none at all.
LEMMA DialogueStepImplements ==
    DialogueInv /\ [Next]_vars => [Contract!AuthNext]_(Contract!authVars)
<1> SUFFICES ASSUME DialogueInv, [Next]_vars
             PROVE  [Contract!AuthNext]_(Contract!authVars)
  OBVIOUS
<1>1. CASE HearChoice \/ HearName \/ HearPassword
  BY <1>1, TryingStepIsContracts
<1>2. CASE HearChat
  <2>1. CASE handler' = "closed"
    BY <1>2, <2>1 DEF HearChat, Close, Trying, Contract!AuthNext, Contract!Leaves
  <2>2. CASE UNCHANGED handler
    BY <1>2, <2>2, TalkIsStuttering DEF HearChat, Close, Trying
  <2>3. QED
    BY <1>2, <2>1, <2>2 DEF HearChat, Close
<1>3. CASE SendOk \/ SendBanner
  BY <1>3, TalkIsStuttering DEF SendOk, SendBanner, Trying
<1>4. CASE ForeignFrame \/ Reset \/ ClientStep \/ UserStep \/ Finished \/ UNCHANGED vars
  <2>1. UNCHANGED <<handler, attempt, account, accounts>>
    BY <1>4 DEF ForeignFrame, Reset, ClientStep, AuthLoop, ShowPrompt, ReadResponse,
                ReadBanner, RecvLoop, UserStep, TypeChoice, TypeName, TypePassword,
                TypeText, TypeExit, EndOfInput, Types, Finished, vars, handlerVars
  <2>2. QED
    BY <2>1, TalkIsStuttering DEF Trying
<1>5. QED
  BY <1>1, <1>2, <1>3, <1>4 DEF Next, HandlerStep

\* The handler lets a client in only under a name the store has, gives it at most
\* MaxAttempts attempts and lets it in once, however far the two programs are from
\* understanding each other (try_authenticate, handle_register, handle_login).
THEOREM DialogueImplementsContract == Spec => ImplementsAuthentication
<1>1. Init => Contract!AuthInit
  <2> SUFFICES ASSUME Init PROVE Contract!AuthInit
    OBVIOUS
  <2>1. \A n \in Name : n \in Nameable
    <3> SUFFICES ASSUME NEW n \in Name PROVE n \in Nameable
      OBVIOUS
    <3>1. [tag |-> "none", text |-> n, prompt |-> "name"] \in Line
      BY DEF Line
    <3>2. Raw([tag |-> "none", text |-> n, prompt |-> "name"]) = n
      BY DEF Raw
    <3>3. QED
      BY <3>1, <3>2 DEF Nameable
  <2>2. {a.name : a \in accounts} \in SUBSET Nameable
    BY <2>1 DEF Init
  <2>3. QED
    BY <2>2 DEF Init, Trying, Contract!AuthInit
<1>2. DialogueInv /\ [Next]_vars => [Contract!AuthNext]_(Contract!authVars)
  BY DialogueStepImplements
<1>3. QED
  BY <1>1, <1>2, DialogueInvariant, PTL DEF Spec, ImplementsAuthentication, Contract!AuthSpec
=============================================================================
