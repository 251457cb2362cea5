----------------------------- MODULE ChatService -----------------------------
(***************************************************************************)
(* What the chat server promises the people connected to it, without       *)
(* threads, locks, pointers or lists: a connection gets a name once, is in *)
(* at most one room at a time, and what it posts goes to the others in its *)
(* room, to others outside it, or to one session of a named user.  Who is  *)
(* to hear a post is settled at the moment of the post; each of them then  *)
(* hears it once or, when the connection fails or is gone by then, not at  *)
(* all.  ClientHandler, with its BroadcastManager and RoomManager,         *)
(* implements this.                                                        *)
(***************************************************************************)
CONSTANTS
    Session,   \* connections
    User,      \* user names
    Nobody,    \* the name of a connection that has none yet
    Room,      \* room names
    NoRoom     \* the place of a connection that is in no room

VARIABLES
    stage,      \* stage[s]: "out" before the chat, "in" it, or "gone" for good
    who,        \* who[s]: the user behind the connection
    where,      \* where[s]: the room the connection is in
    audience,   \* audience[s]: who is still to hear what s has posted
    form,       \* form[s]: how it was posted, "room", "all" or "pm"
    delivered   \* the message the last step put on a connection, if any

serviceVars == <<stage, who, where, audience, form, delivered>>

Nothing == [kind |-> "none"]

ServiceInit ==
    /\ stage = [s \in Session |-> "out"]
    /\ who = [s \in Session |-> Nobody]
    /\ where = [s \in Session |-> NoRoom]
    /\ audience = [s \in Session |-> {}]
    /\ form = [s \in Session |-> "none"]
    /\ delivered = Nothing

Silent == delivered' = Nothing

\* In the chat and done with the previous post.
Ready(s) == stage[s] = "in" /\ audience[s] = {}

\* Registration or login has succeeded; a name is given once.
Identify(s, u) ==
    /\ stage[s] = "out" /\ who[s] = Nobody
    /\ who' = [who EXCEPT ![s] = u]
    /\ Silent
    /\ UNCHANGED <<stage, where, audience, form>>

Enter(s) ==
    /\ stage[s] = "out" /\ who[s] # Nobody
    /\ stage' = [stage EXCEPT ![s] = "in"]
    /\ Silent
    /\ UNCHANGED <<who, where, audience, form>>

\* Only from outside: whoever moves to another room parts from the old first.
Join(s, room) ==
    /\ Ready(s) /\ where[s] = NoRoom
    /\ where' = [where EXCEPT ![s] = room]
    /\ Silent
    /\ UNCHANGED <<stage, who, audience, form>>

Part(s) ==
    /\ Ready(s) /\ where[s] # NoRoom
    /\ where' = [where EXCEPT ![s] = NoRoom]
    /\ Silent
    /\ UNCHANGED <<stage, who, audience, form>>

\* s's post is still to be heard by these, and nothing is left of a post that
\* all have heard.
Pending(s, k, listeners) ==
    /\ audience' = [audience EXCEPT ![s] = listeners]
    /\ form' = [form EXCEPT ![s] = IF listeners = {} THEN "none" ELSE k]

Address(s, k, listeners) ==
    /\ Ready(s)
    /\ Pending(s, k, listeners)
    /\ Silent
    /\ UNCHANGED <<stage, who, where>>

\* A post inside a room is for all who are in the room under another name.
PostRoom(s) ==
    /\ where[s] # NoRoom
    /\ Address(s, "room",
               {t \in Session : where[t] = where[s] /\ who[t] # who[s]})

\* A post outside is for others in the chat, whatever rooms they are in; the
\* connections that have failed without leaving yet are passed over.
PostAll(s) ==
    /\ where[s] = NoRoom
    /\ \E listeners \in SUBSET {t \in Session : stage[t] = "in" /\ who[t] # who[s]} :
            Address(s, "all", listeners)

\* A private message is for one session of the named user.
PostPrivate(s, u) ==
    \E t \in Session :
        stage[t] = "in" /\ who[t] = u /\ Address(s, "pm", {t})

Hear(s, t) ==
    /\ t \in audience[s]
    /\ Pending(s, form[s], audience[s] \ {t})
    /\ UNCHANGED <<stage, who, where>>

\* The message reaches a connection that has not gone.
Deliver(s, t) ==
    /\ stage[t] = "in"
    /\ delivered' = [kind |-> form[s], from |-> who[s], to |-> t]
    /\ Hear(s, t)

Lose(s, t) == Silent /\ Hear(s, t)

\* The connection is closed: in no room, and with nothing left to be heard.
Quit(s) ==
    /\ stage[s] # "gone" /\ where[s] = NoRoom /\ audience[s] = {}
    /\ stage' = [stage EXCEPT ![s] = "gone"]
    /\ Silent
    /\ UNCHANGED <<who, where, audience, form>>

\* Something the promises are not about: a menu, an error reply, a lost line.
Idle == Silent /\ UNCHANGED <<stage, who, where, audience, form>>

ServiceNext ==
    \/ \E s \in Session :
        \/ Enter(s) \/ Part(s) \/ PostRoom(s) \/ PostAll(s) \/ Quit(s)
        \/ \E u \in User : Identify(s, u) \/ PostPrivate(s, u)
        \/ \E room \in Room : Join(s, room)
        \/ \E t \in Session : Deliver(s, t) \/ Lose(s, t)
    \/ Idle

ServiceSpec == ServiceInit /\ [][ServiceNext]_serviceVars

\* What the people connected may conclude from it: a message on a connection is
\* from a post whose audience still held that connection and holds it no longer,
\* nobody is added to the audience of a post, a name is kept, and a connection
\* that is gone stays out of every room.
HeardOnceStep ==
    /\ delivered' # Nothing => \E s \in Session :
        /\ who[s] = delivered'.from /\ form[s] = delivered'.kind
        /\ delivered'.to \in audience[s] \ audience'[s]
    /\ \A s \in Session :
        /\ audience[s] = {} \/ audience'[s] \subseteq audience[s]
        /\ who[s] = Nobody \/ who'[s] = who[s]
        /\ stage[s] = "gone" => stage'[s] = "gone" /\ where'[s] = where[s]

HeardOnce == [][HeardOnceStep]_serviceVars
=============================================================================
