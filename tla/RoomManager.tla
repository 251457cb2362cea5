---------------------------- MODULE RoomManager ----------------------------
(***************************************************************************)
(* The RoomManager (src/src/server/room_manager.cpp): a map from a room    *)
(* name to the set of sessions in the room, under a mutex of its own.  A   *)
(* room is created by the first join and is to disappear with its last     *)
(* member, so the map is a function whose domain is the rooms that exist.  *)
(* Each operator is one critical section.                                  *)
(***************************************************************************)
EXTENDS Sessions

CONSTANT Room   \* room names

VARIABLE rooms   \* rooms_

RoomTypeOK ==
    /\ DOMAIN rooms \subseteq Room
    /\ \A r \in DOMAIN rooms : rooms[r] \subseteq Session

RoomInit == rooms = [r \in {} |-> {}]

Members(r) == IF r \in DOMAIN rooms THEN rooms[r] ELSE {}

join_room(room, s) ==
    rooms' = [r \in DOMAIN rooms \cup {room} |->
                IF r = room THEN Members(r) \cup {s} ELSE rooms[r]]

leave_room(room, s) ==
    rooms' = [r \in {q \in DOMAIN rooms : q = room => rooms[q] \ {s} # {}} |->
                IF r = room THEN rooms[r] \ {s} ELSE rooms[r]]

\* Mutant: only rooms with other members are looked at.
leave_all_shared_rooms(s) ==
    rooms' = [r \in DOMAIN rooms |->
                IF rooms[r] = {s} THEN rooms[r] ELSE rooms[r] \ {s}]

leave_all(s) ==
    rooms' = [r \in {q \in DOMAIN rooms : rooms[q] \ {s} # {}} |->
                rooms[r] \ {s}]
=============================================================================
