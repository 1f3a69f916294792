---------------------------- MODULE PairingRelay ----------------------------
(* Pairing of two desktops (agents/pairing/routes.py): rooms, their tokens   *)
(* and the websockets attached to them.  The handlers run on one event loop  *)
(* and do not await while they change the tables.                            *)
EXTENDS Naturals, FiniteSets

CONSTANTS
    Room,          \* rooms; a room also stands for its code and its host token
    Guest,         \* guest tokens
    NoRoom, NoGuest,
    MaxConns       \* bound: websockets open with one token

VARIABLES
    byCode,        \* _rooms_by_code
    byToken,       \* _rooms_by_token
    guest,         \* guest_token of each room
    idle,          \* rooms without activity for 30 minutes
    home,          \* the room each token was issued for
    sockets,       \* tokens in the sockets table of their room
    conns          \* open websockets of each token

vars == <<byCode, byToken, guest, idle, home, sockets, conns>>

Token == Room \cup Guest

TypeOK ==
    /\ byCode \subseteq Room
    /\ byToken \in [Token -> Room \cup {NoRoom}]
    /\ guest \in [Room -> Guest \cup {NoGuest}]
    /\ idle \subseteq Room
    /\ home \in [Token -> Room \cup {NoRoom}]
    /\ sockets \subseteq Token
    /\ conns \in [Token -> 0..MaxConns]

Init ==
    /\ byCode = {} /\ idle = {} /\ sockets = {}
    /\ byToken = [t \in Token |-> NoRoom]
    /\ home = [t \in Token |-> NoRoom]
    /\ guest = [r \in Room |-> NoGuest]
    /\ conns = [t \in Token |-> 0]

\* _cleanup, which create and join begin with: idle rooms leave both tables.
Expired == byCode \cap idle
Kept == [t \in Token |-> IF \E r \in Expired : t \in {r, guest[r]} THEN NoRoom ELSE byToken[t]]

Create(r) ==
    /\ home[r] = NoRoom
    /\ home' = [home EXCEPT ![r] = r]
    /\ byCode' = (byCode \ Expired) \cup {r}
    /\ byToken' = [Kept EXCEPT ![r] = r]
    /\ UNCHANGED <<guest, idle, sockets, conns>>

\* A room that is open and has no guest takes one; otherwise only the cleanup happens.
Join(r, g) ==
    /\ home[g] = NoRoom
    /\ byCode' = byCode \ Expired
    /\ IF r \in byCode \ Expired /\ guest[r] = NoGuest
       THEN /\ guest' = [guest EXCEPT ![r] = g]
            /\ byToken' = [Kept EXCEPT ![g] = r]
            /\ home' = [home EXCEPT ![g] = r]
       ELSE byToken' = Kept /\ UNCHANGED <<guest, home>>
    /\ UNCHANGED <<idle, sockets, conns>>

\* Mutation of Leave: the token of the guest survives the room.
LeaveHostOnly(t) ==
    LET r == byToken[t] IN
    /\ r # NoRoom
    /\ byCode' = byCode \ {t}
    /\ byToken' = [byToken EXCEPT ![t] = NoRoom]
    /\ guest' = IF t = r THEN guest ELSE [guest EXCEPT ![r] = NoGuest]
    /\ UNCHANGED <<idle, home, sockets, conns>>

\* The host leaves and dissolves the room, or the guest leaves and frees the place.  Websockets
\* stay as they are.
Leave(t) ==
    LET r == byToken[t] IN
    /\ r # NoRoom
    /\ byCode' = byCode \ {t}
    /\ byToken' = [x \in Token |-> IF x = t \/ (t = r /\ x = guest[r]) THEN NoRoom ELSE byToken[x]]
    /\ guest' = IF t = r THEN guest ELSE [guest EXCEPT ![r] = NoGuest]
    /\ UNCHANGED <<idle, home, sockets, conns>>

\* A websocket is opened with a token; the table holds the latest one.
Connect(t) ==
    /\ byToken[t] # NoRoom /\ conns[t] < MaxConns
    /\ conns' = [conns EXCEPT ![t] = @ + 1]
    /\ sockets' = sockets \cup {t}
    /\ idle' = idle \ {byToken[t]}
    /\ UNCHANGED <<byCode, byToken, guest, home>>

\* A message over a websocket keeps its room alive, also a room that is no longer in the tables.
Message(t) ==
    /\ conns[t] > 0
    /\ idle' = idle \ {home[t]}
    /\ UNCHANGED <<byCode, byToken, guest, home, sockets, conns>>

\* A websocket closes: the entry of its token goes, whichever websocket it holds, or stays when the
\* last message was no JSON.
Disconnect(t) ==
    /\ conns[t] > 0
    /\ conns' = [conns EXCEPT ![t] = @ - 1]
    /\ sockets' \in {sockets, sockets \ {t}}
    /\ UNCHANGED <<byCode, byToken, guest, idle, home>>

HalfHourPasses(r) ==
    /\ home[r] = r /\ r \notin idle
    /\ idle' = idle \cup {r}
    /\ UNCHANGED <<byCode, byToken, guest, home, sockets, conns>>

Next ==
    \/ \E r \in Room : Create(r) \/ HalfHourPasses(r) \/ \E g \in Guest : Join(r, g)
    \/ \E t \in Token : Leave(t) \/ Connect(t) \/ Message(t) \/ Disconnect(t)

-----------------------------------------------------------------------------

\* The two tables agree: a token opens a room exactly while the room can be found by its code and
\* the token is that of its host or of its present guest.
TablesAgree ==
    \A r \in Room, t \in Token :
        byToken[t] = r <=> r \in byCode /\ t \in {r, guest[r]}

\* At most two take part in a room.  (A guest who has left keeps its websocket.)
TwoParticipants == \A r \in Room : Cardinality({t \in Token : home[t] = r /\ conns[t] > 0}) <= 2

\* The peer's messages reach a participant with an open websocket.  (Not after a reconnect whose
\* old websocket closes late.)
ReachableWhileConnected == \A t \in Token : conns[t] > 0 => t \in sockets
=============================================================================
