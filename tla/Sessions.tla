------------------------------ MODULE Sessions ------------------------------
(***************************************************************************)
(* What the table of connected users promises: each client has at most one *)
(* session, no account is in two sessions, there are at most Capacity      *)
(* sessions, and a session ends only when its client asked to log out or   *)
(* left, and then it does end, unless the server stops.                    *)
(***************************************************************************)
EXTENDS Naturals, FiniteSets

CONSTANTS Clients, Users, Capacity

VARIABLES
  sessions,   \* set of [client : Clients, user : Users]
  leaving,    \* clients that asked to log out, or left
  up          \* the server runs

vars == <<sessions, leaving, up>>

SessionOf(c) == {s \in sessions : s.client = c}

Init == sessions = {} /\ leaving = {} /\ up = TRUE

Login(c, u) ==
  /\ c \notin leaving
  /\ \A s \in sessions : s.client # c /\ s.user # u
  /\ Cardinality(sessions) < Capacity
  /\ sessions' = sessions \cup {[client |-> c, user |-> u]}
  /\ UNCHANGED <<leaving, up>>

Leave(c) ==
  /\ c \notin leaving
  /\ leaving' = leaving \cup {c}
  /\ UNCHANGED <<sessions, up>>

Logout(c) ==
  /\ up
  /\ c \in leaving
  /\ SessionOf(c) # {}
  /\ sessions' = sessions \ SessionOf(c)
  /\ UNCHANGED <<leaving, up>>

Stop == up /\ up' = FALSE /\ UNCHANGED <<sessions, leaving>>

Next ==
  \/ \E c \in Clients : (\E u \in Users : Login(c, u)) \/ Leave(c) \/ Logout(c)
  \/ Stop

Spec == Init /\ [][Next]_vars

FairSpec == Spec /\ \A c \in Clients : WF_vars(Logout(c))

=============================================================================
