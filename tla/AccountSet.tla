----------------------------- MODULE AccountSet -----------------------------
(***************************************************************************)
(* What the account file promises: every request is served in one step on  *)
(* a set of accounts, or refused, or lost with the server. Once the        *)
(* conditions of the promise were broken (sound is FALSE) it is void.      *)
(***************************************************************************)
CONSTANTS Requests, Inputs, None

VARIABLES accounts, request, result, sound

vars == <<accounts, request, result, sound>>

AccountsOf(name) == {a \in accounts : a.name = name}
Account(r) == [name |-> request[r].name, password |-> request[r].password]

Init ==
  /\ \A a, b \in accounts : a.name = b.name => a = b
  /\ request = [r \in Requests |-> None]
  /\ result = [r \in Requests |-> None]
  /\ sound = TRUE

Ask(r) ==
  /\ request[r] = None
  /\ \E input \in Inputs : request' = [request EXCEPT ![r] = input]
  /\ UNCHANGED <<accounts, result>>

Answer(r, answer) ==
  /\ request[r] # None /\ result[r] = None
  /\ result' = [result EXCEPT ![r] = answer]
  /\ UNCHANGED request

Create(r) ==
  /\ request[r] # None /\ request[r].op = "create"
  /\ IF AccountsOf(request[r].name) = {}
       THEN Answer(r, "yes") /\ accounts' = accounts \cup {Account(r)}
       ELSE Answer(r, "no") /\ UNCHANGED accounts

Delete(r) ==
  /\ request[r] # None /\ request[r].op = "delete"
  /\ IF Account(r) \in accounts
       THEN Answer(r, "yes") /\ accounts' = accounts \ {Account(r)}
       ELSE Answer(r, "no") /\ UNCHANGED accounts

\* A log in that is accepted has an account in the set. One that is refused may
\* have one too: it may have counted the lines before the account was added, or
\* read the file while a deletion had emptied it. The set gives no reason.
Login(r) ==
  /\ request[r] # None /\ request[r].op = "login"
  /\ \/ Answer(r, "yes") /\ Account(r) \in accounts
     \/ Answer(r, "no")
  /\ UNCHANGED accounts

Crash ==
  /\ result' = [r \in Requests |->
       IF request[r] # None /\ result[r] = None THEN "lost" ELSE result[r]]
  /\ UNCHANGED <<accounts, request>>

Next ==
  \/ /\ sound' = sound
     /\ \/ \E r \in Requests : Ask(r) \/ Create(r) \/ Delete(r) \/ Login(r)
        \/ Crash
  \/ sound' = FALSE

Spec == Init /\ [][Next]_vars

=============================================================================
