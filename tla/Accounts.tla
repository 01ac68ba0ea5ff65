------------------------------- MODULE Accounts -------------------------------
(***************************************************************************)
(* Who has an account.  A request with a token of Firebase finds the row   *)
(* of its uid or inserts one; a login by OpenAI does the same for a uid    *)
(* made of OpenAI's id, and then writes the user's connection; a user may  *)
(* connect and disconnect an OpenAI account.  Every lookup is a            *)
(* transaction's read with an await behind it, and the unique keys         *)
(* (firebase_uid, email, a connection's user, a connection's account)      *)
(* decide at the commit.                                                   *)
(***************************************************************************)
EXTENDS Integers

CONSTANTS
  People,      \* uids that sign in with Firebase
  Identities,  \* OpenAI accounts; each is the uid "openai:<id>" as well
  Emails,
  Calls,       \* requests at a time
  NoUser, NoEmail,
  MaxFaults    \* bound on errors of the database and of the provider

VARIABLES
  email,     \* the address each uid comes with; it does not change
  users,     \* users: the address of each uid's row
  conns,     \* user_oauth_connections: the account each uid is connected to
  calls,     \* what each request is in the middle of
  admitted,  \* history: uids that a request has been answered for
  loggedIn,  \* history: accounts a login has been answered for
  faults

rows == <<users, conns>>
vars == <<email, rows, calls, admitted, loggedIn, faults>>

Uids == People \cup Identities
Idle == [at |-> "rest", op |-> "none", uid |-> NoUser, to |-> NoUser, found |-> FALSE]

TypeOK ==
  /\ email \in [Uids -> Emails] /\ users \in [Uids -> Emails \cup {NoEmail}]
  /\ conns \in [Uids -> Identities \cup {NoUser}]
  /\ \A u, w \in Uids : u # w => (conns[u] = NoUser \/ conns[u] # conns[w])
                              /\ (users[u] = NoEmail \/ users[u] # users[w])
  /\ admitted \subseteq Uids /\ loggedIn \subseteq Identities

Init ==
  /\ email \in [Uids -> Emails]
  /\ users = [u \in Uids |-> NoEmail] /\ conns = [u \in Uids |-> NoUser]
  /\ calls = [c \in Calls |-> Idle]
  /\ admitted = {} /\ loggedIn = {} /\ faults = 0

HasRow(u) == users[u] # NoEmail
EmailTaken(u) == \E w \in Uids \ {u} : HasRow(w) /\ users[w] = email[u]
Goes(c, place) == calls' = [calls EXCEPT ![c].at = place]
Ends(c) == calls' = [calls EXCEPT ![c] = Idle]
Begins(c, op, place, u, to) ==
  /\ calls[c] = Idle
  /\ calls' = [calls EXCEPT ![c] = [Idle EXCEPT !.at = place, !.op = op, !.uid = u, !.to = to]]
  /\ UNCHANGED <<email, rows, admitted, loggedIn, faults>>

(* get_current_user.  Of the uids of OpenAI only those come that a login has *)
(* made a token for.                                                         *)
Visit(c, u) == (u \in People \cup loggedIn) /\ Begins(c, "visit", "findUser", u, NoUser)
(* POST /auth/openai/callback: the code has been exchanged.                  *)
Login(c, o) == Begins(c, "login", "checkEmail", o, o)
Connect(c, u, o) == HasRow(u) /\ Begins(c, "connect", "findConn", u, o)
(* disconnect refuses the users who have no other way in.                    *)
Disconnect(c, u) == HasRow(u) /\ u \in People /\ Begins(c, "disconnect", "findConn", u, NoUser)

(* handle_login_flow: an address of an account of Firebase ends the login    *)
(* with an explanation; one of another OpenAI account does not.              *)
CheckEmail(c) ==
  /\ calls[c].at = "checkEmail"
  /\ IF \E w \in People : HasRow(w) /\ users[w] = email[calls[c].uid]
     THEN Ends(c) ELSE Goes(c, "findUser")
  /\ UNCHANGED <<email, rows, admitted, loggedIn, faults>>

(* A mutant: the row is not looked for.                                      *)
FindsNobody(c) ==
  /\ calls[c].at = "findUser"
  /\ Goes(c, "insertUser")
  /\ UNCHANGED <<email, rows, admitted, loggedIn, faults>>

FindUser(c) ==
  LET u == calls[c].uid IN
  /\ calls[c].at = "findUser"
  /\ IF ~HasRow(u) THEN Goes(c, "insertUser") /\ UNCHANGED admitted
     ELSE IF calls[c].op = "visit" THEN Ends(c) /\ admitted' = admitted \cup {u}
     ELSE Goes(c, "findConn") /\ UNCHANGED admitted
  /\ UNCHANGED <<email, rows, loggedIn, faults>>

(* A unique key refuses a row that came meanwhile: the request fails.        *)
InsertUser(c) ==
  LET u == calls[c].uid IN
  /\ calls[c].at = "insertUser"
  /\ IF HasRow(u) \/ EmailTaken(u) THEN Ends(c) /\ UNCHANGED <<users, admitted>>
     ELSE /\ users' = [users EXCEPT ![u] = email[u]]
          /\ IF calls[c].op = "visit" THEN Ends(c) /\ admitted' = admitted \cup {u}
             ELSE Goes(c, "findConn") /\ UNCHANGED admitted
  /\ UNCHANGED <<email, conns, loggedIn, faults>>

(* The row is committed and reading it back fails.                           *)
RefreshFails(c) ==
  LET u == calls[c].uid IN
  /\ calls[c].at = "insertUser" /\ ~HasRow(u) /\ ~EmailTaken(u)
  /\ faults < MaxFaults /\ faults' = faults + 1
  /\ users' = [users EXCEPT ![u] = email[u]]
  /\ Ends(c)
  /\ UNCHANGED <<email, conns, admitted, loggedIn>>

(* _upsert_oauth_connection and disconnect.                                  *)
FindConn(c) ==
  /\ calls[c].at = "findConn"
  /\ calls' = [calls EXCEPT ![c].at = "writeConn", ![c].found = (conns[calls[c].uid] # NoUser)]
  /\ UNCHANGED <<email, rows, admitted, loggedIn, faults>>

(* An insert is refused where a row is there by now, an update and a         *)
(* deletion where it is gone, and both where another user has the account.   *)
WriteConn(c) ==
  LET j == calls[c]
      has == conns[j.uid] # NoUser
      refused == j.to # NoUser /\ (j.found # has \/ \E w \in Uids \ {j.uid} : conns[w] = j.to)
  IN /\ j.at = "writeConn"
     /\ IF refused \/ (j.to = NoUser /\ ~j.found) THEN UNCHANGED <<conns, loggedIn>>
        ELSE /\ conns' = [conns EXCEPT ![j.uid] = j.to]
             /\ loggedIn' = IF j.op = "login" THEN loggedIn \cup {j.uid} ELSE loggedIn
     /\ Ends(c)
     /\ UNCHANGED <<email, users, admitted, faults>>

(* The database or the provider fails, or Firebase makes no token: what has  *)
(* been committed stays.                                                     *)
Fails(c) ==
  /\ calls[c] # Idle /\ faults < MaxFaults /\ faults' = faults + 1
  /\ Ends(c)
  /\ UNCHANGED <<email, rows, admitted, loggedIn>>

Step(c) == CheckEmail(c) \/ FindUser(c) \/ InsertUser(c) \/ FindConn(c) \/ WriteConn(c)

Next ==
  \E c \in Calls :
    \/ \E u \in Uids : Visit(c, u) \/ Disconnect(c, u)
    \/ \E o \in Identities : Login(c, o) \/ \E u \in Uids : Connect(c, u, o)
    \/ Step(c) \/ RefreshFails(c) \/ Fails(c)

(* Requests are answered, and somebody who wants in goes on trying.          *)
Fairness ==
  /\ \A c \in Calls : WF_vars(Step(c))
  /\ \A u \in People : SF_vars(\E c \in Calls : Visit(c, u))

Spec == Init /\ [][Next]_vars /\ Fairness

(***************************************************************************)
(* Properties                                                              *)
(***************************************************************************)
(* The first page of a new user asks for several things at once, of which    *)
(* all but one may be refused; still everybody gets in in the end whose      *)
(* address is not another account's.  (No address is an address like any     *)
(* other: one account may be without.)                                       *)
EverybodyGetsIn ==
  \A u \in People : <>(u \in admitted \/ EmailTaken(u))

=============================================================================
